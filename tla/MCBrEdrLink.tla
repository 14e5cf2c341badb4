---------------------------- MODULE MCBrEdrLink ----------------------------
(* TLC instances of BrEdrLink.                                             *)
EXTENDS BrEdrLink

CONSTANTS A, B, C

Nobody == [callers |-> {}, cancellers |-> {}, acceptors |-> {}, rejecters |-> {}, enders |-> {},
           switchers |-> {}, speakers |-> {}, silencers |-> {}, resetters |-> {},
           expiring |-> {}, policy |-> {}, masked |-> {}]

\* One side calls and ends; both switch roles.
Switching == [Nobody EXCEPT !.callers = {A}, !.acceptors = {B}, !.enders = {A}, !.switchers = {A, B},
                            !.policy = {A, B}]
\* SCO connections, ended by the side that sets them up or by the other.
Speaking == [Nobody EXCEPT !.callers = {A}, !.acceptors = {B}, !.enders = {A}, !.speakers = {A},
                           !.silencers = {A}]
Hanging == [Speaking EXCEPT !.silencers = {B}]
\* Two controllers call a third.
Busy == [Nobody EXCEPT !.callers = {A, C}, !.acceptors = {B}, !.rejecters = {B}, !.enders = {A}]
\* Both call, cancel, accept, end and time out.
Colliding == [Nobody EXCEPT !.callers = {A, B}, !.cancellers = {A, B}, !.acceptors = {A, B},
                            !.enders = {A, B}, !.expiring = {A, B}]
Resetting == [Nobody EXCEPT !.callers = {A}, !.acceptors = {B}, !.rejecters = {B}, !.resetters = {A, B},
                            !.masked = {B}]

AllHosts == {Switching, Speaking, Hanging, Busy, Colliding, Resetting}

\* The peer sets up a SCO connection while the ACL connection is ended.
Crossing == [Speaking EXCEPT !.speakers = {B}]
CrossingHosts == {Crossing}
=============================================================================
