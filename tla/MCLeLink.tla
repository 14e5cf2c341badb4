------------------------------ MODULE MCLeLink ------------------------------
(* TLC instances of LeLink: a central A and a peripheral B.                *)
EXTENDS LeLink

CONSTANTS A, B

Undirected(listed) == [type |-> "ADV_IND", peer |-> None, listed |-> listed]
Directed(peer) == [type |-> "ADV_DIRECT_IND", peer |-> peer, listed |-> FALSE]
NonConnectable == [type |-> "ADV_NONCONN_IND", peer |-> None, listed |-> FALSE]
To(peer) == [peer |-> peer, listed |-> FALSE]
ToListed == [peer |-> None, listed |-> TRUE]

AllListed == [c \in Ctrl |-> Ctrl]

\* Only B advertises; A initiates connections to B.
OnlyOf(c, ps) == [d \in Ctrl |-> IF d = c THEN ps ELSE {}]

\* A connects again and again and never gives up, while earlier keepalive
\* checks are outstanding; B may be reset or lost.
Steady == [advertising |-> OnlyOf(B, {Undirected(FALSE)}), create |-> OnlyOf(A, {To(B)}),
           cancellers |-> {}, resetters |-> {B}, closers |-> {B}, checks |-> 2]
\* Every kind of advertising and of connection, one connection at a time;
\* here A is lost.
Varied == [Steady EXCEPT
             !.advertising = OnlyOf(B, {Undirected(TRUE), Directed(A), NonConnectable}),
             !.create = OnlyOf(A, {To(B), ToListed}), !.closers = {A}, !.checks = 1]
\* A may cancel and be reset; B is only lost.
Fickle == [Steady EXCEPT !.cancellers = {A}, !.resetters = {A}, !.checks = 1]

AllHosts == {Steady, Varied, Fickle}
FickleHost == {Fickle}

\* The loop of GetUnusedHandle as it is written; it does not end when all are used.
Wide == INSTANCE LeLink WITH kLeAclRangeStart <- 1, kLeAclRangeEnd <- 6
RECURSIVE SkipUsed(_, _)
SkipUsed(used, last) ==
  IF last \notin used THEN last ELSE SkipUsed(used, IF last + 1 > 6 THEN 1 ELSE last + 1)

ASSUME AllocatorIsItsLoop ==
  \A used \in (SUBSET Wide!Handles) \ {Wide!Handles} : \A last \in Wide!Handles :
    Wide!GetUnusedHandle(used, last) = SkipUsed(used, last)
=============================================================================
