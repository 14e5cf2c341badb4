------------------------ MODULE MCLeAdvertisingSets ------------------------
(* TLC instances of LeAdvertisingSets.                                     *)
EXTENDS LeAdvertisingSets

CONSTANTS h1, h2

P(connectable, scannable, directed, high, legacy) ==
  [connectable |-> connectable, scannable |-> scannable, directed |-> directed,
   high_duty_cycle |-> high, legacy |-> legacy, anonymous |-> FALSE, include_tx_power |-> FALSE]

ExtNonConn == P(FALSE, FALSE, FALSE, FALSE, FALSE)
ExtConn == P(TRUE, FALSE, FALSE, FALSE, FALSE)
ExtScan == P(FALSE, TRUE, FALSE, FALSE, FALSE)
ExtBoth == P(TRUE, TRUE, FALSE, FALSE, FALSE)
LegacyInd == P(TRUE, TRUE, FALSE, FALSE, TRUE)
LegacyDirect == P(TRUE, FALSE, TRUE, FALSE, TRUE)
LegacyHigh == P(TRUE, FALSE, TRUE, TRUE, TRUE)
LegacyOdd == P(FALSE, TRUE, TRUE, FALSE, TRUE)

Terminations == {"LE_CONNECTION_COMPLETE", "LE_ADVERTISING_SET_TERMINATED"}

\* Sends data in fragments; one of each kind of properties that the data
\* commands tell apart, and two that no set may have.
DataHost ==
  [handles |-> {h1}, commands |-> {"data", "periodic", "remove", "reenable"},
   properties |-> {ExtNonConn, ExtConn, ExtScan, ExtBoth, LegacyInd, LegacyDirect, LegacyOdd,
                   [ExtNonConn EXCEPT !.anonymous = TRUE], [ExtConn EXCEPT !.directed = TRUE]},
   own |-> {"random"}, fragments |-> {0, 31, 240}, durations |-> {FALSE}, max |-> {0}, masks |-> {}]

\* Uses both families of commands, durations and numbers of events.
LimitsHost ==
  [handles |-> {h1, h2}, commands |-> {"legacy", "remove", "reset", "reenable"},
   properties |-> {ExtConn},
   own |-> {"public"}, fragments |-> {0}, durations |-> BOOLEAN, max |-> {0, 1}, masks |-> {Terminations}]

\* Changes a set between the types with and without high duty cycle, and the mask.
MaskingHost ==
  [LimitsHost EXCEPT !.handles = {h1}, !.properties = {ExtConn, LegacyHigh},
                     !.masks = SUBSET SubeventCode]

\* Uses random and resolvable private addresses (a set of DataHost has own address
\* type "random").
AddressHost ==
  [handles |-> {h1, h2}, commands |-> {"legacy", "address", "resolving", "reset", "reenable"},
   properties |-> {ExtConn},
   own |-> {"rpaOrPublic", "rpaOrRandom"}, fragments |-> {0}, durations |-> {FALSE}, max |-> {0}, masks |-> {}]

\* Waits for the end of a set before it enables it again.
PatientHost ==
  [handles |-> {h1, h2}, commands |-> {"remove"}, properties |-> {ExtConn},
   own |-> {"public"}, fragments |-> {0}, durations |-> BOOLEAN, max |-> {2}, masks |-> {Terminations}]

AllHosts == {DataHost, LimitsHost, MaskingHost, AddressHost, PatientHost}
=============================================================================
