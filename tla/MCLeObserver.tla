---------------------------- MODULE MCLeObserver ----------------------------
(* TLC instances of LeObserver: hosts that scan, filter, synchronize and    *)
(* connect, each with the advertising that makes it interesting.            *)
EXTENDS LeObserver

Actively(extended) == [extended |-> extended, own |-> "PUBLIC_DEVICE_ADDRESS",
                       policy |-> "ACCEPT_ALL", phys |-> {"LE_1M"}, active |-> {"LE_1M"}]
Always(extended) == [extended |-> extended, duplicates |-> "ENABLED", duration |-> FALSE,
                     period |-> FALSE]
Undirected(kind, a) ==
  [kind |-> kind, adv |-> a, target |-> None, connectable |-> TRUE, scannable |-> TRUE,
   phy |-> "LE_1M", sid |-> None, listed |-> FALSE, sizes |-> {20}, response |-> 30]
DirectedTo(a, target) ==
  [Undirected("EXTENDED", a) EXCEPT !.target = target, !.connectable = FALSE]
ConnectTo(policy, own) == [policy |-> policy, peer |-> Public(A), own |-> own]
Idle ==
  [commands |-> {"STOP", "ADVERTISE"}, scans |-> {}, enables |-> {}, listed |-> {},
   periodics |-> {}, syncs |-> {}, connects |-> {}, restarts |-> FALSE, resolving |-> {},
   sets |-> <<>>, resolvers |-> {}, accepted |-> {}]

\* Legacy scanning, active and passive, with and without a random address, or extended
\* scanning after a reset.
LegacyScan ==
  [Idle EXCEPT !.commands = {"ADVERTISE", "STOP", "RANDOM", "RESET"}, !.restarts = TRUE,
               !.scans = {Actively(FALSE), Actively(TRUE), [Actively(FALSE) EXCEPT !.active = {}],
                          [Actively(FALSE) EXCEPT !.own = "RANDOM_DEVICE_ADDRESS"]},
               !.enables = {Always(FALSE), Always(TRUE),
                            [Always(FALSE) EXCEPT !.duplicates = "DISABLED"]},
               !.sets = <<[Undirected("LEGACY", Public(A)) EXCEPT !.listed = TRUE]>>,
               !.accepted = {Public(O)}]

\* Extended scanning for a duration, once or periodically, with data that need
\* several events and an advertiser that changes them.
TimedScan ==
  [Idle EXCEPT !.commands = {"ADVERTISE", "STOP", "CHANGE"},
               !.scans = {Actively(TRUE), [Actively(TRUE) EXCEPT !.phys = {"LE_CODED"}]},
               !.enables = {[Always(TRUE) EXCEPT !.duration = TRUE],
                            [Always(TRUE) EXCEPT !.duration = TRUE, !.period = TRUE],
                            [Always(TRUE) EXCEPT !.duplicates = "RESET_EACH_PERIOD",
                                                 !.duration = TRUE, !.period = TRUE]},
               !.sets = <<[Undirected("EXTENDED", Random(A)) EXCEPT !.sizes = {229, 459},
                             !.connectable = FALSE, !.response = 230]>>]

\* Every scanner filter policy, with a list that has room for one of the two
\* advertisers, one of them directed; initiating may use the same list.
FilteredScan ==
  [Idle EXCEPT !.commands = {"ADVERTISE", "STOP", "ACCEPT", "CANCEL"},
               !.scans = {[Actively(TRUE) EXCEPT !.policy = p, !.active = {}] : p \in FilterPolicy},
               !.enables = {Always(TRUE)}, !.listed = {Public(A), Random(A)},
               !.connects = {ConnectTo("USE_FILTER_ACCEPT_LIST_WITH_PEER_ADDRESS",
                                       "PUBLIC_DEVICE_ADDRESS")},
               !.sets = <<Undirected("EXTENDED", Public(A)), DirectedTo(Random(A), Public(O))>>]

\* Private addresses: A and O know each other's keys, and A directs its advertising
\* to O, to itself or to nobody.
PrivateScan ==
  [Idle EXCEPT !.commands = {"ADVERTISE", "STOP", "RANDOM", "ACCEPT"},
               !.scans = {[Actively(TRUE) EXCEPT !.own = o, !.policy = p] :
                            o \in {"RESOLVABLE_OR_PUBLIC_ADDRESS", "RESOLVABLE_OR_RANDOM_ADDRESS"},
                            p \in Listing},
               !.enables = {Always(TRUE)}, !.listed = {Public(A)}, !.resolving = {A},
               !.sets = <<[Undirected("EXTENDED", Rpa(A)) EXCEPT !.listed = TRUE],
                          DirectedTo(Random(A), Rpa(O))>>,
               !.resolvers = {O}, !.accepted = {Public(O)}]

\* Legacy scanning of directed advertising whose target is private, and known or not.
DirectedScan ==
  [Idle EXCEPT !.scans = {[Actively(FALSE) EXCEPT !.policy = p] :
                            p \in {"ACCEPT_ALL", "CHECK_INITIATORS_IDENTITY"}},
               !.enables = {Always(FALSE)}, !.resolving = {A},
               !.sets = <<[Undirected("LEGACY", Public(A)) EXCEPT !.target = Rpa(O),
                             !.scannable = FALSE, !.sizes = {0}]>>]
UnresolvedScan == [DirectedScan EXCEPT !.resolving = {}]

TrainOf(i) == [adv |-> Public(A), sid |-> i]
WithTrain(i, size) ==
  [Undirected("EXTENDED", Public(A)) EXCEPT !.sid = i, !.connectable = FALSE,
                                            !.scannable = FALSE, !.sizes = {size}]

\* Two trains to synchronize with, by name, and a host that cancels and terminates.
Synchronizing ==
  [Idle EXCEPT !.commands = {"STOP", "CANCEL_SYNC", "TERMINATE"},
               !.scans = {[Actively(TRUE) EXCEPT !.active = {}]}, !.enables = {Always(TRUE)},
               !.syncs = {TrainOf(1), TrainOf(2)}, !.sets = <<WithTrain(1, 0), WithTrain(2, 248)>>]
\* The same with the periodic advertiser list.
SynchronizingByList ==
  [Synchronizing EXCEPT !.commands = {"PERIODIC", "CANCEL_SYNC", "TERMINATE"}, !.syncs = {ByList},
                        !.periodics = {TrainOf(1), TrainOf(2)}]

\* Extended connections, to an address, by list and with decision PDUs, with every own
\* address type, with and without a resolving list entry for the peer.
Initiating ==
  [Idle EXCEPT !.commands = {"ADVERTISE", "RANDOM", "CANCEL", "RESET", "ACCEPT"},
               !.listed = {Public(A)},
               !.connects = {ConnectTo(p, o) : p \in InitiatorFilterPolicy, o \in OwnAddressType},
               !.sets = <<Undirected("EXTENDED", Public(A))>>]
InitiatingPrivately == [Initiating EXCEPT !.resolving = {A}]

AllHosts == {LegacyScan, TimedScan, FilteredScan, PrivateScan, DirectedScan, UnresolvedScan,
             Synchronizing, SynchronizingByList, Initiating, InitiatingPrivately}

\* A host that uses a random address by list without having set one.
Forgetful ==
  [Initiating EXCEPT !.commands = {"ADVERTISE", "ACCEPT"},
                     !.connects = {ConnectTo("USE_FILTER_ACCEPT_LIST_WITH_PEER_ADDRESS",
                                             "RESOLVABLE_OR_RANDOM_ADDRESS")}]
ForgetfulHost == {Forgetful}
=============================================================================
