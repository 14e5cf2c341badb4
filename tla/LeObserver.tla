----------------------------- MODULE LeObserver -----------------------------
(***************************************************************************)
(* A controller O that observes a controller A which advertises: the       *)
(* commands of O's host, the advertising, scan request, scan response,     *)
(* connection and periodic advertising packets between the two, the        *)
(* timeouts of scanning and the Ticks that drive it all.                   *)
(*                                                                         *)
(* Controllers never run concurrently, and no host command comes within a  *)
(* Tick; a Tick runs the tasks that were due when it started, hands each   *)
(* packet to the other controller at once, and ends with LeAdvertising and *)
(* LeScanning.  So a Tick is one step.                                     *)
(*                                                                         *)
(* Abstractions: what A's host set up is fixed (LeAdvertisingSets has the  *)
(* commands); A's sets start and stop at any time and are sent, like its   *)
(* periodic trains, in any Tick; the connection that a CONNECT_IND makes   *)
(* is LeLink's; O does not advertise itself.                               *)
(***************************************************************************)
EXTENDS LeScanner

CONSTANTS
  O, A,           \* the observing and the advertising controller
  Usages,         \* what the hosts may do (see Usage)
  MaxTasks        \* bound: host commands and advertising stop at this queue length

(* commands: of the two hosts; scans, enables, listed, periodics, syncs and *)
(* connects: the parameters O's host uses; restarts: it may enable scanning *)
(* that is enabled; resolving: O's resolving list; sets: of A, all legacy   *)
(* or all extended; resolvers: A's resolving list; accepted: A's accept     *)
(* list.                                                                    *)
Command == {"RANDOM", "ACCEPT", "PERIODIC", "CANCEL_SYNC", "TERMINATE", "CANCEL", "RESET", "STOP",
            "ADVERTISE", "CHANGE"}
Scan == [extended : BOOLEAN, own : OwnAddressType, policy : FilterPolicy,
         phys : SUBSET ScanPhys, active : SUBSET ScanPhys]
Enable == [extended : BOOLEAN, duplicates : {"DISABLED", "ENABLED", "RESET_EACH_PERIOD"},
           duration : BOOLEAN, period : BOOLEAN]
Connect == [policy : InitiatorFilterPolicy, peer : Address, own : OwnAddressType]
Advert == [kind : {"LEGACY", "EXTENDED"}, adv : Address, target : Address \cup {None},
           connectable : BOOLEAN, scannable : BOOLEAN, phy : ScanPhys, sid : Sids \cup {None},
           listed : BOOLEAN, sizes : SUBSET Nat, response : Nat]
Usage == [commands : SUBSET Command, scans : SUBSET Scan, enables : SUBSET Enable,
          listed : SUBSET Address, periodics : SUBSET Train, syncs : SUBSET (Train \cup {ByList}),
          connects : SUBSET Connect, restarts : BOOLEAN, resolving : SUBSET Devices,
          sets : Seq(Advert), resolvers : SUBSET Devices, accepted : SUBSET Address]

VARIABLES
  obs,      \* the state of O
  adv,      \* the state of A: its enabled sets, their data and its tasks
  host,     \* what O's host knows (see Host0)
  usage     \* the hosts of this behaviour, never changed

vars == <<obs, adv, host, usage>>

(* reported: the PDUs reported since scanning was enabled, or since the     *)
(* last period with RESET_EACH_PERIOD, when duplicates are filtered; twice: *)
(* one of them came again; accept: the addresses it put on the accept list; *)
(* syncs: the handles it was given; awaited: the Create Sync commands that  *)
(* no event has concluded.                                                  *)
Host0 == [reported |-> {}, twice |-> FALSE, accept |-> {}, syncs |-> NoSyncs, awaited |-> 0]

Sets == DOMAIN usage.sets

Init ==
  /\ usage \in Usages
  /\ obs = [Observer0(O, <<>>) EXCEPT !.resolving = usage.resolving,
                                      !.resolving_enabled = usage.resolving # {}]
  /\ adv = [enabled |-> {}, data |-> [i \in Sets |-> CHOOSE n \in usage.sets[i].sizes : TRUE],
            tasks |-> <<>>]
  /\ host = Host0

-----------------------------------------------------------------------------
(* The advertising controller.                                             *)

\* ResolvePrivateAddress of A.
ResolvedByA(a) == IF a.type = "RPA" /\ a.of \in usage.resolvers THEN Public(a.of) ELSE a
\* The peer that a directed set was given, whose private address may be its target.
Identity(a) == IF a.type = "RPA" THEN Public(a.of) ELSE a

ProcessIncomingLegacyScanRequest(a, i, p) ==
  /\ usage.sets[i].kind = "LEGACY" /\ i \in a.enabled
  /\ usage.sets[i].scannable /\ usage.sets[i].adv = p.adv
  /\ usage.sets[i].listed => ResolvedByA(p.scanner) \in usage.accepted

ProcessIncomingExtendedScanRequest(a, i, p) ==
  /\ usage.sets[i].kind = "EXTENDED" /\ i \in a.enabled
  /\ usage.sets[i].scannable /\ usage.sets[i].adv = p.adv
  /\ usage.sets[i].listed => ResolvedByA(p.scanner) \in usage.accepted
  /\ usage.sets[i].target # None => usage.sets[i].target = ResolvedByA(p.scanner)

\* Every set that has the address answers.
IncomingLeScanPacket(a, p) ==
  LET answers == SelectSeq([i \in Sets |-> i],
                           LAMBDA i : \/ ProcessIncomingLegacyScanRequest(a, i, p)
                                      \/ ProcessIncomingExtendedScanRequest(a, i, p))
  IN [a EXCEPT !.tasks = @ \o [k \in DOMAIN answers |->
        [kind |-> "SCAN_RESPONSE", set |-> answers[k], adv |-> p.adv,
         data |-> usage.sets[answers[k]].response]]]

\* The first set that accepts the request stops and makes the connection.
IncomingLeConnectPacket(a, p) ==
  LET accepting == {i \in a.enabled :
                      /\ usage.sets[i].connectable /\ usage.sets[i].adv = p.adv
                      /\ IF usage.sets[i].target # None
                         THEN Identity(usage.sets[i].target) = ResolvedByA(p.init)
                         ELSE usage.sets[i].listed => ResolvedByA(p.init) \in usage.accepted}
      first == CHOOSE i \in accepting : \A j \in accepting : i <= j
  IN IF accepting = {} THEN a
     ELSE [a EXCEPT !.enabled = @ \ {first}, !.tasks = Append(@, LeConnectComplete(p.init, p.adv))]

\* The packets of a set, its advertising PDU or that of its periodic train.
PduOf(a, i) ==
  [kind |-> usage.sets[i].kind, set |-> i, adv |-> usage.sets[i].adv,
   target |-> usage.sets[i].target, connectable |-> usage.sets[i].connectable,
   scannable |-> usage.sets[i].scannable, phy |-> usage.sets[i].phy, data |-> a.data[i]]
PeriodicPduOf(a, i) ==
  [kind |-> "PERIODIC", adv |-> usage.sets[i].adv, sid |-> usage.sets[i].sid, data |-> a.data[i]]

\* The sets of S whose interval has elapsed, and the periodic trains of T.
LeAdvertising(a, S, T) ==
  LET advertised == SetToSeq(S)
      trains == SetToSeq(T)
  IN [a EXCEPT !.tasks = @ \o [k \in DOMAIN advertised |-> PduOf(a, advertised[k])]
                           \o [k \in DOMAIN trains |-> PeriodicPduOf(a, trains[k])]]

-----------------------------------------------------------------------------
(* The switch of IncomingPacket at either side, and the deferred events.   *)

IncomingPacket(s, p) ==
  IF s.failed THEN s ELSE
  CASE p.kind = "LEGACY" -> IncomingLeLegacyAdvertisingPdu(s, p)
    [] p.kind = "EXTENDED" -> IncomingLeExtendedAdvertisingPdu(s, p)
    [] p.kind = "PERIODIC" -> IncomingLePeriodicAdvertisingPdu(s, p)
    [] p.kind = "SCAN_RESPONSE" -> IncomingLeScanResponsePacket(s, p)
    [] p.kind = "CONNECT_COMPLETE" -> IncomingLeConnectCompletePacket(s, p)
IncomingPacketAtA(a, p) ==
  CASE p.kind = "SCAN" -> IncomingLeScanPacket(a, p)
    [] p.kind = "CONNECT" -> IncomingLeConnectPacket(a, p)
    [] OTHER -> a

IsEvent(t) == t \in {SyncCancelled, ConnectCancelled}
Fresh(s) == [s EXCEPT !.out = <<>>, !.status = TRUE]

\* RunPendingTasks of O: packets go to A, deferred events to the host.
RunTasksOfO(s) == [Fresh(s) EXCEPT !.tasks = <<>>, !.out = SelectSeq(s.tasks, IsEvent)]

-----------------------------------------------------------------------------
(* What the host learns.                                                   *)

Filtering(s) == s.scanner.filter_duplicates # "DISABLED"
IsReport(e) == e.kind \in {"REPORT", "DIRECTED_REPORT", "RESPONSE_REPORT"}

Sees(h, e) ==
  CASE IsReport(e) /\ e.complete /\ Filtering(obs) ->
         [h EXCEPT !.reported = @ \cup {e.pdu}, !.twice = @ \/ e.pdu \in h.reported]
    [] e.kind = "SYNC_ESTABLISHED" ->
         [h EXCEPT !.syncs[e.handle] = e.train, !.awaited = @ - 1]
    [] e.kind = "SYNC_CANCELLED" -> [h EXCEPT !.awaited = @ - 1]
    [] OTHER -> h
SeesAll(h, es) == FoldLeft(Sees, h, es)

\* The period of scanning ends in this Tick, and so does what the host has seen.
PeriodEnds(s) ==
  /\ s.scanner.scan_enable /\ s.scanner.filter_duplicates = "RESET_EACH_PERIOD"
  /\ s.scanner.timeout # "running" /\ s.scanner.periodical_timeout = "expired"

-----------------------------------------------------------------------------
(* Commands of O's host.  They come between Ticks.                         *)

May(s) == ~s.failed /\ Len(s.tasks) < MaxTasks /\ Len(adv.tasks) < MaxTasks

\* A command that leaves O in state s and its host in state h.
Complete(s, h) == obs' = s /\ host' = h /\ UNCHANGED <<adv, usage>>

SetRandomAddress ==
  /\ May(obs) /\ "RANDOM" \in usage.commands /\ ~obs.random
  /\ Complete(LeSetRandomAddress(Fresh(obs)), host)

SetScanParameters ==
  /\ May(obs)
  /\ \E q \in usage.scans :
       Complete(IF q.extended
                THEN LeSetExtendedScanParameters(Fresh(obs), q.own, q.policy, q.phys, q.active)
                ELSE LeSetScanParameters(Fresh(obs), q.own, q.policy, q.active), host)

EnableScan(e) ==
  IF e.extended
  THEN LeSetExtendedScanEnable(Fresh(obs), TRUE, e.duplicates, e.duration, e.period)
  ELSE LeSetScanEnable(Fresh(obs), TRUE, e.duplicates # "DISABLED")
SetScanEnable ==
  /\ May(obs) /\ (obs.scanner.scan_enable => usage.restarts)
  /\ \E e \in usage.enables :
       LET s == EnableScan(e) IN
       Complete(s, IF s.status THEN [host EXCEPT !.reported = {}] ELSE host)

SetScanDisable ==
  /\ May(obs) /\ "STOP" \in usage.commands /\ obs.scanner.scan_enable
  /\ Complete(IF obs.mode = "EXTENDED"
              THEN LeSetExtendedScanEnable(Fresh(obs), FALSE, "DISABLED", FALSE, FALSE)
              ELSE LeSetScanEnable(Fresh(obs), FALSE, FALSE), [host EXCEPT !.reported = {}])

\* The host does not add what it has added, and removes only that.
ChangeAcceptList ==
  /\ May(obs) /\ "ACCEPT" \in usage.commands
  /\ \/ \E a \in usage.listed \ host.accept :
          LET s == LeAddDeviceToFilterAcceptList(Fresh(obs), a) IN
          Complete(s, IF s.status THEN [host EXCEPT !.accept = @ \cup {a}] ELSE host)
     \/ \E a \in host.accept :
          LET s == LeRemoveDeviceFromFilterAcceptList(Fresh(obs), a) IN
          Complete(s, IF s.status THEN [host EXCEPT !.accept = @ \ {a}] ELSE host)
     \/ LET s == LeClearFilterAcceptList(Fresh(obs)) IN
        Complete(s, IF s.status THEN [host EXCEPT !.accept = {}] ELSE host)

ChangePeriodicList ==
  /\ May(obs) /\ "PERIODIC" \in usage.commands
  /\ \/ \E t \in usage.periodics :
          \/ Complete(LeAddDeviceToPeriodicAdvertiserList(Fresh(obs), t), host)
          \/ Complete(LeRemoveDeviceFromPeriodicAdvertiserList(Fresh(obs), t), host)
     \/ Complete(LeClearPeriodicAdvertiserList(Fresh(obs)), host)

\* Bound: the syncs that O may have never need more than SyncHandles.
CreateSync ==
  /\ May(obs) /\ Cardinality(Synchronized(obs)) < Cardinality(SyncHandles)
  /\ \E t \in usage.syncs :
       LET s == LePeriodicAdvertisingCreateSync(Fresh(obs), t) IN
       Complete(s, IF s.status THEN [host EXCEPT !.awaited = @ + 1] ELSE host)

CreateSyncCancel ==
  /\ May(obs) /\ "CANCEL_SYNC" \in usage.commands
  /\ Complete(LePeriodicAdvertisingCreateSyncCancel(Fresh(obs)), host)

TerminateSync ==
  /\ May(obs) /\ "TERMINATE" \in usage.commands
  /\ \E h \in SyncHandles :
       LET s == LePeriodicAdvertisingTerminateSync(Fresh(obs), h) IN
       Complete(s, IF s.status THEN [host EXCEPT !.syncs[h] = None] ELSE host)

CreateConnection ==
  /\ May(obs)
  /\ \E c \in usage.connects :
       Complete(LeExtendedCreateConnection(Fresh(obs), c.policy, c.peer, c.own), host)

CreateConnectionCancel ==
  /\ May(obs) /\ "CANCEL" \in usage.commands
  /\ Complete(LeCreateConnectionCancel(Fresh(obs)), host)

\* Deferred events and packets of the time before stay in the queue.
HostReset ==
  /\ May(obs) /\ "RESET" \in usage.commands
  /\ Complete(Reset(obs), Host0)

HostCommand ==
  \/ SetRandomAddress \/ SetScanParameters \/ SetScanEnable \/ SetScanDisable
  \/ ChangeAcceptList \/ ChangePeriodicList \/ CreateSync \/ CreateSyncCancel \/ TerminateSync
  \/ CreateConnection \/ CreateConnectionCancel \/ HostReset

-----------------------------------------------------------------------------
(* The Ticks, the time and A's host.                                       *)

TickO ==
  /\ ~obs.failed
  /\ obs' = LeScanning(RunTasksOfO(obs))
  /\ adv' = FoldLeft(IncomingPacketAtA, adv, obs.tasks)
  /\ host' = SeesAll(IF PeriodEnds(obs) THEN [host EXCEPT !.reported = {}] ELSE host, obs'.out)
  /\ UNCHANGED usage

Trains == {i \in Sets : usage.sets[i].sid # None}

TickA ==
  /\ ~obs.failed
  /\ obs' = FoldLeft(IncomingPacket, Fresh(obs), adv.tasks)
  /\ host' = SeesAll(host, obs'.out)
  /\ \E S \in SUBSET adv.enabled, T \in SUBSET Trains :
       /\ Cardinality(S) + Cardinality(T) <= MaxTasks
       /\ adv' = LeAdvertising([adv EXCEPT !.tasks = <<>>], S, T)
  /\ UNCHANGED usage

\* A duration ends before its period.
ExpireScan ==
  /\ ~obs.failed
  /\ obs.scanner.scan_enable
  /\ \/ /\ obs.scanner.timeout = "running"
        /\ obs' = [Fresh(obs) EXCEPT !.scanner.timeout = "expired"]
     \/ /\ obs.scanner.timeout # "running" /\ obs.scanner.periodical_timeout = "running"
        /\ obs' = [Fresh(obs) EXCEPT !.scanner.periodical_timeout = "expired"]
  /\ UNCHANGED <<adv, host, usage>>

ExpireRequest ==
  /\ ~obs.failed
  /\ \E r \in obs.scanner.pending_scan_requests :
       /\ r.timeout = "running"
       /\ obs' = [Fresh(obs) EXCEPT !.scanner.pending_scan_requests =
                    (@ \ {r}) \cup {[r EXCEPT !.timeout = "expired"]}]
  /\ UNCHANGED <<adv, host, usage>>

\* A's host starts and stops sets and changes their data.
Advertise ==
  /\ ~obs.failed
  /\ \/ /\ "ADVERTISE" \in usage.commands
        /\ \E i \in Sets :
             adv' = [adv EXCEPT !.enabled = IF i \in @ THEN @ \ {i} ELSE @ \cup {i}]
     \/ /\ "CHANGE" \in usage.commands
        /\ \E i \in Sets : \E n \in usage.sets[i].sizes \ {adv.data[i]} :
             adv' = [adv EXCEPT !.data[i] = n]
  /\ obs' = Fresh(obs)
  /\ UNCHANGED <<host, usage>>

\* The process has ended.
Aborted == obs.failed /\ UNCHANGED vars

Next == HostCommand \/ TickO \/ TickA \/ ExpireScan \/ ExpireRequest \/ Advertise \/ Aborted

Spec == Init /\ [][Next]_vars

\* The root canal ticks every controller, and time passes.
FairSpec == Spec /\ WF_vars(TickO) /\ WF_vars(ExpireScan) /\ WF_vars(ExpireRequest)

-----------------------------------------------------------------------------
Pending == [adv : Address, connectable : BOOLEAN, extended : BOOLEAN,
            timeout : {"running", "expired"}]

\* Every field keeps its type.
TypeOK ==
  /\ usage \in Usages
  /\ obs.mode \in {None, "LEGACY", "EXTENDED"} /\ obs.random \in BOOLEAN
  /\ obs.accept \in Seq(Address) /\ obs.resolving \subseteq Devices
  /\ obs.periodic \subseteq Train
  /\ obs.scanner.scan_enable \in BOOLEAN /\ obs.scanner.own_address_type \in OwnAddressType
  /\ obs.scanner.scan_filter_policy \in FilterPolicy
  /\ obs.scanner.active \subseteq obs.scanner.phys /\ obs.scanner.phys \subseteq ScanPhys
  /\ obs.scanner.timeout \in Timer /\ obs.scanner.periodical_timeout \in Timer
  /\ obs.scanner.pending_scan_requests \subseteq Pending
  /\ obs.scanner.history \subseteq AdvertisingPdu \cup ScanResponsePdu
  /\ obs.initiator.peer_address \in Address \cup {None}
  /\ obs.initiator.pending_connect_request \in Address \cup {None}
  /\ obs.synchronizing \in Train \cup {None, ByList}
  /\ obs.synchronized \in [SyncHandles -> Train \cup {None}]
  /\ adv.enabled \subseteq Sets /\ host.awaited \in Nat

ReportsOf(p, max) ==
  SelectSeq(obs.out, LAMBDA e : (IsReport(e) \/ e.kind = "PERIODIC_REPORT") /\ e.pdu = p
                                /\ e.size <= max)
Sum(es) == FoldLeft(LAMBDA n, e : n + e.size, 0, es)
Reported == {e.pdu : e \in {e \in Range(obs.out) : IsReport(e) \/ e.kind = "PERIODIC_REPORT"}}

\* The duplicate filter works as the host sees it: while scanning is enabled with
\* filtering, every PDU that passed the scanner, scan responses included, has been
\* reported to the host since scanning was enabled or the last period began, and
\* none twice.
ReportedOnce ==
  /\ TypeOK
  /\ Filtering(obs) /\ obs.scanner.scan_enable
       => ~host.twice /\ host.reported = obs.scanner.history

\* Data cut into several events reach the host whole: no event is larger than fits
\* (229 bytes, 247 for periodic advertising), the sizes add up to the data as often
\* as they were reported complete, and the last event of a PDU is a complete one.
ReportsWhole ==
  \A p \in Reported :
    LET es == ReportsOf(p, IF p.kind = "PERIODIC" THEN kPeriodicReportSize
                           ELSE IF p.kind = "LEGACY" \/ obs.mode = "LEGACY" THEN p.data
                           ELSE kReportSize)
    IN /\ es # <<>> /\ Last(es).complete
       /\ Sum(es) = p.data * Len(SelectSeq(es, LAMBDA e : e.complete))

\* What the scanner reports is what its host asked for: with a policy that uses the
\* filter accept list, only addresses that the host put there and did not remove,
\* resolved where they are private; with a basic policy, directed advertising only
\* to this device.
FilterHonoured ==
  \A e \in Range(obs.out) : e.kind \in {"REPORT", "DIRECTED_REPORT"} =>
    /\ obs.scanner.scan_filter_policy \in Listing => e.adv \in host.accept
    /\ obs.scanner.scan_filter_policy \in Basic /\ e.pdu.target # None => e.pdu.target.of = O

DistinctAddresses ==
  \A i, j \in Sets : usage.sets[i].adv = usage.sets[j].adv => i = j

\* A scan response is reported only while the scanner is active, late answers to an
\* earlier scan included, and, where no two sets share an address, with the flags of
\* the set that sent it.
ResponsesMatch ==
  \A e \in Range(obs.out) : e.kind = "RESPONSE_REPORT" =>
    /\ obs.scanner.active # {}
    /\ DistinctAddresses => /\ e.connectable = usage.sets[e.pdu.set].connectable
                            /\ e.extended = (usage.sets[e.pdu.set].kind = "EXTENDED")

\* What the host gets is what it asked for: reports of the devices its filter policy
\* admits, and scan responses to the scan requests of its active scan.
ReportsAsked == FilterHonoured /\ ResponsesMatch

\* The host knows its periodic advertising syncs: the handles it was given and did
\* not terminate are those of synchronized_, and a Create Sync that no event has
\* concluded is pending or its cancellation is on its way.  Without the periodic
\* advertiser list no train has two handles.
SyncsKnown ==
  /\ host.syncs = obs.synchronized
  /\ host.awaited = (IF obs.synchronizing = None THEN 0 ELSE 1)
                     + Len(SelectSeq(obs.tasks, LAMBDA t : t = SyncCancelled))
  /\ ByList \notin usage.syncs =>
       \A g, h \in Synchronized(obs) : obs.synchronized[g] = obs.synchronized[h] => g = h

\* No ASSERT fails on a random address that was never set, as the comments say where
\* scan and connection requests take the own address ("The random address is checked
\* in Le_Set_Scan_Enable or Le_Set_Extended_Scan_Enable", "... in Le_Create_Connection
\* or Le_Extended_Create_Connection").
NeverAborts == ~obs.failed

\* LE Extended Create Connection does not look at the random address, though the
\* ASSERT for a matching PDU does, for a peer with a resolving list entry and by list.
UncheckedInitiator ==
  /\ obs.initiator.connect_enable /\ ~obs.random
  /\ obs.initiator.own_address_type = "RESOLVABLE_OR_RANDOM_ADDRESS"
  /\ \/ GenerateResolvablePrivateAddress(obs, obs.initiator.peer_address) # None
     \/ obs.initiator.initiator_filter_policy = "USE_FILTER_ACCEPT_LIST_WITH_PEER_ADDRESS"

\* The ASSERTs on the random address hold for scan requests always, and for
\* connection requests but where LE Extended Create Connection leaves the random
\* address unchecked: an own address type RESOLVABLE_OR_RANDOM_ADDRESS with a peer
\* that has a resolving list entry or with the filter accept list.
AddressChecked == obs.failed => UncheckedInitiator

PendingFor(a) == \E r \in obs.scanner.pending_scan_requests : r.adv = a

\* Scanning makes progress when A is silent: a scan request that is not answered is
\* given up, and a scan with a duration and no period ends by itself unless the host
\* restarts it.
ScanningEnds ==
  /\ \A a \in Address : PendingFor(a) ~> (~PendingFor(a) \/ obs.failed)
  /\ (/\ obs.scanner.scan_enable /\ ~usage.restarts
      /\ obs.scanner.timeout # None /\ obs.scanner.periodical_timeout = None)
     ~> (~obs.scanner.scan_enable \/ obs.failed)
=============================================================================
