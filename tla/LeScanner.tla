----------------------------- MODULE LeScanner -----------------------------
(***************************************************************************)
(* What an LE controller does to observe advertising: the filter accept    *)
(* list, the resolution of private addresses, legacy and extended          *)
(* scanning, scan requests and their responses, the initiator of extended  *)
(* connections and the synchronization with periodic advertising.  Every   *)
(* operator maps the state s of the controller to its next state; a        *)
(* command that is refused leaves a state with status FALSE, and a state   *)
(* with failed is that of a controller that an ASSERT has aborted.         *)
(*                                                                         *)
(* s.out collects the HCI events of the current step and s.tasks the       *)
(* zero-delay tasks (packets and deferred events) it scheduled.            *)
(*                                                                         *)
(* Abstractions: an address is a device with the kind of the address, so a *)
(* device has one public, one random and one resolvable address; the       *)
(* resolving list is the set of devices whose identity and IRKs it holds;  *)
(* a timer is None, "running" or "expired"; data are their length; PHYs    *)
(* and features asked for are supported; scan windows, intervals and       *)
(* supervision timeouts are in range; all events are unmasked.             *)
(***************************************************************************)
EXTENDS Naturals, Sequences, FiniteSets, SequencesExt

CONSTANTS
  None,           \* Address::kEmpty and the empty optional
  ByList,         \* of Create Sync: use the periodic advertiser list
  Devices,        \* the devices of the phy
  Sids,           \* advertising set identifiers of periodic advertising
  SyncHandles,    \* bound: sync handles, an initial segment of Nat
  AcceptListSize, \* le_filter_accept_list_size
  PeriodicListSize \* le_periodic_advertiser_list_size

Address == [type : {"PUBLIC", "RANDOM", "RPA"}, of : Devices]
Public(d) == [type |-> "PUBLIC", of |-> d]
Random(d) == [type |-> "RANDOM", of |-> d]
Rpa(d) == [type |-> "RPA", of |-> d]
Train == [adv : Address, sid : Sids]

OwnAddressType == {"PUBLIC_DEVICE_ADDRESS", "RANDOM_DEVICE_ADDRESS",
                   "RESOLVABLE_OR_PUBLIC_ADDRESS", "RESOLVABLE_OR_RANDOM_ADDRESS"}
UsesRandom(own) == own \in {"RANDOM_DEVICE_ADDRESS", "RESOLVABLE_OR_RANDOM_ADDRESS"}
UsesResolvable(own) == own \in {"RESOLVABLE_OR_PUBLIC_ADDRESS", "RESOLVABLE_OR_RANDOM_ADDRESS"}
Listing == {"FILTER_ACCEPT_LIST_ONLY", "FILTER_ACCEPT_LIST_AND_INITIATORS_IDENTITY"}
Basic == {"ACCEPT_ALL", "FILTER_ACCEPT_LIST_ONLY"}
FilterPolicy == Listing \cup {"ACCEPT_ALL", "CHECK_INITIATORS_IDENTITY"}
InitiatorFilterPolicy == {"USE_PEER_ADDRESS", "USE_FILTER_ACCEPT_LIST_WITH_PEER_ADDRESS",
                          "USE_DECISION_PDUS", "USE_FILTER_ACCEPT_LIST_WITH_DECISION_PDUS"}
Timer == {None, "running", "expired"}
ScanPhys == {"LE_1M", "LE_CODED"}

-----------------------------------------------------------------------------
(* Packets, deferred events and HCI events.                                *)

\* An advertising PDU; directed when it has a target, legacy or extended by kind.
\* set tells apart the bytes of sets that are otherwise alike.
AdvertisingPdu == [kind : {"LEGACY", "EXTENDED"}, set : Nat, adv : Address,
                   target : Address \cup {None}, connectable : BOOLEAN, scannable : BOOLEAN,
                   phy : ScanPhys, data : Nat]
ScanResponsePdu == [kind : {"SCAN_RESPONSE"}, set : Nat, adv : Address, data : Nat]
PeriodicPdu == [kind : {"PERIODIC"}, adv : Address, sid : Sids, data : Nat]
LeScan(scanner, adv) == [kind |-> "SCAN", scanner |-> scanner, adv |-> adv]
LeConnect(init, adv) == [kind |-> "CONNECT", init |-> init, adv |-> adv]
LeConnectComplete(init, adv) == [kind |-> "CONNECT_COMPLETE", init |-> init, adv |-> adv]
SyncCancelled == [kind |-> "SYNC_CANCELLED"]
ConnectCancelled == [kind |-> "CONNECT_CANCELLED"]

Send(s, t) == [s EXCEPT !.tasks = Append(@, t)]
Event(s, e) == [s EXCEPT !.out = Append(@, e)]
Events(s, es) == [s EXCEPT !.out = @ \o es]
Done(s) == [s EXCEPT !.status = TRUE]
Refused(s) == [s EXCEPT !.status = FALSE]

Scanner0 ==
  [scan_enable |-> FALSE, own_address_type |-> "PUBLIC_DEVICE_ADDRESS",
   scan_filter_policy |-> "ACCEPT_ALL", phys |-> {}, active |-> {},
   filter_duplicates |-> "DISABLED", timeout |-> None, periodical_timeout |-> None,
   pending_scan_requests |-> {}, history |-> {}]
Initiator0 ==
  [connect_enable |-> FALSE, initiator_filter_policy |-> "USE_PEER_ADDRESS", peer_address |-> None,
   own_address_type |-> "PUBLIC_DEVICE_ADDRESS",
   initiating_address |-> None, pending_connect_request |-> None]
NoSyncs == [h \in SyncHandles |-> None]

\* The controller after a power on, or after HCI Reset with the tasks ts left.
Observer0(d, ts) ==
  [self |-> d, mode |-> None, random |-> FALSE, accept |-> <<>>, resolving |-> {},
   resolving_enabled |-> FALSE, periodic |-> {}, scanner |-> Scanner0,
   initiator |-> Initiator0, synchronizing |-> None, synchronized |-> NoSyncs,
   tasks |-> ts, out |-> <<>>, status |-> TRUE, failed |-> FALSE]
Reset(s) == Observer0(s.self, s.tasks)

\* SelectLegacyAdvertising and SelectExtendedAdvertising; the one that fails is not
\* to be used before the next Reset.
MaySelect(s, mode) == s.mode \in {None, mode}
Select(s, mode) == [s EXCEPT !.mode = mode]

\* Faulty variants, named <definition>_<fault>, stand before the definition
\* they would replace; the specification never uses them.

-----------------------------------------------------------------------------
(* The lists.                                                              *)

FilterAcceptListBusy(s) ==
  \/ s.scanner.scan_enable /\ s.scanner.scan_filter_policy \in Listing
  \/ /\ s.initiator.connect_enable
     /\ s.initiator.initiator_filter_policy = "USE_FILTER_ACCEPT_LIST_WITH_PEER_ADDRESS"

LeFilterAcceptListContainsDevice(s, a) == a \in Range(s.accept)

LeClearFilterAcceptList(s) ==
  IF FilterAcceptListBusy(s) THEN Refused(s) ELSE Done([s EXCEPT !.accept = <<>>])

\* An address that is listed already is listed twice.
LeAddDeviceToFilterAcceptList(s, a) ==
  IF FilterAcceptListBusy(s) \/ Len(s.accept) >= AcceptListSize THEN Refused(s)
  ELSE Done([s EXCEPT !.accept = Append(@, a)])

\* Only the first entry goes; that there is none is no error.
LeRemoveDeviceFromFilterAcceptList(s, a) ==
  IF FilterAcceptListBusy(s) THEN Refused(s)
  ELSE Done([s EXCEPT !.accept = RemoveFirst(@, a)])

LePeriodicAdvertiserListContainsDevice(s, t) == t \in s.periodic

LeAddDeviceToPeriodicAdvertiserList(s, t) ==
  IF s.synchronizing # None \/ Cardinality(s.periodic) >= PeriodicListSize \/ t \in s.periodic
  THEN Refused(s)
  ELSE Done([s EXCEPT !.periodic = @ \cup {t}])

LeRemoveDeviceFromPeriodicAdvertiserList(s, t) ==
  IF s.synchronizing # None \/ t \notin s.periodic THEN Refused(s)
  ELSE Done([s EXCEPT !.periodic = @ \ {t}])

LeClearPeriodicAdvertiserList(s) ==
  IF s.synchronizing # None THEN Refused(s) ELSE Done([s EXCEPT !.periodic = {}])

-----------------------------------------------------------------------------
(* Private addresses.                                                      *)

\* ResolvePrivateAddress(..).value_or(a): the address itself when it cannot be resolved.
ResolvePrivateAddress(s, a) ==
  IF a.type = "RPA" /\ s.resolving_enabled /\ a.of \in s.resolving THEN Public(a.of) ELSE a

ResolveTargetA(s, target, adv) ==
  s.resolving_enabled /\ target = Rpa(s.self) /\ \E d \in s.resolving : adv = Public(d)

IsLocalPublicOrRandomAddress(s, a) ==
  a = Public(s.self) \/ (s.random /\ a = Random(s.self))

ValidateTargetA(s, target, adv) ==
  IsLocalPublicOrRandomAddress(s, target) \/ ResolveTargetA(s, target, adv)

\* It does not matter here whether address resolution is enabled.
GenerateResolvablePrivateAddress(s, peer) ==
  IF \E d \in s.resolving : peer = Public(d) THEN Rpa(s.self) ELSE None

\* The address of a request to peer, where the code has ASSERTed AddressInitialized.
OwnAddress(s, own, peer) ==
  LET rpa == GenerateResolvablePrivateAddress(s, peer) IN
  IF UsesResolvable(own) /\ rpa # None THEN rpa
  ELSE IF UsesRandom(own) THEN Random(s.self) ELSE Public(s.self)

AddressInitialized(s, own) == UsesRandom(own) => s.random

\* Any of advertising, scanning and initiating being enabled refuses the command.
LeSetRandomAddress(s) ==
  IF s.scanner.scan_enable \/ s.initiator.connect_enable THEN Refused(s)
  ELSE Done([s EXCEPT !.random = TRUE])

-----------------------------------------------------------------------------
(* Scan parameters and enabling.                                           *)

WithScanParameters(s, own, policy, phys, active) ==
  [s EXCEPT !.scanner.own_address_type = own, !.scanner.scan_filter_policy = policy,
            !.scanner.phys = phys, !.scanner.active = active]

LeSetScanParameters(s, own, policy, active) ==
  IF ~MaySelect(s, "LEGACY") THEN Refused(s)
  ELSE IF s.scanner.scan_enable THEN Refused(Select(s, "LEGACY"))
  ELSE Done(WithScanParameters(Select(s, "LEGACY"), own, policy, {"LE_1M"}, active \cap {"LE_1M"}))

LeSetExtendedScanParameters(s, own, policy, phys, active) ==
  IF ~MaySelect(s, "EXTENDED") THEN Refused(s)
  ELSE IF s.scanner.scan_enable \/ phys = {} THEN Refused(Select(s, "EXTENDED"))
  ELSE Done(WithScanParameters(Select(s, "EXTENDED"), own, policy, phys, active \cap phys))

StopScanning(s) ==
  [s EXCEPT !.scanner.scan_enable = FALSE, !.scanner.pending_scan_requests = {},
            !.scanner.history = {}]

\* duration and period tell whether these times are not zero.
StartScanning(s, duplicates, duration, period) ==
  [s EXCEPT !.scanner.scan_enable = TRUE, !.scanner.history = {},
            !.scanner.pending_scan_requests = {}, !.scanner.filter_duplicates = duplicates,
            !.scanner.timeout = IF duration THEN "running" ELSE None,
            !.scanner.periodical_timeout = IF period THEN "running" ELSE None]

LeSetScanEnable_NoAddress(s, enable, duplicates) ==
  IF ~MaySelect(s, "LEGACY") THEN Refused(s)
  ELSE IF ~enable THEN Done(StopScanning(Select(s, "LEGACY")))
  ELSE Done(StartScanning(Select(s, "LEGACY"), IF duplicates THEN "ENABLED" ELSE "DISABLED",
                          FALSE, FALSE))
LeSetScanEnable(s, enable, duplicates) ==
  IF ~MaySelect(s, "LEGACY") THEN Refused(s)
  ELSE IF ~enable THEN Done(StopScanning(Select(s, "LEGACY")))
  ELSE IF ~AddressInitialized(s, s.scanner.own_address_type) THEN Refused(Select(s, "LEGACY"))
  ELSE Done(StartScanning(Select(s, "LEGACY"), IF duplicates THEN "ENABLED" ELSE "DISABLED",
                          FALSE, FALSE))

\* A period without a duration is ignored; RESET_EACH_PERIOD needs both, and the
\* duration given is shorter than the period.
LeSetExtendedScanEnable(s, enable, duplicates, duration, period) ==
  IF ~MaySelect(s, "EXTENDED") THEN Refused(s)
  ELSE IF ~enable THEN Done(StopScanning(Select(s, "EXTENDED")))
  ELSE IF \/ duplicates = "RESET_EACH_PERIOD" /\ ~(duration /\ period)
          \/ ~AddressInitialized(s, s.scanner.own_address_type)
  THEN Refused(Select(s, "EXTENDED"))
  ELSE Done(StartScanning(Select(s, "EXTENDED"), duplicates, duration, duration /\ period))

-----------------------------------------------------------------------------
(* Advertising reports.                                                    *)

Fragments_Exact(size, max) ==
  LET f[offset \in 0 .. size] ==
        LET remaining == size - offset
            fragment == IF remaining < max THEN remaining ELSE max
        IN <<[size |-> fragment, complete |-> remaining < max]>>
           \o (IF offset + fragment < size THEN f[offset + fragment] ELSE <<>>)
  IN f[0]
\* Data of a report, cut into events of at most max bytes.
Fragments(size, max) ==
  LET f[offset \in 0 .. size] ==
        LET remaining == size - offset
            fragment == IF remaining < max THEN remaining ELSE max
        IN <<[size |-> fragment, complete |-> remaining <= max]>>
           \o (IF offset + fragment < size THEN f[offset + fragment] ELSE <<>>)
  IN f[0]
kReportSize == 229
kPeriodicReportSize == 247

\* Reports of PDU p; connectable and extended are flags of the event.
Reports(kind, s, p, connectable, extended, fragments) ==
  [i \in DOMAIN fragments |->
     [kind |-> kind, pdu |-> p, adv |-> ResolvePrivateAddress(s, p.adv),
      connectable |-> connectable, extended |-> extended,
      size |-> fragments[i].size, complete |-> fragments[i].complete]]
Whole(p) == <<[size |-> p.data, complete |-> TRUE]>>

IsPacketInHistory(s, p) == s.scanner.filter_duplicates # "DISABLED" /\ p \in s.scanner.history
AddPacketToHistory(s, p) ==
  IF s.scanner.filter_duplicates = "DISABLED" THEN s
  ELSE [s EXCEPT !.scanner.history = @ \cup {p}]

\* The TODO of the code: a legacy PDU is heard whatever PHYs are scanned.
Hears(s, p) ==
  /\ s.scanner.scan_enable
  /\ p.kind = "EXTENDED" => s.mode = "EXTENDED" /\ p.phy \in s.scanner.phys

PassesFilter_ListOnly(s, p) ==
  LET adv == ResolvePrivateAddress(s, p.adv) IN
  /\ s.scanner.scan_filter_policy = "FILTER_ACCEPT_LIST_ONLY"
       => LeFilterAcceptListContainsDevice(s, adv)
  /\ p.target # None =>
       IF s.scanner.scan_filter_policy \in Basic THEN ValidateTargetA(s, p.target, adv)
       ELSE IsLocalPublicOrRandomAddress(s, p.target) \/ p.target.type = "RPA"
PassesFilter(s, p) ==
  LET adv == ResolvePrivateAddress(s, p.adv) IN
  /\ s.scanner.scan_filter_policy \in Listing => LeFilterAcceptListContainsDevice(s, adv)
  /\ p.target # None =>
       IF s.scanner.scan_filter_policy \in Basic THEN ValidateTargetA(s, p.target, adv)
       ELSE IsLocalPublicOrRandomAddress(s, p.target) \/ p.target.type = "RPA"

\* Legacy scanning reports a directed PDU whose target it cannot resolve on its own way.
UnresolvedTarget(s, p) ==
  /\ p.target # None /\ p.target.type = "RPA" /\ s.scanner.scan_filter_policy \notin Basic
  /\ ~ResolveTargetA(s, p.target, ResolvePrivateAddress(s, p.adv))

LegacyPduReports(s, p) ==
  IF s.mode = "LEGACY" /\ UnresolvedTarget(s, p)
  THEN Reports("DIRECTED_REPORT", s, p, TRUE, FALSE, Whole(p))
  ELSE Reports("REPORT", s, p, p.connectable, FALSE, Whole(p))
ExtendedPduReports(s, p) ==
  Reports("REPORT", s, p, p.connectable, TRUE, Fragments(p.data, kReportSize))

\* The scan request that an active scanner sends for a PDU it reports.
RequestFor(p) == [adv |-> p.adv, connectable |-> p.connectable, extended |-> p.kind = "EXTENDED",
                  timeout |-> "running"]
SendScanRequest(s, p) ==
  IF ~p.scannable \/ s.scanner.active = {}
       \/ \E r \in s.scanner.pending_scan_requests : r.adv = p.adv
  THEN s
  ELSE IF ~AddressInitialized(s, s.scanner.own_address_type) THEN [s EXCEPT !.failed = TRUE]
  ELSE Send([s EXCEPT !.scanner.pending_scan_requests = @ \cup {RequestFor(p)}],
            LeScan(OwnAddress(s, s.scanner.own_address_type, ResolvePrivateAddress(s, p.adv)),
                   p.adv))

ScanIncomingLeLegacyAdvertisingPdu(s, p) ==
  IF ~Hears(s, p) \/ ~PassesFilter(s, p) \/ IsPacketInHistory(s, p) THEN s
  ELSE SendScanRequest(Events(AddPacketToHistory(s, p), LegacyPduReports(s, p)), p)

ScanIncomingLeExtendedAdvertisingPdu(s, p) ==
  IF ~Hears(s, p) \/ ~PassesFilter(s, p) \/ IsPacketInHistory(s, p) THEN s
  ELSE SendScanRequest(Events(AddPacketToHistory(s, p), ExtendedPduReports(s, p)), p)

IncomingLeScanResponsePacket_NoHistory(s, p) ==
  LET requests == {r \in s.scanner.pending_scan_requests : r.adv = p.adv} IN
  IF ~s.scanner.scan_enable \/ requests = {} THEN s
  ELSE LET r == CHOOSE r \in requests : TRUE IN
       Events([s EXCEPT !.scanner.pending_scan_requests = @ \ requests],
              Reports("RESPONSE_REPORT", s, p, r.connectable, r.extended,
                      IF s.mode = "LEGACY" THEN Whole(p) ELSE Fragments(p.data, kReportSize)))
\* The response carries no more than the address that was asked.
IncomingLeScanResponsePacket(s, p) ==
  LET requests == {r \in s.scanner.pending_scan_requests : r.adv = p.adv} IN
  IF ~s.scanner.scan_enable \/ requests = {} THEN s
  ELSE LET r == CHOOSE r \in requests : TRUE
           answered == [s EXCEPT !.scanner.pending_scan_requests = @ \ requests]
       IN IF IsPacketInHistory(s, p) THEN answered
          ELSE Events(AddPacketToHistory(answered, p),
                      Reports("RESPONSE_REPORT", s, p, r.connectable, r.extended,
                              IF s.mode = "LEGACY" THEN Whole(p)
                              ELSE Fragments(p.data, kReportSize)))

-----------------------------------------------------------------------------
(* The end of a Tick.                                                      *)

\* A single scan ends with an event; a periodic scan goes on through both timeouts.
EndOfScan(s) ==
  IF s.scanner.timeout = "expired" /\ s.scanner.periodical_timeout = None
  THEN Event(StopScanning(s), [kind |-> "SCAN_TIMEOUT"])
  ELSE s
EndOfDuration(s) ==
  IF s.scanner.timeout = "expired" /\ s.scanner.periodical_timeout # None
  THEN [s EXCEPT !.scanner.timeout = None]
  ELSE s
EndOfPeriod(s) ==
  IF s.scanner.timeout = None /\ s.scanner.periodical_timeout = "expired"
  THEN [s EXCEPT !.scanner.history =
                   IF s.scanner.filter_duplicates = "RESET_EACH_PERIOD" THEN {} ELSE @,
                 !.scanner.timeout = "running", !.scanner.periodical_timeout = "running"]
  ELSE s
EndOfRequests_Kept(s) == s
EndOfRequests(s) ==
  [s EXCEPT !.scanner.pending_scan_requests = {r \in @ : r.timeout # "expired"}]

LeScanning(s) ==
  IF s.scanner.scan_enable
  THEN EndOfRequests(EndOfPeriod(EndOfDuration(EndOfScan(s)))) ELSE s

-----------------------------------------------------------------------------
(* The initiator of extended connections.                                  *)

\* The random address is looked at for two of the four kinds of command that use it.
LeExtendedCreateConnection(s, policy, peer, own) ==
  IF ~MaySelect(s, "EXTENDED") THEN Refused(s)
  ELSE IF \/ s.initiator.connect_enable
          \/ own = "RANDOM_DEVICE_ADDRESS" /\ ~s.random
          \/ /\ own = "RESOLVABLE_OR_RANDOM_ADDRESS" /\ policy = "USE_PEER_ADDRESS" /\ ~s.random
             /\ GenerateResolvablePrivateAddress(s, peer) = None
  THEN Refused(Select(s, "EXTENDED"))
  ELSE Done([Select(s, "EXTENDED") EXCEPT
               !.initiator = [@ EXCEPT !.connect_enable = TRUE, !.initiator_filter_policy = policy,
                                       !.peer_address = peer, !.own_address_type = own,
                                       !.pending_connect_request = None]])

LeCreateConnectionCancel(s) ==
  IF ~s.initiator.connect_enable THEN Refused(s)
  ELSE Done(Send([s EXCEPT !.initiator.connect_enable = FALSE], ConnectCancelled))

\* The checks of ConnectIncomingLeLegacyAdvertisingPdu and of
\* ConnectIncomingLeExtendedAdvertisingPdu, which also asks for the extended commands.
\* The policies that use decision PDUs are not supported and accept nothing.
InitiatorAccepts(s, p) ==
  LET adv == ResolvePrivateAddress(s, p.adv) IN
  /\ s.initiator.connect_enable /\ (p.kind = "EXTENDED" => s.mode = "EXTENDED")
  /\ p.connectable /\ s.initiator.pending_connect_request = None
  /\ \/ s.initiator.initiator_filter_policy = "USE_PEER_ADDRESS" /\ adv = s.initiator.peer_address
     \/ /\ s.initiator.initiator_filter_policy = "USE_FILTER_ACCEPT_LIST_WITH_PEER_ADDRESS"
        /\ LeFilterAcceptListContainsDevice(s, adv)
  /\ p.target # None =>
       /\ ValidateTargetA(s, p.target, adv)
       /\ UsesResolvable(s.initiator.own_address_type) => p.target.type = "RPA"

ConnectIncomingLeAdvertisingPdu(s, p) ==
  LET own == s.initiator.own_address_type
      init == OwnAddress(s, own, ResolvePrivateAddress(s, p.adv))
  IN IF ~InitiatorAccepts(s, p) THEN s
     ELSE IF ~AddressInitialized(s, own) THEN [s EXCEPT !.failed = TRUE]
     ELSE Send([s EXCEPT !.initiator.pending_connect_request = p.adv,
                         !.initiator.initiating_address = init], LeConnect(init, p.adv))

\* Ignored only when neither address is the expected one; HandleLeConnection clears
\* the initiating address if it is the one of the connection.
IncomingLeConnectCompletePacket(s, p) ==
  IF /\ s.initiator.pending_connect_request # p.adv
     /\ s.initiator.initiating_address # p.init
  THEN s
  ELSE Event([s EXCEPT !.initiator.pending_connect_request = None,
                       !.initiator.initiating_address = IF @ = p.init THEN None ELSE @,
                       !.initiator.connect_enable = FALSE], [kind |-> "CONNECTED", adv |-> p.adv])

IncomingLeLegacyAdvertisingPdu(s, p) ==
  ConnectIncomingLeAdvertisingPdu(ScanIncomingLeLegacyAdvertisingPdu(s, p), p)
IncomingLeExtendedAdvertisingPdu(s, p) ==
  ConnectIncomingLeAdvertisingPdu(ScanIncomingLeExtendedAdvertisingPdu(s, p), p)

-----------------------------------------------------------------------------
(* Periodic advertising.  synchronizing is the train that Create Sync names *)
(* or ByList when it uses the periodic advertiser list.                    *)

Synchronized(s) == {h \in SyncHandles : s.synchronized[h] # None}

LePeriodicAdvertisingCreateSync_Again(s, train) ==
  IF s.synchronizing # None THEN Refused(s) ELSE Done([s EXCEPT !.synchronizing = train])
\* Only a train named in the command is compared with the established syncs.
LePeriodicAdvertisingCreateSync(s, train) ==
  IF s.synchronizing # None \/ \E h \in Synchronized(s) : s.synchronized[h] = train
  THEN Refused(s)
  ELSE Done([s EXCEPT !.synchronizing = train])

LePeriodicAdvertisingCreateSyncCancel(s) ==
  IF s.synchronizing = None THEN Refused(s)
  ELSE Done(Send([s EXCEPT !.synchronizing = None], SyncCancelled))

LePeriodicAdvertisingTerminateSync(s, h) ==
  IF h \notin Synchronized(s) THEN Refused(s)
  ELSE Done([s EXCEPT !.synchronized[h] = None])

MatchesSynchronizing(s, train) ==
  IF s.synchronizing = ByList THEN LePeriodicAdvertiserListContainsDevice(s, train)
  ELSE s.synchronizing = train

UnusedSyncHandle(s) ==
  CHOOSE h \in SyncHandles \ Synchronized(s) :
    \A g \in SyncHandles \ Synchronized(s) : h <= g

\* Periodic reports for handle h; the sync timeouts are set but never looked at.
PeriodicReports(p, h) ==
  LET fragments == Fragments(p.data, kPeriodicReportSize) IN
  [i \in DOMAIN fragments |-> [kind |-> "PERIODIC_REPORT", pdu |-> p, handle |-> h,
                               size |-> fragments[i].size, complete |-> fragments[i].complete]]

IncomingLePeriodicAdvertisingPdu(s, p) ==
  LET train == [adv |-> ResolvePrivateAddress(s, p.adv), sid |-> p.sid]
      h == UnusedSyncHandle(s)
      matching == {g \in Synchronized(s) : s.synchronized[g] = train}
  IN IF ~s.scanner.scan_enable \/ s.mode # "EXTENDED" THEN s
     ELSE IF MatchesSynchronizing(s, train)
     THEN Event([s EXCEPT !.synchronized[h] = train, !.synchronizing = None],
                [kind |-> "SYNC_ESTABLISHED", handle |-> h, train |-> train])
     ELSE Events(s, FlattenSeq([i \in 1 .. Cardinality(matching) |->
                                  PeriodicReports(p, SetToSeq(matching)[i])]))
=============================================================================
