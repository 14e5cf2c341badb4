-------------------------- MODULE LeAdvertisingSets --------------------------
(***************************************************************************)
(* Advertising in LeController: the legacy advertiser, the extended        *)
(* advertising sets with their fragmented data, periodic advertising, the  *)
(* LeAdvertising routine that every Tick runs, and the connection requests *)
(* that end an advertisement.                                              *)
(*                                                                         *)
(* An HCI command is one action.  A command that is rejected changes       *)
(* nothing but the choice between legacy and extended commands that some   *)
(* commands make before they look at their parameters.  Data is its        *)
(* length; the parameters that decide nothing (intervals, channels, phys,  *)
(* powers, sid) have accepted values; of a resolving list entry only the   *)
(* peer is kept.  A resolvable private address is generated anew, by hash  *)
(* and prand, each time an advertisement is enabled: any of Rpas.          *)
(***************************************************************************)
EXTENDS Integers, FiniteSets

CONSTANTS
  None,
  Handles,        \* advertising handles
  Random,         \* random device addresses the host sets
  Public,         \* the public address
  Rpas,           \* resolvable private addresses of this device
  Peers,          \* devices a set can be directed at, and that connect
  Hosts,          \* ways in which a host uses the commands
  Counter,        \* the event counter is an uint8_t: 256 values
  le_num_supported_advertising_sets,
  le_max_advertising_data_length,
  le_resolving_list_size

max_legacy_advertising_pdu_size == 31
max_extended_advertising_pdu_size == 1650

Bit == BOOLEAN
PropertiesType == [connectable : Bit, scannable : Bit, directed : Bit, high_duty_cycle : Bit,
                   legacy : Bit, anonymous : Bit, include_tx_power : Bit]
Own == {"public", "random", "rpaOrPublic", "rpaOrRandom"}
AdvType == {"IND", "DIRECT_HIGH", "SCAN", "NONCONN", "DIRECT_LOW"}
Address == Random \cup Rpas \cup {Public, None}
Timeout == {"none", "running", "expired"}

Legacy == "legacy"   \* the legacy advertiser, among the handles
SubeventCode ==
  {"LE_CONNECTION_COMPLETE", "LE_ENHANCED_CONNECTION_COMPLETE_V1", "LE_ADVERTISING_SET_TERMINATED"}

(* What a host uses: handles, commands, the advertising event properties   *)
(* and own address types it asks for, the lengths of the data of one       *)
(* command, whether it gives durations, the                                *)
(* Max_Extended_Advertising_Events, 0 for no limit, and the event masks.   *)
HostType == [handles : SUBSET Handles, commands : SUBSET STRING,
             properties : SUBSET PropertiesType, own : SUBSET Own,
             fragments : SUBSET Nat, durations : SUBSET BOOLEAN, max : SUBSET Nat,
             masks : SUBSET SUBSET SubeventCode]

ASSUME ParameterAssumption ==
  /\ Hosts \subseteq HostType
  /\ Counter \in Nat \ {0} /\ \A u \in Hosts : \A m \in u.max : m < Counter
  /\ le_num_supported_advertising_sets \in Nat
  /\ le_max_advertising_data_length \in Nat
  /\ le_resolving_list_size \in Nat
ASSUME NamesAssumption ==
  /\ None \notin Random \cup Rpas \cup {Public} \cup Peers
  /\ Public \notin Random \cup Rpas /\ Rpas \cap Random = {} /\ Rpas # {}
  /\ Legacy \notin Handles

VARIABLES
  legacy_advertising_in_use_, extended_advertising_in_use_,
  legacy_advertiser_,
  extended_advertisers_,       \* None: no such set
  random_address_,
  le_resolving_list_,          \* the peers on it
  le_resolving_list_enabled_,
  le_event_mask_,              \* the LE events that this mask and event_mask_ let through
  host,                        \* the host of this controller; it does not change
  hostSees,                    \* history: what the host has been told is enabled
  unreported                   \* history: what stopped by itself with its event masked

modes == <<legacy_advertising_in_use_, extended_advertising_in_use_>>
addresses == <<random_address_, le_resolving_list_, le_resolving_list_enabled_>>
told == <<le_event_mask_, hostSees, unreported>>
vars == <<modes, legacy_advertiser_, extended_advertisers_, addresses, host, told>>

LegacyAdvertiser ==
  [enable : BOOLEAN, type : AdvType, own : Own, peer : Peers \cup {None}, address : Address,
   timeout : Timeout]

ExtendedAdvertiser ==
  [enable : BOOLEAN, properties : PropertiesType, own : Own, peer : Peers \cup {None},
   random : Random \cup {None}, address : Address, timeout : Timeout, max : Nat, num : Nat,
   data : Nat, partial : BOOLEAN, scan : Nat, partialScan : BOOLEAN,
   periodicEnable : BOOLEAN, latch : BOOLEAN, interval : BOOLEAN,
   periodicData : Nat, partialPeriodic : BOOLEAN]

ASSUME NoneAssumption == None \notin ExtendedAdvertiser

NewLegacy ==
  [enable |-> FALSE, type |-> "IND", own |-> "public", peer |-> None, address |-> None,
   timeout |-> "none"]

\* ExtendedAdvertiser(advertising_handle), with the parameters of the command
\* that creates the set.
NewSet(p, own, peer) ==
  [enable |-> FALSE, properties |-> p, own |-> own, peer |-> peer, random |-> None,
   address |-> None, timeout |-> "none", max |-> 0, num |-> 0, data |-> 0, partial |-> FALSE,
   scan |-> 0, partialScan |-> FALSE, periodicEnable |-> FALSE, latch |-> FALSE,
   interval |-> FALSE, periodicData |-> 0, partialPeriodic |-> FALSE]

Sets == {h \in Handles : extended_advertisers_[h] # None}

\* event_mask_ is 0x00001fffffffffff: without the LE Meta event.
DefaultMask == {}

Reset ==
  /\ legacy_advertising_in_use_' = FALSE
  /\ extended_advertising_in_use_' = FALSE
  /\ legacy_advertiser_' = NewLegacy
  /\ extended_advertisers_' = [h \in Handles |-> None]
  /\ random_address_' = None
  /\ le_resolving_list_' = {}
  /\ le_resolving_list_enabled_' = FALSE
  /\ le_event_mask_' = DefaultMask
  /\ hostSees' = {}
  /\ unreported' = {}

Init ==
  /\ legacy_advertising_in_use_ = FALSE
  /\ extended_advertising_in_use_ = FALSE
  /\ legacy_advertiser_ = NewLegacy
  /\ extended_advertisers_ = [h \in Handles |-> None]
  /\ random_address_ = None
  /\ le_resolving_list_ = {}
  /\ le_resolving_list_enabled_ = FALSE
  /\ le_event_mask_ = DefaultMask
  /\ host \in Hosts
  /\ hostSees = {}
  /\ unreported = {}

-----------------------------------------------------------------------------
(* Which family of commands, and which address.                            *)

\* A command of the other family is disallowed until the next reset.
SelectLegacyAdvertising ==
  /\ ~extended_advertising_in_use_
  /\ legacy_advertising_in_use_' = TRUE
  /\ UNCHANGED extended_advertising_in_use_

SelectExtendedAdvertising ==
  /\ ~legacy_advertising_in_use_
  /\ extended_advertising_in_use_' = TRUE
  /\ UNCHANGED legacy_advertising_in_use_

\* The addresses that an advertisement being enabled may get, none if it is rejected.
AdvertisingAddresses(own, peer, random) ==
  CASE own = "public" -> {Public}
    [] own = "random" -> {random} \ {None}
    [] own = "rpaOrPublic" -> IF peer \in le_resolving_list_ THEN Rpas ELSE {Public}
    [] own = "rpaOrRandom" -> IF peer \in le_resolving_list_ THEN Rpas ELSE {random} \ {None}

LeSetRandomAddress(a) ==
  /\ ~legacy_advertiser_.enable
  /\ random_address_' = a
  /\ UNCHANGED <<modes, legacy_advertiser_, extended_advertisers_, le_resolving_list_,
                 le_resolving_list_enabled_, told>>

ResolvingListBusy_LegacyOnly == legacy_advertiser_.enable

ResolvingListBusy ==
  legacy_advertiser_.enable \/ \E h \in Sets : extended_advertisers_[h].enable

ChangeResolvingList(list) ==
  /\ ~(le_resolving_list_enabled_ /\ ResolvingListBusy)
  /\ le_resolving_list_' = list
  /\ UNCHANGED <<modes, legacy_advertiser_, extended_advertisers_, random_address_,
                 le_resolving_list_enabled_, told>>

LeAddDeviceToResolvingList(peer) ==
  /\ Cardinality(le_resolving_list_) < le_resolving_list_size
  /\ peer \notin le_resolving_list_
  /\ ChangeResolvingList(le_resolving_list_ \cup {peer})

LeRemoveDeviceFromResolvingList(peer) ==
  /\ peer \in le_resolving_list_
  /\ ChangeResolvingList(le_resolving_list_ \ {peer})

LeClearResolvingList == ChangeResolvingList({})

LeSetAddressResolutionEnable(enable) ==
  /\ ~ResolvingListBusy
  /\ le_resolving_list_enabled_' = enable
  /\ UNCHANGED <<modes, legacy_advertiser_, extended_advertisers_, random_address_,
                 le_resolving_list_, told>>

-----------------------------------------------------------------------------
(* What the host is told.                                                  *)

\* SetEventMask and LeSetEventMask; mask is what the two let through.
SetEventMasks(mask) ==
  /\ le_event_mask_' = mask
  /\ UNCHANGED <<modes, legacy_advertiser_, extended_advertisers_, addresses, hostSees, unreported>>

IsLeEventUnmasked(subevent) == subevent \in le_event_mask_

\* The host's command has enabled, or disabled, the advertisers H.
HostEnables(H) ==
  /\ hostSees' = hostSees \cup H
  /\ unreported' = unreported \ H
  /\ UNCHANGED le_event_mask_

HostDisables(H) ==
  /\ hostSees' = hostSees \ H
  /\ unreported' = unreported \ H
  /\ UNCHANGED le_event_mask_

\* The advertisers H have stopped by themselves, and events have told the host of
\* those in reported.
Stops(H, reported) ==
  /\ hostSees' = hostSees \ reported
  /\ unreported' = unreported \cup
       {h \in H : ~IsLeEventUnmasked(IF h = Legacy THEN "LE_CONNECTION_COMPLETE"
                                     ELSE "LE_ADVERTISING_SET_TERMINATED")}
  /\ UNCHANGED le_event_mask_

-----------------------------------------------------------------------------
(* Legacy advertising.                                                     *)

LeSetAdvertisingParameters(type, own, peer) ==
  /\ SelectLegacyAdvertising
  /\ legacy_advertiser_' =
       IF legacy_advertiser_.enable THEN legacy_advertiser_
       ELSE [legacy_advertiser_ EXCEPT !.type = type, !.own = own, !.peer = peer]
  /\ UNCHANGED <<extended_advertisers_, addresses, told>>

LeSetAdvertisingEnable(enable) ==
  LET A == AdvertisingAddresses(legacy_advertiser_.own, legacy_advertiser_.peer, random_address_) IN
  /\ SelectLegacyAdvertising
  /\ \/ /\ ~enable
        /\ legacy_advertiser_' = [legacy_advertiser_ EXCEPT !.enable = FALSE]
        /\ HostDisables({Legacy})
     \/ /\ enable /\ A = {}
        /\ UNCHANGED <<legacy_advertiser_, told>>
     \/ /\ enable
        /\ \E a \in A :
             legacy_advertiser_' =
               [legacy_advertiser_ EXCEPT !.enable = TRUE, !.address = a,
                  !.timeout = IF legacy_advertiser_.type = "DIRECT_HIGH" THEN "running" ELSE "none"]
        /\ HostEnables({Legacy})
  /\ UNCHANGED <<extended_advertisers_, addresses>>

-----------------------------------------------------------------------------
(* Extended advertising sets: parameters and data.                         *)

CanHaveData(p) == IF p.legacy THEN ~p.directed ELSE ~p.scannable

\* GetRawAdvertisingEventProperties is that of a legacy PDU.
IsLegacyType(p) ==
  /\ <<p.connectable, p.scannable, p.directed, p.high_duty_cycle>> \in
       {<<TRUE, TRUE, FALSE, FALSE>>,    \* ADV_IND
        <<TRUE, FALSE, TRUE, FALSE>>,    \* ADV_DIRECT_IND_LOW
        <<TRUE, FALSE, TRUE, TRUE>>,     \* ADV_DIRECT_IND_HIGH
        <<FALSE, TRUE, FALSE, FALSE>>,   \* ADV_SCAN_IND
        <<FALSE, FALSE, FALSE, FALSE>>}  \* ADV_NONCONN_IND
  /\ ~p.anonymous
  /\ ~p.include_tx_power

Periodic(p) == ~p.connectable /\ ~p.scannable /\ ~p.legacy /\ ~p.anonymous

GetMaxAdvertisingDataLength(p) ==
  CASE p.legacy /\ p.directed -> 0
    [] p.legacy /\ ~p.directed -> max_legacy_advertising_pdu_size
    [] ~p.legacy /\ p.scannable -> 0
    [] ~p.legacy /\ ~p.scannable /\ ~p.connectable -> max_extended_advertising_pdu_size
    [] ~p.legacy /\ ~p.scannable /\ p.connectable ->
         254 - 6 - 2 - (IF p.directed THEN 6 ELSE 0) - (IF p.include_tx_power THEN 1 ELSE 0)

ParametersAccepted_WhilePeriodic(a, p) ==
  /\ ~a.enable
  /\ p.legacy => IsLegacyType(p)
  /\ ~CanHaveData(p) => a.data = 0
  /\ ~p.scannable => a.scan = 0
  /\ p.legacy => a.data <= max_legacy_advertising_pdu_size /\ a.scan <= max_legacy_advertising_pdu_size
  /\ ~(~p.legacy /\ p.connectable /\ p.scannable)

\* The checks of the parameters p against the set a.
ParametersAccepted(a, p) ==
  /\ ~a.enable
  /\ p.legacy => IsLegacyType(p)
  /\ ~CanHaveData(p) => a.data = 0
  /\ ~p.scannable => a.scan = 0
  /\ p.legacy => a.data <= max_legacy_advertising_pdu_size /\ a.scan <= max_legacy_advertising_pdu_size
  /\ ~(~p.legacy /\ p.connectable /\ p.scannable)
  /\ ~(~p.legacy /\ p.connectable /\ p.directed /\ p.high_duty_cycle)
  /\ a.periodicEnable => Periodic(p)
  /\ ~p.legacy => /\ a.data <= max_extended_advertising_pdu_size
                  /\ a.scan <= max_extended_advertising_pdu_size

Put(h, a) == [extended_advertisers_ EXCEPT ![h] = a]

LeSetExtendedAdvertisingParameters(h, p, own, peer) ==
  LET a == IF h \in Sets THEN extended_advertisers_[h] ELSE NewSet(p, own, peer)
      room == h \in Sets \/ Cardinality(Sets) < le_num_supported_advertising_sets
  IN
  /\ SelectExtendedAdvertising
  /\ extended_advertisers_' =
       IF room /\ ParametersAccepted(a, p)
       THEN Put(h, [a EXCEPT !.properties = p, !.own = own, !.peer = peer])
       ELSE extended_advertisers_
  /\ UNCHANGED <<legacy_advertiser_, addresses, told>>

LeSetAdvertisingSetRandomAddress(h, r) ==
  /\ h \in Sets
  /\ ~extended_advertisers_[h].enable
  /\ extended_advertisers_' = Put(h, [extended_advertisers_[h] EXCEPT !.random = r])
  /\ UNCHANGED <<modes, legacy_advertiser_, addresses, told>>

Operation == {"first", "intermediate", "last", "complete", "unchanged"}

\* The length and the partial flag that operation op with n octets leaves of
\* data of length old.
Combined(op, old, n) ==
  CASE op \in {"first", "complete"} -> n
    [] op \in {"intermediate", "last"} -> old + n
    [] op = "unchanged" -> old

StillPartial(op, partial) == op \in {"first", "intermediate"} \/ (op = "unchanged" /\ partial)

DataAccepted(a, op, n) ==
  /\ CanHaveData(a.properties)
  /\ a.properties.legacy => op = "complete" /\ n <= max_legacy_advertising_pdu_size
  /\ op = "unchanged" => a.enable /\ a.data # 0 /\ ~a.properties.legacy /\ n = 0
  /\ op \in {"first", "intermediate", "last"} => n # 0 /\ ~a.enable

\* Data that does not fit is discarded.
WithData(a, op, n) ==
  LET total == Combined(op, a.data, n)
      fits == /\ total <= le_max_advertising_data_length
              /\ a.enable => total <= GetMaxAdvertisingDataLength(a.properties)
  IN IF fits THEN [a EXCEPT !.data = total, !.partial = StillPartial(op, @)]
             ELSE [a EXCEPT !.data = 0, !.partial = FALSE]

LeSetExtendedAdvertisingData(h, op, n) ==
  /\ SelectExtendedAdvertising
  /\ extended_advertisers_' =
       IF h \in Sets /\ DataAccepted(extended_advertisers_[h], op, n)
       THEN Put(h, WithData(extended_advertisers_[h], op, n))
       ELSE extended_advertisers_
  /\ UNCHANGED <<legacy_advertiser_, addresses, told>>

ScanResponseAccepted(a, op, n) ==
  /\ ~a.properties.scannable => n = 0
  /\ a.properties.scannable /\ a.properties.legacy =>
       op = "complete" /\ n <= max_legacy_advertising_pdu_size
  /\ op # "complete" => n # 0 /\ ~a.enable /\ op # "unchanged"
  /\ ~(a.enable /\ a.properties.scannable /\ ~a.properties.legacy /\ n = 0)

WithScanResponse(a, op, n) ==
  LET total == Combined(op, a.scan, n)
      fits == total <= le_max_advertising_data_length /\ total <= max_extended_advertising_pdu_size
  IN IF fits THEN [a EXCEPT !.scan = total, !.partialScan = StillPartial(op, @)]
             ELSE [a EXCEPT !.scan = 0, !.partialScan = FALSE]

LeSetExtendedScanResponseData(h, op, n) ==
  /\ SelectExtendedAdvertising
  /\ extended_advertisers_' =
       IF h \in Sets /\ ScanResponseAccepted(extended_advertisers_[h], op, n)
       THEN Put(h, WithScanResponse(extended_advertisers_[h], op, n))
       ELSE extended_advertisers_
  /\ UNCHANGED <<legacy_advertiser_, addresses, told>>

-----------------------------------------------------------------------------
(* Enabling, disabling and removing sets.                                  *)

HighDutyCycle(p) == p.connectable /\ p.directed /\ p.high_duty_cycle

SetAddresses(a) == AdvertisingAddresses(a.own, a.peer, a.random)

\* The validation of one set; with a duration it is at most 1.28 seconds.
EnableAccepted(a, duration) ==
  /\ HighDutyCycle(a.properties) => duration
  /\ ~a.partial /\ ~a.partialScan
  /\ ~a.properties.legacy =>
       /\ ~(a.properties.scannable /\ a.scan = 0)
       /\ a.properties.connectable => a.data <= GetMaxAdvertisingDataLength(a.properties)
       /\ a.data <= max_extended_advertising_pdu_size
       /\ a.scan <= max_extended_advertising_pdu_size
  /\ SetAddresses(a) # {}

Enabled(a, address, duration, max) ==
  [a EXCEPT !.enable = TRUE, !.latch = a.periodicEnable, !.address = address,
            !.max = max, !.num = 0, !.timeout = IF duration THEN "running" ELSE "none"]

Readdressed(a, address) == [a EXCEPT !.address = address]

\* The ways to give each set of H an address.
Addressings(H) ==
  {address \in [H -> Address] : \A h \in H : address[h] \in SetAddresses(extended_advertisers_[h])}

\* A rejected command has already written the addresses of the sets it
\* validated before the one that fails, in the order of the command.
EnableSets(H, duration, max) ==
  LET ok == {h \in H : EnableAccepted(extended_advertisers_[h], duration[h])} IN
  \/ /\ ok = H
     /\ \E address \in Addressings(H) :
          extended_advertisers_' =
            [h \in Handles |-> IF h \in H
                               THEN Enabled(extended_advertisers_[h], address[h], duration[h], max[h])
                               ELSE extended_advertisers_[h]]
     /\ HostEnables(H)
  \/ /\ ok # H
     /\ \E done \in SUBSET ok : \E address \in Addressings(done) :
          extended_advertisers_' =
            [h \in Handles |-> IF h \in done
                               THEN Readdressed(extended_advertisers_[h], address[h])
                               ELSE extended_advertisers_[h]]
     /\ UNCHANGED told

DisableSets(H) ==
  /\ extended_advertisers_' =
       [h \in Handles |-> IF h \in H THEN [extended_advertisers_[h] EXCEPT !.enable = FALSE]
                          ELSE extended_advertisers_[h]]
  /\ HostDisables(H)

\* H = {} with enable FALSE: all sets.
LeSetExtendedAdvertisingEnable(enable, H, duration, max) ==
  /\ SelectExtendedAdvertising
  /\ \/ H \subseteq Sets /\ H # {} /\ enable /\ EnableSets(H, duration, max)
     \/ H \subseteq Sets /\ ~enable /\ DisableSets(IF H = {} THEN Sets ELSE H)
     \/ (~(H \subseteq Sets) \/ (enable /\ H = {})) /\ UNCHANGED <<extended_advertisers_, told>>
  /\ UNCHANGED <<legacy_advertiser_, addresses>>

RemoveSets(H) ==
  /\ \A h \in H : ~extended_advertisers_[h].enable
  /\ extended_advertisers_' = [h \in Handles |-> IF h \in H THEN None ELSE extended_advertisers_[h]]
  /\ HostDisables(H)
  /\ UNCHANGED <<modes, legacy_advertiser_, addresses>>

LeRemoveAdvertisingSet(h) == h \in Sets /\ RemoveSets({h})

LeClearAdvertisingSets == RemoveSets(Sets)

-----------------------------------------------------------------------------
(* Periodic advertising.                                                   *)

LeSetPeriodicAdvertisingParameters(h) ==
  LET a == extended_advertisers_[h] IN
  /\ h \in Sets
  /\ Periodic(a.properties)
  /\ ~a.periodicEnable
  /\ a.periodicData <= max_extended_advertising_pdu_size
  /\ extended_advertisers_' = Put(h, [a EXCEPT !.interval = TRUE])
  /\ UNCHANGED <<modes, legacy_advertiser_, addresses, told>>

LeSetPeriodicAdvertisingData(h, op, n) ==
  LET a == extended_advertisers_[h]
      total == Combined(op, a.periodicData, n)
      fits == total <= le_max_advertising_data_length /\ total <= max_extended_advertising_pdu_size
  IN
  /\ h \in Sets
  /\ a.interval
  /\ op \in {"first", "intermediate", "last"} => ~a.periodicEnable /\ n # 0
  /\ op = "unchanged" => a.periodicEnable /\ a.periodicData # 0 /\ n = 0
  /\ extended_advertisers_' =
       Put(h, IF fits
              THEN [a EXCEPT !.periodicData = total, !.partialPeriodic = StillPartial(op, @)]
              ELSE [a EXCEPT !.periodicData = 0, !.partialPeriodic = FALSE])
  /\ UNCHANGED <<modes, legacy_advertiser_, addresses, told>>

PeriodicAccepted(a) ==
  /\ ~a.partialPeriodic
  /\ a.interval
  /\ a.periodicData <= max_extended_advertising_pdu_size
  /\ Periodic(a.properties)

LeSetPeriodicAdvertisingEnable(h, enable) ==
  LET a == extended_advertisers_[h] IN
  /\ h \in Sets
  /\ \/ /\ enable
        /\ PeriodicAccepted(a)
        /\ extended_advertisers_' = Put(h, [a EXCEPT !.periodicEnable = TRUE, !.latch = a.enable])
     \/ /\ ~enable
        /\ extended_advertisers_' = Put(h, [a EXCEPT !.periodicEnable = FALSE, !.latch = FALSE])
  /\ UNCHANGED <<modes, legacy_advertiser_, addresses, told>>

-----------------------------------------------------------------------------
(* Ticks and connection requests.                                          *)

TimedOut(a) == a.enable /\ a.timeout = "expired"

\* The limit on the number of events, looked at after the timeout.
MaxReached(a) == a.enable /\ ~TimedOut(a) /\ a.max # 0 /\ a.num >= a.max

AfterTick_NoCount(a, due) ==
  IF TimedOut(a) \/ MaxReached(a) THEN [a EXCEPT !.enable = FALSE] ELSE a

AfterTick(a, due) ==
  IF TimedOut(a) \/ MaxReached(a) THEN [a EXCEPT !.enable = FALSE]
  ELSE IF a.enable /\ due THEN [a EXCEPT !.num = (@ + 1) % Counter]
  ELSE a

\* The advertisers that a Tick disables.
StoppedByTick ==
  {h \in Sets : TimedOut(extended_advertisers_[h]) \/ MaxReached(extended_advertisers_[h])}
    \cup {h \in {Legacy} : TimedOut(legacy_advertiser_)}

LeAdvertising_Uncounted(due) ==
  /\ legacy_advertiser_' =
       IF TimedOut(legacy_advertiser_) THEN [legacy_advertiser_ EXCEPT !.enable = FALSE]
       ELSE legacy_advertiser_
  /\ extended_advertisers_' =
       [h \in Handles |-> IF h \in Sets THEN AfterTick(extended_advertisers_[h], h \in due)
                          ELSE None]
  /\ Stops(StoppedByTick,
           {h \in Sets : /\ TimedOut(extended_advertisers_[h])
                         /\ IsLeEventUnmasked("LE_ADVERTISING_SET_TERMINATED")}
             \cup {h \in {Legacy} : TimedOut(legacy_advertiser_)
                                    /\ IsLeEventUnmasked("LE_CONNECTION_COMPLETE")})
  /\ UNCHANGED <<modes, addresses>>

\* LeAdvertising; the sets in due have reached their next event.  Every set that
\* is disabled is reported by LE_Advertising_Set_Terminated, the legacy
\* advertiser by LE_Connection_Complete.
LeAdvertising(due) ==
  /\ legacy_advertiser_' =
       IF TimedOut(legacy_advertiser_) THEN [legacy_advertiser_ EXCEPT !.enable = FALSE]
       ELSE legacy_advertiser_
  /\ extended_advertisers_' =
       [h \in Handles |-> IF h \in Sets THEN AfterTick(extended_advertisers_[h], h \in due)
                          ELSE None]
  /\ Stops(StoppedByTick,
           {h \in StoppedByTick : IF h = Legacy THEN IsLeEventUnmasked("LE_CONNECTION_COMPLETE")
                                  ELSE IsLeEventUnmasked("LE_ADVERTISING_SET_TERMINATED")})
  /\ UNCHANGED <<modes, addresses>>

LegacyExpires ==
  /\ legacy_advertiser_.timeout = "running"
  /\ legacy_advertiser_' = [legacy_advertiser_ EXCEPT !.timeout = "expired"]
  /\ UNCHANGED <<modes, extended_advertisers_, addresses, told>>

SetExpires(h) ==
  /\ h \in Sets
  /\ extended_advertisers_[h].timeout = "running"
  /\ extended_advertisers_' = Put(h, [extended_advertisers_[h] EXCEPT !.timeout = "expired"])
  /\ UNCHANGED <<modes, legacy_advertiser_, addresses, told>>

TimePasses == LegacyExpires \/ \E h \in Handles : SetExpires(h)

LegacyAccepts(initiator, a) ==
  /\ legacy_advertiser_.enable
  /\ legacy_advertiser_.type \notin {"NONCONN", "SCAN"}
  /\ legacy_advertiser_.address = a
  /\ legacy_advertiser_.type \in {"DIRECT_HIGH", "DIRECT_LOW"} => legacy_advertiser_.peer = initiator

SetAccepts(h, initiator, a) ==
  /\ extended_advertisers_[h].enable
  /\ extended_advertisers_[h].properties.connectable
  /\ extended_advertisers_[h].address = a
  /\ extended_advertisers_[h].properties.directed => extended_advertisers_[h].peer = initiator

\* IncomingLeConnectPacket, from an initiator that the filter policy accepts.
IncomingLeConnectPacket(initiator, a) ==
  /\ \/ /\ LegacyAccepts(initiator, a)
        /\ legacy_advertiser_' = [legacy_advertiser_ EXCEPT !.enable = FALSE]
        /\ Stops({Legacy}, {h \in {Legacy} : \/ IsLeEventUnmasked("LE_ENHANCED_CONNECTION_COMPLETE_V1")
                                            \/ IsLeEventUnmasked("LE_CONNECTION_COMPLETE")})
        /\ UNCHANGED extended_advertisers_
     \/ /\ ~LegacyAccepts(initiator, a)
        /\ \E h \in Sets :
             /\ SetAccepts(h, initiator, a)
             /\ extended_advertisers_' = Put(h, [extended_advertisers_[h] EXCEPT !.enable = FALSE])
             /\ Stops({h}, {g \in {h} : IsLeEventUnmasked("LE_ADVERTISING_SET_TERMINATED")})
        /\ UNCHANGED legacy_advertiser_
  /\ UNCHANGED <<modes, addresses>>

-----------------------------------------------------------------------------

LegacyCommand ==
  \/ /\ "legacy" \in host.commands
     /\ \/ \E type \in AdvType, own \in host.own, peer \in Peers :
             LeSetAdvertisingParameters(type, own, peer)
        \/ \E enable \in BOOLEAN : LeSetAdvertisingEnable(enable)
  \/ "address" \in host.commands /\ \E a \in Random : LeSetRandomAddress(a)
  \/ \E mask \in host.masks : SetEventMasks(mask)

ResolvingCommand ==
  /\ "resolving" \in host.commands
  /\ \/ \E peer \in Peers :
          LeAddDeviceToResolvingList(peer) \/ LeRemoveDeviceFromResolvingList(peer)
     \/ LeClearResolvingList
     \/ \E enable \in BOOLEAN : LeSetAddressResolutionEnable(enable)

SetCommand ==
  \/ \E h \in host.handles, p \in host.properties, own \in host.own, peer \in Peers :
       LeSetExtendedAdvertisingParameters(h, p, own, peer)
  \/ \E h \in host.handles, r \in Random : LeSetAdvertisingSetRandomAddress(h, r)
  \/ /\ "data" \in host.commands
     /\ \E h \in host.handles, op \in Operation, n \in host.fragments :
          LeSetExtendedAdvertisingData(h, op, n) \/ LeSetExtendedScanResponseData(h, op, n)
  \/ \E enable \in BOOLEAN, H \in SUBSET host.handles :
       /\ enable /\ "reenable" \notin host.commands => \A h \in H \cap Sets : ~extended_advertisers_[h].enable
       /\ \E duration \in [H -> host.durations], max \in [H -> host.max] :
            LeSetExtendedAdvertisingEnable(enable, H, duration, max)
  \/ "remove" \in host.commands /\ ((\E h \in host.handles : LeRemoveAdvertisingSet(h)) \/ LeClearAdvertisingSets)

PeriodicCommand ==
  /\ "periodic" \in host.commands
  /\ \E h \in host.handles :
       \/ LeSetPeriodicAdvertisingParameters(h)
       \/ \E op \in Operation, n \in host.fragments : LeSetPeriodicAdvertisingData(h, op, n)
       \/ \E enable \in BOOLEAN : LeSetPeriodicAdvertisingEnable(h, enable)

Tick == \E due \in SUBSET Sets : LeAdvertising(due)

Next ==
  /\ \/ LegacyCommand
     \/ ResolvingCommand
     \/ SetCommand
     \/ PeriodicCommand
     \/ "reset" \in host.commands /\ Reset
     \/ Tick
     \/ TimePasses
     \/ \E initiator \in Peers, a \in Address \ {None} : IncomingLeConnectPacket(initiator, a)
  /\ UNCHANGED host

Spec == Init /\ [][Next]_vars

TickDue(h) == \E due \in SUBSET Sets : h \in due /\ LeAdvertising(due)

(* The controller's timer ticks for ever, time passes for every advertiser, *)
(* and a set whose interval has elapsed sends its event in the next Tick.   *)
FairSpec ==
  /\ Spec
  /\ \A h \in Handles : /\ WF_vars(SetExpires(h) /\ UNCHANGED host)
                          /\ WF_vars(TickDue(h) /\ UNCHANGED host)

-----------------------------------------------------------------------------
(* Properties.                                                             *)

\* The fields of the advertisers keep their types and the sets their number.
TypeOK ==
  /\ legacy_advertising_in_use_ \in BOOLEAN /\ extended_advertising_in_use_ \in BOOLEAN
  /\ legacy_advertiser_ \in LegacyAdvertiser
  /\ extended_advertisers_ \in [Handles -> ExtendedAdvertiser \cup {None}]
  /\ random_address_ \in Random \cup {None}
  /\ le_resolving_list_ \in SUBSET Peers
  /\ le_resolving_list_enabled_ \in BOOLEAN
  /\ le_event_mask_ \in SUBSET SubeventCode
  /\ hostSees \in SUBSET (Handles \cup {Legacy}) /\ unreported \in SUBSET (Handles \cup {Legacy})

\* The data of a set is data its type of event can carry, and what is partial is
\* not empty.
DataFits(a) ==
  /\ a.data # 0 => CanHaveData(a.properties)
  /\ a.scan # 0 => a.properties.scannable
  /\ a.properties.legacy => /\ IsLegacyType(a.properties)
                            /\ a.data <= max_legacy_advertising_pdu_size
                            /\ a.scan <= max_legacy_advertising_pdu_size
  /\ a.partial => a.data # 0
  /\ a.partialScan => a.scan # 0

\* The data of one command fit the capacity of a set.
Roomy ==
  \A n \in host.fragments :
    n <= le_max_advertising_data_length /\ n <= max_extended_advertising_pdu_size

Ready(a) ==
  /\ a.enable =>
       /\ ~a.partial /\ ~a.partialScan
       /\ a.data <= GetMaxAdvertisingDataLength(a.properties)
       /\ Roomy /\ ~a.properties.legacy /\ a.properties.scannable => a.scan # 0
       /\ a.address # None
  /\ a.periodicEnable => a.interval /\ Periodic(a.properties) /\ ~a.partialPeriodic
  /\ a.latch => a.periodicEnable

\* However data and parameters are changed, in any order and in fragments, the
\* data of a set fits its type, so that the FATAL of LeAdvertising on unexpected
\* event properties is out of reach, and an enabled set stays as
\* LeSetExtendedAdvertisingEnable requires it: its data is complete and fits the
\* PDU, scannable extended sets have scan response data (unless one command can
\* exceed the capacity of the set: the data is then discarded, enabled or not), and
\* it has an address.  A set with periodic advertising enabled is configured for it,
\* is of a type that allows it and has complete data; the latch is only set while
\* it is enabled.
EnabledIsReady ==
  TypeOK /\ \A h \in Sets : DataFits(extended_advertisers_[h]) /\ Ready(extended_advertisers_[h])

\* The host can tell from the command completes and the events which
\* advertisers are enabled: it takes none for disabled that is enabled, and one for
\* enabled that is not only if it stopped by itself, by timeout, by number of
\* events or by a connection, while the host had its event masked
\* (LE_Advertising_Set_Terminated; LE_Connection_Complete of the legacy advertiser).
HostKnows ==
  /\ \A h \in Handles :
       IF h \in Sets /\ extended_advertisers_[h].enable THEN h \in hostSees
       ELSE h \in hostSees => h \in unreported
  /\ IF legacy_advertiser_.enable THEN Legacy \in hostSees
     ELSE Legacy \in hostSees => Legacy \in unreported

\* The address b may take the place of the address a of an advertisement in
\* progress without a change of identity: enabling generates resolvable private
\* addresses anew.
SameIdentity(a, b) == b = a \/ (a \in Rpas /\ b \in Rpas)

\* With address resolution enabled, an enabled advertisement does not change the
\* identity it shows, whichever commands are sent, rejected ones included: a public
\* or random address stays the same, and a resolvable private address, which
\* LeSetExtendedAdvertisingEnable and LeSetAdvertisingEnable renew, never gives way
\* to an address that tells who the device is.
IdentityStable ==
  [][le_resolving_list_enabled_ =>
       /\ \A h \in Handles :
            h \in Sets /\ extended_advertisers_[h].enable
            /\ extended_advertisers_'[h] # None /\ extended_advertisers_'[h].enable =>
              SameIdentity(extended_advertisers_[h].address, extended_advertisers_'[h].address)
       /\ legacy_advertiser_.enable /\ legacy_advertiser_'.enable =>
            SameIdentity(legacy_advertiser_.address, legacy_advertiser_'.address)]_vars

\* A set enabled with a duration or a number of events does not stay enabled (of
\* a host that does not enable it again meanwhile).
LimitedSetsEnd ==
  \A h \in Handles :
    (h \in Sets /\ extended_advertisers_[h].enable /\ "reenable" \notin host.commands
       /\ (extended_advertisers_[h].timeout # "none" \/ extended_advertisers_[h].max # 0))
    ~> ~(h \in Sets /\ extended_advertisers_[h].enable)
=============================================================================
