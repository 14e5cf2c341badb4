---------------------- MODULE LeAdvertisingSets_proofs ----------------------
(***************************************************************************)
(* Proofs about LeAdvertisingSets, for any handles, addresses, peers and   *)
(* hosts and any limits: what LeSetExtendedAdvertisingEnable checks stays  *)
(* true, the host knows what is enabled, and the identity that an          *)
(* advertisement shows does not change.                                    *)
(***************************************************************************)
EXTENDS LeAdvertisingSets, TLAPS

\* A set as every command leaves it.
Good(a) == a \in ExtendedAdvertiser /\ DataFits(a) /\ Ready(a)

\* The set b that replaces a has, if it is enabled, the parameters of a, and
\* either the address of the enabled a or one that enabling a gives.
Keeps(a, b) ==
  b.enable => /\ b.own = a.own /\ b.peer = a.peer /\ b.random = a.random
              /\ b.address \in SetAddresses(a) \/ (a.enable /\ b.address = a.address)

\* b is a after a command that neither enables nor disables it.
Follows(a, b) == Good(b) /\ Keeps(a, b) /\ (b.enable <=> a.enable)

LegacyAddresses ==
  AdvertisingAddresses(legacy_advertiser_.own, legacy_advertiser_.peer, random_address_)

\* Keeps, of the legacy advertiser.
LegacyKeeps(b) ==
  b.enable => /\ b.own = legacy_advertiser_.own /\ b.peer = legacy_advertiser_.peer
              /\ \/ b.address \in LegacyAddresses
                 \/ legacy_advertiser_.enable /\ b.address = legacy_advertiser_.address

\* With address resolution enabled, the address of what is enabled is one
\* that enabling it could give it now.
AddressesCurrent ==
  le_resolving_list_enabled_ =>
    /\ \A h \in Sets : extended_advertisers_[h].enable =>
         extended_advertisers_[h].address \in SetAddresses(extended_advertisers_[h])
    /\ legacy_advertiser_.enable => legacy_advertiser_.address \in LegacyAddresses

\* The inductive invariant.
IInv ==
  /\ TypeOK /\ host \in Hosts
  /\ \A h \in Sets : Good(extended_advertisers_[h])
  /\ HostKnows
  /\ AddressesCurrent

\* No set and nothing enabled.
Fresh ==
  /\ legacy_advertising_in_use_ = FALSE /\ extended_advertising_in_use_ = FALSE
  /\ legacy_advertiser_ = NewLegacy /\ extended_advertisers_ = [h \in Handles |-> None]
  /\ random_address_ = None /\ le_resolving_list_ = {} /\ le_resolving_list_enabled_ = FALSE
  /\ le_event_mask_ = DefaultMask /\ host \in Hosts /\ hostSees = {} /\ unreported = {}

\* What IdentityStable says of a step.
Stable ==
  le_resolving_list_enabled_ =>
    /\ \A h \in Handles :
         h \in Sets /\ extended_advertisers_[h].enable
         /\ extended_advertisers_'[h] # None /\ extended_advertisers_'[h].enable =>
           SameIdentity(extended_advertisers_[h].address, extended_advertisers_'[h].address)
    /\ legacy_advertiser_.enable /\ legacy_advertiser_'.enable =>
         SameIdentity(legacy_advertiser_.address, legacy_advertiser_'.address)

\* The types of what the host is told.
ToldTypes ==
  /\ le_event_mask_ \in SUBSET SubeventCode
  /\ hostSees \in SUBSET (Handles \cup {Legacy}) /\ unreported \in SUBSET (Handles \cup {Legacy})

\* Every set after the step is good, and an enabled one follows from the set of
\* its handle.
SetsKeep ==
  /\ extended_advertisers_' \in [Handles -> ExtendedAdvertiser \cup {None}]
  /\ \A h \in Handles : extended_advertisers_'[h] # None =>
       /\ Good(extended_advertisers_'[h])
       /\ extended_advertisers_'[h].enable =>
            h \in Sets /\ Keeps(extended_advertisers_[h], extended_advertisers_'[h])

-----------------------------------------------------------------------------
(* The operations on one set.                                              *)

\* The room that the PDUs of a type of event have for data is a number.
LEMMA MaxLengthIsNat ==
  ASSUME NEW p \in PropertiesType
  PROVE  GetMaxAdvertisingDataLength(p) \in Nat
BY DEF PropertiesType, Bit, GetMaxAdvertisingDataLength, max_legacy_advertising_pdu_size,
       max_extended_advertising_pdu_size

\* Data that the set can carry, complete if the set is enabled, keeps it good.
LEMMA NewData ==
  ASSUME NEW a, Good(a), NEW d \in Nat, NEW q \in BOOLEAN, q => d # 0,
         d # 0 => CanHaveData(a.properties),
         a.properties.legacy => d <= max_legacy_advertising_pdu_size,
         a.enable => ~q /\ d <= GetMaxAdvertisingDataLength(a.properties)
  PROVE  Follows(a, [a EXCEPT !.data = d, !.partial = q])
<1> DEFINE b == [a EXCEPT !.data = d, !.partial = q]
<1>1. /\ b \in ExtendedAdvertiser
      /\ \A f \in DOMAIN a \ {"data", "partial"} : b[f] = a[f]
      /\ b.data = d /\ b.partial = q
  BY ZenonT(60) DEF Good, ExtendedAdvertiser
<1>2. DataFits(b) /\ Ready(b) /\ Keeps(a, b) /\ (b.enable <=> a.enable)
  BY <1>1 DEF Good, DataFits, Ready, Keeps, ExtendedAdvertiser
<1> QED
  BY <1>1, <1>2 DEF Follows, Good

\* So does scan response data, which an enabled scannable set must have.
LEMMA NewScan ==
  ASSUME NEW a, Good(a), NEW d \in Nat, NEW q \in BOOLEAN, q => d # 0,
         d # 0 => a.properties.scannable,
         a.properties.legacy => d <= max_legacy_advertising_pdu_size,
         a.enable => ~q,
         a.enable /\ Roomy /\ ~a.properties.legacy /\ a.properties.scannable => d # 0
  PROVE  Follows(a, [a EXCEPT !.scan = d, !.partialScan = q])
<1> DEFINE b == [a EXCEPT !.scan = d, !.partialScan = q]
<1>1. /\ b \in ExtendedAdvertiser
      /\ \A f \in DOMAIN a \ {"scan", "partialScan"} : b[f] = a[f]
      /\ b.scan = d /\ b.partialScan = q
  BY ZenonT(60) DEF Good, ExtendedAdvertiser
<1>2. DataFits(b) /\ Ready(b) /\ Keeps(a, b) /\ (b.enable <=> a.enable)
  BY <1>1 DEF Good, DataFits, Ready, Keeps, ExtendedAdvertiser
<1> QED
  BY <1>1, <1>2 DEF Follows, Good

\* LE_Set_Extended_Advertising_Data, whatever the fragment.
LEMMA DataFollows ==
  ASSUME NEW a, Good(a), NEW op \in Operation, NEW n \in Nat, DataAccepted(a, op, n)
  PROVE  Follows(a, WithData(a, op, n))
<1> DEFINE total == Combined(op, a.data, n)
           q == StillPartial(op, a.partial)
           none == FALSE
<1>1. a.data \in Nat /\ a.partial \in BOOLEAN /\ a.properties \in PropertiesType
  BY DEF Good, ExtendedAdvertiser
<1>2. total \in Nat /\ q \in BOOLEAN /\ (q => total # 0) /\ CanHaveData(a.properties)
  BY <1>1 DEF Combined, StillPartial, Operation, DataAccepted, Good, DataFits
<1>3. (a.properties.legacy => total <= max_legacy_advertising_pdu_size) /\ (a.enable => ~q)
  BY DEF Combined, StillPartial, DataAccepted, Good, Ready
<1>4. /\ none \in BOOLEAN /\ ~none /\ 0 <= max_legacy_advertising_pdu_size
      /\ 0 <= GetMaxAdvertisingDataLength(a.properties)
  BY <1>1, MaxLengthIsNat DEF max_legacy_advertising_pdu_size
<1>5. WithData(a, op, n) =
        IF /\ total <= le_max_advertising_data_length
           /\ a.enable => total <= GetMaxAdvertisingDataLength(a.properties)
        THEN [a EXCEPT !.data = total, !.partial = q]
        ELSE [a EXCEPT !.data = 0, !.partial = none]
  BY SMTT(30) DEF WithData, Good, ExtendedAdvertiser
<1> HIDE DEF total, q, none
<1>6. Follows(a, [a EXCEPT !.data = 0, !.partial = none])
  BY <1>4, NewData, ZenonT(60)
<1>7. ASSUME a.enable => total <= GetMaxAdvertisingDataLength(a.properties)
      PROVE  Follows(a, [a EXCEPT !.data = total, !.partial = q])
  BY <1>2, <1>3, <1>7, NewData, ZenonT(60)
<1> QED
  BY <1>5, <1>6, <1>7

\* LE_Set_Extended_Scan_Response_Data, of a fragment that the host can send.
LEMMA ScanFollows ==
  ASSUME NEW a, Good(a), NEW op \in Operation, NEW n \in host.fragments, n \in Nat,
         ScanResponseAccepted(a, op, n)
  PROVE  Follows(a, WithScanResponse(a, op, n))
<1> DEFINE total == Combined(op, a.scan, n)
           q == StillPartial(op, a.partialScan)
           none == FALSE
           fits == /\ total <= le_max_advertising_data_length
                   /\ total <= max_extended_advertising_pdu_size
<1>1. a.scan \in Nat /\ a.partialScan \in BOOLEAN
  BY DEF Good, ExtendedAdvertiser
<1>2. /\ total \in Nat /\ q \in BOOLEAN /\ (q => total # 0) /\ (a.enable => ~q)
      /\ total # 0 => a.properties.scannable
  BY <1>1 DEF Combined, StillPartial, Operation, ScanResponseAccepted, Good, DataFits
<1>3. a.properties.legacy => total <= max_legacy_advertising_pdu_size
  BY <1>1, <1>2 DEF Combined, ScanResponseAccepted, max_legacy_advertising_pdu_size
<1>4. a.enable /\ ~a.properties.legacy /\ a.properties.scannable =>
        total # 0 /\ (Roomy => fits)
  BY DEF Combined, ScanResponseAccepted, Roomy
<1>5. none \in BOOLEAN /\ ~none /\ 0 <= max_legacy_advertising_pdu_size
  BY DEF max_legacy_advertising_pdu_size
<1>6. WithScanResponse(a, op, n) =
        IF fits THEN [a EXCEPT !.scan = total, !.partialScan = q]
        ELSE [a EXCEPT !.scan = 0, !.partialScan = none]
  BY SMTT(30) DEF WithScanResponse, Good, ExtendedAdvertiser
<1> HIDE DEF total, q, none, fits
<1>7. Follows(a, [a EXCEPT !.scan = total, !.partialScan = q])
  BY <1>2, <1>3, <1>4, NewScan, ZenonT(60)
<1>8. ASSUME ~fits PROVE Follows(a, [a EXCEPT !.scan = 0, !.partialScan = none])
  BY <1>4, <1>5, <1>8, NewScan, ZenonT(60)
<1> QED
  BY <1>6, <1>7, <1>8

\* LE_Set_Extended_Advertising_Parameters: ParametersAccepted looks at the data and
\* at periodic advertising.
LEMMA ParametersFollow ==
  ASSUME NEW a, Good(a), NEW p \in PropertiesType, NEW own \in Own, NEW peer \in Peers,
         ParametersAccepted(a, p)
  PROVE  Follows(a, [a EXCEPT !.properties = p, !.own = own, !.peer = peer])
<1> DEFINE b == [a EXCEPT !.properties = p, !.own = own, !.peer = peer]
<1>1. /\ b \in ExtendedAdvertiser /\ b.properties = p
      /\ \A f \in DOMAIN a \ {"properties", "own", "peer"} : b[f] = a[f]
  BY ZenonT(60) DEF Good, ExtendedAdvertiser
<1>2. DataFits(b) /\ Ready(b) /\ Keeps(a, b) /\ (b.enable <=> a.enable)
  BY <1>1 DEF Good, DataFits, Ready, Keeps, ExtendedAdvertiser, ParametersAccepted
<1> QED
  BY <1>1, <1>2 DEF Follows, Good

\* LE_Set_Advertising_Set_Random_Address, only of a set that is not enabled.
LEMMA RandomFollows ==
  ASSUME NEW a, Good(a), NEW r \in Random, ~a.enable
  PROVE  Follows(a, [a EXCEPT !.random = r])
<1> DEFINE b == [a EXCEPT !.random = r]
<1>1. b \in ExtendedAdvertiser /\ \A f \in DOMAIN a \ {"random"} : b[f] = a[f]
  BY DEF Good, ExtendedAdvertiser
<1>2. DataFits(b) /\ Ready(b) /\ Keeps(a, b) /\ (b.enable <=> a.enable)
  BY <1>1 DEF Good, DataFits, Ready, Keeps, ExtendedAdvertiser
<1> QED
  BY <1>1, <1>2 DEF Follows, Good

\* The time of a set runs out.
LEMMA ExpiryFollows ==
  ASSUME NEW a, Good(a)
  PROVE  Follows(a, [a EXCEPT !.timeout = "expired"])
<1> DEFINE b == [a EXCEPT !.timeout = "expired"]
<1>1. b \in ExtendedAdvertiser /\ \A f \in DOMAIN a \ {"timeout"} : b[f] = a[f]
  BY DEF Good, ExtendedAdvertiser, Timeout
<1>2. DataFits(b) /\ Ready(b) /\ Keeps(a, b) /\ (b.enable <=> a.enable)
  BY <1>1 DEF Good, DataFits, Ready, Keeps, ExtendedAdvertiser
<1> QED
  BY <1>1, <1>2 DEF Follows, Good

\* Periodic advertising does not touch what enabling a set looks at: its interval,
LEMMA IntervalFollows ==
  ASSUME NEW a, Good(a), NEW i \in BOOLEAN, ~a.periodicEnable
  PROVE  Follows(a, [a EXCEPT !.interval = i])
<1> DEFINE b == [a EXCEPT !.interval = i]
<1>1. b \in ExtendedAdvertiser /\ \A f \in DOMAIN a \ {"interval"} : b[f] = a[f]
  BY DEF Good, ExtendedAdvertiser
<1>2. DataFits(b) /\ Ready(b) /\ Keeps(a, b) /\ (b.enable <=> a.enable)
  BY <1>1 DEF Good, DataFits, Ready, Keeps, ExtendedAdvertiser
<1> QED
  BY <1>1, <1>2 DEF Follows, Good

\* whether it is enabled,
LEMMA PeriodicFollows ==
  ASSUME NEW a, Good(a), NEW e \in BOOLEAN, NEW l \in BOOLEAN, l => e,
         e => a.interval /\ Periodic(a.properties) /\ ~a.partialPeriodic
  PROVE  Follows(a, [a EXCEPT !.periodicEnable = e, !.latch = l])
<1> DEFINE b == [a EXCEPT !.periodicEnable = e, !.latch = l]
<1>1. /\ b \in ExtendedAdvertiser /\ b.periodicEnable = e /\ b.latch = l
      /\ \A f \in DOMAIN a \ {"periodicEnable", "latch"} : b[f] = a[f]
  BY ZenonT(60) DEF Good, ExtendedAdvertiser
<1>2. DataFits(b) /\ Ready(b) /\ Keeps(a, b) /\ (b.enable <=> a.enable)
  BY <1>1 DEF Good, DataFits, Ready, Keeps, ExtendedAdvertiser
<1> QED
  BY <1>1, <1>2 DEF Follows, Good

\* nor its data.
LEMMA PeriodicDataFollows ==
  ASSUME NEW a, Good(a), NEW d \in Nat, NEW q \in BOOLEAN, a.periodicEnable => ~q
  PROVE  Follows(a, [a EXCEPT !.periodicData = d, !.partialPeriodic = q])
<1> DEFINE b == [a EXCEPT !.periodicData = d, !.partialPeriodic = q]
<1>1. /\ b \in ExtendedAdvertiser /\ b.partialPeriodic = q
      /\ \A f \in DOMAIN a \ {"periodicData", "partialPeriodic"} : b[f] = a[f]
  BY ZenonT(60) DEF Good, ExtendedAdvertiser
<1>2. DataFits(b) /\ Ready(b) /\ Keeps(a, b) /\ (b.enable <=> a.enable)
  BY <1>1 DEF Good, DataFits, Ready, Keeps, ExtendedAdvertiser
<1> QED
  BY <1>1, <1>2 DEF Follows, Good

\* Addresses that enabling an advertisement could give it show the same identity.
LEMMA OneIdentity ==
  ASSUME NEW own \in Own, NEW peer, NEW random,
         NEW a \in AdvertisingAddresses(own, peer, random), NEW b \in AdvertisingAddresses(own, peer, random)
  PROVE  SameIdentity(a, b)
BY DEF AdvertisingAddresses, Own, SameIdentity

\* The addresses of a set being enabled are addresses, and not None.
LEMMA SetAddressType ==
  ASSUME NEW a \in ExtendedAdvertiser, NEW x \in SetAddresses(a)
  PROVE  x \in Address /\ x # None
BY NamesAssumption DEF ExtendedAdvertiser, SetAddresses, AdvertisingAddresses, Address, Own

\* A set that passes the checks of LE_Set_Extended_Advertising_Enable is ready.
LEMMA EnabledIsGood ==
  ASSUME NEW a, Good(a), NEW duration \in BOOLEAN, NEW max \in Nat, EnableAccepted(a, duration),
         NEW address \in SetAddresses(a)
  PROVE  LET b == Enabled(a, address, duration, max) IN Good(b) /\ Keeps(a, b) /\ b.enable
<1> DEFINE yes == TRUE
           timeout == IF duration THEN "running" ELSE "none"
           b == [a EXCEPT !.enable = yes, !.latch = a.periodicEnable, !.address = address,
                          !.max = max, !.num = 0, !.timeout = timeout]
<1>1. Enabled(a, address, duration, max) = b
  BY DEF Enabled
<1>2. yes \in BOOLEAN /\ yes /\ timeout \in Timeout /\ address \in Address /\ address # None
  BY SetAddressType DEF Timeout, Good
<1>3. a.data <= GetMaxAdvertisingDataLength(a.properties)
  BY DEF Good, DataFits, EnableAccepted, ExtendedAdvertiser, PropertiesType, Bit, CanHaveData,
         GetMaxAdvertisingDataLength, max_legacy_advertising_pdu_size,
         max_extended_advertising_pdu_size
<1> HIDE DEF yes, timeout
<1>4. /\ b \in ExtendedAdvertiser /\ b.enable = yes /\ b.latch = a.periodicEnable
      /\ b.address = address
      /\ \A f \in DOMAIN a \ {"enable", "latch", "address", "max", "num", "timeout"} : b[f] = a[f]
  BY <1>2, ZenonT(60) DEF Good, ExtendedAdvertiser
<1>5. DataFits(b) /\ Keeps(a, b) /\ b.enable
  BY <1>2, <1>4 DEF Good, DataFits, Keeps, ExtendedAdvertiser
<1>6. Ready(b)
  BY <1>2, <1>3, <1>4 DEF Good, Ready, ExtendedAdvertiser, EnableAccepted
<1> HIDE DEF b
<1> QED
  BY <1>1, <1>4, <1>5, <1>6 DEF Good

\* A rejected enable that has already rewritten the address of a set.
LEMMA ReaddressedFollows ==
  ASSUME NEW a, Good(a), NEW address \in SetAddresses(a)
  PROVE  Follows(a, Readdressed(a, address))
<1> DEFINE b == [a EXCEPT !.address = address]
<1>1. address \in Address /\ address # None
  BY SetAddressType DEF Good
<1>2. /\ b \in ExtendedAdvertiser /\ b.address = address
      /\ \A f \in DOMAIN a \ {"address"} : b[f] = a[f]
  BY <1>1 DEF Good, ExtendedAdvertiser
<1>3. DataFits(b) /\ Ready(b) /\ Keeps(a, b) /\ (b.enable <=> a.enable)
  BY <1>1, <1>2 DEF Good, DataFits, Ready, Keeps, ExtendedAdvertiser
<1> QED
  BY <1>2, <1>3 DEF Follows, Good, Readdressed

\* A disabled set promises less.
LEMMA DisabledIsGood ==
  ASSUME NEW a, Good(a)
  PROVE  LET b == [a EXCEPT !.enable = FALSE] IN Good(b) /\ ~b.enable
<1> DEFINE no == FALSE
           b == [a EXCEPT !.enable = no]
<1>1. no \in BOOLEAN /\ ~no
  OBVIOUS
<1> HIDE DEF no
<1>2. b \in ExtendedAdvertiser /\ ~b.enable /\ \A f \in DOMAIN a \ {"enable"} : b[f] = a[f]
  BY <1>1 DEF Good, ExtendedAdvertiser
<1>3. DataFits(b) /\ Ready(b)
  BY <1>2 DEF Good, DataFits, Ready, ExtendedAdvertiser
<1>4. Good(b) /\ ~b.enable
  BY <1>2, <1>3 DEF Good
<1> USE DEF no
<1> QED
  BY <1>4

\* The event counter of a set, at its width.
LEMMA CountFollows ==
  ASSUME NEW a, Good(a)
  PROVE  Follows(a, [a EXCEPT !.num = (@ + 1) % Counter])
<1> DEFINE n == (a.num + 1) % Counter
           b == [a EXCEPT !.num = n]
<1>1. n \in Nat
  BY ParameterAssumption DEF Good, ExtendedAdvertiser
<1> HIDE DEF n
<1>2. b \in ExtendedAdvertiser /\ \A f \in DOMAIN a \ {"num"} : b[f] = a[f]
  BY <1>1 DEF Good, ExtendedAdvertiser
<1>3. DataFits(b) /\ Ready(b) /\ Keeps(a, b) /\ (b.enable <=> a.enable)
  BY <1>2 DEF Good, DataFits, Ready, Keeps, ExtendedAdvertiser
<1>4. Follows(a, b)
  BY <1>2, <1>3 DEF Follows, Good
<1> USE DEF n
<1> QED
  BY <1>4 DEF Good, ExtendedAdvertiser

-----------------------------------------------------------------------------
(* The steps.                                                              *)

\* A step that leaves the addresses of the controller alone is safe if it keeps the
\* sets, the legacy advertiser and what the host knows.
LEMMA StepSafe ==
  ASSUME IInv, UNCHANGED <<addresses, host>>,
         legacy_advertising_in_use_' \in BOOLEAN, extended_advertising_in_use_' \in BOOLEAN,
         SetsKeep,
         legacy_advertiser_' \in LegacyAdvertiser, LegacyKeeps(legacy_advertiser_'),
         ToldTypes', HostKnows'
  PROVE  IInv' /\ Stable
<1>1. TypeOK'
  BY DEF IInv, TypeOK, SetsKeep, addresses, ToldTypes
<1>2. \A h \in Sets' : Good(extended_advertisers_[h])'
  BY DEF SetsKeep, Sets, Good, Ready, Roomy, DataFits
<1>3. le_resolving_list_enabled_ => \A h \in Handles :
         extended_advertisers_'[h] # None /\ extended_advertisers_'[h].enable =>
           extended_advertisers_'[h].address \in SetAddresses(extended_advertisers_[h])
  BY DEF SetsKeep, IInv, AddressesCurrent, Keeps
<1>4. \A h \in Handles : extended_advertisers_'[h] # None /\ extended_advertisers_'[h].enable =>
         SetAddresses(extended_advertisers_[h])' = SetAddresses(extended_advertisers_[h])
  BY ZenonT(60) DEF SetsKeep, SetAddresses, AdvertisingAddresses, addresses, Keeps
<1>5. le_resolving_list_enabled_ =>
        (legacy_advertiser_'.enable => legacy_advertiser_'.address \in LegacyAddresses)
  BY DEF LegacyKeeps, IInv, AddressesCurrent
<1>6. legacy_advertiser_'.enable => LegacyAddresses' = LegacyAddresses
  BY ZenonT(60) DEF LegacyKeeps, LegacyAddresses, AdvertisingAddresses, addresses
<1>7. AddressesCurrent'
  BY <1>3, <1>4, <1>5, <1>6 DEF AddressesCurrent, Sets, addresses
<1>8. Stable
  <2>1. legacy_advertiser_.own \in Own /\ \A h \in Sets : extended_advertisers_[h].own \in Own
    BY DEF IInv, TypeOK, Good, LegacyAdvertiser, ExtendedAdvertiser
  <2> QED
    BY <1>3, <1>5, <2>1, OneIdentity DEF Stable, IInv, AddressesCurrent, SetAddresses, LegacyAddresses
<1> QED
  BY <1>1, <1>2, <1>7, <1>8 DEF IInv

\* A step that changes only the addresses of the controller is safe if the
\* addresses in use stay current.
LEMMA SameAddresses ==
  ASSUME IInv, UNCHANGED <<modes, legacy_advertiser_, extended_advertisers_, told, host>>,
         random_address_' \in Random \cup {None}, le_resolving_list_' \in SUBSET Peers,
         le_resolving_list_enabled_' \in BOOLEAN, AddressesCurrent'
  PROVE  IInv' /\ Stable
<1>1. TypeOK' /\ HostKnows'
  BY DEF IInv, TypeOK, HostKnows, Sets, modes, told
<1>2. \A h \in Sets' : Good(extended_advertisers_[h])'
  BY DEF IInv, Sets, Good, Ready, Roomy, DataFits
<1> QED
  BY <1>1, <1>2 DEF IInv, Stable, SameIdentity

\* The commands on addresses: what could change an address in use is refused.
LEMMA AddressCommandSafe ==
  ASSUME IInv, UNCHANGED host,
         \/ \E a \in Random : LeSetRandomAddress(a)
         \/ ResolvingCommand
  PROVE  IInv' /\ Stable
<1>1. ASSUME NEW a \in Random, LeSetRandomAddress(a) PROVE IInv' /\ Stable
  <2>1. AddressesCurrent'
    BY <1>1, ZenonT(60) DEF LeSetRandomAddress, IInv, AddressesCurrent, SetAddresses, AdvertisingAddresses, Sets
  <2> QED
    BY <1>1, <2>1, SameAddresses DEF LeSetRandomAddress, IInv, TypeOK
<1>2. ASSUME NEW list \in SUBSET Peers, ChangeResolvingList(list) PROVE IInv' /\ Stable
  <2>1. AddressesCurrent'
    BY <1>2 DEF ChangeResolvingList, ResolvingListBusy, AddressesCurrent, Sets
  <2> QED
    BY <1>2, <2>1, SameAddresses DEF ChangeResolvingList, IInv, TypeOK
<1>3. ASSUME NEW enable \in BOOLEAN, LeSetAddressResolutionEnable(enable) PROVE IInv' /\ Stable
  <2>1. AddressesCurrent'
    BY <1>3 DEF LeSetAddressResolutionEnable, ResolvingListBusy, AddressesCurrent, Sets
  <2> QED
    BY <1>3, <2>1, SameAddresses DEF LeSetAddressResolutionEnable, IInv, TypeOK
<1>4. ASSUME ResolvingCommand PROVE IInv' /\ Stable
  <2>1. le_resolving_list_ \in SUBSET Peers
    BY DEF IInv, TypeOK
  <2> QED
    BY <1>2, <1>3, <1>4, <2>1, ZenonT(60) DEF ResolvingCommand, LeAddDeviceToResolvingList,
       LeRemoveDeviceFromResolvingList, LeClearResolvingList
<1> QED
  BY <1>1, <1>4

\* A command on one set that neither enables nor disables it.
LEMMA PutSafe ==
  ASSUME IInv, NEW h \in Sets, NEW b, Good(b), Keeps(extended_advertisers_[h], b),
         b.enable <=> extended_advertisers_[h].enable,
         extended_advertisers_' = Put(h, b),
         UNCHANGED <<legacy_advertiser_, addresses, told, host>>,
         legacy_advertising_in_use_' \in BOOLEAN, extended_advertising_in_use_' \in BOOLEAN
  PROVE  IInv' /\ Stable
<1>1. /\ h \in Handles /\ b \in ExtendedAdvertiser /\ b # None
      /\ extended_advertisers_ \in [Handles -> ExtendedAdvertiser \cup {None}]
  BY NoneAssumption DEF Sets, Good, IInv, TypeOK
<1>2. /\ extended_advertisers_' \in [Handles -> ExtendedAdvertiser \cup {None}]
      /\ extended_advertisers_'[h] = b
      /\ \A g \in Handles \ {h} : extended_advertisers_'[g] = extended_advertisers_[g]
  BY <1>1 DEF Put
<1>3. SetsKeep
  BY <1>1, <1>2 DEF SetsKeep, IInv, Sets, Keeps
<1>4. HostKnows' /\ ToldTypes'
  BY <1>1, <1>2 DEF IInv, TypeOK, HostKnows, Sets, ToldTypes, told
<1>5. LegacyKeeps(legacy_advertiser_')
  BY DEF LegacyKeeps
<1> QED
  BY <1>3, <1>4, <1>5, StepSafe DEF IInv, TypeOK

\* A rejected command, which may have selected a family of commands.
LEMMA SetsUnchangedSafe ==
  ASSUME IInv, UNCHANGED <<extended_advertisers_, legacy_advertiser_, addresses, told, host>>,
         legacy_advertising_in_use_' \in BOOLEAN, extended_advertising_in_use_' \in BOOLEAN
  PROVE  IInv' /\ Stable
<1>1. SetsKeep
  BY DEF SetsKeep, IInv, TypeOK, Sets, Keeps
<1>2. HostKnows' /\ ToldTypes' /\ LegacyKeeps(legacy_advertiser_')
  BY DEF IInv, TypeOK, HostKnows, Sets, LegacyKeeps, ToldTypes, told
<1> QED
  BY <1>1, <1>2, StepSafe DEF IInv, TypeOK

\* HCI_Set_Event_Mask and LE_Set_Event_Mask change no advertiser.
LEMMA MaskSafe ==
  ASSUME IInv, UNCHANGED host, NEW mask \in host.masks, SetEventMasks(mask)
  PROVE  IInv' /\ Stable
<1>1. mask \in SUBSET SubeventCode
  BY ParameterAssumption DEF IInv, HostType
<1>2. /\ UNCHANGED <<extended_advertisers_, legacy_advertiser_, addresses, host, hostSees, unreported>>
      /\ legacy_advertising_in_use_' \in BOOLEAN /\ extended_advertising_in_use_' \in BOOLEAN
      /\ le_event_mask_' = mask
  BY DEF SetEventMasks, IInv, TypeOK, modes
<1>3. SetsKeep
  BY <1>2 DEF SetsKeep, IInv, TypeOK, Sets, Keeps
<1>4. HostKnows' /\ ToldTypes' /\ LegacyKeeps(legacy_advertiser_')
  BY <1>1, <1>2 DEF IInv, TypeOK, HostKnows, Sets, LegacyKeeps, ToldTypes
<1> QED
  BY <1>2, <1>3, <1>4, StepSafe DEF IInv, TypeOK

\* What a host uses has the types of the commands' parameters.
LEMMA HostTypes ==
  ASSUME IInv
  PROVE  /\ host.handles \subseteq Handles /\ host.properties \subseteq PropertiesType
         /\ host.own \subseteq Own /\ host.fragments \subseteq Nat
         /\ host.durations \subseteq BOOLEAN /\ host.max \subseteq Nat
BY ParameterAssumption DEF IInv, HostType

\* LE_Set_Extended_Advertising_Parameters, of a set that exists or of a new one.
LEMMA ParametersSafe ==
  ASSUME IInv, UNCHANGED host, NEW h \in Handles, NEW p \in PropertiesType, NEW own \in Own,
         NEW peer \in Peers, LeSetExtendedAdvertisingParameters(h, p, own, peer)
  PROVE  IInv' /\ Stable
<1> USE DEF LeSetExtendedAdvertisingParameters
<1>1. /\ legacy_advertising_in_use_' \in BOOLEAN /\ extended_advertising_in_use_' \in BOOLEAN
      /\ UNCHANGED <<legacy_advertiser_, addresses, told, host>>
  BY DEF SelectExtendedAdvertising, IInv, TypeOK
<1>2. CASE h \in Sets /\ ParametersAccepted(extended_advertisers_[h], p)
  <2> DEFINE b == [extended_advertisers_[h] EXCEPT !.properties = p, !.own = own, !.peer = peer]
  <2>1. Follows(extended_advertisers_[h], b)
    BY <1>2, ParametersFollow, ZenonT(60) DEF IInv
  <2>2. extended_advertisers_' = Put(h, b)
    BY <1>2
  <2> HIDE DEF b
  <2> QED
    BY <1>1, <1>2, <2>1, <2>2, PutSafe, SMTT(30) DEF Follows
<1>3. CASE h \notin Sets /\ extended_advertisers_' # extended_advertisers_
  <2> DEFINE new == NewSet(p, own, peer)
             no == FALSE
             b == [new EXCEPT !.properties = p, !.own = own, !.peer = peer]
  <2>1. ParametersAccepted(new, p) /\ extended_advertisers_' = Put(h, b)
    BY <1>3
  <2>2. new = [enable |-> no, properties |-> p, own |-> own, peer |-> peer, random |-> None,
               address |-> None, timeout |-> "none", max |-> 0, num |-> 0, data |-> 0,
               partial |-> no, scan |-> 0, partialScan |-> no, periodicEnable |-> no,
               latch |-> no, interval |-> no, periodicData |-> 0, partialPeriodic |-> no]
    BY DEF NewSet
  <2>3. no \in BOOLEAN /\ ~no
    OBVIOUS
  <2> HIDE DEF no, new
  <2>4. new \in ExtendedAdvertiser /\ ~new.enable
    BY <2>2, <2>3 DEF ExtendedAdvertiser, Address, Timeout
  <2>5. DataFits(new) /\ Ready(new)
    BY <2>1, <2>2, <2>3, SMTT(30) DEF DataFits, Ready, ParametersAccepted
  <2>6. Good(b) /\ ~b.enable
    BY <2>1, <2>4, <2>5, ParametersFollow, ZenonT(60) DEF Good, Follows
  <2> HIDE DEF b
  <2>7. /\ extended_advertisers_' \in [Handles -> ExtendedAdvertiser \cup {None}]
        /\ extended_advertisers_'[h] = b
        /\ \A g \in Handles \ {h} : extended_advertisers_'[g] = extended_advertisers_[g]
    BY <2>1, <2>6 DEF Put, IInv, TypeOK, Good
  <2>8. SetsKeep /\ HostKnows' /\ ToldTypes'
    BY <1>1, <1>3, <2>6, <2>7 DEF SetsKeep, IInv, TypeOK, Sets, Keeps, HostKnows, ToldTypes, told
  <2>9. LegacyKeeps(legacy_advertiser_')
    BY <1>1 DEF LegacyKeeps
  <2> QED
    BY <1>1, <2>8, <2>9, StepSafe DEF IInv, TypeOK
<1> QED
  BY <1>1, <1>2, <1>3, SetsUnchangedSafe

\* The other commands on one set that may be rejected: its random address and data.
LEMMA OneSetSafe ==
  ASSUME IInv, UNCHANGED host, NEW h \in Handles,
         \/ \E r \in Random : LeSetAdvertisingSetRandomAddress(h, r)
         \/ \E op \in Operation, n \in host.fragments :
              LeSetExtendedAdvertisingData(h, op, n) \/ LeSetExtendedScanResponseData(h, op, n)
         \/ SetExpires(h)
  PROVE  IInv' /\ Stable
<1> DEFINE a == extended_advertisers_[h]
<1>0. legacy_advertising_in_use_ \in BOOLEAN /\ extended_advertising_in_use_ \in BOOLEAN
  BY DEF IInv, TypeOK
<1>1. h \in Sets => Good(a)
  BY DEF IInv
<1>2. ASSUME NEW r \in Random, LeSetAdvertisingSetRandomAddress(h, r) PROVE IInv' /\ Stable
  <2>1. Follows(a, [a EXCEPT !.random = r])
    BY <1>1, <1>2, RandomFollows DEF LeSetAdvertisingSetRandomAddress
  <2> QED
    BY <1>0, <1>2, <2>1, PutSafe, ZenonT(60) DEF LeSetAdvertisingSetRandomAddress, Follows, modes
<1>3. ASSUME SetExpires(h) PROVE IInv' /\ Stable
  <2>1. Follows(a, [a EXCEPT !.timeout = "expired"])
    BY <1>1, <1>3, ExpiryFollows DEF SetExpires
  <2> QED
    BY <1>0, <1>3, <2>1, PutSafe, ZenonT(60) DEF SetExpires, Follows, modes
<1>4. ASSUME NEW op \in Operation, NEW n \in host.fragments, LeSetExtendedAdvertisingData(h, op, n)
      PROVE  IInv' /\ Stable
  <2>1. SelectExtendedAdvertising /\ UNCHANGED <<legacy_advertiser_, addresses, told, host>>
    BY <1>4 DEF LeSetExtendedAdvertisingData
  <2>2. legacy_advertising_in_use_' \in BOOLEAN /\ extended_advertising_in_use_' \in BOOLEAN
    BY <1>0, <2>1, SMTT(30) DEF SelectExtendedAdvertising
  <2>3. ASSUME h \in Sets, DataAccepted(a, op, n) PROVE Follows(a, WithData(a, op, n))
    BY <1>1, <2>3, HostTypes, DataFollows
  <2> QED
    BY <1>4, <2>1, <2>2, <2>3, PutSafe, SetsUnchangedSafe DEF LeSetExtendedAdvertisingData, Follows
<1>5. ASSUME NEW op \in Operation, NEW n \in host.fragments, LeSetExtendedScanResponseData(h, op, n)
      PROVE  IInv' /\ Stable
  <2>1. SelectExtendedAdvertising /\ UNCHANGED <<legacy_advertiser_, addresses, told, host>>
    BY <1>5 DEF LeSetExtendedScanResponseData
  <2>2. legacy_advertising_in_use_' \in BOOLEAN /\ extended_advertising_in_use_' \in BOOLEAN
    BY <1>0, <2>1 DEF SelectExtendedAdvertising
  <2>3. ASSUME h \in Sets, ScanResponseAccepted(a, op, n) PROVE Follows(a, WithScanResponse(a, op, n))
    BY <1>1, <2>3, HostTypes, ScanFollows
  <2> QED
    BY <1>5, <2>1, <2>2, <2>3, PutSafe, SetsUnchangedSafe DEF LeSetExtendedScanResponseData, Follows
<1> QED
  BY <1>2, <1>3, <1>4, <1>5

\* The commands of periodic advertising.
LEMMA PeriodicSafe ==
  ASSUME IInv, UNCHANGED host, PeriodicCommand
  PROVE  IInv' /\ Stable
<1>1. PICK h \in Handles :
        \/ LeSetPeriodicAdvertisingParameters(h)
        \/ \E op \in Operation, n \in Nat : LeSetPeriodicAdvertisingData(h, op, n)
        \/ \E enable \in BOOLEAN : LeSetPeriodicAdvertisingEnable(h, enable)
  BY HostTypes, SMTT(30) DEF PeriodicCommand
<1> DEFINE a == extended_advertisers_[h]
           yes == TRUE
           no == FALSE
<1>2. /\ h \in Sets /\ UNCHANGED <<legacy_advertiser_, addresses, told, host>>
      /\ legacy_advertising_in_use_' \in BOOLEAN /\ extended_advertising_in_use_' \in BOOLEAN
  BY <1>1, ZenonT(60) DEF LeSetPeriodicAdvertisingParameters, LeSetPeriodicAdvertisingData,
              LeSetPeriodicAdvertisingEnable, IInv, TypeOK, modes
<1>3. Good(a) /\ yes \in BOOLEAN /\ yes /\ no \in BOOLEAN /\ ~no
  BY <1>2 DEF IInv
<1>4. ASSUME NEW b, Follows(a, b), extended_advertisers_' = Put(h, b) PROVE IInv' /\ Stable
  BY <1>2, <1>4, PutSafe DEF Follows
<1>5. ASSUME LeSetPeriodicAdvertisingParameters(h) PROVE IInv' /\ Stable
  <2>1. extended_advertisers_' = Put(h, [a EXCEPT !.interval = yes])
    BY <1>5 DEF LeSetPeriodicAdvertisingParameters
  <2>2. ~a.periodicEnable
    BY <1>5 DEF LeSetPeriodicAdvertisingParameters
  <2> HIDE DEF yes
  <2>3. Follows(a, [a EXCEPT !.interval = yes])
    BY <1>3, <2>2, IntervalFollows, ZenonT(60)
  <2> QED
    BY <1>4, <2>1, <2>3
<1>6. ASSUME NEW op \in Operation, NEW n \in Nat, LeSetPeriodicAdvertisingData(h, op, n)
      PROVE  IInv' /\ Stable
  <2> DEFINE total == Combined(op, a.periodicData, n)
             q == StillPartial(op, a.partialPeriodic)
             kept == [a EXCEPT !.periodicData = total, !.partialPeriodic = q]
             discarded == [a EXCEPT !.periodicData = 0, !.partialPeriodic = no]
  <2>1. a.periodicData \in Nat /\ a.partialPeriodic \in BOOLEAN
    BY <1>3 DEF Good, ExtendedAdvertiser
  <2>2. total \in Nat /\ q \in BOOLEAN /\ (a.periodicEnable => ~q)
    BY <1>3, <1>6, <2>1 DEF LeSetPeriodicAdvertisingData, Combined, StillPartial, Operation, Good, Ready
  <2>3. extended_advertisers_' = Put(h, kept) \/ extended_advertisers_' = Put(h, discarded)
    BY <1>3, <1>6 DEF LeSetPeriodicAdvertisingData, Good, ExtendedAdvertiser
  <2> HIDE DEF no, total, q
  <2>4. Follows(a, kept) /\ Follows(a, discarded)
    BY <1>3, <2>2, PeriodicDataFollows, ZenonT(60)
  <2> QED
    BY <1>4, <2>3, <2>4
<1>7. ASSUME LeSetPeriodicAdvertisingEnable(h, TRUE) PROVE IInv' /\ Stable
  <2>1. extended_advertisers_' = Put(h, [a EXCEPT !.periodicEnable = yes, !.latch = a.enable])
    BY <1>7 DEF LeSetPeriodicAdvertisingEnable
  <2>2. PeriodicAccepted(a) /\ a.enable \in BOOLEAN
    BY <1>3, <1>7, SMTT(30) DEF LeSetPeriodicAdvertisingEnable, Good, ExtendedAdvertiser
  <2> HIDE DEF yes
  <2>3. Follows(a, [a EXCEPT !.periodicEnable = yes, !.latch = a.enable])
    BY <1>3, <2>2, PeriodicFollows, ZenonT(60) DEF PeriodicAccepted
  <2> QED
    BY <1>4, <2>1, <2>3
<1>8. ASSUME LeSetPeriodicAdvertisingEnable(h, FALSE) PROVE IInv' /\ Stable
  <2>1. extended_advertisers_' = Put(h, [a EXCEPT !.periodicEnable = no, !.latch = no])
    BY <1>8, SMTT(30) DEF LeSetPeriodicAdvertisingEnable
  <2> HIDE DEF no
  <2>2. Follows(a, [a EXCEPT !.periodicEnable = no, !.latch = no])
    BY <1>3, PeriodicFollows, ZenonT(60)
  <2> QED
    BY <1>4, <2>1, <2>2
<1>9. ASSUME NEW enable \in BOOLEAN, LeSetPeriodicAdvertisingEnable(h, enable) PROVE IInv' /\ Stable
  <2>1. enable = TRUE \/ enable = FALSE
    OBVIOUS
  <2> QED
    BY <1>7, <1>8, <1>9, <2>1, ZenonT(60)
<1> QED
  BY <1>1, <1>5, <1>6, <1>9

\* Removing sets: none of them is enabled.
LEMMA RemoveSafe ==
  ASSUME IInv, UNCHANGED host, NEW H \in SUBSET Sets, RemoveSets(H)
  PROVE  IInv' /\ Stable
<1>1. /\ extended_advertisers_' = [h \in Handles |-> IF h \in H THEN None ELSE extended_advertisers_[h]]
      /\ UNCHANGED <<legacy_advertiser_, addresses, host>> /\ HostDisables(H)
      /\ legacy_advertising_in_use_' \in BOOLEAN /\ extended_advertising_in_use_' \in BOOLEAN
      /\ \A h \in H : ~extended_advertisers_[h].enable
  BY DEF RemoveSets, IInv, TypeOK, modes
<1>2. SetsKeep
  BY <1>1 DEF SetsKeep, IInv, TypeOK, Sets, Keeps
<1>3. HostKnows' /\ ToldTypes' /\ LegacyKeeps(legacy_advertiser_')
  BY <1>1, NamesAssumption DEF IInv, TypeOK, HostKnows, HostDisables, ToldTypes, Sets, LegacyKeeps
<1> QED
  BY <1>1, <1>2, <1>3, StepSafe DEF IInv, TypeOK

\* LE_Set_Extended_Advertising_Enable: all the sets are enabled, or a rejected
\* command has rewritten the addresses of some of them, or sets are disabled.
LEMMA EnableSafe ==
  ASSUME IInv, UNCHANGED host, NEW enable \in BOOLEAN, NEW H \in SUBSET Handles,
         NEW duration \in [H -> BOOLEAN], NEW max \in [H -> Nat],
         LeSetExtendedAdvertisingEnable(enable, H, duration, max)
  PROVE  IInv' /\ Stable
<1> DEFINE set(h) == extended_advertisers_[h]
           ok == {h \in H : EnableAccepted(set(h), duration[h])}
<1>1. /\ UNCHANGED <<legacy_advertiser_, addresses, host>>
      /\ legacy_advertising_in_use_' \in BOOLEAN /\ extended_advertising_in_use_' \in BOOLEAN
      /\ LegacyKeeps(legacy_advertiser_')
  BY DEF LeSetExtendedAdvertisingEnable, SelectExtendedAdvertising, IInv, TypeOK, LegacyKeeps
<1>2. \A h \in Sets : Good(set(h)) /\ set(h) # None /\ h \in Handles
  BY DEF IInv, Sets
<1>3. ASSUME NEW K, K \subseteq Sets, DisableSets(K) PROVE IInv' /\ Stable
  <2>1. \A h \in K : Good([set(h) EXCEPT !.enable = FALSE]) /\ ~[set(h) EXCEPT !.enable = FALSE].enable
    BY <1>2, <1>3, DisabledIsGood
  <2>2. /\ \A h \in K : Good(extended_advertisers_'[h]) /\ ~extended_advertisers_'[h].enable
        /\ \A h \in Handles \ K : extended_advertisers_'[h] = set(h)
        /\ extended_advertisers_' = [h \in Handles |-> extended_advertisers_'[h]]
        /\ HostDisables(K)
    BY <1>2, <1>3, <2>1, ZenonT(60) DEF DisableSets
  <2>3. SetsKeep
    BY <1>2, <1>3, <2>2 DEF SetsKeep, IInv, TypeOK, Sets, Keeps, Good
  <2>4. HostKnows' /\ ToldTypes'
    BY <1>1, <1>2, <1>3, <2>2, NamesAssumption
       DEF IInv, TypeOK, HostKnows, HostDisables, ToldTypes, Sets
  <2> QED
    BY <1>1, <2>3, <2>4, StepSafe DEF IInv, TypeOK
<1>4. ASSUME H \subseteq Sets, ok = H, NEW address \in Addressings(H),
             extended_advertisers_' =
               [h \in Handles |-> IF h \in H THEN Enabled(set(h), address[h], duration[h], max[h])
                                  ELSE set(h)],
             HostEnables(H)
      PROVE  IInv' /\ Stable
  <2>1. ASSUME NEW h \in H
        PROVE  /\ extended_advertisers_'[h] = Enabled(set(h), address[h], duration[h], max[h])
               /\ Good(extended_advertisers_'[h]) /\ Keeps(set(h), extended_advertisers_'[h])
               /\ extended_advertisers_'[h].enable
    <3>1. extended_advertisers_'[h] = Enabled(set(h), address[h], duration[h], max[h])
      BY <1>4
    <3>2. /\ Good(set(h)) /\ duration[h] \in BOOLEAN /\ max[h] \in Nat
          /\ EnableAccepted(set(h), duration[h])
          /\ address[h] \in SetAddresses(set(h))
      BY <1>2, <1>4 DEF Addressings
    <3> QED
      BY <3>1, <3>2, EnabledIsGood
  <2>2. /\ \A h \in Handles \ H : extended_advertisers_'[h] = set(h)
        /\ extended_advertisers_' = [h \in Handles |-> extended_advertisers_'[h]]
    BY <1>4, ZenonT(60)
  <2>3. SetsKeep
    BY <1>2, <1>4, <2>1, <2>2, SMTT(30) DEF SetsKeep, IInv, TypeOK, Sets, Keeps, Good
  <2>4. HostKnows' /\ ToldTypes'
    BY <1>1, <1>2, <1>4, <2>1, <2>2, NoneAssumption, NamesAssumption, ZenonT(60)
       DEF IInv, TypeOK, HostKnows, HostEnables, ToldTypes, Sets, Good
  <2> QED
    BY <1>1, <2>3, <2>4, StepSafe DEF IInv, TypeOK
<1>5. ASSUME H \subseteq Sets, NEW done \in SUBSET ok, NEW address \in Addressings(done),
             extended_advertisers_' =
               [h \in Handles |-> IF h \in done THEN Readdressed(set(h), address[h]) ELSE set(h)],
             UNCHANGED told
      PROVE  IInv' /\ Stable
  <2>1. ASSUME NEW h \in done
        PROVE  /\ extended_advertisers_'[h] = Readdressed(set(h), address[h])
               /\ Follows(set(h), extended_advertisers_'[h])
    <3>1. h \in H /\ h \in Handles /\ h \in Sets /\ address[h] \in SetAddresses(set(h))
      BY <1>5 DEF Addressings
    <3>2. extended_advertisers_'[h] = Readdressed(set(h), address[h])
      BY <1>5, <3>1
    <3> QED
      BY <1>2, <3>1, <3>2, ReaddressedFollows
  <2>2. /\ \A h \in Handles \ done : extended_advertisers_'[h] = set(h)
        /\ extended_advertisers_' = [h \in Handles |-> extended_advertisers_'[h]]
        /\ done \subseteq Sets
    BY <1>5, ZenonT(60)
  <2>3. SetsKeep
    BY <1>2, <2>1, <2>2 DEF SetsKeep, IInv, TypeOK, Sets, Keeps, Good, Follows
  <2>4. HostKnows' /\ ToldTypes'
    BY <1>1, <1>2, <1>5, <2>1, <2>2, NoneAssumption, ZenonT(60)
       DEF IInv, TypeOK, HostKnows, ToldTypes, told, Sets, Good, Follows
  <2> QED
    BY <1>1, <1>5, <2>3, <2>4, StepSafe DEF IInv, TypeOK
<1>6. CASE UNCHANGED <<extended_advertisers_, told>>
  BY <1>1, <1>6, SetsUnchangedSafe
<1>7. CASE H \subseteq Sets /\ EnableSets(H, duration, max)
  BY <1>4, <1>5, <1>7 DEF EnableSets
<1>8. CASE H \subseteq Sets /\ DisableSets(IF H = {} THEN Sets ELSE H)
  BY <1>3, <1>8
<1> QED
  BY <1>6, <1>7, <1>8 DEF LeSetExtendedAdvertisingEnable

\* The commands on sets.
LEMMA SetCommandSafe ==
  ASSUME IInv, UNCHANGED host, SetCommand
  PROVE  IInv' /\ Stable
<1>1. ASSUME NEW h \in host.handles, NEW p \in host.properties, NEW own \in host.own, NEW peer \in Peers,
             LeSetExtendedAdvertisingParameters(h, p, own, peer)
      PROVE  IInv' /\ Stable
  <2>1. h \in Handles /\ p \in PropertiesType /\ own \in Own
    BY HostTypes
  <2> QED
    BY <1>1, <2>1, ParametersSafe
<1>2. ASSUME NEW enable \in BOOLEAN, NEW H \in SUBSET host.handles,
             NEW duration \in [H -> host.durations], NEW max \in [H -> host.max],
             LeSetExtendedAdvertisingEnable(enable, H, duration, max)
      PROVE  IInv' /\ Stable
  <2>1. H \in SUBSET Handles /\ duration \in [H -> BOOLEAN] /\ max \in [H -> Nat]
    BY HostTypes
  <2> QED
    BY <1>2, <2>1, EnableSafe
<1>3. ASSUME NEW h \in host.handles,
             \/ \E r \in Random : LeSetAdvertisingSetRandomAddress(h, r)
             \/ \E op \in Operation, n \in host.fragments :
                  LeSetExtendedAdvertisingData(h, op, n) \/ LeSetExtendedScanResponseData(h, op, n)
      PROVE  IInv' /\ Stable
  <2>1. h \in Handles
    BY HostTypes
  <2> QED
    BY <1>3, <2>1, OneSetSafe
<1>4. ASSUME (\E h \in host.handles : LeRemoveAdvertisingSet(h)) \/ LeClearAdvertisingSets
      PROVE  IInv' /\ Stable
  BY <1>4, RemoveSafe, ZenonT(60) DEF LeRemoveAdvertisingSet, LeClearAdvertisingSets
<1> QED
  BY <1>1, <1>2, <1>3, <1>4 DEF SetCommand

\* What HostKnows says of the legacy advertiser.
LegacyKnown ==
  IF legacy_advertiser_.enable THEN Legacy \in hostSees
  ELSE Legacy \in hostSees => Legacy \in unreported

\* A step of the legacy advertiser alone: a command, its timeout or a connection.
LEMMA LegacyStepSafe ==
  ASSUME IInv, UNCHANGED <<extended_advertisers_, addresses, host>>,
         legacy_advertising_in_use_' \in BOOLEAN, extended_advertising_in_use_' \in BOOLEAN,
         legacy_advertiser_' \in LegacyAdvertiser, LegacyKeeps(legacy_advertiser_'),
         \A h \in Handles : /\ h \in hostSees' <=> h \in hostSees
                            /\ h \in unreported' <=> h \in unreported,
         ToldTypes', LegacyKnown'
  PROVE  IInv' /\ Stable
<1>1. SetsKeep
  BY DEF SetsKeep, IInv, TypeOK, Sets, Keeps
<1>2. HostKnows'
  BY DEF IInv, HostKnows, LegacyKnown, Sets
<1> QED
  BY <1>1, <1>2, StepSafe DEF IInv, TypeOK

\* Disabling the legacy advertiser leaves nothing to keep.
LEMMA LegacyDisabled ==
  ASSUME NEW l \in LegacyAdvertiser
  PROVE  [l EXCEPT !.enable = FALSE] \in LegacyAdvertiser /\ ~[l EXCEPT !.enable = FALSE].enable
<1> DEFINE no == FALSE
<1>1. no \in BOOLEAN /\ ~no
  OBVIOUS
<1> HIDE DEF no
<1>2. [l EXCEPT !.enable = no] \in LegacyAdvertiser /\ ~[l EXCEPT !.enable = no].enable
  BY <1>1 DEF LegacyAdvertiser
<1> USE DEF no
<1> QED
  BY <1>2

\* LE_Set_Advertising_Parameters, only while it is not enabled.
LEMMA LegacyParametersSafe ==
  ASSUME IInv, UNCHANGED host, NEW type \in AdvType, NEW own \in Own, NEW peer \in Peers,
         LeSetAdvertisingParameters(type, own, peer)
  PROVE  IInv' /\ Stable
<1> DEFINE l == [legacy_advertiser_ EXCEPT !.type = type, !.own = own, !.peer = peer]
<1>1. legacy_advertiser_ \in LegacyAdvertiser
  BY DEF IInv, TypeOK
<1>2. l \in LegacyAdvertiser /\ (l.enable <=> legacy_advertiser_.enable)
  BY <1>1, ZenonT(60) DEF LegacyAdvertiser
<1>3. legacy_advertiser_' = IF legacy_advertiser_.enable THEN legacy_advertiser_ ELSE l
  BY DEF LeSetAdvertisingParameters
<1>4. /\ UNCHANGED <<extended_advertisers_, addresses, told, host>>
      /\ legacy_advertising_in_use_' \in BOOLEAN /\ extended_advertising_in_use_' \in BOOLEAN
  BY DEF LeSetAdvertisingParameters, SelectLegacyAdvertising, IInv, TypeOK
<1> HIDE DEF l
<1>5. LegacyKeeps(legacy_advertiser_') /\ LegacyKnown' /\ ToldTypes'
  BY <1>2, <1>3, <1>4 DEF LegacyKeeps, IInv, TypeOK, HostKnows, LegacyKnown, ToldTypes, told
<1> QED
  BY <1>1, <1>2, <1>3, <1>4, <1>5, LegacyStepSafe DEF IInv, TypeOK, told

\* LE_Set_Advertising_Enable.
LEMMA LegacyEnableSafe ==
  ASSUME IInv, UNCHANGED host, NEW enable \in BOOLEAN, LeSetAdvertisingEnable(enable)
  PROVE  IInv' /\ Stable
<1> DEFINE yes == TRUE
           timeout == IF legacy_advertiser_.type = "DIRECT_HIGH" THEN "running" ELSE "none"
           on(a) == [legacy_advertiser_ EXCEPT !.enable = yes, !.address = a, !.timeout = timeout]
           off == [legacy_advertiser_ EXCEPT !.enable = FALSE]
<1>1. /\ UNCHANGED <<extended_advertisers_, addresses, host>>
      /\ legacy_advertising_in_use_' \in BOOLEAN /\ extended_advertising_in_use_' \in BOOLEAN
      /\ legacy_advertiser_ \in LegacyAdvertiser /\ ToldTypes /\ Legacy \notin Handles
  BY NamesAssumption, ZenonT(60) DEF LeSetAdvertisingEnable, SelectLegacyAdvertising, IInv, TypeOK, ToldTypes
<1>2. \/ legacy_advertiser_' = off /\ HostDisables({Legacy})
      \/ UNCHANGED <<legacy_advertiser_, told>>
      \/ \E a \in LegacyAddresses : legacy_advertiser_' = on(a) /\ HostEnables({Legacy})
  BY ZenonT(60) DEF LeSetAdvertisingEnable, LegacyAddresses
<1>3. yes \in BOOLEAN /\ yes /\ timeout \in Timeout /\ LegacyAddresses \subseteq Address
  BY <1>1 DEF Timeout, LegacyAddresses, AdvertisingAddresses, Address, LegacyAdvertiser, Own, IInv, TypeOK
<1> HIDE DEF yes, timeout
<1>4. ASSUME NEW a \in LegacyAddresses
      PROVE  /\ on(a) \in LegacyAdvertiser /\ on(a).enable /\ on(a).address = a
             /\ on(a).own = legacy_advertiser_.own /\ on(a).peer = legacy_advertiser_.peer
  BY <1>1, <1>3, ZenonT(60) DEF LegacyAdvertiser
<1>5. off \in LegacyAdvertiser /\ ~off.enable
  BY <1>1, LegacyDisabled
<1> HIDE DEF on, off
<1>6. CASE legacy_advertiser_' = off /\ HostDisables({Legacy})
  <2>1. LegacyKeeps(legacy_advertiser_') /\ LegacyKnown' /\ ToldTypes'
    BY <1>1, <1>5, <1>6 DEF LegacyKeeps, LegacyKnown, ToldTypes, HostDisables
  <2> QED
    BY <1>1, <1>5, <1>6, <2>1, LegacyStepSafe DEF HostDisables
<1>7. CASE UNCHANGED <<legacy_advertiser_, told>>
  BY <1>1, <1>7, SetsUnchangedSafe
<1>8. ASSUME NEW a \in LegacyAddresses, legacy_advertiser_' = on(a), HostEnables({Legacy})
      PROVE  IInv' /\ Stable
  <2>1. LegacyKeeps(legacy_advertiser_') /\ LegacyKnown' /\ ToldTypes'
    BY <1>1, <1>4, <1>8 DEF LegacyKeeps, LegacyKnown, ToldTypes, HostEnables
  <2> QED
    BY <1>1, <1>4, <1>8, <2>1, LegacyStepSafe DEF HostEnables
<1> QED
  BY <1>2, <1>6, <1>7, <1>8

\* The timeout of the legacy advertiser runs out.
LEMMA LegacyExpiresSafe ==
  ASSUME IInv, UNCHANGED host, LegacyExpires
  PROVE  IInv' /\ Stable
<1>1. /\ UNCHANGED <<extended_advertisers_, addresses, told, host>>
      /\ legacy_advertising_in_use_' \in BOOLEAN /\ extended_advertising_in_use_' \in BOOLEAN
      /\ legacy_advertiser_ \in LegacyAdvertiser
  BY DEF LegacyExpires, IInv, TypeOK, modes
<1>2. /\ legacy_advertiser_' \in LegacyAdvertiser
      /\ legacy_advertiser_'.enable <=> legacy_advertiser_.enable
      /\ LegacyKeeps(legacy_advertiser_')
  BY <1>1 DEF LegacyExpires, LegacyAdvertiser, Timeout, LegacyKeeps
<1>3. LegacyKnown' /\ ToldTypes'
  BY <1>1, <1>2 DEF IInv, TypeOK, HostKnows, LegacyKnown, ToldTypes, told
<1> QED
  BY <1>1, <1>2, <1>3, LegacyStepSafe DEF told

\* LeAdvertising: every set that a Tick disables is reported.
LEMMA TickSafe ==
  ASSUME IInv, UNCHANGED host, NEW due \in SUBSET Sets, LeAdvertising(due)
  PROVE  IInv' /\ Stable
<1> DEFINE set(h) == extended_advertisers_[h]
           Ends(h) == TimedOut(set(h)) \/ MaxReached(set(h))
           next(h) == extended_advertisers_'[h]
           off == [legacy_advertiser_ EXCEPT !.enable = FALSE]
<1>1. /\ UNCHANGED <<addresses, host>> /\ legacy_advertiser_ \in LegacyAdvertiser
      /\ legacy_advertising_in_use_' \in BOOLEAN /\ extended_advertising_in_use_' \in BOOLEAN
      /\ ToldTypes /\ Legacy \notin Handles
      /\ extended_advertisers_ \in [Handles -> ExtendedAdvertiser \cup {None}]
  BY NamesAssumption DEF LeAdvertising, IInv, TypeOK, ToldTypes, modes
<1>2. /\ extended_advertisers_' = [h \in Handles |-> next(h)]
      /\ \A h \in Sets : next(h) = AfterTick(set(h), h \in due)
      /\ \A h \in Handles \ Sets : next(h) = None
  BY ZenonT(60) DEF LeAdvertising, Sets
<1>3. /\ \A h \in Handles :
           IF h \in Sets /\ Ends(h) THEN h \in hostSees' => h \in unreported'
           ELSE (h \in hostSees' <=> h \in hostSees) /\ (h \in unreported' <=> h \in unreported)
      /\ IF TimedOut(legacy_advertiser_) THEN Legacy \in hostSees' => Legacy \in unreported'
         ELSE (Legacy \in hostSees' <=> Legacy \in hostSees)
              /\ (Legacy \in unreported' <=> Legacy \in unreported)
      /\ ToldTypes'
  <2>1. \A x : x \in StoppedByTick <=>
           (x \in Sets /\ Ends(x)) \/ (x = Legacy /\ TimedOut(legacy_advertiser_))
    BY DEF StoppedByTick
  <2>2. /\ \A x : x \in hostSees' <=>
              /\ x \in hostSees
              /\ ~(x \in StoppedByTick
                   /\ IF x = Legacy THEN IsLeEventUnmasked("LE_CONNECTION_COMPLETE")
                      ELSE IsLeEventUnmasked("LE_ADVERTISING_SET_TERMINATED"))
        /\ \A x : x \in unreported' <=>
              \/ x \in unreported
              \/ x \in StoppedByTick
                 /\ ~(IF x = Legacy THEN IsLeEventUnmasked("LE_CONNECTION_COMPLETE")
                      ELSE IsLeEventUnmasked("LE_ADVERTISING_SET_TERMINATED"))
        /\ le_event_mask_' = le_event_mask_
    BY DEF LeAdvertising, Stops, IsLeEventUnmasked
  <2> HIDE DEF Ends
  <2>3. \A h \in Handles : h # Legacy
    BY <1>1
  <2>4. ToldTypes'
    BY <1>1, <2>1, <2>2, SMTT(30) DEF ToldTypes, Sets
  <2> QED
    BY <1>1, <2>1, <2>2, <2>3, <2>4 DEF Sets
<1>4. ASSUME NEW h \in Sets
      PROVE  /\ Good(next(h))
             /\ Ends(h) => ~next(h).enable
             /\ ~Ends(h) => Keeps(set(h), next(h)) /\ (next(h).enable <=> set(h).enable)
  <2>1. Good(set(h))
    BY DEF IInv
  <2>2. CASE Ends(h)
    <3>1. next(h) = [set(h) EXCEPT !.enable = FALSE]
      BY <1>2, <2>2, ZenonT(60) DEF AfterTick
    <3>2. Good(next(h)) /\ ~next(h).enable
      BY <2>1, <3>1, DisabledIsGood
    <3> QED
      BY <2>2, <3>2
  <2>3. CASE ~Ends(h) /\ set(h).enable /\ h \in due
    <3>1. next(h) = [set(h) EXCEPT !.num = (@ + 1) % Counter]
      BY <1>2, <2>3, ZenonT(60) DEF AfterTick
    <3>2. Follows(set(h), next(h))
      BY <2>1, <3>1, CountFollows
    <3> QED
      BY <2>3, <3>2 DEF Follows
  <2>4. CASE ~Ends(h) /\ ~(set(h).enable /\ h \in due)
    <3>1. next(h) = set(h)
      BY <1>2, <2>4, ZenonT(60) DEF AfterTick
    <3> QED
      BY <2>1, <2>4, <3>1 DEF Keeps
  <2> QED
    BY <2>2, <2>3, <2>4
<1>5. SetsKeep
  BY <1>2, <1>4 DEF SetsKeep, Sets, Good
<1>6. /\ off \in LegacyAdvertiser /\ ~off.enable
      /\ legacy_advertiser_' = IF TimedOut(legacy_advertiser_) THEN off ELSE legacy_advertiser_
  BY <1>1, LegacyDisabled DEF LeAdvertising
<1> HIDE DEF off
<1>7. LegacyKeeps(legacy_advertiser_') /\ legacy_advertiser_' \in LegacyAdvertiser
  BY <1>1, <1>6 DEF LegacyKeeps
<1>8. \A h \in Sets : Ends(h) => set(h).enable
  BY DEF TimedOut, MaxReached
<1>9. HostKnows'
  <2>1. LegacyKnown'
    BY <1>3, <1>6 DEF IInv, HostKnows, LegacyKnown, TimedOut
  <2>2. \A h \in Sets : next(h) # None
    BY <1>4, NoneAssumption DEF Good
  <2>3. \A h \in Handles : IF next(h) # None /\ next(h).enable THEN h \in hostSees'
                           ELSE h \in hostSees' => h \in unreported'
    BY <1>2, <1>3, <1>4, <2>2 DEF IInv, HostKnows, Sets
  <2> QED
    BY <2>1, <2>3 DEF HostKnows, LegacyKnown, Sets
<1> QED
  BY <1>1, <1>3, <1>5, <1>7, <1>9, StepSafe

\* A connection request ends one advertisement and is reported.
LEMMA ConnectSafe ==
  ASSUME IInv, UNCHANGED host, NEW initiator, NEW a, IncomingLeConnectPacket(initiator, a)
  PROVE  IInv' /\ Stable
<1>1. /\ UNCHANGED <<addresses, host>> /\ legacy_advertiser_ \in LegacyAdvertiser
      /\ legacy_advertising_in_use_' \in BOOLEAN /\ extended_advertising_in_use_' \in BOOLEAN
      /\ ToldTypes /\ Legacy \notin Handles
      /\ extended_advertisers_ \in [Handles -> ExtendedAdvertiser \cup {None}]
  BY NamesAssumption DEF IncomingLeConnectPacket, IInv, TypeOK, ToldTypes, modes
<1>2. ASSUME legacy_advertiser_' = [legacy_advertiser_ EXCEPT !.enable = FALSE],
             NEW reported, Stops({Legacy}, reported), reported \subseteq {Legacy},
             IsLeEventUnmasked("LE_CONNECTION_COMPLETE") => Legacy \in reported,
             UNCHANGED extended_advertisers_
      PROVE  IInv' /\ Stable
  <2>1. legacy_advertiser_' \in LegacyAdvertiser /\ ~legacy_advertiser_'.enable
    BY <1>1, <1>2, LegacyDisabled
  <2>2. LegacyKeeps(legacy_advertiser_') /\ LegacyKnown' /\ ToldTypes'
    BY <1>1, <1>2, <2>1 DEF LegacyKeeps, LegacyKnown, ToldTypes, Stops
  <2> QED
    BY <1>1, <1>2, <2>1, <2>2, LegacyStepSafe DEF Stops
<1>3. ASSUME NEW h \in Sets, UNCHANGED legacy_advertiser_,
             Stops({h}, {g \in {h} : IsLeEventUnmasked("LE_ADVERTISING_SET_TERMINATED")}),
             extended_advertisers_' = Put(h, [extended_advertisers_[h] EXCEPT !.enable = FALSE])
      PROVE  IInv' /\ Stable
  <2> DEFINE b == [extended_advertisers_[h] EXCEPT !.enable = FALSE]
  <2>1. Good(b) /\ ~b.enable /\ h \in Handles
    BY DisabledIsGood DEF IInv, Sets
  <2> HIDE DEF b
  <2>2. /\ extended_advertisers_' \in [Handles -> ExtendedAdvertiser \cup {None}]
        /\ extended_advertisers_'[h] = b
        /\ \A g \in Handles \ {h} : extended_advertisers_'[g] = extended_advertisers_[g]
    BY <1>1, <1>3, <2>1 DEF Put, Good, b
  <2>3. SetsKeep /\ LegacyKeeps(legacy_advertiser_')
    BY <1>3, <2>1, <2>2, ZenonT(60) DEF SetsKeep, IInv, Sets, Keeps, LegacyKeeps
  <2>4. HostKnows' /\ ToldTypes'
    BY <1>1, <1>3, <2>1, <2>2, ZenonT(60) DEF IInv, HostKnows, Sets, Stops, ToldTypes
  <2> QED
    BY <1>1, <1>3, <2>3, <2>4, StepSafe
<1> QED
  BY <1>2, <1>3, ZenonT(60) DEF IncomingLeConnectPacket

\* The state of a controller that has been reset, or started, satisfies the
\* invariant.
LEMMA FreshIsGood == Fresh => IInv
<1> SUFFICES ASSUME Fresh PROVE IInv
  OBVIOUS
<1> USE DEF Fresh
<1>1. /\ legacy_advertising_in_use_ \in BOOLEAN /\ extended_advertising_in_use_ \in BOOLEAN
      /\ le_resolving_list_enabled_ \in BOOLEAN /\ ~le_resolving_list_enabled_
  BY ZenonT(60)
<1>2. Sets = {}
  BY DEF Sets
<1>3. legacy_advertiser_ \in LegacyAdvertiser /\ ~legacy_advertiser_.enable
  <2> DEFINE no == FALSE
  <2>1. legacy_advertiser_ = [enable |-> no, type |-> "IND", own |-> "public", peer |-> None,
                              address |-> None, timeout |-> "none"]
    BY DEF NewLegacy
  <2>2. no \in BOOLEAN /\ ~no
    OBVIOUS
  <2> HIDE DEF no
  <2> QED
    BY <2>1, <2>2 DEF LegacyAdvertiser, AdvType, Own, Address, Timeout
<1>4. TypeOK
  BY <1>1, <1>3 DEF TypeOK, DefaultMask
<1>5. HostKnows /\ AddressesCurrent
  BY <1>1, <1>2, <1>3 DEF HostKnows, AddressesCurrent
<1> QED
  BY <1>2, <1>4, <1>5 DEF IInv

\* The initial states satisfy the invariant.
LEMMA InitIInv == Init => IInv
BY FreshIsGood DEF Init, Fresh

\* LE commands and HCI_Reset, ticks and packets keep the invariant and IdentityStable.
LEMMA NextSafe ==
  ASSUME IInv, [Next]_vars
  PROVE  IInv' /\ Stable
<1>1. ASSUME LegacyCommand, UNCHANGED host PROVE IInv' /\ Stable
  <2>1. host.own \subseteq Own
    BY HostTypes
  <2> QED
    BY <1>1, <2>1, LegacyParametersSafe, LegacyEnableSafe, AddressCommandSafe, MaskSafe DEF LegacyCommand
<1>2. ASSUME Reset, UNCHANGED host PROVE IInv' /\ Stable
  <2>1. Fresh'
    BY <1>2 DEF Reset, Fresh, IInv
  <2>2. Fresh' => IInv'
    BY FreshIsGood, PTL
  <2>3. Stable
    <3>1. /\ legacy_advertiser_' = NewLegacy /\ \A h \in Handles : extended_advertisers_'[h] = None
      BY <1>2 DEF Reset
    <3>2. ~legacy_advertiser_'.enable
      BY <3>1 DEF NewLegacy
    <3> QED
      BY <3>1, <3>2 DEF Stable
  <2> QED
    BY <2>1, <2>2, <2>3
<1>3. ASSUME TimePasses, UNCHANGED host PROVE IInv' /\ Stable
  BY <1>3, LegacyExpiresSafe, OneSetSafe DEF TimePasses
<1>4. CASE UNCHANGED vars
  <2>1. /\ UNCHANGED <<extended_advertisers_, legacy_advertiser_, addresses, told, host>>
        /\ legacy_advertising_in_use_' \in BOOLEAN /\ extended_advertising_in_use_' \in BOOLEAN
    BY <1>4 DEF vars, modes, IInv, TypeOK
  <2> QED
    BY <2>1, SetsUnchangedSafe
<1>5. CASE Next
  BY <1>1, <1>2, <1>3, <1>5, AddressCommandSafe, SetCommandSafe, PeriodicSafe, TickSafe, ConnectSafe
     DEF Next, Tick
<1> QED
  BY <1>4, <1>5

-----------------------------------------------------------------------------
(* The theorems.                                                           *)

\* The invariant holds in every reachable state.
LEMMA Inductive == Spec => []IInv
<1>1. IInv /\ [Next]_vars => IInv'
  BY NextSafe
<1> QED
  BY <1>1, InitIInv, PTL DEF Spec

\* What LeSetExtendedAdvertisingEnable requires of a set stays true of it, and its
\* data fits its type, for any sets, any data lengths and any capacity.
THEOREM AlwaysReady == Spec => []EnabledIsReady
<1>1. IInv => EnabledIsReady
  BY DEF IInv, EnabledIsReady, Good
<1> QED
  BY <1>1, Inductive, PTL

\* For any number of sets and any event masks, the host can tell from completes and
\* events which advertisers are enabled, but for those that stopped while it had
\* their event masked.
THEOREM HostAlwaysKnows == Spec => []HostKnows
<1>1. IInv => HostKnows
  BY DEF IInv
<1> QED
  BY <1>1, Inductive, PTL

\* For any lists and addresses, no command, rejected ones included, changes the
\* identity that an enabled advertisement shows while address resolution is enabled.
THEOREM IdentityAlwaysStable == Spec => IdentityStable
<1>1. IInv /\ [Next]_vars => Stable
  BY NextSafe
<1>2. Stable =>
        (le_resolving_list_enabled_ =>
           /\ \A h \in Handles :
                h \in Sets /\ extended_advertisers_[h].enable
                /\ extended_advertisers_'[h] # None /\ extended_advertisers_'[h].enable =>
                  SameIdentity(extended_advertisers_[h].address, extended_advertisers_'[h].address)
           /\ legacy_advertiser_.enable /\ legacy_advertiser_'.enable =>
                SameIdentity(legacy_advertiser_.address, legacy_advertiser_'.address))
  BY DEF Stable
<1> QED
  BY <1>1, <1>2, Inductive, PTL DEF Spec, IdentityStable
=============================================================================
