---------------------------- MODULE LeLink_proofs ----------------------------
(* Machine-checked proofs about LeLink, for any set of controllers, any    *)
(* handle range and any host behaviour.                                    *)
EXTENDS LeLink, FiniteSetTheorems, TLAPS

-----------------------------------------------------------------------------
(* The handle allocator.                                                   *)

\* Distance counts the allocator's steps: a natural number below the size of
\* the range.
LEMMA DistanceType ==
  ASSUME NEW from \in Handles, NEW h \in Handles
  PROVE  Distance(from, h) \in Nat
  BY RangeAssumption DEF Handles, Distance

\* A non-empty set of naturals has a least element.
LEMMA LeastNatural ==
  ASSUME NEW T, T \subseteq Nat, T # {}
  PROVE  \E x \in T : \A y \in T : x <= y
<1> DEFINE Less == {ss \in Nat \X Nat : ss[1] < ss[2]}
<1>1. IsWellFoundedOn(Less, Nat)
  BY NatLessThanWellFounded DEF OpToRel
<1>2. \A x \in T, y \in T : ~(<<y, x>> \in Less) => x <= y
  OBVIOUS
<1> HIDE DEF Less
<1>3. \E x \in T : \A y \in T : ~(<<y, x>> \in Less)
  BY <1>1, WFMin, ZenonT(60)
<1> QED
  BY <1>2, <1>3, ZenonT(60)

\* GetUnusedHandle returns a handle of the range that no connection uses,
\* whenever there is one, and the nearest after the last: the CHOOSE that stands
\* for the loop has a value.
LEMMA UnusedHandleIsFree ==
  ASSUME NEW used, NEW last \in Handles, Handles \ used # {}
  PROVE  /\ GetUnusedHandle(used, last) \in Handles \ used
         /\ \A g \in Handles \ used :
              Distance(last, GetUnusedHandle(used, last)) <= Distance(last, g)
<1> DEFINE D == {Distance(last, h) : h \in Handles \ used}
<1>1. D \subseteq Nat /\ D # {}
  BY DistanceType
<1>2. PICK d \in D : \A e \in D : d <= e
  <2> HIDE DEF D
  <2> QED
    BY <1>1, LeastNatural, ZenonT(60)
<1>3. PICK h \in Handles \ used : d = Distance(last, h)
  OBVIOUS
<1>4. \A g \in Handles \ used : Distance(last, h) <= Distance(last, g)
  BY <1>2, <1>3
<1> QED
  BY <1>4 DEF GetUnusedHandle

\* The handle tried next stays in the range.
LEMMA NextHandleType ==
  ASSUME NEW h \in Handles
  PROVE  NextHandle(h) \in Handles
  BY RangeAssumption DEF NextHandle, Handles

-----------------------------------------------------------------------------
(* One controller.  Sound is the inductive invariant of a controller: its  *)
(* fields have their types, its link layer knows the connections of its    *)
(* table, and each connection has a keepalive check.                       *)

Sound(s) ==
  /\ s \in Controller
  /\ s.ll = Connected(s)
  /\ \A h \in Connected(s) : s.checks[h] > 0

\* Deferring tasks keeps a controller sound.
LEMMA SendTasksSound ==
  ASSUME NEW s, Sound(s), NEW ts \in Seq(Task)
  PROVE  /\ Sound(SendTasks(s, ts))
         /\ SendTasks(s, ts).tasks = s.tasks \o ts
<1>1. s.tasks \o ts \in Seq(Task)
  BY DEF Sound, Controller
<1>2. SendTasks(s, ts) \in Controller
  BY <1>1, ZenonT(60) DEF Sound, Controller, SendTasks
<1>3. /\ SendTasks(s, ts).connections = s.connections
      /\ SendTasks(s, ts).ll = s.ll
      /\ SendTasks(s, ts).checks = s.checks
      /\ SendTasks(s, ts).tasks = s.tasks \o ts
  BY DEF Sound, Controller, SendTasks
<1> QED
  BY <1>2, <1>3 DEF Sound, Connected

\* So does adding a connection the sound way: a free handle, its checks armed.
LEMMA AddLinkSound ==
  ASSUME NEW s, Sound(s), NEW h \in Handles, NEW c \in Connection, NEW last \in Handles,
         NEW i \in Initiator
  PROVE  Sound([AddLink(s, h, c) EXCEPT !.last = last, !.checks[h] = @ + 1,
                                        !.host = @ \cup {h}, !.initiator = i])
<1> DEFINE t == [AddLink(s, h, c) EXCEPT !.last = last, !.checks[h] = @ + 1,
                                         !.host = @ \cup {h}, !.initiator = i]
<1>1. t \in Controller
  <2>1. /\ [s.connections EXCEPT ![h] = c] \in [Handles -> Connection \cup {None}]
        /\ [s.checks EXCEPT ![h] = @ + 1] \in [Handles -> Nat]
        /\ s.host \cup {h} \in SUBSET Handles
        /\ s.ll \cup {h} \in SUBSET Handles
    BY DEF Sound, Controller
  <2>2. t = [s EXCEPT !.connections = [s.connections EXCEPT ![h] = c],
                      !.ll = s.ll \cup {h}, !.last = last,
                      !.checks = [s.checks EXCEPT ![h] = @ + 1],
                      !.host = s.host \cup {h}, !.initiator = i]
    BY DEF Sound, Controller, AddLink
  <2> HIDE DEF t
  <2> QED
    BY <2>1, <2>2, ZenonT(60) DEF Sound, Controller
<1>2. /\ t.connections = [s.connections EXCEPT ![h] = c]
      /\ t.ll = s.ll \cup {h}
      /\ t.checks = [s.checks EXCEPT ![h] = @ + 1]
  BY DEF Sound, Controller, AddLink
<1> HIDE DEF t
<1>3. s.connections \in [Handles -> Connection \cup {None}] /\ s.checks \in [Handles -> Nat]
  BY DEF Sound, Controller
<1>4. c # None
  BY NoneAssumption
<1>5. Sound(t)
  BY <1>1, <1>2, <1>3, <1>4 DEF Sound, Connected
<1> QED
  BY <1>5 DEF t

\* So does removing a connection.
LEMMA RemoveLinkSound ==
  ASSUME NEW s, Sound(s), NEW h \in Handles
  PROVE  /\ Sound(RemoveLink(s, h))
         /\ RemoveLink(s, h).tasks = s.tasks
         /\ RemoveLink(s, h).checks = s.checks
         /\ Connected(RemoveLink(s, h)) = Connected(s) \ {h}
  BY NoneAssumption, ZenonT(60) DEF Sound, Controller, RemoveLink, Connected

\* Changing the initiator or the advertiser leaves the connections alone.
LEMMA InitiatorSound ==
  ASSUME NEW s, Sound(s), NEW i \in Initiator
  PROVE  /\ Sound([s EXCEPT !.initiator = i])
         /\ [s EXCEPT !.initiator = i].tasks = s.tasks
  BY ZenonT(60) DEF Sound, Controller, Connected

\* So does changing the legacy advertiser.
LEMMA AdvertiserSound ==
  ASSUME NEW s, Sound(s), NEW a \in Advertiser
  PROVE  /\ Sound([s EXCEPT !.advertiser = a])
         /\ [s EXCEPT !.advertiser = a].tasks = s.tasks
  BY ZenonT(60) DEF Sound, Controller, Connected

\* Every packet and event the controllers schedule is a Task.
LEMMA TaskType ==
  /\ \A k \in PduKind \ {"ADV"}, a, b \in Ctrl : <<Pdu(k, a, b)>> \in Seq(Task)
  /\ \A y \in AdvertisingType, a \in Ctrl, b \in Ctrl \cup {None} :
       <<AdvPdu(y, a, b)>> \in Seq(Task)
  /\ \A h \in Handles : <<DisconnectionComplete(h)>> \in Seq(Task)
  /\ <<CreateConnectionCancelled>> \in Seq(Task)
<1>1. \A k \in PduKind \ {"ADV"}, a, b \in Ctrl : Pdu(k, a, b) \in Task
  BY DEF Pdu, Task
<1>2. \A y \in AdvertisingType, a \in Ctrl, b \in Ctrl \cup {None} : AdvPdu(y, a, b) \in Task
  BY DEF AdvPdu, Task
<1>3. \A h \in Handles : DisconnectionComplete(h) \in Task
  BY DEF DisconnectionComplete, Task
<1>4. CreateConnectionCancelled \in Task
  BY DEF Task
<1> QED
  BY <1>1, <1>2, <1>3, <1>4

\* A new connection is added under a free handle with a keepalive check.
LEMMA HandleLeConnectionSound ==
  ASSUME NEW s, Sound(s), HasUnusedHandle(s),
         NEW a \in Ctrl, NEW b \in Ctrl, NEW role \in {"CENTRAL", "PERIPHERAL"}
  PROVE  Sound(HandleLeConnection(s, a, b, role))
<1> DEFINE h == GetUnusedHandle(Connected(s), s.last)
           c == [address |-> a, own_address |-> b, role |-> role,
                 age |-> "fresh", pings |-> 0]
           i == [s.initiator EXCEPT !.initiating_address = IF @ = b THEN None ELSE @]
<1>1. h \in Handles
  BY UnusedHandleIsFree DEF HasUnusedHandle, Sound, Controller
<1>2. NextHandle(h) \in Handles
  BY <1>1, NextHandleType
<1>3. c \in Connection
  BY DEF Connection
<1>4. i \in Initiator
  BY ZenonT(60) DEF Sound, Controller, Initiator
<1>5. HandleLeConnection(s, a, b, role)
        = [AddLink(s, h, c) EXCEPT !.last = NextHandle(h), !.checks[h] = @ + 1,
                                   !.host = @ \cup {h}, !.initiator = i]
  BY DEF HandleLeConnection, AddLink, Sound, Controller, Initiator
<1> HIDE DEF h, c, i
<1>6. Sound([AddLink(s, h, c) EXCEPT !.last = NextHandle(h), !.checks[h] = @ + 1,
                                     !.host = @ \cup {h}, !.initiator = i])
  BY <1>1, <1>2, <1>3, <1>4, AddLinkSound, ZenonT(60)
<1> QED
  BY <1>5, <1>6

\* The connection HandleLeConnection makes is one of the type.
LEMMA ConnectionType ==
  ASSUME NEW s, Sound(s), NEW h \in Connected(s)
  PROVE  /\ h \in Handles
         /\ s.connections[h] \in Connection
         /\ s.connections[h].address \in Ctrl /\ s.connections[h].own_address \in Ctrl
  BY DEF Sound, Controller, Connected, Connection

\* ConnectIncomingLeLegacyAdvertisingPdu and ProcessIncomingLegacyConnectRequest
\* keep a controller sound.
LEMMA IncomingAdvSound ==
  ASSUME NEW s, Sound(s), NEW d \in Ctrl, NEW p \in Task, p.kind = "ADV"
  PROVE  Sound(IncomingLeLegacyAdvertisingPdu(s, d, p))
<1>1. CASE ~WouldConnect(s, d, p)
  BY <1>1 DEF IncomingLeLegacyAdvertisingPdu
<1>2. CASE WouldConnect(s, d, p)
  <2> DEFINE i == [s.initiator EXCEPT !.pending_connect_request = p.src,
                                      !.initiating_address = d]
             t == [s EXCEPT !.initiator = i]
  <2>1. p.src \in Ctrl
    BY DEF Task, PduKind, LinkedPdu, CreateConnectionCancelled
  <2>2. i \in Initiator
    BY <2>1, ZenonT(60) DEF Sound, Controller, Initiator
  <2>3. IncomingLeLegacyAdvertisingPdu(s, d, p) = SendTasks(t, <<Pdu("LE_CONNECT", d, p.src)>>)
    BY <1>2, ZenonT(60) DEF IncomingLeLegacyAdvertisingPdu, Sound, Controller
  <2> HIDE DEF i
  <2>4. Sound(t)
    BY <2>2, InitiatorSound
  <2>5. <<Pdu("LE_CONNECT", d, p.src)>> \in Seq(Task)
    BY <2>1, TaskType DEF PduKind
  <2> HIDE DEF t
  <2> QED
    BY <2>3, <2>4, <2>5, SendTasksSound, ZenonT(60)
<1> QED
  BY <1>1, <1>2

\* IncomingLeConnectPacket keeps a controller sound.
LEMMA IncomingConnectSound ==
  ASSUME NEW s, Sound(s), NEW d \in Ctrl, NEW p \in Task, p.kind = "LE_CONNECT",
         CanHandle(s, d, p)
  PROVE  Sound(IncomingLeConnectPacket(s, d, p))
<1>1. CASE ~AcceptsConnect(s, d, p)
  BY <1>1 DEF IncomingLeConnectPacket
<1>2. CASE AcceptsConnect(s, d, p)
  <2> DEFINE t == HandleLeConnection(s, p.src, p.dst, "PERIPHERAL")
             u == SendTasks(t, <<Pdu("LE_CONNECT_COMPLETE", p.dst, p.src)>>)
             a == [u.advertiser EXCEPT !.enable = FALSE]
  <2>1. p.src \in Ctrl /\ p.dst \in Ctrl
    BY DEF Task, PduKind, LinkedPdu, CreateConnectionCancelled
  <2>2. HasUnusedHandle(s)
    BY <1>2 DEF CanHandle
  <2>3. Sound(t)
    BY <2>1, <2>2, HandleLeConnectionSound
  <2>4. <<Pdu("LE_CONNECT_COMPLETE", p.dst, p.src)>> \in Seq(Task)
    BY <2>1, TaskType DEF PduKind
  <2> HIDE DEF t
  <2>5. Sound(u)
    BY <2>3, <2>4, SendTasksSound, ZenonT(60)
  <2> HIDE DEF u
  <2>6. a \in Advertiser
    BY <2>5, ZenonT(60) DEF Sound, Controller, Advertiser
  <2>7. Sound([u EXCEPT !.advertiser = a])
    BY <2>5, <2>6, AdvertiserSound, ZenonT(60)
  <2>8. IncomingLeConnectPacket(s, d, p) = [u EXCEPT !.advertiser = a]
    BY <1>2 DEF IncomingLeConnectPacket, u, t
  <2> QED
    BY <2>7, <2>8
<1> QED
  BY <1>1, <1>2

\* IncomingLeConnectCompletePacket does.
LEMMA IncomingCompleteSound ==
  ASSUME NEW s, Sound(s), NEW d \in Ctrl, NEW p \in Task, p.kind = "LE_CONNECT_COMPLETE",
         CanHandle(s, d, p)
  PROVE  Sound(IncomingLeConnectCompletePacket(s, p))
<1>1. CASE IgnoresConnectComplete(s, p)
  BY <1>1 DEF IncomingLeConnectCompletePacket
<1>2. CASE ~IgnoresConnectComplete(s, p)
  <2> DEFINE t == HandleLeConnection(s, p.src, p.dst, "CENTRAL")
             i == [t.initiator EXCEPT !.pending_connect_request = None,
                                      !.connect_enable = FALSE]
  <2>1. p.src \in Ctrl /\ p.dst \in Ctrl
    BY DEF Task, PduKind, LinkedPdu, CreateConnectionCancelled
  <2>2. HasUnusedHandle(s)
    BY <1>2 DEF CanHandle
  <2>3. Sound(t)
    BY <2>1, <2>2, HandleLeConnectionSound
  <2> HIDE DEF t
  <2>4. i \in Initiator
    <3>1. t.initiator \in Initiator
      BY <2>3 DEF Sound, Controller
    <3> QED
      BY <3>1, ZenonT(60) DEF Initiator
  <2>5. Sound([t EXCEPT !.initiator = i])
    BY <2>3, <2>4, InitiatorSound
  <2>6. IncomingLeConnectCompletePacket(s, p) = [t EXCEPT !.initiator = i]
    BY <1>2, <2>3, ZenonT(60) DEF IncomingLeConnectCompletePacket, t, Sound, Controller, Initiator
  <2> QED
    BY <2>5, <2>6
<1> QED
  BY <1>1, <1>2

\* ResetLinkTimer does.
LEMMA ResetLinkTimerSound ==
  ASSUME NEW s, Sound(s), NEW h \in Connected(s)
  PROVE  Sound(ResetLinkTimer(s, h))
<1> DEFINE c == [s.connections[h] EXCEPT !.age = "fresh", !.pings = 0]
           t == [s EXCEPT !.connections = [s.connections EXCEPT ![h] = c]]
<1>1. h \in Handles /\ s.connections[h] \in Connection
  BY ConnectionType
<1>2. c \in Connection
  BY <1>1, ZenonT(60) DEF Connection
<1>3. ResetLinkTimer(s, h) = t
  BY <1>1, ZenonT(60) DEF ResetLinkTimer, Sound, Controller, Connection
<1> HIDE DEF c
<1>4. t \in Controller /\ t.ll = s.ll /\ t.checks = s.checks
  BY <1>1, <1>2, ZenonT(60) DEF Sound, Controller
<1>5. Connected(t) = Connected(s)
  BY <1>1, <1>2, NoneAssumption DEF Sound, Controller, Connected
<1> HIDE DEF t
<1> QED
  BY <1>3, <1>4, <1>5 DEF Sound

\* The handlers of the packets of an established link do.
LEMMA IncomingLinkedSound ==
  ASSUME NEW s, Sound(s), NEW h \in Connected(s), NEW p \in Task, p.kind \in LinkedPdu
  PROVE  Sound(IncomingLinkedPacket(s, h, p))
<1>1. p.src \in Ctrl /\ p.dst \in Ctrl /\ h \in Handles
  BY ConnectionType DEF Task, PduKind, LinkedPdu, CreateConnectionCancelled
<1>2. Sound(SendTasks(RemoveLink(s, h), <<DisconnectionComplete(h)>>))
  BY <1>1, RemoveLinkSound, TaskType, SendTasksSound, ZenonT(60)
<1>3. <<Pdu("PING_RESPONSE", p.dst, p.src)>> \in Seq(Task)
  BY <1>1, TaskType DEF PduKind, LinkedPdu
<1>4. Sound(ResetLinkTimer(s, h))
  BY ResetLinkTimerSound
<1>5. Sound(SendTasks(ResetLinkTimer(s, h), <<Pdu("PING_RESPONSE", p.dst, p.src)>>))
  BY <1>3, <1>4, SendTasksSound, ZenonT(60)
<1> QED
  BY <1>2, <1>4, <1>5 DEF IncomingLinkedPacket

\* Whatever packet a controller receives, it stays sound.
LEMMA IncomingPacketSound ==
  ASSUME NEW s, Sound(s), NEW d \in Ctrl, NEW p \in Task, IsPdu(p),
         CanHandle(s, d, p), NEW h \in Lookup(s, p)
  PROVE  Sound(IncomingPacket(s, d, p, h))
<1>1. CASE p.kind = "ADV"
  BY <1>1, IncomingAdvSound DEF IncomingPacket
<1>2. CASE p.kind = "LE_CONNECT"
  BY <1>2, IncomingConnectSound DEF IncomingPacket
<1>3. CASE p.kind = "LE_CONNECT_COMPLETE"
  BY <1>3, IncomingCompleteSound DEF IncomingPacket
<1>4. CASE p.kind \in LinkedPdu /\ h # None
  <2>1. h \in Connected(s)
    BY <1>4 DEF Lookup, GetLeAclConnectionHandles
  <2>2. Sound(IncomingLinkedPacket(s, h, p))
    BY <1>4, <2>1, IncomingLinkedSound
  <2> QED
    BY <1>4, <2>2 DEF IncomingPacket, LinkedPdu
<1>5. CASE p.kind \in LinkedPdu /\ h = None
  BY <1>5 DEF IncomingPacket, LinkedPdu
<1> QED
  BY <1>1, <1>2, <1>3, <1>4, <1>5 DEF IsPdu, PduKind

\* LeController::Disconnect removes the connection from the table and from
\* the link layer, and only appends to the task queue.
LEMMA DisconnectSound ==
  ASSUME NEW s, Sound(s), NEW h \in Connected(s)
  PROVE  /\ Sound(Disconnect(s, h))
         /\ Len(Disconnect(s, h).tasks) >= Len(s.tasks)
         /\ Connected(Disconnect(s, h)) = Connected(s) \ {h}
         /\ Disconnect(s, h).checks = s.checks
<1> DEFINE ts == <<Pdu("DISCONNECT", s.connections[h].own_address, s.connections[h].address),
                   DisconnectionComplete(h)>>
           t == RemoveLink(s, h)
<1>1. h \in Handles /\ s.connections[h].address \in Ctrl /\ s.connections[h].own_address \in Ctrl
  BY ConnectionType
<1>2. ts \in Seq(Task)
  BY <1>1 DEF Pdu, DisconnectionComplete, Task, PduKind, LinkedPdu
<1>3. /\ Sound(t)
      /\ t.tasks = s.tasks
      /\ t.checks = s.checks
      /\ Connected(t) = Connected(s) \ {h}
  BY <1>1, RemoveLinkSound
<1>4. Disconnect(s, h) = SendTasks(t, ts)
  BY DEF Disconnect
<1> HIDE DEF t, ts
<1>5. /\ Sound(SendTasks(t, ts))
      /\ SendTasks(t, ts).tasks = t.tasks \o ts
  BY <1>2, <1>3, SendTasksSound, ZenonT(60)
<1>6. /\ SendTasks(t, ts).checks = t.checks
      /\ Connected(SendTasks(t, ts)) = Connected(t)
  BY <1>3 DEF SendTasks, Connected, Sound, Controller
<1>7. Len(t.tasks \o ts) >= Len(t.tasks)
  BY <1>2, <1>3 DEF Sound, Controller
<1> QED
  BY <1>3, <1>4, <1>5, <1>6, <1>7

\* A finite set of tasks is put in some order.
LEMMA IterationOrderType ==
  ASSUME NEW S, IsFiniteSet(S)
  PROVE  IterationOrder(S) \in [1..Cardinality(S) -> S] /\ Cardinality(S) \in Nat
<1>1. Cardinality(S) \in Nat /\ ExistsBijection(1..Cardinality(S), S)
  BY FS_CardinalityType
<1>2. \E f \in [1..Cardinality(S) -> S] : IsInjective(f)
  BY <1>1 DEF ExistsBijection, Bijection, Injection
<1> QED
  BY <1>1, <1>2 DEF IterationOrder

\* Sending every DISCONNECT of a lost device keeps it sound.
LEMMA DisconnectAllSound ==
  ASSUME NEW s, Sound(s)
  PROVE  Sound(DisconnectAll(s))
<1> DEFINE S == Connected(s)
           hs == IterationOrder(S)
           n == Cardinality(S)
           ts == [i \in DOMAIN hs |-> Pdu("DISCONNECT", s.connections[hs[i]].own_address,
                                                        s.connections[hs[i]].address)]
<1>1. IsFiniteSet(S)
  <2>1. IsFiniteSet(Handles)
    BY FS_Interval, RangeAssumption DEF Handles
  <2> QED
    BY <2>1, FS_Subset DEF Connected
<1>2. hs \in [1..n -> S] /\ n \in Nat
  BY <1>1, IterationOrderType
<1> HIDE DEF hs, n
<1>3. \A i \in 1..n : ts[i] \in Task
  BY <1>2, ConnectionType DEF Pdu, Task, PduKind, LinkedPdu
<1>4. ts \in [1..n -> Task]
  BY <1>2, <1>3
<1>5. ts \in Seq(Task)
  BY <1>2, <1>4
<1>6. DisconnectAll(s) = SendTasks(s, ts)
  BY DEF DisconnectAll, hs
<1> HIDE DEF ts
<1> QED
  BY <1>5, <1>6, SendTasksSound

\* HCI Reset does.
LEMMA ResetSound ==
  ASSUME NEW s, Sound(s)
  PROVE  Sound(ResetController(s))
<1> DEFINE t == DisconnectAll(s)
<1>1. Sound(t)
  BY DisconnectAllSound
<1>2. LegacyAdvertiser0 \in Advertiser /\ Initiator0 \in Initiator
  BY DEF LegacyAdvertiser0, Advertiser, AdvertisingType, Initiator0, Initiator
<1>3. kLeAclRangeStart \in Handles
  BY RangeAssumption DEF Handles
<1> HIDE DEF t
<1>4. NoConnections \in [Handles -> Connection \cup {None}]
  BY DEF NoConnections
<1>5. ResetController(s) \in Controller
  BY <1>1, <1>2, <1>3, <1>4, ZenonT(60) DEF ResetController, Sound, Controller, t
<1>6. ResetController(s).connections = NoConnections /\ ResetController(s).ll = {}
  BY <1>1 DEF ResetController, Sound, Controller, t
<1>7. Connected(ResetController(s)) = {}
  BY <1>6 DEF Connected, NoConnections
<1> QED
  BY <1>5, <1>6, <1>7 DEF Sound

\* The keepalive check keeps a controller sound: it gives up its place in
\* checks only when the connection is gone.
LEMMA CheckExpiringSound ==
  ASSUME NEW s, Sound(s), NEW h \in Handles, CheckFires(s, h)
  PROVE  /\ Sound(CheckExpiring(s, h))
         /\ Len(CheckExpiring(s, h).tasks) >= Len(s.tasks)
<1>0. s.checks \in [Handles -> Nat] /\ s.checks[h] > 0 /\ s.tasks \in Seq(Task)
  BY DEF CheckFires, Sound, Controller
<1>a. ASSUME NEW t, Sound(t), h \notin Connected(t), t.checks[h] > 0
      PROVE  /\ Sound([t EXCEPT !.checks[h] = @ - 1])
             /\ [t EXCEPT !.checks[h] = @ - 1].tasks = t.tasks
  <2> DEFINE u == [t EXCEPT !.checks[h] = @ - 1]
  <2>0. [t.checks EXCEPT ![h] = @ - 1] \in [Handles -> Nat]
    BY <1>a DEF Sound, Controller
  <2>1. u \in Controller /\ u.ll = t.ll /\ u.connections = t.connections /\ u.tasks = t.tasks
    BY <1>a, <2>0, ZenonT(60) DEF Sound, Controller
  <2>2. \A g \in Connected(t) : u.checks[g] = t.checks[g]
    BY <1>a DEF Sound, Controller, Connected
  <2> HIDE DEF u
  <2>3. Sound(u)
    BY <1>a, <2>1, <2>2 DEF Sound, Connected
  <2> QED
    BY <2>1, <2>3 DEF u
<1>1. CASE h \notin Connected(s)
  BY <1>0, <1>1, <1>a DEF CheckExpiring
<1>2. CASE h \in Connected(s) /\ s.connections[h].age = "expired"
  <2>1. /\ Sound(Disconnect(s, h))
        /\ Len(Disconnect(s, h).tasks) >= Len(s.tasks)
        /\ h \notin Connected(Disconnect(s, h))
        /\ Disconnect(s, h).checks[h] > 0
    BY <1>0, <1>2, DisconnectSound
  <2>2. CheckExpiring(s, h) = [Disconnect(s, h) EXCEPT !.checks[h] = @ - 1]
    BY <1>2 DEF CheckExpiring
  <2> QED
    BY <2>1, <2>2, <1>a
<1>3. CASE h \in Connected(s) /\ s.connections[h].age = "near"
  <2> DEFINE c == [s.connections[h] EXCEPT !.pings = @ + 1]
             t == [s EXCEPT !.connections = [s.connections EXCEPT ![h] = c]]
             ts == <<Pdu("PING_REQUEST", s.connections[h].own_address, s.connections[h].address)>>
  <2>1. c \in Connection
    BY <1>3, ConnectionType DEF Connection
  <2>2. CheckExpiring(s, h) = SendTasks(t, ts)
    BY <1>3 DEF CheckExpiring, Sound, Controller
  <2>3. ts \in Seq(Task)
    BY <1>3, ConnectionType, TaskType DEF PduKind, LinkedPdu
  <2> HIDE DEF c
  <2>4. /\ t \in Controller /\ t.ll = s.ll /\ t.checks = s.checks /\ t.tasks = s.tasks
        /\ Connected(t) = Connected(s)
    BY <1>3, <2>1, NoneAssumption, ZenonT(60) DEF Sound, Controller, Connected
  <2> HIDE DEF t, ts
  <2>5. Sound(t)
    BY <2>4 DEF Sound
  <2>6. Sound(SendTasks(t, ts)) /\ SendTasks(t, ts).tasks = s.tasks \o ts
    BY <2>3, <2>4, <2>5, SendTasksSound, ZenonT(60)
  <2> QED
    BY <1>0, <2>2, <2>3, <2>6
<1>4. CASE h \in Connected(s) /\ s.connections[h].age \notin {"expired", "near"}
  BY <1>0, <1>4 DEF CheckExpiring
<1> QED
  BY <1>1, <1>2, <1>3, <1>4

-----------------------------------------------------------------------------
(* The system.                                                             *)

\* The inductive invariant: every controller is sound, and the tasks a Tick
\* has still to run are in the queue (they are only appended to meanwhile).
IInv ==
  /\ DOMAIN ctl = Ctrl /\ ctl = [c \in Ctrl |-> ctl[c]]
  /\ \A c \in Ctrl : Sound(ctl[c])
  /\ phy \subseteq Ctrl /\ closing \subseteq phy
  /\ ticking \in phy \cup {None}
  /\ due \in Nat
  /\ ticking # None => due <= Len(ctl[ticking].tasks)
  /\ usage \in Usages

\* A new controller has no connection and no task.
LEMMA InitIInv == Init => IInv
<1> SUFFICES ASSUME Init PROVE IInv
  OBVIOUS
<1> DEFINE s == [advertiser |-> LegacyAdvertiser0, initiator |-> Initiator0,
                 connections |-> NoConnections, last |-> kLeAclRangeStart, ll |-> {},
                 checks |-> [h \in Handles |-> 0], tasks |-> <<>>, host |-> {}]
<1>1. LegacyAdvertiser0 \in Advertiser /\ Initiator0 \in Initiator
  BY DEF LegacyAdvertiser0, Advertiser, AdvertisingType, Initiator0, Initiator
<1>2. kLeAclRangeStart \in Handles
  BY RangeAssumption DEF Handles
<1>3. NoConnections \in [Handles -> Connection \cup {None}]
  BY DEF NoConnections
<1>4. s \in Controller
  BY <1>1, <1>2, <1>3 DEF Controller
<1>5. Connected(s) = {}
  BY DEF Connected, NoConnections
<1>6. Sound(s)
  BY <1>4, <1>5, ZenonT(60) DEF Sound
<1>7. ctl = [c \in Ctrl |-> s]
  BY DEF Init
<1> HIDE DEF s
<1> QED
  BY <1>6, <1>7, ZenonT(60) DEF Init, IInv

\* Replacing the state of one controller by a sound one keeps IInv, if the
\* Tick in progress still has its tasks.
LEMMA OneController ==
  ASSUME IInv, NEW c \in Ctrl, NEW s, Sound(s), ctl' = [ctl EXCEPT ![c] = s],
         ticking = c => Len(s.tasks) >= Len(ctl[c].tasks),
         UNCHANGED <<phy, closing, ticking, due, usage>>
  PROVE  IInv'
<1>1. DOMAIN ctl' = Ctrl /\ ctl' = [d \in Ctrl |-> ctl'[d]]
  BY DEF IInv
<1>2. ctl'[c] = s /\ \A d \in Ctrl \ {c} : ctl'[d] = ctl[d]
  BY DEF IInv
<1>3. \A d \in Ctrl : Sound(ctl'[d])
  BY <1>2 DEF IInv
<1>4. ticking # None => due <= Len(ctl'[ticking].tasks)
  <2>1. CASE ticking = c
    <3>1. due <= Len(ctl[c].tasks) /\ Len(s.tasks) >= Len(ctl[c].tasks) /\ due \in Nat
      BY <2>1, NoneAssumption DEF IInv
    <3>2. Len(ctl[c].tasks) \in Nat /\ Len(s.tasks) \in Nat
      BY DEF IInv, Sound, Controller
    <3> QED
      BY <1>2, <2>1, <3>1, <3>2
  <2>2. CASE ticking # c
    BY <1>2, <2>2 DEF IInv
  <2> QED
    BY <2>1, <2>2
<1> QED
  BY <1>1, <1>3, <1>4 DEF IInv

\* The host commands preserve the invariant.
LEMMA HostCommandIInv ==
  ASSUME IInv, NEW c \in Ctrl, HostCommand(c), UNCHANGED usage
  PROVE  IInv'
<1>0. Sound(ctl[c]) /\ ctl[c] \in Controller /\ ctl = [d \in Ctrl |-> ctl[d]]
  BY DEF IInv, Sound
<1>1. ASSUME NEW p \in usage.advertising[c], LeSetAdvertisingParameters(c, p)
      PROVE  IInv'
  <2> DEFINE a == [enable |-> FALSE, type |-> p.type, peer |-> p.peer, listed |-> p.listed]
             s == [ctl[c] EXCEPT !.advertiser = a]
  <2>1. a \in Advertiser
    BY <1>1, ParameterAssumption DEF IInv, Usage, AdvParameter, Advertiser
  <2>2. ctl' = [ctl EXCEPT ![c] = s]
    BY <1>1 DEF LeSetAdvertisingParameters
  <2> HIDE DEF a
  <2>3. Sound(s)
    BY <1>0, <2>1, AdvertiserSound
  <2> HIDE DEF s
  <2>4. ticking # c /\ UNCHANGED <<phy, closing, ticking, due>>
    BY <1>1, NoneAssumption DEF LeSetAdvertisingParameters, Idle
  <2> QED
    BY <2>2, <2>3, <2>4, OneController, ZenonT(60)
<1>2. ASSUME NEW b \in BOOLEAN, LeSetAdvertisingEnable(c, b)
      PROVE  IInv'
  <2> DEFINE a == [ctl[c].advertiser EXCEPT !.enable = b]
             s == [ctl[c] EXCEPT !.advertiser = a]
  <2>1. a \in Advertiser
    BY <1>0, ZenonT(60) DEF Controller, Advertiser
  <2>2. ctl' = [ctl EXCEPT ![c] = s]
    BY <1>2 DEF LeSetAdvertisingEnable
  <2> HIDE DEF a
  <2>3. Sound(s)
    BY <1>0, <2>1, AdvertiserSound
  <2> HIDE DEF s
  <2>4. ticking # c /\ UNCHANGED <<phy, closing, ticking, due>>
    BY <1>2, NoneAssumption DEF LeSetAdvertisingEnable, Idle
  <2> QED
    BY <2>2, <2>3, <2>4, OneController, ZenonT(60)
<1>3. ASSUME NEW p \in usage.create[c], LeCreateConnection(c, p)
      PROVE  IInv'
  <2> DEFINE i == [ctl[c].initiator EXCEPT !.connect_enable = TRUE, !.peer = p.peer,
                                           !.listed = p.listed,
                                           !.pending_connect_request = None]
             s == [ctl[c] EXCEPT !.initiator = i]
  <2>0. p \in CreateParameter
    BY <1>3, ParameterAssumption DEF IInv, Usage
  <2>1. i \in Initiator
    BY <1>0, <2>0, ZenonT(60) DEF Controller, CreateParameter, Initiator
  <2>2. ctl' = [ctl EXCEPT ![c] = s]
    BY <1>3 DEF LeCreateConnection
  <2> HIDE DEF i
  <2>3. Sound(s)
    BY <1>0, <2>1, InitiatorSound
  <2> HIDE DEF s
  <2>4. ticking # c /\ UNCHANGED <<phy, closing, ticking, due>>
    BY <1>3, NoneAssumption DEF LeCreateConnection, Idle
  <2> QED
    BY <2>2, <2>3, <2>4, OneController, ZenonT(60)
<1>4. CASE LeCreateConnectionCancel(c)
  <2> DEFINE i == [ctl[c].initiator EXCEPT !.connect_enable = FALSE]
             t == [ctl[c] EXCEPT !.initiator = i]
             s == SendTasks(t, <<CreateConnectionCancelled>>)
  <2>1. i \in Initiator
    <3>1. ctl[c].initiator \in Initiator
      BY <1>0 DEF Controller
    <3> QED
      BY <3>1, ZenonT(60) DEF Initiator
  <2>2. ctl' = [ctl EXCEPT ![c] = s]
    BY <1>4 DEF LeCreateConnectionCancel
  <2> HIDE DEF i
  <2>3. Sound(t)
    BY <1>0, <2>1, InitiatorSound
  <2> HIDE DEF t
  <2>4. Sound(s)
    BY <2>3, TaskType, SendTasksSound, ZenonT(60)
  <2> HIDE DEF s
  <2>5. ticking # c /\ UNCHANGED <<phy, closing, ticking, due>>
    BY <1>4, NoneAssumption DEF LeCreateConnectionCancel, Idle
  <2> QED
    BY <2>2, <2>4, <2>5, OneController, ZenonT(60)
<1>5. ASSUME NEW h \in Handles, HciDisconnect(c, h)
      PROVE  IInv'
  <2>1. Sound(Disconnect(ctl[c], h))
    BY <1>0, <1>5, DisconnectSound DEF HciDisconnect
  <2>2. ctl' = [ctl EXCEPT ![c] = Disconnect(ctl[c], h)]
    BY <1>5 DEF HciDisconnect
  <2>3. ticking # c /\ UNCHANGED <<phy, closing, ticking, due>>
    BY <1>5, NoneAssumption DEF HciDisconnect, Idle
  <2> QED
    BY <2>1, <2>2, <2>3, OneController, ZenonT(60)
<1>6. CASE Reset(c)
  <2>1. Sound(ResetController(ctl[c]))
    BY <1>0, ResetSound
  <2>2. ctl' = [ctl EXCEPT ![c] = ResetController(ctl[c])]
    BY <1>6 DEF Reset
  <2>3. ticking # c /\ UNCHANGED <<phy, closing, ticking, due>>
    BY <1>6, NoneAssumption DEF Reset, Idle
  <2> QED
    BY <2>1, <2>2, <2>3, OneController, ZenonT(60)
<1> QED
  BY <1>1, <1>2, <1>3, <1>4, <1>5, <1>6 DEF HostCommand

\* Running a task shortens the queue of the ticking controller by the task
\* that ran; the packet is handled by the other controllers.
LEMMA TailSound ==
  ASSUME NEW s, Sound(s), s.tasks # <<>>, NEW ho \in SUBSET Handles
  PROVE  /\ Sound([s EXCEPT !.tasks = Tail(@), !.host = ho])
         /\ Sound([s EXCEPT !.tasks = Tail(@)])
         /\ Len([s EXCEPT !.tasks = Tail(@), !.host = ho].tasks) = Len(s.tasks) - 1
         /\ Len([s EXCEPT !.tasks = Tail(@)].tasks) = Len(s.tasks) - 1
<1>1. s.tasks \in Seq(Task) /\ s \in Controller
  BY DEF Sound, Controller
<1>2. Tail(s.tasks) \in Seq(Task) /\ Len(Tail(s.tasks)) = Len(s.tasks) - 1
  BY <1>1
<1> DEFINE t == [s EXCEPT !.tasks = Tail(s.tasks), !.host = ho]
           u == [s EXCEPT !.tasks = Tail(s.tasks)]
<1>3. /\ t \in Controller /\ t.ll = s.ll /\ t.connections = s.connections
      /\ t.checks = s.checks /\ t.tasks = Tail(s.tasks)
  BY <1>1, <1>2, ZenonT(60) DEF Controller
<1>4. /\ u \in Controller /\ u.ll = s.ll /\ u.connections = s.connections
      /\ u.checks = s.checks /\ u.tasks = Tail(s.tasks)
  BY <1>1, <1>2, ZenonT(60) DEF Controller
<1> HIDE DEF t, u
<1>5. Sound(t) /\ Sound(u)
  BY <1>3, <1>4 DEF Sound, Connected
<1> QED
  BY <1>2, <1>3, <1>4, <1>5 DEF t, u

\* A deferred event that is sent does.
LEMMA SendEventIInv ==
  ASSUME IInv, SendEvent, UNCHANGED usage
  PROVE  IInv'
<1> DEFINE c == ticking
           ho == IF Head(ctl[c].tasks).kind = "DISCONNECTION_COMPLETE"
                 THEN ctl[c].host \ {Head(ctl[c].tasks).handle} ELSE ctl[c].host
           s == [ctl[c] EXCEPT !.tasks = Tail(@), !.host = ho]
<1>1. c \in Ctrl /\ due > 0 /\ due \in Nat /\ due <= Len(ctl[c].tasks)
  BY DEF SendEvent, IInv
<1>2. Sound(ctl[c]) /\ ctl[c].tasks \in Seq(Task) /\ ctl[c].host \in SUBSET Handles
  BY <1>1 DEF IInv, Sound, Controller
<1>3. ctl[c].tasks # <<>> /\ ho \in SUBSET Handles
  BY <1>1, <1>2
<1>4. ctl' = [ctl EXCEPT ![c] = s] /\ due' = due - 1 /\ UNCHANGED <<phy, closing, ticking>>
  BY DEF SendEvent
<1> HIDE DEF ho
<1>5. Sound(s) /\ Len(s.tasks) = Len(ctl[c].tasks) - 1
  BY <1>2, <1>3, TailSound, ZenonT(60)
<1> HIDE DEF s
<1>6. ctl'[c] = s /\ (\A d \in Ctrl : d # c => ctl'[d] = ctl[d])
      /\ DOMAIN ctl' = Ctrl /\ ctl' = [d \in Ctrl |-> ctl'[d]]
  BY <1>1, <1>4 DEF IInv
<1>7. \A d \in Ctrl : Sound(ctl'[d])
  BY <1>5, <1>6 DEF IInv
<1>8. due' \in Nat /\ due' <= Len(ctl'[ticking'].tasks)
  BY <1>1, <1>2, <1>4, <1>5, <1>6
<1> QED
  BY <1>4, <1>6, <1>7, <1>8 DEF IInv

\* A packet that is sent, and handled by every other device, does.
LEMMA SendPacketIInv ==
  ASSUME IInv, SendPacket, UNCHANGED usage
  PROVE  IInv'
<1> DEFINE c == ticking
           p == Head(ctl[c].tasks)
           s == [ctl[c] EXCEPT !.tasks = Tail(@)]
<1>1. c \in Ctrl /\ due > 0 /\ due \in Nat /\ due <= Len(ctl[c].tasks)
  BY DEF SendPacket, IInv
<1>2. Sound(ctl[c]) /\ ctl[c].tasks \in Seq(Task) /\ ctl[c].host \in SUBSET Handles
  BY <1>1 DEF IInv, Sound, Controller
<1>3. ctl[c].tasks # <<>> /\ p \in Task
  BY <1>1, <1>2
<1>4. Sound(s) /\ Len(s.tasks) = Len(ctl[c].tasks) - 1
  BY <1>2, <1>3, TailSound, ZenonT(60)
<1>5. PICK found \in [Ctrl -> Handles \cup {None}] :
        /\ \A d \in Ctrl : found[d] \in Lookup(ctl[d], p)
        /\ ctl' = [d \in Ctrl |->
                     CASE d = c -> s
                       [] d \in phy \ {c} -> IncomingPacket(ctl[d], d, p, found[d])
                       [] OTHER -> ctl[d]]
  BY ZenonT(60) DEF SendPacket
<1>6. IsPdu(p) /\ (\A d \in phy \ {c} : CanHandle(ctl[d], d, p))
      /\ due' = due - 1 /\ UNCHANGED <<phy, closing, ticking>>
  BY DEF SendPacket
<1> HIDE DEF p, s
<1>7. ASSUME NEW d \in Ctrl PROVE Sound(ctl'[d])
  <2>1. CASE d = c
    BY <1>4, <1>5, <2>1
  <2>2. CASE d \in phy \ {c}
    <3>1. Sound(IncomingPacket(ctl[d], d, p, found[d]))
      BY <1>3, <1>5, <1>6, <2>2, IncomingPacketSound, ZenonT(60) DEF IInv
    <3> QED
      BY <1>5, <2>2, <3>1
  <2>3. CASE d # c /\ d \notin phy
    BY <1>5, <2>3 DEF IInv
  <2> QED
    BY <2>1, <2>2, <2>3
<1>8. ctl'[c] = s /\ DOMAIN ctl' = Ctrl /\ ctl' = [d \in Ctrl |-> ctl'[d]]
  BY <1>1, <1>5
<1>9. due' \in Nat /\ due' <= Len(ctl'[ticking'].tasks)
  BY <1>1, <1>2, <1>4, <1>6, <1>8
<1> QED
  BY <1>6, <1>7, <1>8, <1>9 DEF IInv

\* The start of a Tick, and the loss and removal of a device, do.
LEMMA TickIInv ==
  ASSUME IInv, NEW c \in Ctrl, StartTick(c) \/ Close(c) \/ RemoveDevice(c),
         UNCHANGED usage
  PROVE  IInv'
<1>0. Sound(ctl[c]) /\ ctl = [d \in Ctrl |-> ctl[d]]
  BY DEF IInv
<1>1. CASE StartTick(c)
  <2>1. Len(ctl[c].tasks) \in Nat
    BY <1>0 DEF Sound, Controller
  <2> QED
    BY <1>1, <2>1 DEF StartTick, IInv
<1>2. CASE Close(c)
  <2> DEFINE s == DisconnectAll(ctl[c])
  <2>1. Sound(s)
    BY <1>0, DisconnectAllSound
  <2>2. ctl' = [ctl EXCEPT ![c] = s] /\ ticking' = c /\ phy' = phy /\ c \in phy
        /\ closing' = closing \cup {c} /\ due' = Len(ctl'[c].tasks)
    BY <1>2 DEF Close, Idle
  <2> HIDE DEF s
  <2>3. ctl'[c] = s /\ (\A d \in Ctrl : d # c => ctl'[d] = ctl[d])
        /\ DOMAIN ctl' = Ctrl /\ ctl' = [d \in Ctrl |-> ctl'[d]]
    BY <1>0, <2>2 DEF IInv
  <2>4. \A d \in Ctrl : Sound(ctl'[d])
    BY <2>1, <2>3 DEF IInv
  <2>5. due' \in Nat /\ due' <= Len(ctl'[c].tasks)
    BY <2>1, <2>2, <2>3 DEF Sound, Controller
  <2> QED
    BY <2>2, <2>3, <2>4, <2>5 DEF IInv
<1>3. CASE RemoveDevice(c)
  BY <1>3 DEF RemoveDevice, IInv
<1> QED
  BY <1>1, <1>2, <1>3

\* CheckExpiringConnection does.
LEMMA CheckIInv ==
  ASSUME IInv, NEW h \in Handles, CheckExpiringConnection(h), UNCHANGED usage
  PROVE  IInv'
<1>1. ticking \in Ctrl
  BY DEF CheckExpiringConnection, IInv
<1>2. Sound(CheckExpiring(ctl[ticking], h))
      /\ Len(CheckExpiring(ctl[ticking], h).tasks) >= Len(ctl[ticking].tasks)
  BY <1>1, CheckExpiringSound DEF CheckExpiringConnection, IInv
<1>3. /\ ctl' = [ctl EXCEPT ![ticking] = CheckExpiring(ctl[ticking], h)]
      /\ UNCHANGED <<phy, closing, ticking, due>>
  BY DEF CheckExpiringConnection
<1> QED
  BY <1>1, <1>2, <1>3, OneController, ZenonT(60)

\* LeAdvertising keeps the advertiser of the type.
LEMMA AdvertisingEventSound ==
  ASSUME NEW s, Sound(s), NEW c \in Ctrl
  PROVE  Sound(AdvertisingTimeout(s)) /\ Sound(AdvertisingEvent(s, c))
<1>1. Sound(AdvertisingTimeout(s))
  <2> DEFINE a == [s.advertiser EXCEPT !.enable = FALSE]
  <2>1. a \in Advertiser
    BY ZenonT(60) DEF Sound, Controller, Advertiser
  <2>2. Sound([s EXCEPT !.advertiser = a])
    BY <2>1, AdvertiserSound, ZenonT(60)
  <2> QED
    BY <2>2 DEF AdvertisingTimeout
<1>2. Sound(AdvertisingEvent(s, c))
  <2> DEFINE dst == IF s.advertiser.type = "ADV_DIRECT_IND" THEN s.advertiser.peer ELSE None
  <2>1. s.advertiser.type \in AdvertisingType /\ dst \in Ctrl \cup {None}
    BY DEF Sound, Controller, Advertiser
  <2> HIDE DEF dst
  <2>2. <<AdvPdu(s.advertiser.type, c, dst)>> \in Seq(Task)
    BY <2>1, TaskType
  <2>3. Sound(SendTasks(s, <<AdvPdu(s.advertiser.type, c, dst)>>))
    BY <2>2, SendTasksSound, ZenonT(60)
  <2> QED
    BY <2>3 DEF AdvertisingEvent, dst
<1> QED
  BY <1>1, <1>2

\* LeAdvertising preserves the invariant.
LEMMA AdvertisingIInv ==
  ASSUME IInv, NEW timeout \in BOOLEAN, NEW elapsed \in BOOLEAN, LeAdvertising(timeout, elapsed),
         UNCHANGED usage
  PROVE  IInv'
<1> DEFINE s == IF timeout THEN AdvertisingTimeout(ctl[ticking]) ELSE ctl[ticking]
           t == IF elapsed THEN AdvertisingEvent(s, ticking) ELSE s
<1>1. ticking \in Ctrl /\ due = 0 /\ ticking' = None /\ UNCHANGED <<phy, closing, due>>
  BY DEF LeAdvertising, IInv
<1>2. Sound(s)
  BY <1>1, AdvertisingEventSound DEF IInv
<1>3. ctl' = [ctl EXCEPT ![ticking] = t]
  BY DEF LeAdvertising
<1> HIDE DEF s
<1>4. Sound(t)
  BY <1>1, <1>2, AdvertisingEventSound
<1> HIDE DEF t
<1>5. \A d \in Ctrl : Sound(ctl'[d])
  BY <1>1, <1>3, <1>4 DEF IInv
<1>6. DOMAIN ctl' = Ctrl /\ ctl' = [d \in Ctrl |-> ctl'[d]]
  BY <1>3 DEF IInv
<1> QED
  BY <1>1, <1>5, <1>6 DEF IInv

\* The passing of time does.
LEMMA TimePassesIInv ==
  ASSUME IInv, NEW c \in Ctrl, NEW h \in Handles, TimePasses(c, h),
         UNCHANGED usage
  PROVE  IInv'
<1> DEFINE n == [ctl[c].connections[h] EXCEPT !.age = Older(@), !.pings = 0]
           s == [ctl[c] EXCEPT !.connections = [ctl[c].connections EXCEPT ![h] = n]]
<1>1. Sound(ctl[c]) /\ h \in Connected(ctl[c])
  BY DEF IInv, TimePasses
<1>2. n \in Connection
  <2>1. Older(ctl[c].connections[h].age) \in {"fresh", "near", "expired"}
    BY DEF Older
  <2>2. ctl[c].connections[h] \in Connection
    BY <1>1, ConnectionType
  <2> QED
    BY <2>1, <2>2, ZenonT(60) DEF Connection
<1>3. ctl' = [ctl EXCEPT ![c] = s]
  <2>1. Age(ctl[c], h) = s
    BY <1>1, ZenonT(60) DEF Age, Sound, Controller, Connected, Connection
  <2> QED
    BY <2>1 DEF TimePasses
<1> HIDE DEF n
<1>4. /\ s \in Controller /\ s.ll = ctl[c].ll /\ s.checks = ctl[c].checks
      /\ s.tasks = ctl[c].tasks
      /\ Connected(s) = Connected(ctl[c])
  BY <1>1, <1>2, NoneAssumption, ZenonT(60) DEF Sound, Controller, Connected
<1> HIDE DEF s
<1>5. Sound(s)
  BY <1>1, <1>4 DEF Sound
<1>6. ticking # c /\ UNCHANGED <<phy, closing, ticking, due>>
  BY NoneAssumption DEF TimePasses
<1> QED
  BY <1>3, <1>5, <1>6, OneController, ZenonT(60)

\* Every step keeps the invariant.
LEMMA NextIInv == IInv /\ [Next]_vars => IInv'
<1> SUFFICES ASSUME IInv, [Next]_vars PROVE IInv'
  OBVIOUS
<1>0. UNCHANGED usage
  BY DEF Next, vars
<1>1. ASSUME NEW c \in Ctrl, HostCommand(c) PROVE IInv'
  BY <1>0, <1>1, HostCommandIInv
<1>2. ASSUME NEW c \in Ctrl, StartTick(c) \/ Close(c) \/ RemoveDevice(c) PROVE IInv'
  BY <1>0, <1>2, TickIInv
<1>3. ASSUME NEW c \in Ctrl, NEW h \in Handles, TimePasses(c, h) PROVE IInv'
  BY <1>0, <1>3, TimePassesIInv
<1>4. CASE RunTask
  BY <1>0, <1>4, SendEventIInv, SendPacketIInv DEF RunTask
<1>5. ASSUME NEW h \in Handles, CheckExpiringConnection(h) PROVE IInv'
  BY <1>0, <1>5, CheckIInv
<1>6. ASSUME NEW timeout \in BOOLEAN, NEW elapsed \in BOOLEAN, LeAdvertising(timeout, elapsed)
      PROVE  IInv'
  BY <1>0, <1>6, AdvertisingIInv
<1>7. CASE UNCHANGED vars
  BY <1>7 DEF vars, IInv
<1> QED
  BY <1>1, <1>2, <1>3, <1>4, <1>5, <1>6, <1>7 DEF Next

\* The invariant holds in every reachable state.
LEMMA SpecIInv == Spec => []IInv
  BY InitIInv, NextIInv, PTL DEF Spec

\* Type correctness: in particular the allocator never leaves the LE-ACL
\* range and the queue holds only well-formed packets and events.
THEOREM TypeCorrect == Spec => []TypeOK
<1>1. IInv => TypeOK
  BY DEF IInv, TypeOK, Sound
<1> QED
  BY <1>1, SpecIInv, PTL

\* The ASSERTs on link_layer_add_link and link_layer_remove_link hold: the
\* Rust link layer and the connection table always agree.
THEOREM LinkLayerNeverDisagrees == Spec => []LinkLayerInSync
<1>1. IInv => TypeOK
  BY DEF IInv, TypeOK, Sound
<1>2. IInv => LinkLayerInSync
  BY <1>1 DEF IInv, LinkLayerInSync, Sound
<1> QED
  BY <1>2, SpecIInv, PTL

\* A connection of the table always has a keepalive check scheduled.
THEOREM KeepaliveNeverLost == Spec => []KeepaliveArmed
<1>1. IInv => KeepaliveArmed
  BY DEF IInv, KeepaliveArmed, Sound
<1> QED
  BY <1>1, SpecIInv, PTL

-----------------------------------------------------------------------------
(* The end of a connection is always reported.  What a step does to the    *)
(* table of connections and to the task queue of a controller is stated    *)
(* once, as Quiet (connections may go, tasks are deferred) or Grows (one   *)
(* connection more), for every operation of the model.                     *)

\* A packet or event is in a list of tasks.
Holds(ts, p) == \E i \in DOMAIN ts : ts[i] = p

SameLink(s, t, h) ==
  /\ t.connections[h].address = s.connections[h].address
  /\ t.connections[h].own_address = s.connections[h].own_address
  /\ t.connections[h].role = s.connections[h].role

\* The tasks ts are appended, the connections outside gone are kept, and
\* nothing is said to the host directly.
Quiet(s, t, ts, gone) ==
  /\ ts \in Seq(Task) /\ t.tasks = s.tasks \o ts
  /\ Connected(t) = Connected(s) \ gone
  /\ \A h \in Connected(t) : SameLink(s, t, h)
  /\ t.host = s.host

\* What an extended queue holds.
LEMMA HoldsAppend ==
  ASSUME NEW q \in Seq(Task), NEW ts \in Seq(Task), NEW p
  PROVE  Holds(q \o ts, p) <=> Holds(q, p) \/ Holds(ts, p)
<1>1. ASSUME NEW i \in DOMAIN q, q[i] = p PROVE Holds(q \o ts, p)
  BY <1>1 DEF Holds
<1>2. ASSUME NEW i \in DOMAIN ts, ts[i] = p PROVE Holds(q \o ts, p)
  <2>1. Len(q) + i \in DOMAIN (q \o ts) /\ (q \o ts)[Len(q) + i] = ts[i]
    BY <1>2
  <2> QED
    BY <1>2, <2>1 DEF Holds
<1>3. ASSUME NEW i \in DOMAIN (q \o ts), (q \o ts)[i] = p
      PROVE  Holds(q, p) \/ Holds(ts, p)
  <2>1. CASE i <= Len(q)
    BY <1>3, <2>1 DEF Holds
  <2>2. CASE i > Len(q)
    <3>1. i - Len(q) \in DOMAIN ts /\ (q \o ts)[i] = ts[i - Len(q)]
      BY <1>3, <2>2
    <3> QED
      BY <1>3, <3>1 DEF Holds
  <2> QED
    BY <1>3, <2>1, <2>2
<1> QED
  BY <1>1, <1>2, <1>3 DEF Holds

\* Deferring tasks leaves the connections alone.
LEMMA SendTasksQuiet ==
  ASSUME NEW s, Sound(s), NEW ts \in Seq(Task)
  PROVE  /\ Quiet(s, SendTasks(s, ts), ts, {})
         /\ SendTasks(s, ts).initiator = s.initiator
         /\ SendTasks(s, ts).connections = s.connections
  BY DEF Sound, Controller, SendTasks, Quiet, Connected, SameLink

\* Disconnect removes the connection and defers its DISCONNECTION_COMPLETE.
LEMMA DisconnectQuiet ==
  ASSUME NEW s, Sound(s), NEW h \in Connected(s)
  PROVE  /\ Quiet(s, Disconnect(s, h),
                  <<Pdu("DISCONNECT", s.connections[h].own_address, s.connections[h].address),
                    DisconnectionComplete(h)>>, {h})
         /\ Disconnect(s, h).initiator = s.initiator
<1> DEFINE ts == <<Pdu("DISCONNECT", s.connections[h].own_address, s.connections[h].address),
                   DisconnectionComplete(h)>>
           t == RemoveLink(s, h)
<1>1. h \in Handles /\ s.connections[h].address \in Ctrl /\ s.connections[h].own_address \in Ctrl
  BY ConnectionType
<1>2. ts \in Seq(Task)
  BY <1>1 DEF Pdu, DisconnectionComplete, Task, PduKind, LinkedPdu
<1>3. /\ Sound(t) /\ t.tasks = s.tasks /\ Connected(t) = Connected(s) \ {h}
  BY <1>1, RemoveLinkSound
<1>4. /\ t.host = s.host /\ t.initiator = s.initiator
      /\ t.connections = [s.connections EXCEPT ![h] = None]
  BY <1>1 DEF RemoveLink, Sound, Controller
<1>5. \A g \in Connected(t) : t.connections[g] = s.connections[g]
  BY <1>1, <1>3, <1>4 DEF Sound, Controller, Connected
<1>6. Disconnect(s, h) = SendTasks(t, ts)
  BY DEF Disconnect
<1> HIDE DEF t, ts
<1>7. Quiet(t, SendTasks(t, ts), ts, {}) /\ SendTasks(t, ts).initiator = t.initiator
  BY <1>2, <1>3, SendTasksQuiet
<1>8. Quiet(s, SendTasks(t, ts), ts, {h}) /\ SendTasks(t, ts).initiator = s.initiator
  BY <1>3, <1>4, <1>5, <1>7 DEF Quiet, SameLink
<1> QED
  BY <1>6, <1>8 DEF ts

\* Ordering a finite set of tasks loses and adds none.
LEMMA IterationOrderOnto ==
  ASSUME NEW S, IsFiniteSet(S)
  PROVE  \A x \in S : \E i \in 1..Cardinality(S) : IterationOrder(S)[i] = x
<1> DEFINE n == Cardinality(S)
           f == IterationOrder(S)
<1>1. n \in Nat /\ ExistsBijection(1..n, S)
  BY FS_CardinalityType
<1>2. f \in [1..n -> S] /\ IsInjective(f)
  <2>1. \E g \in [1..n -> S] : IsInjective(g)
    BY <1>1 DEF ExistsBijection, Bijection, Injection
  <2> QED
    BY <2>1 DEF IterationOrder
<1> HIDE DEF f
<1>3. f \in Injection(1..n, S)
  BY <1>2 DEF Injection
<1>4. IsFiniteSet(1..n) /\ Cardinality(1..n) = n
  BY <1>1, FS_Interval
<1>5. f \in Surjection(1..n, S)
  BY <1>3, <1>4, FS_Injection
<1> QED
  BY <1>5 DEF Surjection, f

\* The DISCONNECT a controller sends for its connection h.
EndOf(s, h) == Pdu("DISCONNECT", s.connections[h].own_address, s.connections[h].address)

\* The loss of the transport: a DISCONNECT for each connection, and nothing
\* else.
LEMMA DisconnectAllQuiet ==
  ASSUME NEW s, Sound(s)
  PROVE  \E ts : /\ Quiet(s, DisconnectAll(s), ts, {})
                 /\ DisconnectAll(s).initiator = s.initiator
                 /\ \A i \in DOMAIN ts : \E h \in Connected(s) : ts[i] = EndOf(s, h)
                 /\ \A h \in Connected(s) : Holds(ts, EndOf(s, h))
<1> DEFINE S == Connected(s)
           hs == IterationOrder(S)
           n == Cardinality(S)
           ts == [i \in DOMAIN hs |-> Pdu("DISCONNECT", s.connections[hs[i]].own_address,
                                                        s.connections[hs[i]].address)]
<1>1. IsFiniteSet(S)
  <2>1. IsFiniteSet(Handles)
    BY FS_Interval, RangeAssumption DEF Handles
  <2> QED
    BY <2>1, FS_Subset DEF Connected
<1>2. /\ hs \in [1..n -> S] /\ n \in Nat
      /\ \A h \in S : \E i \in 1..n : hs[i] = h
  BY <1>1, IterationOrderType, IterationOrderOnto
<1> HIDE DEF hs, n
<1>3. \A i \in 1..n : ts[i] \in Task
  BY <1>2, ConnectionType DEF Pdu, Task, PduKind, LinkedPdu
<1>4. ts \in [1..n -> Task]
  BY <1>2, <1>3
<1>5. ts \in Seq(Task)
  BY <1>2, <1>4
<1>6. DisconnectAll(s) = SendTasks(s, ts)
  BY DEF DisconnectAll, hs
<1>7. \A i \in DOMAIN ts : \E h \in S : ts[i] = EndOf(s, h)
  BY <1>2 DEF EndOf
<1>8. \A h \in S : Holds(ts, EndOf(s, h))
  BY <1>2 DEF EndOf, Holds
<1> HIDE DEF ts
<1>9. Quiet(s, DisconnectAll(s), ts, {}) /\ DisconnectAll(s).initiator = s.initiator
  BY <1>5, <1>6, SendTasksQuiet
<1> QED
  BY <1>7, <1>8, <1>9

\* HCI Reset: the same, and everything but the queue is as at the start.
LEMMA ResetFields ==
  ASSUME NEW s, Sound(s)
  PROVE  /\ ResetController(s).tasks = DisconnectAll(s).tasks
         /\ Connected(ResetController(s)) = {}
         /\ ResetController(s).host = {}
         /\ ResetController(s).initiator = Initiator0
<1>1. Sound(DisconnectAll(s))
  BY DisconnectAllSound
<1>2. /\ ResetController(s).tasks = DisconnectAll(s).tasks
      /\ ResetController(s).connections = NoConnections
      /\ ResetController(s).host = {}
      /\ ResetController(s).initiator = Initiator0
  BY <1>1 DEF ResetController, Sound, Controller
<1> QED
  BY <1>2 DEF Connected, NoConnections

\* A change of the fields of one connection that are neither its peer nor its
\* role keeps all the connections.
LEMMA SameLinksQuiet ==
  ASSUME NEW s, Sound(s), NEW h \in Connected(s), NEW c \in Connection,
         c.address = s.connections[h].address, c.own_address = s.connections[h].own_address,
         c.role = s.connections[h].role, NEW t,
         t = [s EXCEPT !.connections = [s.connections EXCEPT ![h] = c]]
  PROVE  Sound(t) /\ Quiet(s, t, <<>>, {}) /\ t.initiator = s.initiator
<1>1. h \in Handles /\ s.connections[h] \in Connection
  BY ConnectionType
<1>2. s.connections \in [Handles -> Connection \cup {None}] /\ s.tasks \in Seq(Task)
  BY DEF Sound, Controller
<1>3. /\ t \in Controller /\ t.ll = s.ll /\ t.checks = s.checks
      /\ t.tasks = s.tasks /\ t.host = s.host /\ t.initiator = s.initiator
      /\ t.connections = [s.connections EXCEPT ![h] = c]
  BY <1>1, <1>2, ZenonT(60) DEF Sound, Controller
<1>4. t.connections[h] = c /\ \A g \in Handles \ {h} : t.connections[g] = s.connections[g]
  BY <1>1, <1>2, <1>3
<1>5. c # None
  BY NoneAssumption
<1>6. Connected(t) = Connected(s)
  BY <1>1, <1>4, <1>5 DEF Connected
<1>7. \A g \in Connected(t) : SameLink(s, t, g)
  BY <1>4, <1>6 DEF SameLink, Connected
<1>8. t.tasks = s.tasks \o <<>> /\ <<>> \in Seq(Task)
  BY <1>2, <1>3
<1> QED
  BY <1>3, <1>6, <1>7, <1>8 DEF Sound, Quiet

\* A quiet change of what a quiet change left.
LEMMA QuietTwice ==
  ASSUME NEW s, NEW t, NEW u, NEW ts, NEW gone, Sound(s), Sound(t),
         Quiet(s, t, <<>>, {}), Quiet(t, u, ts, gone)
  PROVE  Quiet(s, u, ts, gone)
<1>1. s.tasks \in Seq(Task) /\ s.tasks \o <<>> = s.tasks
  BY SMTT(30) DEF Sound, Controller
<1> QED
  BY <1>1 DEF Quiet, SameLink

\* The keepalive check sends a ping, or ends the connection.
LEMMA CheckExpiringQuiet ==
  ASSUME NEW s, Sound(s), NEW h \in Handles, CheckFires(s, h)
  PROVE  /\ CheckExpiring(s, h).initiator = s.initiator
         /\ \/ Quiet(s, CheckExpiring(s, h), <<>>, {})
            \/ /\ h \in Connected(s)
               /\ Quiet(s, CheckExpiring(s, h),
                        <<Pdu("PING_REQUEST", s.connections[h].own_address,
                                              s.connections[h].address)>>, {})
            \/ /\ h \in Connected(s)
               /\ Quiet(s, CheckExpiring(s, h),
                        <<EndOf(s, h), DisconnectionComplete(h)>>, {h})
<1>0. s.checks \in [Handles -> Nat] /\ s.tasks \in Seq(Task) /\ <<>> \in Seq(Task)
      /\ s.tasks \o <<>> = s.tasks
  BY DEF Sound, Controller
<1>1. CASE h \notin Connected(s)
  <2> DEFINE t == [s EXCEPT !.checks[h] = @ - 1]
  <2>1. CheckExpiring(s, h) = t
    BY <1>1 DEF CheckExpiring
  <2>2. t.tasks = s.tasks /\ t.connections = s.connections /\ t.host = s.host
        /\ t.initiator = s.initiator
    BY ZenonT(60) DEF Sound, Controller
  <2> HIDE DEF t
  <2> QED
    BY <1>0, <2>1, <2>2 DEF Quiet, Connected, SameLink
<1>2. CASE h \in Connected(s) /\ s.connections[h].age = "expired"
  <2> DEFINE t == Disconnect(s, h)
             u == [t EXCEPT !.checks[h] = @ - 1]
  <2>1. Sound(t) /\ Quiet(s, t, <<EndOf(s, h), DisconnectionComplete(h)>>, {h})
        /\ t.initiator = s.initiator
    BY <1>2, DisconnectSound, DisconnectQuiet DEF EndOf
  <2>2. CheckExpiring(s, h) = u
    BY <1>2 DEF CheckExpiring
  <2> HIDE DEF t
  <2>3. u.tasks = t.tasks /\ u.connections = t.connections /\ u.host = t.host
        /\ u.initiator = t.initiator
    BY <2>1 DEF Sound, Controller
  <2> HIDE DEF u
  <2> QED
    BY <1>2, <2>1, <2>2, <2>3, SMTT(30) DEF Quiet, Connected, SameLink
<1>3. CASE h \in Connected(s) /\ s.connections[h].age = "near"
  <2> DEFINE c == [s.connections[h] EXCEPT !.pings = @ + 1]
             t == [s EXCEPT !.connections = [s.connections EXCEPT ![h] = c]]
             ts == <<Pdu("PING_REQUEST", s.connections[h].own_address, s.connections[h].address)>>
  <2>1. c \in Connection /\ c.address = s.connections[h].address
        /\ c.own_address = s.connections[h].own_address /\ c.role = s.connections[h].role
    BY <1>3, ConnectionType DEF Connection
  <2>2. CheckExpiring(s, h) = SendTasks(t, ts)
    BY <1>3 DEF CheckExpiring, Sound, Controller
  <2>3. ts \in Seq(Task)
    BY <1>3, ConnectionType, TaskType DEF PduKind, LinkedPdu
  <2> HIDE DEF c
  <2>4. Sound(t) /\ Quiet(s, t, <<>>, {}) /\ t.initiator = s.initiator
    BY <1>3, <2>1, SameLinksQuiet
  <2> HIDE DEF t, ts
  <2>5. Quiet(t, SendTasks(t, ts), ts, {}) /\ SendTasks(t, ts).initiator = t.initiator
    BY <2>3, <2>4, SendTasksQuiet
  <2>6. Quiet(s, SendTasks(t, ts), ts, {})
    BY <2>4, <2>5, QuietTwice, SMTT(30)
  <2> QED
    BY <1>3, <2>2, <2>4, <2>5, <2>6 DEF ts
<1>4. CASE h \in Connected(s) /\ s.connections[h].age \notin {"expired", "near"}
  <2>1. CheckExpiring(s, h) = s
    BY <1>4 DEF CheckExpiring
  <2> QED
    BY <1>0, <2>1 DEF Quiet, SameLink
<1> QED
  BY <1>1, <1>2, <1>3, <1>4

\* The end of a Tick sends at most an advertisement.
LEMMA AdvertisingQuiet ==
  ASSUME NEW s, Sound(s), NEW c \in Ctrl,
         NEW t \in {s, AdvertisingTimeout(s)}, NEW u \in {t, AdvertisingEvent(t, c)}
  PROVE  /\ u.initiator = s.initiator
         /\ \E ts : /\ Quiet(s, u, ts, {})
                    /\ \A i \in DOMAIN ts : ts[i].kind = "ADV" /\ ts[i].src = c
<1>0. s.tasks \in Seq(Task) /\ s.tasks \o <<>> = s.tasks /\ <<>> \in Seq(Task)
  BY DEF Sound, Controller
<1>1. Sound(t) /\ Quiet(s, t, <<>>, {}) /\ t.initiator = s.initiator
  <2>1. Sound(t)
    BY AdvertisingEventSound
  <2>2. t.tasks = s.tasks /\ t.connections = s.connections /\ t.host = s.host
        /\ t.initiator = s.initiator
    <3> DEFINE v == [s EXCEPT !.advertiser.enable = FALSE]
    <3>1. v.tasks = s.tasks /\ v.connections = s.connections /\ v.host = s.host
          /\ v.initiator = s.initiator
      BY DEF Sound, Controller
    <3>2. t \in {s, v}
      BY DEF AdvertisingTimeout
    <3> HIDE DEF v
    <3> QED
      BY <3>1, <3>2
  <2> QED
    BY <1>0, <2>1, <2>2 DEF Quiet, Connected, SameLink
<1>2. CASE u = t
  <2>1. \A i \in DOMAIN <<>> : <<>>[i].kind = "ADV" /\ <<>>[i].src = c
    OBVIOUS
  <2> QED
    BY <1>1, <1>2, <2>1
<1>3. CASE u # t
  <2> DEFINE dst == IF t.advertiser.type = "ADV_DIRECT_IND" THEN t.advertiser.peer ELSE None
             ts == <<AdvPdu(t.advertiser.type, c, dst)>>
  <2>1. u = SendTasks(t, ts)
    BY <1>3 DEF AdvertisingEvent
  <2>2. t.advertiser.type \in AdvertisingType /\ dst \in Ctrl \cup {None}
    BY <1>1 DEF Sound, Controller, Advertiser
  <2> HIDE DEF dst
  <2>3. ts \in Seq(Task)
    BY <2>2, TaskType
  <2>4. \A i \in DOMAIN ts : ts[i].kind = "ADV" /\ ts[i].src = c
    BY DEF AdvPdu
  <2> HIDE DEF ts
  <2>5. Quiet(t, u, ts, {}) /\ u.initiator = t.initiator
    BY <1>1, <2>1, <2>3, SendTasksQuiet
  <2>6. Quiet(s, u, ts, {})
    BY <1>1, <2>5, QuietTwice
  <2> QED
    BY <1>1, <2>4, <2>5, <2>6
<1> QED
  BY <1>2, <1>3

\* A link that grows older is the same link.
LEMMA AgeQuiet ==
  ASSUME NEW s, Sound(s), NEW h \in Connected(s)
  PROVE  Quiet(s, Age(s, h), <<>>, {}) /\ Age(s, h).initiator = s.initiator
<1> DEFINE n == [s.connections[h] EXCEPT !.age = Older(@), !.pings = 0]
           t == [s EXCEPT !.connections = [s.connections EXCEPT ![h] = n]]
<1>1. n \in Connection /\ n.address = s.connections[h].address
      /\ n.own_address = s.connections[h].own_address /\ n.role = s.connections[h].role
  <2>1. Older(s.connections[h].age) \in {"fresh", "near", "expired"}
    BY DEF Older
  <2>2. s.connections[h] \in Connection
    BY ConnectionType
  <2> QED
    BY <2>1, <2>2, ZenonT(60) DEF Connection
<1>2. Age(s, h) = t
  BY ZenonT(60) DEF Age, Sound, Controller, Connected, Connection
<1> HIDE DEF n
<1> QED
  BY <1>1, <1>2, SameLinksQuiet

\* ResetLinkTimer changes no connection as far as SameLink tells.
LEMMA ResetLinkTimerQuiet ==
  ASSUME NEW s, Sound(s), NEW h \in Connected(s)
  PROVE  Quiet(s, ResetLinkTimer(s, h), <<>>, {}) /\ ResetLinkTimer(s, h).initiator = s.initiator
<1> DEFINE n == [s.connections[h] EXCEPT !.age = "fresh", !.pings = 0]
           t == [s EXCEPT !.connections = [s.connections EXCEPT ![h] = n]]
<1>1. n \in Connection /\ n.address = s.connections[h].address
      /\ n.own_address = s.connections[h].own_address /\ n.role = s.connections[h].role
  BY ConnectionType, ZenonT(60) DEF Connection
<1>2. ResetLinkTimer(s, h) = t
  BY ConnectionType, ZenonT(60) DEF ResetLinkTimer, Sound, Controller, Connection
<1> HIDE DEF n
<1> QED
  BY <1>1, <1>2, SameLinksQuiet

\* A packet of a connection ends it, is answered, or is only noted.
LEMMA IncomingLinkedQuiet ==
  ASSUME NEW s, Sound(s), NEW h \in Connected(s), NEW p \in Task, p.kind \in LinkedPdu
  PROVE  /\ IncomingLinkedPacket(s, h, p).initiator = s.initiator
         /\ \/ Quiet(s, IncomingLinkedPacket(s, h, p), <<>>, {})
            \/ Quiet(s, IncomingLinkedPacket(s, h, p), <<Pdu("PING_RESPONSE", p.dst, p.src)>>, {})
            \/ /\ p.kind = "DISCONNECT"
               /\ Quiet(s, IncomingLinkedPacket(s, h, p), <<DisconnectionComplete(h)>>, {h})
<1>1. p.src \in Ctrl /\ p.dst \in Ctrl /\ h \in Handles
  BY ConnectionType DEF Task, PduKind, LinkedPdu, CreateConnectionCancelled
<1>2. CASE p.kind = "DISCONNECT"
  <2> DEFINE t == RemoveLink(s, h)
             ts == <<DisconnectionComplete(h)>>
  <2>1. Sound(t) /\ t.tasks = s.tasks /\ Connected(t) = Connected(s) \ {h}
    BY <1>1, RemoveLinkSound
  <2>2. /\ t.host = s.host /\ t.initiator = s.initiator
        /\ t.connections = [s.connections EXCEPT ![h] = None]
    BY <1>1 DEF RemoveLink, Sound, Controller
  <2>3. \A g \in Connected(t) : t.connections[g] = s.connections[g]
    BY <1>1, <2>1, <2>2 DEF Sound, Controller, Connected
  <2>4. IncomingLinkedPacket(s, h, p) = SendTasks(t, ts)
    BY <1>2 DEF IncomingLinkedPacket
  <2>5. ts \in Seq(Task)
    BY <1>1, TaskType
  <2> HIDE DEF t
  <2>6. Quiet(t, SendTasks(t, ts), ts, {}) /\ SendTasks(t, ts).initiator = t.initiator
    BY <2>1, <2>5, SendTasksQuiet, ZenonT(60)
  <2>7. Quiet(s, SendTasks(t, ts), ts, {h})
    BY <2>1, <2>2, <2>3, <2>6 DEF Quiet, SameLink
  <2> QED
    BY <1>2, <2>2, <2>4, <2>6, <2>7
<1>3. CASE p.kind = "PING_REQUEST"
  <2> DEFINE t == ResetLinkTimer(s, h)
             ts == <<Pdu("PING_RESPONSE", p.dst, p.src)>>
  <2>1. Sound(t) /\ Quiet(s, t, <<>>, {}) /\ t.initiator = s.initiator
    BY ResetLinkTimerSound, ResetLinkTimerQuiet
  <2>2. IncomingLinkedPacket(s, h, p) = SendTasks(t, ts)
    BY <1>3 DEF IncomingLinkedPacket
  <2>3. ts \in Seq(Task)
    BY <1>1, TaskType DEF PduKind, LinkedPdu
  <2> HIDE DEF t
  <2>4. Quiet(t, SendTasks(t, ts), ts, {}) /\ SendTasks(t, ts).initiator = t.initiator
    BY <2>1, <2>3, SendTasksQuiet, ZenonT(60)
  <2>5. Quiet(s, SendTasks(t, ts), ts, {})
    BY <2>1, <2>4, QuietTwice
  <2> QED
    BY <2>1, <2>2, <2>4, <2>5
<1>4. CASE p.kind \notin {"DISCONNECT", "PING_REQUEST"}
  <2>1. IncomingLinkedPacket(s, h, p) = ResetLinkTimer(s, h)
    BY <1>4 DEF IncomingLinkedPacket
  <2> QED
    BY <2>1, ResetLinkTimerQuiet
<1> QED
  BY <1>2, <1>3, <1>4

\* The connection h, to address, is added, and the host is told.
Grows(s, t, ts, h, address, own_address, role) ==
  /\ ts \in Seq(Task) /\ t.tasks = s.tasks \o ts
  /\ h \in Handles \ Connected(s)
  /\ Connected(t) = Connected(s) \cup {h}
  /\ \A g \in Connected(s) : SameLink(s, t, g)
  /\ t.connections[h].address = address
  /\ t.connections[h].own_address = own_address
  /\ t.connections[h].role = role
  /\ t.host = s.host \cup {h}

\* HandleLeConnection adds one connection, on a handle that was free.
LEMMA HandleLeConnectionGrows ==
  ASSUME NEW s, Sound(s), HasUnusedHandle(s),
         NEW a \in Ctrl, NEW b \in Ctrl, NEW role \in {"CENTRAL", "PERIPHERAL"}
  PROVE  /\ \E h : Grows(s, HandleLeConnection(s, a, b, role), <<>>, h, a, b, role)
         /\ HandleLeConnection(s, a, b, role).initiator
              = [s.initiator EXCEPT !.initiating_address = IF @ = b THEN None ELSE @]
<1> DEFINE h == GetUnusedHandle(Connected(s), s.last)
           c == [address |-> a, own_address |-> b, role |-> role,
                 age |-> "fresh", pings |-> 0]
           t == HandleLeConnection(s, a, b, role)
<1>1. h \in Handles \ Connected(s)
  BY UnusedHandleIsFree DEF HasUnusedHandle, Sound, Controller
<1>2. c \in Connection /\ c # None
  BY NoneAssumption DEF Connection
<1>3. /\ t.tasks = s.tasks /\ t.connections = [s.connections EXCEPT ![h] = c]
      /\ t.host = s.host \cup {h}
      /\ t.initiator = [s.initiator EXCEPT !.initiating_address = IF @ = b THEN None ELSE @]
  <2> HIDE DEF h, c
  <2> QED
    BY DEF HandleLeConnection, AddLink, Sound, Controller, h, c
<1>4. s.connections \in [Handles -> Connection \cup {None}] /\ s.tasks \o <<>> = s.tasks
      /\ <<>> \in Seq(Task)
  BY DEF Sound, Controller
<1>5. c.address = a /\ c.own_address = b /\ c.role = role
  OBVIOUS
<1> HIDE DEF h, c, t
<1>6. t.connections[h] = c /\ \A g \in Handles \ {h} : t.connections[g] = s.connections[g]
  BY <1>1, <1>3, <1>4
<1>7. Connected(t) = Connected(s) \cup {h}
  BY <1>1, <1>2, <1>6 DEF Connected
<1>8. \A g \in Connected(s) : SameLink(s, t, g)
  BY <1>1, <1>6 DEF SameLink, Connected
<1>9. Grows(s, t, <<>>, h, a, b, role)
  BY <1>1, <1>3, <1>4, <1>5, <1>6, <1>7, <1>8, ZenonT(60) DEF Grows
<1> QED
  BY <1>3, <1>9 DEF t

\* A connectable advertisement is dropped, or answered with LE_CONNECT.
LEMMA IncomingAdvQuiet ==
  ASSUME NEW s, Sound(s), NEW d \in Ctrl, NEW p \in Task, p.kind = "ADV", WouldConnect(s, d, p),
         NEW t, t = IncomingLeLegacyAdvertisingPdu(s, d, p)
  PROVE  /\ Quiet(s, t, <<Pdu("LE_CONNECT", d, p.src)>>, {})
         /\ t.initiator.pending_connect_request = p.src
         /\ t.initiator.initiating_address = d
         /\ t.initiator.connect_enable = s.initiator.connect_enable
         /\ t.initiator.listed = s.initiator.listed /\ t.initiator.peer = s.initiator.peer
<1> DEFINE i == [s.initiator EXCEPT !.pending_connect_request = p.src, !.initiating_address = d]
           u == [s EXCEPT !.initiator = i]
           ts == <<Pdu("LE_CONNECT", d, p.src)>>
<1>1. p.src \in Ctrl
  BY DEF Task, PduKind, LinkedPdu, CreateConnectionCancelled
<1>2. i \in Initiator
  BY <1>1, ZenonT(60) DEF Sound, Controller, Initiator
<1>3. t = SendTasks(u, ts)
  BY ZenonT(60) DEF IncomingLeLegacyAdvertisingPdu, Sound, Controller
<1>a. /\ i.pending_connect_request = p.src /\ i.initiating_address = d
      /\ i.connect_enable = s.initiator.connect_enable
      /\ i.listed = s.initiator.listed /\ i.peer = s.initiator.peer
  BY DEF Sound, Controller, Initiator
<1> HIDE DEF i
<1>4. Sound(u)
  BY <1>2, InitiatorSound
<1>5. ts \in Seq(Task)
  BY <1>1, TaskType DEF PduKind
<1>6. u.tasks = s.tasks /\ u.connections = s.connections /\ u.host = s.host /\ u.initiator = i
  BY DEF Sound, Controller
<1> HIDE DEF u, ts
<1>7. Quiet(u, t, ts, {}) /\ t.initiator = i
  BY <1>3, <1>4, <1>5, <1>6, SendTasksQuiet, SMTT(30)
<1> QED
  BY <1>6, <1>7, <1>a, SMTT(30) DEF Quiet, Connected, SameLink, ts

\* Growing, then sending.
LEMMA GrowsThenSends ==
  ASSUME NEW s, NEW t, NEW u, NEW h, NEW a, NEW b, NEW role, NEW ts, Sound(s), Sound(t),
         Grows(s, t, <<>>, h, a, b, role),
         ts \in Seq(Task), u.tasks = t.tasks \o ts, u.connections = t.connections,
         u.host = t.host
  PROVE  Grows(s, u, ts, h, a, b, role)
<1>1. s.tasks \in Seq(Task) /\ s.tasks \o <<>> = s.tasks
  BY DEF Sound, Controller
<1> QED
  BY <1>1, SMTT(30) DEF Grows, Connected, SameLink

\* An accepted LE_CONNECT adds a peripheral connection and is answered.
LEMMA IncomingConnectGrows ==
  ASSUME NEW s, Sound(s), NEW d \in Ctrl, NEW p \in Task, p.kind = "LE_CONNECT",
         CanHandle(s, d, p), AcceptsConnect(s, d, p),
         NEW t, t = IncomingLeConnectPacket(s, d, p)
  PROVE  /\ \E h : Grows(s, t, <<Pdu("LE_CONNECT_COMPLETE", p.dst, p.src)>>, h,
                         p.src, p.dst, "PERIPHERAL")
         /\ t.initiator = [s.initiator EXCEPT !.initiating_address =
                             IF @ = p.dst THEN None ELSE @]
<1> DEFINE u == HandleLeConnection(s, p.src, p.dst, "PERIPHERAL")
           ts == <<Pdu("LE_CONNECT_COMPLETE", p.dst, p.src)>>
           v == SendTasks(u, ts)
           w == [v EXCEPT !.advertiser.enable = FALSE]
<1>1. p.src \in Ctrl /\ p.dst \in Ctrl
  BY DEF Task, PduKind, LinkedPdu, CreateConnectionCancelled
<1>2. HasUnusedHandle(s)
  BY DEF CanHandle
<1>3. Sound(u)
  BY <1>1, <1>2, HandleLeConnectionSound
<1>4. PICK h : Grows(s, u, <<>>, h, p.src, p.dst, "PERIPHERAL")
  BY <1>1, <1>2, HandleLeConnectionGrows, ZenonT(60)
<1>5. u.initiator = [s.initiator EXCEPT !.initiating_address = IF @ = p.dst THEN None ELSE @]
  BY <1>1, <1>2, HandleLeConnectionGrows
<1>6. ts \in Seq(Task)
  BY <1>1, TaskType DEF PduKind
<1>7. t = w
  BY DEF IncomingLeConnectPacket
<1> HIDE DEF u, ts
<1>8. /\ Sound(v) /\ Quiet(u, v, ts, {}) /\ v.initiator = u.initiator
      /\ v.connections = u.connections
  BY <1>3, <1>6, SendTasksSound, SendTasksQuiet
<1> HIDE DEF v
<1>9. w.tasks = v.tasks /\ w.connections = v.connections /\ w.host = v.host
      /\ w.initiator = v.initiator
  BY <1>8 DEF Sound, Controller
<1> HIDE DEF w
<1>10. /\ t.tasks = u.tasks \o ts /\ t.connections = u.connections /\ t.host = u.host
       /\ t.initiator = u.initiator
  BY <1>7, <1>8, <1>9 DEF Quiet
<1>11. Grows(s, t, ts, h, p.src, p.dst, "PERIPHERAL")
  BY <1>3, <1>4, <1>6, <1>10, GrowsThenSends, SMTT(30)
<1> QED
  BY <1>5, <1>10, <1>11 DEF ts

\* An expected LE_CONNECT_COMPLETE adds the central connection.
LEMMA IncomingCompleteGrows ==
  ASSUME NEW s, Sound(s), NEW d \in Ctrl, NEW p \in Task, p.kind = "LE_CONNECT_COMPLETE",
         CanHandle(s, d, p), ~IgnoresConnectComplete(s, p),
         NEW t, t = IncomingLeConnectCompletePacket(s, p)
  PROVE  /\ \E h : Grows(s, t, <<>>, h, p.src, p.dst, "CENTRAL")
         /\ t.initiator.pending_connect_request = None
         /\ ~t.initiator.connect_enable
         /\ t.initiator.initiating_address
              = IF s.initiator.initiating_address = p.dst THEN None
                ELSE s.initiator.initiating_address
<1> DEFINE u == HandleLeConnection(s, p.src, p.dst, "CENTRAL")
           i == [u.initiator EXCEPT !.pending_connect_request = None, !.connect_enable = FALSE]
           v == [u EXCEPT !.initiator = i]
<1>1. p.src \in Ctrl /\ p.dst \in Ctrl
  BY DEF Task, PduKind, LinkedPdu, CreateConnectionCancelled
<1>2. HasUnusedHandle(s)
  BY DEF CanHandle
<1>3. Sound(u)
  BY <1>1, <1>2, HandleLeConnectionSound
<1>4. PICK h : Grows(s, u, <<>>, h, p.src, p.dst, "CENTRAL")
  BY <1>1, <1>2, HandleLeConnectionGrows, ZenonT(60)
<1>5. u.initiator = [s.initiator EXCEPT !.initiating_address = IF @ = p.dst THEN None ELSE @]
  BY <1>1, <1>2, HandleLeConnectionGrows
<1>6. t = v
  BY <1>3, ZenonT(60) DEF IncomingLeConnectCompletePacket, Sound, Controller, Initiator
<1> HIDE DEF u
<1>7. s.initiator \in Initiator
  BY DEF Sound, Controller
<1>8. /\ i.pending_connect_request = None /\ ~i.connect_enable
      /\ i.initiating_address = IF s.initiator.initiating_address = p.dst THEN None
                                ELSE s.initiator.initiating_address
  BY <1>5, <1>7 DEF Initiator
<1> HIDE DEF i
<1>9. v.tasks = u.tasks /\ v.connections = u.connections /\ v.host = u.host /\ v.initiator = i
  BY <1>3, SMTT(30) DEF Sound, Controller
<1> HIDE DEF v
<1>10. Grows(s, t, <<>>, h, p.src, p.dst, "CENTRAL")
  BY <1>4, <1>6, <1>9, SMTT(30) DEF Grows, Connected, SameLink
<1> QED
  BY <1>6, <1>8, <1>9, <1>10

-----------------------------------------------------------------------------
(* What a controller does by itself.                                       *)

\* It keeps its connections and sends at most an advertisement or a ping, or
\* it ends one connection and says so to its peer and to its host.
OwnStep(s, t, c) ==
  /\ t.initiator = s.initiator
  /\ \/ \E ts : /\ Quiet(s, t, ts, {})
                /\ \A i \in DOMAIN ts :
                     /\ ts[i].kind \in {"ADV", "PING_REQUEST"}
                     /\ ts[i].src = c \/ \E h \in Connected(s) :
                                            ts[i].src = s.connections[h].own_address
     \/ \E h \in Connected(s) :
          Quiet(s, t, <<EndOf(s, h), DisconnectionComplete(h)>>, {h})

\* One controller works, the others are left alone.
Works(c) ==
  /\ ctl'[c] # ctl[c] => OwnStep(ctl[c], ctl'[c], c)
  /\ \A d \in Ctrl \ {c} : ctl'[d] = ctl[d]
  /\ UNCHANGED <<phy, closing>>

\* A change of the other fields is a step of the controller by itself.
LEMMA SameFieldsOwnStep ==
  ASSUME NEW s, Sound(s), NEW t, NEW c, t.tasks = s.tasks, t.connections = s.connections,
         t.host = s.host, t.initiator = s.initiator
  PROVE  OwnStep(s, t, c)
<1>1. s.tasks \in Seq(Task) /\ s.tasks \o <<>> = s.tasks /\ <<>> \in Seq(Task)
  BY DEF Sound, Controller
<1>2. Quiet(s, t, <<>>, {})
  BY <1>1 DEF Quiet, Connected, SameLink
<1>3. DOMAIN <<>> = {}
  OBVIOUS
<1> QED
  BY <1>2, <1>3 DEF OwnStep

\* LeAdvertising is one, too.
LEMMA AdvertisingOwnStep ==
  ASSUME NEW s, Sound(s), NEW c \in Ctrl,
         NEW t \in {s, AdvertisingTimeout(s)}, NEW u \in {t, AdvertisingEvent(t, c)}
  PROVE  OwnStep(s, u, c)
<1>1. /\ u.initiator = s.initiator
      /\ \E ts : /\ Quiet(s, u, ts, {})
                 /\ \A i \in DOMAIN ts : ts[i].kind = "ADV" /\ ts[i].src = c
  BY AdvertisingQuiet
<1> QED
  BY <1>1 DEF OwnStep

\* Every step but the connection set up, the reset, the loss and the running
\* of a task is the work of one controller.
LEMMA WorkCases ==
  ASSUME IInv, NEW c \in Ctrl,
         \/ \E p \in usage.advertising[c] : LeSetAdvertisingParameters(c, p)
         \/ \E b \in BOOLEAN : LeSetAdvertisingEnable(c, b)
         \/ \E h \in Handles : HciDisconnect(c, h) \/ TimePasses(c, h)
         \/ ticking = c /\ \E h \in Handles : CheckExpiringConnection(h)
         \/ ticking = c /\ \E timeout, elapsed \in BOOLEAN : LeAdvertising(timeout, elapsed)
         \/ StartTick(c)
  PROVE  Works(c)
<1>0. Sound(ctl[c]) /\ ctl = [d \in Ctrl |-> ctl[d]] /\ DOMAIN ctl = Ctrl
  BY DEF IInv
<1>a. ASSUME NEW s, ctl' = [ctl EXCEPT ![c] = s], UNCHANGED <<phy, closing>>,
             OwnStep(ctl[c], s, c)
      PROVE  Works(c)
  BY <1>0, <1>a DEF Works
<1>1. ASSUME NEW p \in usage.advertising[c], LeSetAdvertisingParameters(c, p)
      PROVE  Works(c)
  <2> DEFINE s == [ctl[c] EXCEPT !.advertiser = [enable |-> FALSE, type |-> p.type,
                                                 peer |-> p.peer, listed |-> p.listed]]
  <2>1. ctl' = [ctl EXCEPT ![c] = s] /\ UNCHANGED <<phy, closing>>
    BY <1>1 DEF LeSetAdvertisingParameters
  <2>2. s.tasks = ctl[c].tasks /\ s.connections = ctl[c].connections /\ s.host = ctl[c].host
        /\ s.initiator = ctl[c].initiator
    BY <1>0 DEF Sound, Controller
  <2> HIDE DEF s
  <2>3. OwnStep(ctl[c], s, c)
    BY <1>0, <2>2, SameFieldsOwnStep
  <2> QED
    BY <2>1, <2>3, <1>a, ZenonT(60)
<1>2. ASSUME NEW b \in BOOLEAN, LeSetAdvertisingEnable(c, b)
      PROVE  Works(c)
  <2> DEFINE s == [ctl[c] EXCEPT !.advertiser.enable = b]
  <2>1. ctl' = [ctl EXCEPT ![c] = s] /\ UNCHANGED <<phy, closing>>
    BY <1>2 DEF LeSetAdvertisingEnable
  <2>2. s.tasks = ctl[c].tasks /\ s.connections = ctl[c].connections /\ s.host = ctl[c].host
        /\ s.initiator = ctl[c].initiator
    BY <1>0 DEF Sound, Controller
  <2> HIDE DEF s
  <2>3. OwnStep(ctl[c], s, c)
    BY <1>0, <2>2, SameFieldsOwnStep
  <2> QED
    BY <2>1, <2>3, <1>a, ZenonT(60)
<1>3. ASSUME NEW h \in Handles, HciDisconnect(c, h)
      PROVE  Works(c)
  <2>1. ctl' = [ctl EXCEPT ![c] = Disconnect(ctl[c], h)] /\ UNCHANGED <<phy, closing>>
        /\ h \in Connected(ctl[c])
    BY <1>3 DEF HciDisconnect
  <2>2. OwnStep(ctl[c], Disconnect(ctl[c], h), c)
    BY <1>0, <2>1, DisconnectQuiet, ZenonT(60) DEF OwnStep, EndOf
  <2> QED
    BY <2>1, <2>2, <1>a, ZenonT(60)
<1>4. ASSUME NEW h \in Handles, TimePasses(c, h)
      PROVE  Works(c)
  <2>1. ctl' = [ctl EXCEPT ![c] = Age(ctl[c], h)] /\ UNCHANGED <<phy, closing>>
        /\ h \in Connected(ctl[c])
    BY <1>4 DEF TimePasses
  <2>2. Quiet(ctl[c], Age(ctl[c], h), <<>>, {}) /\ Age(ctl[c], h).initiator = ctl[c].initiator
    BY <1>0, <2>1, AgeQuiet
  <2>3. DOMAIN <<>> = {}
    BY SMTT(30)
  <2>4. OwnStep(ctl[c], Age(ctl[c], h), c)
    BY <2>2, <2>3 DEF OwnStep
  <2> QED
    BY <2>1, <2>4, <1>a, ZenonT(60)
<1>5. ASSUME ticking = c, NEW h \in Handles, CheckExpiringConnection(h)
      PROVE  Works(c)
  <2> DEFINE s == ctl[c]
             t == CheckExpiring(s, h)
  <2>1. ctl' = [ctl EXCEPT ![c] = t] /\ UNCHANGED <<phy, closing>> /\ CheckFires(s, h)
    BY <1>5 DEF CheckExpiringConnection
  <2>2. /\ t.initiator = s.initiator
        /\ \/ Quiet(s, t, <<>>, {})
           \/ /\ h \in Connected(s)
              /\ Quiet(s, t, <<Pdu("PING_REQUEST", s.connections[h].own_address,
                                                   s.connections[h].address)>>, {})
           \/ /\ h \in Connected(s)
              /\ Quiet(s, t, <<EndOf(s, h), DisconnectionComplete(h)>>, {h})
    BY <1>0, <2>1, CheckExpiringQuiet, ZenonT(60)
  <2> HIDE DEF t, s
  <2>3. DOMAIN <<>> = {}
    OBVIOUS
  <2>4. ASSUME NEW x, NEW y
        PROVE  \A i \in DOMAIN <<Pdu("PING_REQUEST", x, y)>> :
                 /\ <<Pdu("PING_REQUEST", x, y)>>[i].kind = "PING_REQUEST"
                 /\ <<Pdu("PING_REQUEST", x, y)>>[i].src = x
    BY SMTT(60) DEF Pdu
  <2>5. OwnStep(s, t, c)
    <3>1. CASE Quiet(s, t, <<>>, {})
      BY <2>2, <2>3, <3>1, ZenonT(60) DEF OwnStep
    <3>2. CASE h \in Connected(s) /\ Quiet(s, t, <<Pdu("PING_REQUEST",
                 s.connections[h].own_address, s.connections[h].address)>>, {})
      <4> DEFINE ts == <<Pdu("PING_REQUEST", s.connections[h].own_address,
                                             s.connections[h].address)>>
      <4>1. \A i \in DOMAIN ts : /\ ts[i].kind = "PING_REQUEST"
                                 /\ ts[i].src = s.connections[h].own_address
        BY <2>4, SMTT(60)
      <4>2. Quiet(s, t, ts, {})
        BY <3>2
      <4> HIDE DEF ts
      <4> QED
        BY <2>2, <3>2, <4>1, <4>2, ZenonT(60) DEF OwnStep
    <3>3. CASE h \in Connected(s)
                 /\ Quiet(s, t, <<EndOf(s, h), DisconnectionComplete(h)>>, {h})
      BY <2>2, <3>3, ZenonT(60) DEF OwnStep
    <3> QED
      BY <2>2, <3>1, <3>2, <3>3, ZenonT(60)
  <2> QED
    BY <2>1, <2>5, <1>a, ZenonT(60) DEF s
<1>6. ASSUME ticking = c, NEW timeout \in BOOLEAN, NEW elapsed \in BOOLEAN,
             LeAdvertising(timeout, elapsed)
      PROVE  Works(c)
  <2> DEFINE t == IF timeout THEN AdvertisingTimeout(ctl[c]) ELSE ctl[c]
             u == IF elapsed THEN AdvertisingEvent(t, c) ELSE t
  <2>1. ctl' = [ctl EXCEPT ![c] = u] /\ UNCHANGED <<phy, closing>>
    BY <1>6, SMTT(30) DEF LeAdvertising
  <2>2. t \in {ctl[c], AdvertisingTimeout(ctl[c])} /\ u \in {t, AdvertisingEvent(t, c)}
    OBVIOUS
  <2> HIDE DEF t, u
  <2>3. OwnStep(ctl[c], u, c)
    BY <1>0, <2>2, AdvertisingOwnStep, SMTT(30)
  <2> QED
    BY <2>1, <2>3, <1>a, ZenonT(60)
<1>7. CASE StartTick(c)
  BY <1>7 DEF StartTick, Works
<1> QED
  BY <1>1, <1>2, <1>3, <1>4, <1>5, <1>6, <1>7

\* The steps of the specification, by what they do to the controllers.
LEMMA NextCases ==
  ASSUME IInv, Next
  PROVE  \/ \E c \in Ctrl : Works(c)
         \/ \E c \in Ctrl : \E p \in usage.create[c] : LeCreateConnection(c, p)
         \/ \E c \in Ctrl : LeCreateConnectionCancel(c) \/ Reset(c) \/ Close(c) \/ RemoveDevice(c)
         \/ SendEvent
         \/ SendPacket
<1>1. ASSUME NEW c \in Ctrl, HostCommand(c) \/ StartTick(c) \/ Close(c) \/ RemoveDevice(c)
      PROVE  \/ Works(c)
             \/ \E p \in usage.create[c] : LeCreateConnection(c, p)
             \/ LeCreateConnectionCancel(c) \/ Reset(c) \/ Close(c) \/ RemoveDevice(c)
  BY <1>1, WorkCases DEF HostCommand
<1>2. ASSUME NEW c \in Ctrl, NEW h \in Handles, TimePasses(c, h) PROVE Works(c)
  BY <1>2, WorkCases
<1>3. ASSUME NEW h \in Handles, CheckExpiringConnection(h) PROVE \E c \in Ctrl : Works(c)
  <2>1. ticking \in Ctrl
    BY <1>3 DEF CheckExpiringConnection, IInv
  <2> QED
    BY <1>3, <2>1, WorkCases
<1>4. ASSUME NEW timeout \in BOOLEAN, NEW elapsed \in BOOLEAN, LeAdvertising(timeout, elapsed)
      PROVE  \E c \in Ctrl : Works(c)
  <2>1. ticking \in Ctrl
    BY <1>4 DEF LeAdvertising, IInv
  <2> QED
    BY <1>4, <2>1, WorkCases
<1> QED
  BY <1>1, <1>2, <1>3, <1>4, ZenonT(60) DEF Next, RunTask

-----------------------------------------------------------------------------
(* The end of a connection is reported to the host.                        *)

Reported(s) == \A h \in s.host \ Connected(s) : Holds(s.tasks, DisconnectionComplete(h))

\* Nothing unreported is removed.
LEMMA ReportedQuiet ==
  ASSUME NEW s, NEW t, NEW ts, NEW gone, Sound(s), Reported(s), Quiet(s, t, ts, gone),
         \A h \in gone : Holds(ts, DisconnectionComplete(h))
  PROVE  Reported(t)
<1>1. s.tasks \in Seq(Task) /\ ts \in Seq(Task)
  BY DEF Sound, Controller, Quiet
<1> SUFFICES ASSUME NEW h \in t.host \ Connected(t)
             PROVE  Holds(t.tasks, DisconnectionComplete(h))
  BY DEF Reported
<1>2. h \in s.host /\ (h \notin Connected(s) \/ h \in gone) /\ t.tasks = s.tasks \o ts
  BY DEF Quiet
<1>3. Holds(s.tasks, DisconnectionComplete(h)) \/ Holds(ts, DisconnectionComplete(h))
  BY <1>2 DEF Reported
<1> QED
  BY <1>1, <1>2, <1>3, HoldsAppend, SMTT(30)

\* A new connection leaves nothing unreported.
LEMMA ReportedGrows ==
  ASSUME NEW s, NEW t, NEW ts, NEW h, NEW a, NEW b, NEW role, Sound(s), Reported(s),
         Grows(s, t, ts, h, a, b, role)
  PROVE  Reported(t)
<1>1. s.tasks \in Seq(Task) /\ ts \in Seq(Task)
  BY DEF Sound, Controller, Grows
<1> SUFFICES ASSUME NEW g \in t.host \ Connected(t)
             PROVE  Holds(t.tasks, DisconnectionComplete(g))
  BY DEF Reported
<1>2. g \in s.host \ Connected(s) /\ t.tasks = s.tasks \o ts
  BY DEF Grows
<1> QED
  BY <1>1, <1>2, HoldsAppend, SMTT(30) DEF Reported

\* A controller that works by itself leaves nothing unreported.
LEMMA ReportedOwnStep ==
  ASSUME NEW s, NEW t, NEW c, Sound(s), Reported(s), OwnStep(s, t, c)
  PROVE  Reported(t)
<1>1. ASSUME NEW ts, Quiet(s, t, ts, {}) PROVE Reported(t)
  BY <1>1, ReportedQuiet
<1>2. ASSUME NEW h \in Connected(s), Quiet(s, t, <<EndOf(s, h), DisconnectionComplete(h)>>, {h})
      PROVE  Reported(t)
  <2>1. Holds(<<EndOf(s, h), DisconnectionComplete(h)>>, DisconnectionComplete(h))
    BY DEF Holds
  <2> QED
    BY <1>2, <2>1, ReportedQuiet
<1> QED
  BY <1>1, <1>2, ZenonT(60) DEF OwnStep

\* Whatever packet arrives.
LEMMA ReportedIncoming ==
  ASSUME NEW s, Sound(s), Reported(s), NEW d \in Ctrl, NEW p \in Task, IsPdu(p),
         CanHandle(s, d, p), NEW h \in Lookup(s, p)
  PROVE  Reported(IncomingPacket(s, d, p, h))
<1> DEFINE t == IncomingPacket(s, d, p, h)
<1>1. CASE p.kind = "ADV"
  <2>1. t = IncomingLeLegacyAdvertisingPdu(s, d, p)
    BY <1>1 DEF IncomingPacket
  <2>2. CASE ~WouldConnect(s, d, p)
    BY <2>1, <2>2 DEF IncomingLeLegacyAdvertisingPdu
  <2>3. CASE WouldConnect(s, d, p)
    <3>1. Quiet(s, t, <<Pdu("LE_CONNECT", d, p.src)>>, {})
      BY <1>1, <2>1, <2>3, IncomingAdvQuiet
    <3> QED
      BY <3>1, ReportedQuiet, SMTT(60)
  <2> QED
    BY <2>2, <2>3
<1>2. CASE p.kind = "LE_CONNECT"
  <2>1. t = IncomingLeConnectPacket(s, d, p)
    BY <1>2 DEF IncomingPacket
  <2>2. CASE ~AcceptsConnect(s, d, p)
    BY <2>1, <2>2 DEF IncomingLeConnectPacket
  <2>3. CASE AcceptsConnect(s, d, p)
    <3>1. \E g : Grows(s, t, <<Pdu("LE_CONNECT_COMPLETE", p.dst, p.src)>>, g,
                       p.src, p.dst, "PERIPHERAL")
      BY <1>2, <2>1, <2>3, IncomingConnectGrows, ZenonT(60)
    <3> QED
      BY <3>1, ReportedGrows
  <2> QED
    BY <2>2, <2>3
<1>3. CASE p.kind = "LE_CONNECT_COMPLETE"
  <2>1. t = IncomingLeConnectCompletePacket(s, p)
    BY <1>3 DEF IncomingPacket
  <2>2. CASE IgnoresConnectComplete(s, p)
    BY <2>1, <2>2 DEF IncomingLeConnectCompletePacket
  <2>3. CASE ~IgnoresConnectComplete(s, p)
    <3>1. \E g : Grows(s, t, <<>>, g, p.src, p.dst, "CENTRAL")
      BY <1>3, <2>1, <2>3, IncomingCompleteGrows
    <3> QED
      BY <3>1, ReportedGrows, ZenonT(60)
  <2> QED
    BY <2>2, <2>3
<1>4. CASE p.kind \in LinkedPdu /\ h # None
  <2>1. h \in Connected(s) /\ t = IncomingLinkedPacket(s, h, p)
    BY <1>4, ZenonT(60) DEF Lookup, GetLeAclConnectionHandles, IncomingPacket, LinkedPdu
  <2>2. \/ Quiet(s, t, <<>>, {})
        \/ Quiet(s, t, <<Pdu("PING_RESPONSE", p.dst, p.src)>>, {})
        \/ Quiet(s, t, <<DisconnectionComplete(h)>>, {h})
    BY <1>4, <2>1, IncomingLinkedQuiet
  <2>3. Holds(<<DisconnectionComplete(h)>>, DisconnectionComplete(h))
    BY DEF Holds
  <2> HIDE DEF t
  <2>4. Reported(t)
    BY <2>2, <2>3, ReportedQuiet
  <2> QED
    BY <2>4 DEF t
<1>5. CASE p.kind \in LinkedPdu /\ h = None
  BY <1>5 DEF IncomingPacket, LinkedPdu
<1> QED
  BY <1>1, <1>2, <1>3, <1>4, <1>5, SMTT(30) DEF IsPdu, PduKind

\* Running the first task only removes it.
LEMMA HoldsTail ==
  ASSUME NEW q \in Seq(Task), q # <<>>, NEW p, Holds(q, p), p # Head(q)
  PROVE  Holds(Tail(q), p)
<1>1. PICK i \in DOMAIN q : q[i] = p
  BY DEF Holds
<1>2. i # 1 /\ i \in 1..Len(q)
  BY <1>1
<1>3. i - 1 \in DOMAIN Tail(q) /\ Tail(q)[i - 1] = q[i]
  BY <1>2
<1> QED
  BY <1>1, <1>3 DEF Holds

\* Every step keeps every end reported.
LEMMA NextReported ==
  ASSUME IInv, [Next]_vars, \A c \in Ctrl : Reported(ctl[c])
  PROVE  \A c \in Ctrl : Reported(ctl'[c])
<1>0. ctl = [d \in Ctrl |-> ctl[d]] /\ DOMAIN ctl = Ctrl /\ \A d \in Ctrl : Sound(ctl[d])
  BY DEF IInv
<1>1. ASSUME NEW c \in Ctrl, Works(c) PROVE \A d \in Ctrl : Reported(ctl'[d])
  BY <1>0, <1>1, ReportedOwnStep DEF Works
<1>a. ASSUME NEW c \in Ctrl, NEW s, ctl' = [ctl EXCEPT ![c] = s], Reported(s)
      PROVE  \A d \in Ctrl : Reported(ctl'[d])
  BY <1>0, <1>a
<1>2. ASSUME NEW c \in Ctrl, NEW p \in usage.create[c], LeCreateConnection(c, p)
      PROVE  \A d \in Ctrl : Reported(ctl'[d])
  <2> DEFINE i == [ctl[c].initiator EXCEPT !.connect_enable = TRUE, !.peer = p.peer,
                                           !.listed = p.listed,
                                           !.pending_connect_request = None]
             s == [ctl[c] EXCEPT !.initiator = i]
  <2>1. ctl' = [ctl EXCEPT ![c] = s]
    BY <1>2 DEF LeCreateConnection
  <2> HIDE DEF i
  <2>2. s.tasks = ctl[c].tasks /\ s.connections = ctl[c].connections /\ s.host = ctl[c].host
    BY <1>0 DEF Sound, Controller
  <2> HIDE DEF s
  <2>3. Reported(s)
    BY <2>2 DEF Reported, Connected
  <2> QED
    BY <2>1, <2>3, <1>a
<1>3. ASSUME NEW c \in Ctrl, LeCreateConnectionCancel(c)
      PROVE  \A d \in Ctrl : Reported(ctl'[d])
  <2> DEFINE i == [ctl[c].initiator EXCEPT !.connect_enable = FALSE]
             t == [ctl[c] EXCEPT !.initiator = i]
             s == SendTasks(t, <<CreateConnectionCancelled>>)
  <2>1. i \in Initiator
    <3>1. ctl[c].initiator \in Initiator
      BY <1>0 DEF Sound, Controller
    <3> QED
      BY <3>1, ZenonT(60) DEF Initiator
  <2>2. ctl' = [ctl EXCEPT ![c] = s]
    BY <1>3 DEF LeCreateConnectionCancel
  <2> HIDE DEF i
  <2>3. Sound(t)
    BY <1>0, <2>1, InitiatorSound
  <2>a. t.tasks = ctl[c].tasks /\ t.connections = ctl[c].connections /\ t.host = ctl[c].host
    BY <1>0 DEF Sound, Controller
  <2> HIDE DEF t
  <2>4. Reported(t)
    BY <2>a DEF Reported, Connected
  <2>5. Quiet(t, s, <<CreateConnectionCancelled>>, {})
    BY <2>3, TaskType, SendTasksQuiet, ZenonT(60)
  <2> HIDE DEF s
  <2>6. Reported(s)
    BY <2>3, <2>4, <2>5, ReportedQuiet
  <2> QED
    BY <2>2, <2>6, <1>a
<1>4. ASSUME NEW c \in Ctrl, Reset(c) PROVE \A d \in Ctrl : Reported(ctl'[d])
  <2>1. ctl' = [ctl EXCEPT ![c] = ResetController(ctl[c])]
    BY <1>4 DEF Reset
  <2>2. Reported(ResetController(ctl[c]))
    BY <1>0, ResetFields DEF Reported
  <2> QED
    BY <2>1, <2>2, <1>a
<1>5. ASSUME NEW c \in Ctrl, Close(c) PROVE \A d \in Ctrl : Reported(ctl'[d])
  <2>1. ctl' = [ctl EXCEPT ![c] = DisconnectAll(ctl[c])]
    BY <1>5 DEF Close
  <2>2. PICK ts : Quiet(ctl[c], DisconnectAll(ctl[c]), ts, {})
    BY <1>0, DisconnectAllQuiet
  <2>3. Reported(DisconnectAll(ctl[c]))
    BY <1>0, <2>2, ReportedQuiet
  <2> QED
    BY <2>1, <2>3, <1>a
<1>6. ASSUME NEW c \in Ctrl, RemoveDevice(c) PROVE \A d \in Ctrl : Reported(ctl'[d])
  BY <1>6 DEF RemoveDevice
<1>b. ASSUME SendEvent \/ SendPacket
      PROVE  /\ ticking \in Ctrl /\ ctl[ticking].tasks \in Seq(Task)
             /\ ctl[ticking].tasks # <<>> /\ Head(ctl[ticking].tasks) \in Task
  <2>1. ticking \in Ctrl /\ due > 0 /\ due \in Nat /\ due <= Len(ctl[ticking].tasks)
    BY <1>b DEF SendEvent, SendPacket, IInv
  <2> QED
    BY <1>0, <2>1 DEF Sound, Controller
<1>7. CASE SendEvent
  <2> DEFINE s == ctl[ticking]
             e == Head(s.tasks)
             ho == IF e.kind = "DISCONNECTION_COMPLETE" THEN s.host \ {e.handle} ELSE s.host
             t == [s EXCEPT !.tasks = Tail(@), !.host = ho]
  <2>1. ctl' = [ctl EXCEPT ![ticking] = t]
    BY <1>7 DEF SendEvent
  <2> HIDE DEF ho
  <2>2. t.tasks = Tail(s.tasks) /\ t.connections = s.connections /\ t.host = ho
    BY <1>0, <1>7, <1>b DEF Sound, Controller
  <2>3. Connected(t) = Connected(s)
    BY <2>2 DEF Connected
  <2> HIDE DEF t
  <2>4. ASSUME NEW h \in t.host \ Connected(t) PROVE Holds(t.tasks, DisconnectionComplete(h))
    <3>1. h \in s.host \ Connected(s) /\ Holds(s.tasks, DisconnectionComplete(h))
      BY <1>7, <1>b, <2>2, <2>3, <2>4, SMTT(30) DEF Reported, ho
    <3>2. DisconnectionComplete(h) # e
      BY <2>2, <2>4 DEF ho, DisconnectionComplete
    <3> QED
      BY <1>7, <1>b, <2>2, <3>1, <3>2, HoldsTail, ZenonT(60)
  <2>5. Reported(t)
    BY <2>4 DEF Reported
  <2> QED
    BY <1>7, <1>b, <2>1, <2>5, <1>a
<1>8. CASE SendPacket
  <2> DEFINE c == ticking
             p == Head(ctl[c].tasks)
             s == [ctl[c] EXCEPT !.tasks = Tail(@)]
  <2>1. PICK found \in [Ctrl -> Handles \cup {None}] :
          /\ \A d \in Ctrl : found[d] \in Lookup(ctl[d], p)
          /\ ctl' = [d \in Ctrl |->
                       CASE d = c -> s
                         [] d \in phy \ {c} -> IncomingPacket(ctl[d], d, p, found[d])
                         [] OTHER -> ctl[d]]
    BY <1>8, ZenonT(60) DEF SendPacket
  <2>2. IsPdu(p) /\ (\A d \in phy \ {c} : CanHandle(ctl[d], d, p)) /\ p \in Task
    BY <1>8, <1>b DEF SendPacket
  <2>3. Reported(s)
    <3>1. s.tasks = Tail(ctl[c].tasks) /\ s.connections = ctl[c].connections
          /\ s.host = ctl[c].host
      BY <1>0, <1>8, <1>b DEF Sound, Controller
    <3> HIDE DEF s
    <3>2. \A h : DisconnectionComplete(h) # p
      BY <2>2 DEF IsPdu, PduKind, LinkedPdu, DisconnectionComplete
    <3>3. \A h \in ctl[c].host \ Connected(ctl[c]) : Holds(ctl[c].tasks, DisconnectionComplete(h))
      BY <1>8, <1>b, SMTT(30) DEF Reported
    <3>4. \A h \in ctl[c].host \ Connected(ctl[c]) : Holds(s.tasks, DisconnectionComplete(h))
      BY <1>8, <1>b, <3>1, <3>2, <3>3, HoldsTail, SMTT(30)
    <3> QED
      BY <3>1, <3>4 DEF Reported, Connected
  <2> HIDE DEF p, s
  <2>4. ASSUME NEW d \in Ctrl PROVE Reported(ctl'[d])
    <3>1. CASE d = c
      BY <2>1, <2>3, <3>1
    <3>2. CASE d \in phy \ {c}
      <4>1. Reported(IncomingPacket(ctl[d], d, p, found[d]))
        BY <1>0, <2>1, <2>2, <3>2, ReportedIncoming, SMTT(30)
      <4> QED
        BY <2>1, <3>2, <4>1
    <3>3. CASE d # c /\ d \notin phy
      BY <2>1, <3>3
    <3> QED
      BY <3>1, <3>2, <3>3
  <2> QED
    BY <2>4
<1>9. CASE UNCHANGED vars
  BY <1>9 DEF vars
<1> QED
  BY <1>1, <1>2, <1>3, <1>4, <1>5, <1>6, <1>7, <1>8, <1>9, NextCases, ZenonT(60)

\* The end of a connection is always reported: a connection the host was told
\* of is in the table or its DISCONNECTION_COMPLETE is queued.
THEOREM EndsAlwaysReported == Spec => []EndsReported
<1> DEFINE Inv == \A c \in Ctrl : Reported(ctl[c])
<1>1. Init => Inv
  BY DEF Init, Reported
<1>2. Inv /\ IInv /\ [Next]_vars => Inv'
  BY NextReported
<1>3. Inv => EndsReported
  BY DEF Reported, EndsReported, Holds
<1> HIDE DEF Inv
<1> QED
  BY <1>1, <1>2, <1>3, SpecIInv, PTL DEF Spec

=============================================================================
