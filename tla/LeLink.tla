------------------------------- MODULE LeLink -------------------------------
(***************************************************************************)
(* The life of an LE-ACL connection between rootcanal controllers that     *)
(* share one LE phy: legacy advertising, the initiator, the CONNECT_IND    *)
(* exchange, the connection table and its handle allocator, the link set   *)
(* of the Rust link layer, HCI Disconnect, HCI Reset, the loss of the HCI  *)
(* transport and the keepalive check that drops a silent link.             *)
(*                                                                         *)
(* Controllers never run concurrently.  A controller schedules everything  *)
(* it sends (packets and deferred HCI events) as zero-delay tasks; Tick    *)
(* runs the tasks that were due when it started, in order, and each packet *)
(* is handed synchronously to every other device of the phy.  One Tick is  *)
(* here the steps StartTick, RunTask / CheckExpiringConnection ... and     *)
(* LeAdvertising; no host command and no other Tick comes in between.      *)
(*                                                                         *)
(* Abstractions: a controller is its own public device address (random and *)
(* resolvable addresses are out); the accept list is fixed for a run; the  *)
(* 3 s supervision timer has three readings (fresh, near expiry, expired); *)
(* the hosts leave the connection and disconnection events unmasked.       *)
(***************************************************************************)
EXTENDS Naturals, Sequences, FiniteSets, Functions

CONSTANTS
  Ctrl,                     \* controllers, named by their device address
  None,                     \* Address::kEmpty and the empty optional
  kLeAclRangeStart,         \* first LE-ACL connection handle
  kLeAclRangeEnd,           \* last LE-ACL connection handle
  AcceptList,               \* [Ctrl -> SUBSET Ctrl], le_filter_accept_list_
  Usages,                   \* what the hosts may do (see Usage)
  MaxTasks                  \* bound: host commands stop at this queue length

Handles == kLeAclRangeStart .. kLeAclRangeEnd
AdvertisingType == {"ADV_IND", "ADV_DIRECT_IND", "ADV_NONCONN_IND"}
AdvParameter == [type : AdvertisingType, peer : Ctrl \cup {None}, listed : BOOLEAN]
CreateParameter == [peer : Ctrl \cup {None}, listed : BOOLEAN]

ASSUME RangeAssumption ==
  /\ kLeAclRangeStart \in Nat /\ kLeAclRangeEnd \in Nat
  /\ kLeAclRangeStart <= kLeAclRangeEnd

(* The hosts of a behaviour: the advertising and Create Connection         *)
(* parameters each may use, the controllers whose host may cancel Create   *)
(* Connection, may send HCI Reset, may be lost, and a bound: no connection *)
(* is asked for while this many keepalive checks are outstanding.          *)
Usage == [advertising : [Ctrl -> SUBSET AdvParameter],
          create : [Ctrl -> SUBSET CreateParameter],
          cancellers : SUBSET Ctrl, resetters : SUBSET Ctrl, closers : SUBSET Ctrl,
          checks : Nat]

ASSUME ParameterAssumption ==
  /\ \A u \in Usages : u \in Usage
  /\ AcceptList \in [Ctrl -> SUBSET Ctrl]
  /\ MaxTasks \in Nat

VARIABLES
  ctl,        \* the state of each controller (see Controller)
  phy,        \* the controllers registered with the phy layer
  closing,    \* controllers whose transport is lost, not removed yet
  ticking,    \* the controller whose Tick is running, or None
  due,        \* tasks this Tick has still to run
  usage       \* the hosts of this behaviour, never changed

vars == <<ctl, phy, closing, ticking, due, usage>>

-----------------------------------------------------------------------------
(* Link layer packets and deferred events, as they sit in the task queue.  *)

LinkedPdu == {"DISCONNECT", "PING_REQUEST", "PING_RESPONSE"}
PduKind == {"ADV", "LE_CONNECT", "LE_CONNECT_COMPLETE"} \cup LinkedPdu
Pdu(kind, src, dst) == [kind |-> kind, src |-> src, dst |-> dst]
AdvPdu(type, src, dst) == [kind |-> "ADV", type |-> type, src |-> src, dst |-> dst]
DisconnectionComplete(h) == [kind |-> "DISCONNECTION_COMPLETE", handle |-> h]
CreateConnectionCancelled == [kind |-> "CREATE_CANCELLED"]

Task == [kind : PduKind \ {"ADV"}, src : Ctrl, dst : Ctrl]
        \cup [kind : {"ADV"}, type : AdvertisingType, src : Ctrl, dst : Ctrl \cup {None}]
        \cup [kind : {"DISCONNECTION_COMPLETE"}, handle : Handles]
        \cup {CreateConnectionCancelled}
IsPdu(task) == task.kind \in PduKind

(* pings: keepalive checks that fired since the link came near expiry; a   *)
(* check that fires there reschedules itself at the expiry.                *)
Connection == [address : Ctrl, own_address : Ctrl, role : {"CENTRAL", "PERIPHERAL"},
               age : {"fresh", "near", "expired"}, pings : Nat]

ASSUME NoneAssumption == None \notin Ctrl \cup Handles \cup Connection

Advertiser == [enable : BOOLEAN, type : AdvertisingType,
               peer : Ctrl \cup {None}, listed : BOOLEAN]
Initiator == [connect_enable : BOOLEAN, peer : Ctrl \cup {None}, listed : BOOLEAN,
              initiating_address : Ctrl \cup {None},
              pending_connect_request : Ctrl \cup {None}]

(* connections is le_acl_connections_; checks[h] counts the scheduled       *)
(* CheckExpiringConnection(h) tasks; host is the set of handles the HCI     *)
(* events sent so far show as connected.                                    *)
Controller == [advertiser : Advertiser, initiator : Initiator,
               connections : [Handles -> Connection \cup {None}],
               last : Handles, ll : SUBSET Handles, checks : [Handles -> Nat],
               tasks : Seq(Task), host : SUBSET Handles]

Connected(s) == {h \in Handles : s.connections[h] # None}

NoConnections == [h \in Handles |-> None]
LegacyAdvertiser0 == [enable |-> FALSE, type |-> "ADV_IND", peer |-> None, listed |-> FALSE]
Initiator0 == [connect_enable |-> FALSE, peer |-> None, listed |-> FALSE,
               initiating_address |-> None, pending_connect_request |-> None]

Init ==
  /\ ctl = [c \in Ctrl |->
              [advertiser |-> LegacyAdvertiser0, initiator |-> Initiator0,
               connections |-> NoConnections, last |-> kLeAclRangeStart, ll |-> {},
               checks |-> [h \in Handles |-> 0], tasks |-> <<>>, host |-> {}]]
  /\ phy = Ctrl /\ closing = {} /\ ticking = None /\ due = 0
  /\ usage \in Usages

-----------------------------------------------------------------------------
(* The connection table.                                                   *)

SendTasks(s, ts) == [s EXCEPT !.tasks = @ \o ts]

\* Faulty variants, named <definition>_<fault>, stand before the definition
\* they would replace; the specification never uses them.
NextHandle(h) == IF h + 1 > kLeAclRangeEnd THEN kLeAclRangeStart ELSE h + 1

\* How many steps the allocator takes from handle `from` to handle h.
Distance(from, h) ==
  IF from <= h THEN h - from ELSE (h - kLeAclRangeStart) + (kLeAclRangeEnd - from) + 1

\* What the loop of the code finds: the first handle at or after `last`, cyclically,
\* that is not used.  With all handles used the loop does not end, and the steps
\* that would allocate one are disabled (HasUnusedHandle).
GetUnusedHandle(used, last) ==
  CHOOSE h \in Handles \ used :
    \A g \in Handles \ used : Distance(last, h) <= Distance(last, g)

\* The handles GetLeAclConnectionHandle may return: the table is unordered.
GetLeAclConnectionHandles(s, local, remote) ==
  {h \in Connected(s) : /\ s.connections[h].address = remote
                                /\ s.connections[h].own_address = local}

AddLink(s, h, connection) ==
  [s EXCEPT !.connections[h] = connection, !.ll = @ \cup {h}]

RemoveLink_KeepsLink(s, h) == [s EXCEPT !.connections[h] = None]
RemoveLink(s, h) ==
  [s EXCEPT !.connections[h] = None, !.ll = @ \ {h}]

\* Create the connection, start its keepalive check, tell the host, add the
\* link to the Rust link layer.
HandleLeConnection(s, address, own_address, role) ==
  LET h == GetUnusedHandle(Connected(s), s.last)
      c == [address |-> address, own_address |-> own_address, role |-> role,
            age |-> "fresh", pings |-> 0]
  IN  [AddLink(s, h, c) EXCEPT
         !.last = NextHandle(h),
         !.checks[h] = @ + 1,
         !.host = @ \cup {h},
         !.initiator.initiating_address = IF @ = own_address THEN None ELSE @]

HasUnusedHandle(s) == Handles \ Connected(s) # {}

-----------------------------------------------------------------------------
(* Packet handlers: the controller d, in state s, receives packet p.       *)

Connectable(type) == type # "ADV_NONCONN_IND"

\* ConnectIncomingLeLegacyAdvertisingPdu.
WouldConnect(s, d, p) ==
  /\ s.initiator.connect_enable
  /\ Connectable(p.type)
  /\ s.initiator.pending_connect_request = None
  /\ IF s.initiator.listed THEN p.src \in AcceptList[d] ELSE p.src = s.initiator.peer
  /\ p.type = "ADV_DIRECT_IND" => p.dst = d

IncomingLeLegacyAdvertisingPdu(s, d, p) ==
  IF ~WouldConnect(s, d, p) THEN s
  ELSE SendTasks([s EXCEPT !.initiator.pending_connect_request = p.src,
                           !.initiator.initiating_address = d],
                 <<Pdu("LE_CONNECT", d, p.src)>>)

\* ProcessIncomingLegacyConnectRequest.
AcceptsConnect(s, d, p) ==
  /\ s.advertiser.enable
  /\ Connectable(s.advertiser.type)
  /\ p.dst = d
  /\ IF s.advertiser.type = "ADV_DIRECT_IND" THEN p.src = s.advertiser.peer
     ELSE s.advertiser.listed => p.src \in AcceptList[d]

IncomingLeConnectPacket(s, d, p) ==
  IF ~AcceptsConnect(s, d, p) THEN s
  ELSE [SendTasks(HandleLeConnection(s, p.src, p.dst, "PERIPHERAL"),
                  <<Pdu("LE_CONNECT_COMPLETE", p.dst, p.src)>>)
          EXCEPT !.advertiser.enable = FALSE]

IgnoresConnectComplete(s, p) ==
  /\ s.initiator.pending_connect_request # p.src
  /\ s.initiator.initiating_address # p.dst

IncomingLeConnectCompletePacket(s, p) ==
  IF IgnoresConnectComplete(s, p) THEN s
  ELSE [HandleLeConnection(s, p.src, p.dst, "CENTRAL") EXCEPT
          !.initiator.pending_connect_request = None,
          !.initiator.connect_enable = FALSE]

ResetLinkTimer(s, h) ==
  [s EXCEPT !.connections[h].age = "fresh", !.connections[h].pings = 0]

IncomingLinkedPacket_NoEvent(s, h, p) ==
  CASE p.kind = "DISCONNECT"   -> RemoveLink(s, h)
    [] p.kind = "PING_REQUEST" -> SendTasks(ResetLinkTimer(s, h),
                                            <<Pdu("PING_RESPONSE", p.dst, p.src)>>)
    [] OTHER                   -> ResetLinkTimer(s, h)
\* A packet of an established connection, found under handle h.
IncomingLinkedPacket(s, h, p) ==
  CASE p.kind = "DISCONNECT"   -> SendTasks(RemoveLink(s, h), <<DisconnectionComplete(h)>>)
    [] p.kind = "PING_REQUEST" -> SendTasks(ResetLinkTimer(s, h),
                                            <<Pdu("PING_RESPONSE", p.dst, p.src)>>)
    [] OTHER                   -> ResetLinkTimer(s, h)

\* IncomingPacket; h is the handle found for a packet of a connection.
IncomingPacket(s, d, p, h) ==
  CASE p.kind = "ADV"                 -> IncomingLeLegacyAdvertisingPdu(s, d, p)
    [] p.kind = "LE_CONNECT"          -> IncomingLeConnectPacket(s, d, p)
    [] p.kind = "LE_CONNECT_COMPLETE" -> IncomingLeConnectCompletePacket(s, p)
    [] OTHER                          -> IF h = None THEN s ELSE IncomingLinkedPacket(s, h, p)

\* The allocator loops for ever when no handle is left: the step never ends.
CanHandle(s, d, p) ==
  \/ p.kind = "LE_CONNECT" /\ AcceptsConnect(s, d, p)
  \/ p.kind = "LE_CONNECT_COMPLETE" /\ ~IgnoresConnectComplete(s, p)
  => HasUnusedHandle(s)

\* The handles IncomingPacket may find for p (None: the packet is dropped).
Lookup(s, p) ==
  IF p.kind \in LinkedPdu /\ GetLeAclConnectionHandles(s, p.dst, p.src) # {}
  THEN GetLeAclConnectionHandles(s, p.dst, p.src)
  ELSE {None}

-----------------------------------------------------------------------------
(* HCI commands.  They are handled between two Ticks.                      *)

Idle(c) == ticking = None /\ c \in phy /\ c \notin closing
RoomFor(c) == Len(ctl[c].tasks) < MaxTasks
Outstanding(s) == SumFunctionOnSet(s.checks, Handles)

LeSetAdvertisingParameters(c, p) ==
  /\ Idle(c)
  /\ ~ctl[c].advertiser.enable
  /\ ctl' = [ctl EXCEPT ![c].advertiser = [enable |-> FALSE, type |-> p.type,
                                           peer |-> p.peer, listed |-> p.listed]]
  /\ UNCHANGED <<phy, closing, ticking, due>>

LeSetAdvertisingEnable(c, enable) ==
  /\ Idle(c)
  /\ enable => Outstanding(ctl[c]) < usage.checks
  /\ ctl' = [ctl EXCEPT ![c].advertiser.enable = enable]
  /\ UNCHANGED <<phy, closing, ticking, due>>

\* A host initiates to a peer only when it has no link to it; the controller
\* does not check this.
HostMayInitiate(c, p) ==
  \A h \in Connected(ctl[c]) : ctl[c].connections[h].address # p.peer /\ ~p.listed

LeCreateConnection(c, p) ==
  /\ Idle(c)
  /\ HostMayInitiate(c, p)
  /\ Outstanding(ctl[c]) < usage.checks
  /\ ~ctl[c].initiator.connect_enable
  /\ ctl' = [ctl EXCEPT ![c].initiator = [@ EXCEPT !.connect_enable = TRUE,
                                                   !.peer = p.peer, !.listed = p.listed,
                                                   !.pending_connect_request = None]]
  /\ UNCHANGED <<phy, closing, ticking, due>>

LeCreateConnectionCancel(c) ==
  /\ Idle(c) /\ RoomFor(c) /\ c \in usage.cancellers
  /\ ctl[c].initiator.connect_enable
  /\ ctl' = [ctl EXCEPT ![c] = SendTasks([@ EXCEPT !.initiator.connect_enable = FALSE],
                                         <<CreateConnectionCancelled>>)]
  /\ UNCHANGED <<phy, closing, ticking, due>>

Disconnect_Silent(s, h) == SendTasks(RemoveLink(s, h), <<DisconnectionComplete(h)>>)
\* LeController::Disconnect, for the host command and for the expired link.
Disconnect(s, h) ==
  SendTasks(RemoveLink(s, h),
            <<Pdu("DISCONNECT", s.connections[h].own_address, s.connections[h].address),
              DisconnectionComplete(h)>>)

HciDisconnect(c, h) ==
  /\ Idle(c) /\ RoomFor(c)
  /\ h \in Connected(ctl[c])
  /\ ctl' = [ctl EXCEPT ![c] = Disconnect(@, h)]
  /\ UNCHANGED <<phy, closing, ticking, due>>

\* Iterating over an unordered_map: every key of S once, in some order.
IterationOrder(S) == CHOOSE f \in [1..Cardinality(S) -> S] : IsInjective(f)

DisconnectAll(s) ==
  LET hs == IterationOrder(Connected(s))
  IN  SendTasks(s, [i \in DOMAIN hs |->
                      Pdu("DISCONNECT", s.connections[hs[i]].own_address,
                                        s.connections[hs[i]].address)])

\* Everything goes back to its initial value but the task queue.
ResetController(s) ==
  [DisconnectAll(s) EXCEPT
     !.advertiser = LegacyAdvertiser0, !.initiator = Initiator0,
     !.connections = NoConnections, !.last = kLeAclRangeStart,
     !.ll = {}, !.host = {}]

Reset(c) ==
  /\ Idle(c) /\ RoomFor(c) /\ c \in usage.resetters
  /\ ctl' = [ctl EXCEPT ![c] = ResetController(@)]
  /\ UNCHANGED <<phy, closing, ticking, due>>

-----------------------------------------------------------------------------
(* Tick.                                                                   *)

StartTick(c) ==
  /\ ticking = None /\ c \in phy
  /\ ticking' = c /\ due' = Len(ctl[c].tasks)
  /\ UNCHANGED <<ctl, phy, closing>>

\* HciDevice::Tick finds the transport closed: every peer is sent DISCONNECT
\* and the same Tick sends the packets.
Close(c) ==
  /\ Idle(c) /\ c \in usage.closers
  /\ closing' = closing \cup {c}
  /\ ctl' = [ctl EXCEPT ![c] = DisconnectAll(@)]
  /\ ticking' = c /\ due' = Len(ctl'[c].tasks)
  /\ UNCHANGED phy

\* TestModel::OnConnectionClosed, in the task the close callback scheduled.
RemoveDevice(c) ==
  /\ ticking = None /\ c \in closing
  /\ phy' = phy \ {c} /\ closing' = closing \ {c}
  /\ UNCHANGED <<ctl, ticking, due>>

\* The next due task of the ticking controller is an HCI event.
SendEvent ==
  /\ ticking # None /\ due > 0 /\ ~IsPdu(Head(ctl[ticking].tasks))
  /\ LET s == ctl[ticking]
         e == Head(s.tasks)
     IN  ctl' = [ctl EXCEPT ![ticking] =
                   [s EXCEPT !.tasks = Tail(@),
                             !.host = IF e.kind = "DISCONNECTION_COMPLETE"
                                      THEN @ \ {e.handle} ELSE @]]
  /\ due' = due - 1
  /\ UNCHANGED <<phy, closing, ticking>>

\* The next due task is a packet: the phy layer hands it to all the others.
SendPacket ==
  /\ ticking # None /\ due > 0 /\ IsPdu(Head(ctl[ticking].tasks))
  /\ LET p == Head(ctl[ticking].tasks)
     IN  /\ \A d \in phy \ {ticking} : CanHandle(ctl[d], d, p)
         /\ \E found \in [Ctrl -> Handles \cup {None}] :
              /\ \A d \in Ctrl : found[d] \in Lookup(ctl[d], p)
              /\ ctl' = [d \in Ctrl |->
                           CASE d = ticking -> [ctl[d] EXCEPT !.tasks = Tail(@)]
                             [] d \in phy \ {ticking} -> IncomingPacket(ctl[d], d, p, found[d])
                             [] OTHER -> ctl[d]]
  /\ due' = due - 1
  /\ UNCHANGED <<phy, closing, ticking>>

\* A keepalive check of handle h comes due during the Tick.  A check that
\* finds the link near expiry reschedules itself at the expiry, so it does not
\* come due again before; the truncation of that delay to milliseconds (a few
\* more pings in the last millisecond) is left out.
CheckFires(s, h) ==
  /\ s.checks[h] > 0
  /\ h \in Connected(s) /\ s.connections[h].age = "near" =>
       s.connections[h].pings < s.checks[h]

CheckExpiring_NotRearmed(s, h) ==
  IF h \in Connected(s) /\ s.connections[h].age = "fresh"
  THEN [s EXCEPT !.checks[h] = @ - 1]
  ELSE s

CheckExpiring_PingsOnly(s, h) ==
  IF h \notin Connected(s) THEN [s EXCEPT !.checks[h] = @ - 1]
  ELSE IF s.connections[h].age = "near"
       THEN SendTasks([s EXCEPT !.connections[h].pings = @ + 1],
                      <<Pdu("PING_REQUEST", s.connections[h].own_address,
                                            s.connections[h].address)>>)
       ELSE s

CheckExpiring(s, h) ==
  IF h \notin Connected(s) THEN [s EXCEPT !.checks[h] = @ - 1]
  ELSE CASE s.connections[h].age = "expired" ->
              [Disconnect(s, h) EXCEPT !.checks[h] = @ - 1]
         [] s.connections[h].age = "near" ->
              SendTasks([s EXCEPT !.connections[h].pings = @ + 1],
                        <<Pdu("PING_REQUEST", s.connections[h].own_address,
                                              s.connections[h].address)>>)
         [] OTHER -> s

CheckExpiringConnection(h) ==
  /\ ticking # None
  /\ CheckFires(ctl[ticking], h)
  /\ ctl' = [ctl EXCEPT ![ticking] = CheckExpiring(@, h)]
  /\ UNCHANGED <<phy, closing, ticking, due>>

\* The end of a Tick: a high duty cycle directed advertiser may time out, and
\* an enabled advertiser whose interval has elapsed sends its event.
AdvertisingTimeout(s) ==
  IF s.advertiser.type = "ADV_DIRECT_IND" THEN [s EXCEPT !.advertiser.enable = FALSE] ELSE s

AdvertisingEvent(s, c) ==
  IF ~s.advertiser.enable THEN s
  ELSE SendTasks(s, <<AdvPdu(s.advertiser.type, c,
                             IF s.advertiser.type = "ADV_DIRECT_IND"
                             THEN s.advertiser.peer ELSE None)>>)

LeAdvertising(timeout, elapsed) ==
  /\ ticking # None /\ due = 0
  /\ LET s == IF timeout THEN AdvertisingTimeout(ctl[ticking]) ELSE ctl[ticking]
     IN  ctl' = [ctl EXCEPT ![ticking] = IF elapsed THEN AdvertisingEvent(s, ticking) ELSE s]
  /\ ticking' = None
  /\ UNCHANGED <<phy, closing, due>>

Older(age) == IF age = "fresh" THEN "near" ELSE "expired"
Age(s, h) ==
  [s EXCEPT !.connections[h].age = Older(@), !.connections[h].pings = 0]

\* Half the supervision timeout passes without a packet on the link.
TimePasses(c, h) ==
  /\ ticking = None /\ c \in phy
  /\ h \in Connected(ctl[c])
  /\ ctl[c].connections[h].age # "expired"
  /\ ctl' = [ctl EXCEPT ![c] = Age(@, h)]
  /\ UNCHANGED <<phy, closing, ticking, due>>

-----------------------------------------------------------------------------
HostCommand(c) ==
  \/ \E p \in usage.advertising[c] : LeSetAdvertisingParameters(c, p)
  \/ usage.advertising[c] # {} /\ \E b \in BOOLEAN : LeSetAdvertisingEnable(c, b)
  \/ \E p \in usage.create[c] : LeCreateConnection(c, p)
  \/ LeCreateConnectionCancel(c)
  \/ \E h \in Handles : HciDisconnect(c, h)
  \/ Reset(c)

RunTask == SendEvent \/ SendPacket

Next ==
  /\ \/ \E c \in Ctrl : HostCommand(c) \/ StartTick(c) \/ Close(c) \/ RemoveDevice(c)
     \/ \E c \in Ctrl, h \in Handles : TimePasses(c, h)
     \/ RunTask
     \/ \E h \in Handles : CheckExpiringConnection(h)
     \/ \E timeout, elapsed \in BOOLEAN : LeAdvertising(timeout, elapsed)
  /\ UNCHANGED usage

Spec == Init /\ [][Next]_vars

\* TestModel's timer ticks every device of the phy for ever, a Tick ends,
\* time passes, and a check that is due fires before its Tick ends.
Fairness ==
  /\ \A c \in Ctrl : SF_vars(StartTick(c) /\ UNCHANGED usage)
  /\ WF_vars(RunTask /\ UNCHANGED usage)
  /\ WF_vars((\E t, e \in BOOLEAN : LeAdvertising(t, e)) /\ UNCHANGED usage)
  /\ \A c \in Ctrl :
       /\ SF_vars(ticking = c /\ (\E h \in Handles : CheckExpiringConnection(h)) /\ UNCHANGED usage)
       /\ SF_vars((\E h \in Handles : TimePasses(c, h)) /\ UNCHANGED usage)

FairSpec == Spec /\ Fairness

-----------------------------------------------------------------------------
(* Properties.                                                             *)

\* Every field keeps its type; the handles in the table, in the link layer
\* and in the queued events are of the LE-ACL range.
TypeOK ==
  /\ ctl \in [Ctrl -> Controller]
  /\ phy \subseteq Ctrl /\ closing \subseteq phy
  /\ ticking \in phy \cup {None}
  /\ due \in Nat
  /\ usage \in Usages

\* The state keeps its type, and the ASSERTs on link_layer_add_link and
\* link_layer_remove_link never fail: the Rust link layer knows exactly the
\* connections of the table.
LinkLayerInSync == TypeOK /\ \A c \in Ctrl : ctl[c].ll = Connected(ctl[c])

\* The keepalive chain of a connection is never lost: every connection of
\* the table has a CheckExpiringConnection task scheduled.
KeepaliveArmed ==
  \A c \in Ctrl : \A h \in Connected(ctl[c]) : ctl[c].checks[h] > 0

\* The end of a connection is always reported: a connection the host was told
\* of is in the table, or its DISCONNECTION_COMPLETE (deferred, while the
\* connection events are not) is queued.
EndsReported ==
  \A c \in Ctrl : \A h \in ctl[c].host \ Connected(ctl[c]) :
    \E i \in DOMAIN ctl[c].tasks : ctl[c].tasks[i] = DisconnectionComplete(h)

Links(c, role, peer) ==
  {h \in Connected(ctl[c]) :
     /\ ctl[c].connections[h].role = role
     /\ ctl[c].connections[h].address = peer}

\* Once everything sent has been delivered, a connection of an initiator that
\* neither cancels nor resets, and whose transport is not lost, has a
\* peripheral counterpart: CONNECT_COMPLETE and DISCONNECT are never reordered
\* so as to leave a central with a connection of its own.  (A lost device
\* sends its DISCONNECTs and keeps its table until it is removed.)
CentralsMatched ==
  (ticking = None /\ \A c \in phy : ctl[c].tasks = <<>>) =>
    \A c \in phy \ (closing \cup usage.cancellers \cup usage.resetters), d \in phy : c # d =>
      Cardinality(Links(c, "CENTRAL", d)) <= Cardinality(Links(d, "PERIPHERAL", c))

HalfOpen(c, h) ==
  /\ c \in phy /\ h \in Connected(ctl[c])
  /\ LET d == ctl[c].connections[h].address
     IN  d \in phy => GetLeAclConnectionHandles(ctl[d], d, c) = {}

\* A connection whose peer has forgotten it is dropped by the supervision
\* timeout (or its peer completes it).
HalfOpenEnds == \A c \in Ctrl, h \in Handles : HalfOpen(c, h) ~> ~HalfOpen(c, h)

=============================================================================
