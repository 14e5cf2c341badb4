----------------------------- MODULE BrEdrLink -----------------------------
(***************************************************************************)
(* BR/EDR connections between rootcanal controllers that share one BR/EDR  *)
(* phy: paging and page scan, accepting, rejecting and cancelling, page    *)
(* collisions, role switch, synchronous (SCO) connections on top,          *)
(* disconnection, supervision timeout and HCI Reset, with the connection   *)
(* tables and the links of the Rust link manager.                          *)
(*                                                                         *)
(* As in LeLink a controller schedules what it sends, packets and deferred *)
(* events, as zero-delay tasks.  A Tick is StartTick, the tasks that were  *)
(* due, in order, and Paging; no host command and no other Tick comes in   *)
(* between.                                                                *)
(*                                                                         *)
(* Abstractions: a controller is its address; a supervision or a page      *)
(* timeout may be found expired in any Tick, so that pings (which only     *)
(* reset timers) are left out; the allocator does not come back to a       *)
(* handle while an event that names it is queued (there are 0xeff; after a *)
(* Reset it may, and HostKnows makes no claim there); whether the SCO      *)
(* parameters agree is the acceptor's choice.  Of the events only          *)
(* Connection Request may be masked.  SCO data and sniff mode are left     *)
(* out.                                                                    *)
(***************************************************************************)
EXTENDS Naturals, Sequences, FiniteSets, Functions

CONSTANTS
  Ctrl,        \* controllers, named by their address
  None,        \* Address::kEmpty and the empty optional
  Handles,     \* handles of ACL connections, and of SCO connections
  Slots,       \* places for links in a link manager (7)
  Usages,      \* what the hosts may do (see Usage)
  MaxTasks     \* bound: host commands stop at this queue length

(* The controllers whose host may create and cancel connections, accept or  *)
(* reject them, end them, switch roles, set up and end SCO connections,     *)
(* reset; the controllers whose timers may expire; those with role switches *)
(* allowed by the default link policy; those with the Connection Request    *)
(* event masked.                                                            *)
Usage == [callers : SUBSET Ctrl, cancellers : SUBSET Ctrl, acceptors : SUBSET Ctrl,
          rejecters : SUBSET Ctrl, enders : SUBSET Ctrl, switchers : SUBSET Ctrl,
          speakers : SUBSET Ctrl, silencers : SUBSET Ctrl, resetters : SUBSET Ctrl,
          expiring : SUBSET Ctrl, policy : SUBSET Ctrl, masked : SUBSET Ctrl]

VARIABLES
  ctl,        \* the state of each controller (see Controller)
  ticking,    \* the controller whose Tick is running, or None
  due,        \* tasks this Tick has still to run
  usage       \* the hosts of this behaviour, never changed

vars == <<ctl, ticking, due, usage>>

-----------------------------------------------------------------------------
(* State.                                                                  *)

PacketType == {"PAGE", "PAGE_RESPONSE", "PAGE_REJECT", "DISCONNECT",
               "ROLE_SWITCH_REQUEST", "ROLE_SWITCH_RESPONSE",
               "SCO_CONNECTION_REQUEST", "SCO_CONNECTION_RESPONSE", "SCO_DISCONNECT"}
EventType == {"CONNECTION_COMPLETE", "DISCONNECTION_COMPLETE", "REJECT_PERIPHERAL"}

(* ok: allow_role_switch of a PAGE, try_role_switch of a PAGE_RESPONSE,     *)
(* status SUCCESS of a response or of a Connection Complete.  handle is     *)
(* that of an ACL connection, in events.                                    *)
Task == {t \in [type : PacketType \cup EventType, peer : Ctrl, ok : BOOLEAN, handle : Handles \cup {None}] :
           t.type = "CONNECTION_COMPLETE" /\ t.ok => t.handle # None}
Packet(type, p, ok) == [type |-> type, peer |-> p, ok |-> ok, handle |-> None]
Event(type, p, ok, h) == [type |-> type, peer |-> p, ok |-> ok, handle |-> h]

Page == [bd_addr : Ctrl, allow_role_switch : BOOLEAN]
Role == {"CENTRAL", "PERIPHERAL"}
Acl == [address : Ctrl, role : Role, switch : BOOLEAN]
(* PENDING: asked by this side; SENT: asked by the peer.                    *)
Sco == [address : Ctrl, state : {"PENDING", "SENT", "OPENED"}]

(* failed: an ASSERT has failed.  The last four are what the host knows:    *)
(* the peers for which it awaits a Connection Complete, the handles it was  *)
(* told are connected, the connection requests it has not answered.         *)
Controller == [page_ : Page \cup {None}, page_scan_ : Page \cup {None},
               page_scan_enable_ : BOOLEAN, masked : BOOLEAN, policy : BOOLEAN,
               acl : [Handles -> Acl \cup {None}], sco : [Handles -> Sco \cup {None}],
               lm_ : [Slots -> Ctrl \cup {None}], tasks : Seq(Task), failed : BOOLEAN,
               awaiting : SUBSET Ctrl, told : SUBSET Handles,
               requests : SUBSET Ctrl, scoRequests : SUBSET Ctrl]

ASSUME NoneAssumption == None \notin Ctrl \cup Handles \cup Page \cup Acl \cup Sco
ASSUME HandlesAssumption == IsFiniteSet(Handles)

AclOf(s, p) == {h \in Handles : s.acl[h] # None /\ s.acl[h].address = p}
ScoOf(s, p) == {h \in Handles : s.sco[h] # None /\ s.sco[h].address = p}
Used(table) == {h \in Handles : table[h] # None}
Named(s) == {s.tasks[i].handle : i \in DOMAIN s.tasks}
Unused(s) == CHOOSE h \in Handles : s.acl[h] = None /\ h \notin Named(s)
UnusedSco(s) == CHOOSE h \in Handles : s.sco[h] = None
AclFull(s) == Handles \subseteq Used(s.acl) \cup Named(s)
ScoFull(s) == Handles \subseteq Used(s.sco)

\* GetAclConnectionHandle and GetScoConnectionHandle: the first in the map's order.
GetAclConnectionHandle(s, p) == CHOOSE h \in Handles : h \in AclOf(s, p)
GetScoConnectionHandle(s, p) == CHOOSE h \in Handles : h \in ScoOf(s, p)

HasPendingScoConnection(s, p) ==
  ScoOf(s, p) # {} /\ s.sco[GetScoConnectionHandle(s, p)].state # "OPENED"

\* links.iter().position(...)
SlotsOf(s, p) == {i \in Slots : s.lm_[i] = p}
Position(s, p) == CHOOSE i \in Slots : i \in SlotsOf(s, p)

EmptyTable == [h \in Handles |-> None]
NoLinks == [i \in Slots |-> None]

Init ==
  /\ usage \in Usages
  /\ ctl = [c \in Ctrl |->
              [page_ |-> None, page_scan_ |-> None, page_scan_enable_ |-> TRUE,
               masked |-> c \in usage.masked, policy |-> c \in usage.policy,
               acl |-> EmptyTable, sco |-> EmptyTable, lm_ |-> NoLinks, tasks |-> <<>>,
               failed |-> FALSE, awaiting |-> {}, told |-> {}, requests |-> {},
               scoRequests |-> {}]]
  /\ ticking = None /\ due = 0

-----------------------------------------------------------------------------
(* The tables.                                                             *)

Send(s, ts) == [s EXCEPT !.tasks = @ \o ts]

Pages(s, p) == s.page_ # None /\ s.page_.bd_addr = p
Scans(s, p) == s.page_scan_ # None /\ s.page_scan_.bd_addr = p

\* link_manager_add_link fails when there is no room, link_manager_remove_link
\* without the link.
AddLink(s, p) ==
  IF SlotsOf(s, None) = {} THEN [s EXCEPT !.failed = TRUE]
  ELSE [s EXCEPT !.lm_[Position(s, None)] = p]

RemoveLink(s, p) ==
  IF SlotsOf(s, p) = {} THEN [s EXCEPT !.failed = TRUE]
  ELSE [s EXCEPT !.lm_[Position(s, p)] = None]

\* AclConnectionHandler::CreateConnection, SetRole, SetLinkPolicySettings, and the
\* link of the link manager.
AddConnection(s, p, role) ==
  [AddLink(s, p) EXCEPT !.acl[Unused(s)] = [address |-> p, role |-> role, switch |-> s.policy]]

\* AclConnectionHandler::Disconnect asserts that no SCO connection is left.
RemoveConnection(s, h) ==
  LET p == s.acl[h].address IN
  [RemoveLink(s, p) EXCEPT !.acl[h] = None, !.failed = @ \/ ScoOf(s, p) # {}]

AddSco(s, p, state) ==
  [s EXCEPT !.sco[UnusedSco(s)] = [address |-> p, state |-> state]]

RemoveSco(s, p) ==
  IF ScoOf(s, p) = {} THEN s ELSE [s EXCEPT !.sco[GetScoConnectionHandle(s, p)] = None]

OpenSco(s, p) == [s EXCEPT !.sco[GetScoConnectionHandle(s, p)].state = "OPENED"]

-----------------------------------------------------------------------------
(* HCI commands.                                                           *)

CreateConnection(s, p, allow) ==
  [s EXCEPT !.page_ = [bd_addr |-> p, allow_role_switch |-> allow],
            !.awaiting = @ \cup {p}]

\* Mutant: no Connection Complete.
CreateConnectionCancel_Silent(s, p) == [s EXCEPT !.page_ = None]

CreateConnectionCancel(s, p) ==
  [Send(s, <<Event("CONNECTION_COMPLETE", p, FALSE, None)>>) EXCEPT !.page_ = None]

\* Mutant: goes on paging the peer it accepts.
AcceptConnectionRequest_KeepsPage(s, p, try) ==
  IF AclOf(s, p) # {} THEN s
  ELSE [Send(AddConnection(s, p, "PERIPHERAL"),
             <<Event("CONNECTION_COMPLETE", p, TRUE, Unused(s)), Packet("PAGE_RESPONSE", p, FALSE)>>)
          EXCEPT !.requests = @ \ {p}, !.page_scan_ = None, !.awaiting = @ \cup {p}]

\* An ACL connection may exist already: a page collision that the peer resolved.
AcceptConnectionRequest(s, p, try) ==
  LET t == [s EXCEPT !.requests = @ \ {p}]
      role == IF try /\ s.page_scan_.allow_role_switch THEN "CENTRAL" ELSE "PERIPHERAL"
      u == Send(AddConnection(t, p, role),
                <<Event("CONNECTION_COMPLETE", p, TRUE, Unused(s)), Packet("PAGE_RESPONSE", p, try)>>)
  IN  IF AclOf(s, p) # {} THEN t
      ELSE [u EXCEPT !.page_ = IF Pages(s, p) THEN None ELSE @, !.page_scan_ = None,
                     !.awaiting = @ \cup {p}]

RejectConnectionRequest(s, p) ==
  [Send(s, <<Event("REJECT_PERIPHERAL", p, FALSE, None)>>) EXCEPT
     !.requests = @ \ {p}, !.awaiting = @ \cup {p}]

DisconnectSco(s, p) == Send(RemoveSco(s, p), <<Packet("SCO_DISCONNECT", p, TRUE)>>)

\* Mutant: leaves the SCO connection.
Disconnect_KeepsSco(s, h) ==
  Send(RemoveConnection(s, h), <<Packet("DISCONNECT", s.acl[h].address, TRUE),
                                 Event("DISCONNECTION_COMPLETE", s.acl[h].address, TRUE, h)>>)

\* The Disconnection Complete of the SCO connection is left out.
Disconnect(s, h) ==
  LET p == s.acl[h].address
      t == IF ScoOf(s, p) = {} THEN s ELSE DisconnectSco(s, p)
  IN  Send(RemoveConnection(t, h), <<Packet("DISCONNECT", p, TRUE),
                                     Event("DISCONNECTION_COMPLETE", p, TRUE, h)>>)

\* The host asks for the other role.
SwitchRole(s, p) == Send(s, <<Packet("ROLE_SWITCH_REQUEST", p, TRUE)>>)

WriteLinkPolicySettings(s, h, switch) == [s EXCEPT !.acl[h].switch = switch]

\* SetupSynchronousConnection, its Enhanced form and AddScoConnection.
SetupSynchronousConnection(s, p) ==
  Send(AddSco(s, p, "PENDING"), <<Packet("SCO_CONNECTION_REQUEST", p, TRUE)>>)

\* AcceptSynchronousConnection, its Enhanced form, AcceptConnectionRequest for a
\* SCO connection, RejectSynchronousConnection.  ok: it is accepted, and
\* NegotiateLinkParameters finds parameters.  The request may have been withdrawn.
AnswerSynchronousConnection(s, p, ok) ==
  LET t == [s EXCEPT !.scoRequests = @ \ {p}]
  IN  IF ~HasPendingScoConnection(s, p) THEN t
      ELSE Send(IF ok THEN OpenSco(t, p) ELSE RemoveSco(t, p),
                <<Packet("SCO_CONNECTION_RESPONSE", p, ok)>>)

\* Iterating over an unordered_map: every key of S once, in some order.
IterationOrder(S) == CHOOSE f \in [1..Cardinality(S) -> S] : IsInjective(f)

\* One packet for every connection, SCO first.
DisconnectAll(s) ==
  LET sco == IterationOrder(Used(s.sco))
      acl == IterationOrder(Used(s.acl))
  IN  Send(s, [i \in DOMAIN sco |-> Packet("SCO_DISCONNECT", s.sco[sco[i]].address, TRUE)]
              \o [i \in DOMAIN acl |-> Packet("DISCONNECT", s.acl[acl[i]].address, TRUE)])

\* Everything but the task queue gets its initial value.
Reset(s) ==
  [DisconnectAll(s) EXCEPT
     !.acl = EmptyTable, !.sco = EmptyTable, !.lm_ = NoLinks, !.page_ = None, !.page_scan_ = None,
     !.page_scan_enable_ = FALSE, !.masked = FALSE, !.policy = FALSE,
     !.awaiting = {}, !.told = {}, !.requests = {}, !.scoRequests = {}]

-----------------------------------------------------------------------------
(* IncomingPacket: the handlers of controller state s for a packet from p.  *)

IncomingPagePacket(s, p, allow) ==
  IF ~s.page_scan_enable_ THEN s
  ELSE IF s.masked THEN Send(s, <<Packet("PAGE_REJECT", p, FALSE)>>)
  ELSE IF AclOf(s, p) # {} \/ s.page_scan_ # None THEN s
  ELSE [s EXCEPT !.page_scan_ = [bd_addr |-> p, allow_role_switch |-> allow],
                 !.requests = @ \cup {p}]

IncomingPageRejectPacket(s, p) ==
  IF ~Pages(s, p) THEN s ELSE [s EXCEPT !.page_ = None, !.awaiting = @ \ {p}]

IncomingPageResponsePacket(s, p, try) ==
  LET role == IF s.page_.allow_role_switch /\ try THEN "PERIPHERAL" ELSE "CENTRAL"
  IN  IF ~Pages(s, p) THEN s
      ELSE [AddConnection(s, p, role) EXCEPT !.page_ = None, !.awaiting = @ \ {p},
                                             !.told = @ \cup {Unused(s)}]

IncomingDisconnectPacket(s, p) ==
  IF AclOf(s, p) = {} THEN s
  ELSE LET h == GetAclConnectionHandle(s, p)
       IN  Send(RemoveConnection(s, h), <<Event("DISCONNECTION_COMPLETE", p, TRUE, h)>>)

Other(role) == IF role = "CENTRAL" THEN "PERIPHERAL" ELSE "CENTRAL"
FlipRole(s, h) == [s EXCEPT !.acl[h].role = Other(@)]

IncomingRoleSwitchRequest(s, p) ==
  LET h == GetAclConnectionHandle(s, p) IN
  IF AclOf(s, p) = {} THEN s
  ELSE IF ~s.acl[h].switch THEN Send(s, <<Packet("ROLE_SWITCH_RESPONSE", p, FALSE)>>)
  ELSE Send(FlipRole(s, h), <<Packet("ROLE_SWITCH_RESPONSE", p, TRUE)>>)

\* Mutant: does not look at the status.
IncomingRoleSwitchResponse_AnyStatus(s, p, ok) ==
  IF AclOf(s, p) = {} THEN s ELSE FlipRole(s, GetAclConnectionHandle(s, p))

IncomingRoleSwitchResponse(s, p, ok) ==
  IF AclOf(s, p) = {} \/ ~ok THEN s ELSE FlipRole(s, GetAclConnectionHandle(s, p))

IncomingScoConnectionRequest(s, p) ==
  IF HasPendingScoConnection(s, p)
  THEN Send(s, <<Packet("SCO_CONNECTION_RESPONSE", p, FALSE)>>)
  ELSE [AddSco(s, p, "SENT") EXCEPT !.scoRequests = @ \cup {p}]

IncomingScoConnectionResponse(s, p, ok) ==
  IF ScoOf(s, p) = {} THEN s
  ELSE IF ok THEN OpenSco(s, p) ELSE RemoveSco(s, p)

IncomingScoDisconnect(s, p) == RemoveSco(s, p)

IncomingPacket(s, p, task) ==
  CASE task.type = "PAGE" -> IncomingPagePacket(s, p, task.ok)
    [] task.type = "PAGE_REJECT" -> IncomingPageRejectPacket(s, p)
    [] task.type = "PAGE_RESPONSE" -> IncomingPageResponsePacket(s, p, task.ok)
    [] task.type = "DISCONNECT" -> IncomingDisconnectPacket(s, p)
    [] task.type = "ROLE_SWITCH_REQUEST" -> IncomingRoleSwitchRequest(s, p)
    [] task.type = "ROLE_SWITCH_RESPONSE" -> IncomingRoleSwitchResponse(s, p, task.ok)
    [] task.type = "SCO_CONNECTION_REQUEST" -> IncomingScoConnectionRequest(s, p)
    [] task.type = "SCO_CONNECTION_RESPONSE" -> IncomingScoConnectionResponse(s, p, task.ok)
    [] task.type = "SCO_DISCONNECT" -> IncomingScoDisconnect(s, p)

\* A scheduled event, or RejectPeripheralConnection, whose Connection Complete
\* has the same address as the answer to a Create Connection.
DeferredEvent(s, task) ==
  LET p == task.peer IN
  CASE task.type = "CONNECTION_COMPLETE" ->
         [s EXCEPT !.awaiting = @ \ {p}, !.told = IF task.ok THEN @ \cup {task.handle} ELSE @]
    [] task.type = "DISCONNECTION_COMPLETE" -> [s EXCEPT !.told = @ \ {task.handle}]
    [] task.type = "REJECT_PERIPHERAL" ->
         [Send(s, <<Packet("PAGE_REJECT", p, FALSE)>>) EXCEPT !.awaiting = @ \ {p}]

-----------------------------------------------------------------------------
(* Actions.                                                                *)

\* ASSERT ends the process.
Alive == \A c \in Ctrl : ~ctl[c].failed

\* Bound: with this many tasks queued anywhere, hosts and idle controllers wait.
Room == \A c \in Ctrl : Len(ctl[c].tasks) <= MaxTasks

Commands(c) == Alive /\ ticking = None /\ Room

Becomes(c, s) == ctl' = [ctl EXCEPT ![c] = s] /\ UNCHANGED <<ticking, due>>

\* The host of c sends a command that is not refused at once.  It does not ask for
\* what it is already waiting for, or for a second SCO connection with a peer.
\* (GetUnusedHandle does not return with a full table.)
HostCommand(c) ==
  LET s == ctl[c] IN
  /\ Commands(c)
  /\ \E p \in Ctrl \ {c} :
       \/ /\ c \in usage.callers /\ p \notin s.awaiting
          /\ s.page_ = None /\ AclOf(s, p) = {} /\ ~Scans(s, p)
          /\ \E allow \in BOOLEAN : Becomes(c, CreateConnection(s, p, allow))
       \/ c \in usage.cancellers /\ Pages(s, p) /\ Becomes(c, CreateConnectionCancel(s, p))
       \/ /\ c \in usage.acceptors /\ p \in s.requests /\ Scans(s, p) /\ ~AclFull(s)
          /\ \E try \in BOOLEAN : Becomes(c, AcceptConnectionRequest(s, p, try))
       \/ /\ c \in usage.rejecters /\ p \in s.requests /\ Scans(s, p)
          /\ Becomes(c, RejectConnectionRequest(s, p))
       \/ /\ c \in usage.enders
          /\ \E h \in AclOf(s, p) \cap s.told : Becomes(c, Disconnect(s, h))
       \/ /\ c \in usage.switchers /\ AclOf(s, p) \cap s.told # {} /\ ScoOf(s, p) = {}
          /\ \/ Becomes(c, SwitchRole(s, p))
             \/ \E h \in AclOf(s, p), switch \in BOOLEAN :
                  Becomes(c, WriteLinkPolicySettings(s, h, switch))
       \/ /\ c \in usage.speakers /\ p \notin s.scoRequests
          /\ AclOf(s, p) \cap s.told # {} /\ ScoOf(s, p) = {} /\ ~ScoFull(s)
          /\ Becomes(c, SetupSynchronousConnection(s, p))
       \/ /\ p \in s.scoRequests
          /\ \E ok \in BOOLEAN : Becomes(c, AnswerSynchronousConnection(s, p, ok))
       \/ /\ c \in usage.silencers
          /\ \E h \in ScoOf(s, p) : s.sco[h].state = "OPENED" /\ Becomes(c, DisconnectSco(s, p))

ResetCommand(c) ==
  /\ Commands(c) /\ c \in usage.resetters
  /\ Becomes(c, Reset(ctl[c]))

WriteScanEnable(c) ==
  /\ Commands(c) /\ ~ctl[c].page_scan_enable_
  /\ Becomes(c, [ctl[c] EXCEPT !.page_scan_enable_ = TRUE])

StartTick(c) ==
  /\ Alive /\ ticking = None /\ (Room \/ Len(ctl[c].tasks) > MaxTasks)
  /\ ticking' = c /\ due' = Len(ctl[c].tasks)
  /\ UNCHANGED ctl

Popped(s) == [s EXCEPT !.tasks = Tail(@)]

\* RunPendingTasks: a packet is handed to its destination at once.
RunTask(c) ==
  /\ Alive /\ ticking = c /\ due > 0 /\ due' = due - 1
  /\ LET task == Head(ctl[c].tasks) d == task.peer IN
     \/ /\ task.type \in EventType
        /\ ctl' = [ctl EXCEPT ![c] = DeferredEvent(Popped(ctl[c]), task)]
     \/ /\ task.type \in PacketType
        /\ task.type = "PAGE_RESPONSE" => ~AclFull(ctl[d])
        /\ task.type = "SCO_CONNECTION_REQUEST" => ~ScoFull(ctl[d])
        /\ ctl' = [ctl EXCEPT ![c] = Popped(ctl[c]), ![d] = IncomingPacket(ctl[d], c, task)]
  /\ UNCHANGED ticking

\* CheckExpiringConnection, in a Tick that finds the connection expired.
CheckExpiringConnection(c) ==
  /\ Alive /\ ticking = c /\ c \in usage.expiring
  /\ \E h \in Used(ctl[c].acl) : Becomes(c, Disconnect(ctl[c], h))

\* The end of a Tick.  The page timeout may have passed, or the page interval; no
\* page is sent to a peer whose own page waits for an answer.
Paging(c) ==
  LET s == ctl[c] IN
  /\ Alive /\ ticking = c /\ due = 0
  /\ \/ /\ s.page_ # None /\ c \in usage.expiring
        /\ ctl' = [ctl EXCEPT ![c].page_ = None, ![c].awaiting = @ \ {s.page_.bd_addr}]
     \/ /\ s.page_ # None /\ ~Scans(s, s.page_.bd_addr)
        /\ ctl' = [ctl EXCEPT ![c] = Send(s, <<Packet("PAGE", s.page_.bd_addr,
                                                        s.page_.allow_role_switch)>>)]
     \/ UNCHANGED ctl
  /\ ticking' = None /\ UNCHANGED due

Next ==
  /\ UNCHANGED usage
  /\ \E c \in Ctrl : \/ HostCommand(c) \/ ResetCommand(c) \/ WriteScanEnable(c)
                    \/ StartTick(c) \/ RunTask(c) \/ CheckExpiringConnection(c) \/ Paging(c)

Spec == Init /\ [][Next]_vars

-----------------------------------------------------------------------------
(* Properties.                                                             *)

\* Every field keeps its type; a Tick has no more tasks to run than are queued.
TypeOK ==
  /\ ctl \in [Ctrl -> Controller]
  /\ ticking \in Ctrl \cup {None}
  /\ due \in Nat
  /\ ticking # None => due <= Len(ctl[ticking].tasks)

\* The state keeps its type, and the ACL table, the links of the link manager and
\* the page state describe the same connections: one connection and one link per
\* peer ("Cannot establish two BR-EDR connections with the same peer",
\* bredr_controller.cc), the links are those of the connected peers, and no
\* connected peer is paged.
TablesAgree ==
  TypeOK /\ \A c \in Ctrl :
    LET s == ctl[c] IN
    ~s.failed =>
      /\ \A p \in Ctrl : AclOf(s, p) = {} <=> SlotsOf(s, p) = {}
      /\ \A g, h \in Used(s.acl) : s.acl[g].address = s.acl[h].address => g = h
      /\ \A i, j \in Slots : s.lm_[i] # None /\ s.lm_[i] = s.lm_[j] => i = j
      /\ \A p \in Ctrl : Pages(s, p) => AclOf(s, p) = {}

Queued(s, type, h) == \E i \in DOMAIN s.tasks : s.tasks[i].type = type /\ s.tasks[i].handle = h
Answer(task) == task.type \in {"CONNECTION_COMPLETE", "REJECT_PERIPHERAL"}

\* What the host is told.  Each Create, Accept or Reject gets its Connection
\* Complete ("shall always be sent"): the peer is still being paged, or the event
\* is queued; and nobody is paged for a host that awaits nothing (unless it
\* rejected the peer it calls, whose Connection Complete it takes for the other
\* one).  Connections are reported, and so is their end, but for those that HCI
\* Reset drops, which leaves queued events in place.
HostKnows ==
  \A c \in Ctrl :
    LET s == ctl[c] IN
      /\ \A p \in s.awaiting : Pages(s, p) \/ \E i \in DOMAIN s.tasks : Answer(s.tasks[i]) /\ s.tasks[i].peer = p
      /\ s.page_ # None /\ c \notin usage.rejecters \cup usage.resetters => s.page_.bd_addr \in s.awaiting
      /\ c \notin usage.resetters =>
           /\ \A h \in Used(s.acl) \ s.told : Queued(s, "CONNECTION_COMPLETE", h)
           /\ \A h \in s.told \ Used(s.acl) : Queued(s, "DISCONNECTION_COMPLETE", h)

\* No ASSERT fails: the links are added and removed once, and SCO connections are
\* removed before their ACL connection ("It is the responsibility of the caller
\* to remove SCO connections with connected peer first").
AssertsHold == Alive

Quiet == ticking = None /\ \A c \in Ctrl : ctl[c].tasks = <<>>

(* Connections are made by one side, and ended by that side alone; SCO     *)
(* connections too, or by the other side alone.                            *)
Steady ==
  /\ usage.cancellers = {} /\ usage.resetters = {} /\ usage.expiring = {}
  /\ usage.enders \cup usage.speakers \subseteq usage.callers
  /\ usage.callers \cap usage.acceptors = {}
  /\ usage.silencers \subseteq usage.callers \/ usage.silencers \cap usage.callers = {}

\* When nothing is under way both ends of a connection know it, in opposite
\* roles, and have the same SCO connections; for steady hosts, since the packets
\* do not tell one connection of a pair of controllers from the next.
EndsAgree ==
  Quiet /\ Steady =>
    \A c, d \in Ctrl :
      LET h == GetAclConnectionHandle(ctl[c], d)
          g == GetAclConnectionHandle(ctl[d], c)
      IN  AclOf(ctl[c], d) # {} =>
            /\ AclOf(ctl[d], c) # {}
            /\ ctl[c].acl[h].role # ctl[d].acl[g].role
            /\ {ctl[c].sco[k].state = "OPENED" : k \in ScoOf(ctl[c], d)} =
               {ctl[d].sco[k].state = "OPENED" : k \in ScoOf(ctl[d], c)}
=============================================================================
