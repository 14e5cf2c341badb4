-------------------------------- MODULE LeIso --------------------------------
(***************************************************************************)
(* Connected isochronous streams: the IsoManager of a controller that is   *)
(* central on its LE-ACL links, the IsoManager of the peripheral at the    *)
(* other end of each link, and the LLCP packets between them.              *)
(*                                                                         *)
(* A controller queues the packets it sends and delivers them in order in  *)
(* a later Tick; hosts send commands at any time in between.  An ACL link  *)
(* comes up when nothing of the previous one is in flight, since the       *)
(* packets that open it pass through the same queues.                      *)
(*                                                                         *)
(* Of the CIS parameters only the directions with a non-zero Max_SDU are   *)
(* kept.  LE_Set_CIG_Parameters configures one CIS per command; rejected   *)
(* commands change nothing and are left out.                               *)
(***************************************************************************)
EXTENDS Naturals, Sequences, FiniteSets, SequencesExt, FiniteSetsExt

CONSTANTS
  None,
  Links,      \* LE-ACL links of the central, one peripheral each
  Cigs, CisIds,
  Handles,    \* the CIS connection handles 0xe00 .. 0xefd
  Usages      \* ways in which the hosts use the controllers

Direction == {"c_to_p", "p_to_c"}
CisState == {"Configuration", "PendingRsp", "PendingAccept", "PendingInd", "Connected"}

Cis == [cig_id : Cigs, cis_id : CisIds, state : CisState, acl : Links \cup {None},
        paths : SUBSET Direction]
CisRequest == [cig_id : Cigs, cis_id : CisIds, acl : Links, handle : Handles]
Packet == [op : {"CIS_REQ", "CIS_TERMINATE_IND"}, cig_id : Cigs, cis_id : CisIds]
          \cup [op : {"CIS_RSP", "CIS_IND", "REJECT_EXT_IND", "DISCONNECT"}]

\* The links and the CISes the hosts use, what they do with them (see HostMay), and
\* a bound: hosts pause when so many packets are queued.
Usage == [links : SUBSET Links, streams : SUBSET (Cigs \X CisIds),
          commands : SUBSET STRING, bound : Nat]

ASSUME UsagesAssumption == Usages \subseteq Usage
ASSUME HandlesAssumption == Handles \subseteq Nat /\ None \notin Links \cup Cis

VARIABLES
  central,      \* the central's IsoManager (see Central)
  peripheral,   \* [Links -> Peripheral]
  usage,        \* what the hosts do; it does not change
  host          \* history: what the central's host knows of each CIS handle

vars == <<central, peripheral, usage, host>>

(* cig_config[g] is None for no such CIG.  cis_config holds, for each CIS   *)
(* configuration, the directions it carries.  out is the queue of packets  *)
(* to each peripheral.  failed: an unwrap() has failed.                     *)
Central ==
  [cig_config : [Cigs -> {None, "configurable", "fixed"}],
   cis_config : [Cigs \X CisIds -> {None} \cup SUBSET Direction],
   cis_connections : [Handles -> Cis \cup {None}],
   requests : Seq(CisRequest), acl_connections : SUBSET Links,
   out : [Links -> Seq(Packet)], failed : BOOLEAN]
Peripheral == [acl : BOOLEAN, cis_connections : [Handles -> Cis \cup {None}], out : Seq(Packet)]

Init ==
  /\ central = [cig_config |-> [g \in Cigs |-> None],
                cis_config |-> [k \in Cigs \X CisIds |-> None],
                cis_connections |-> [h \in Handles |-> None],
                requests |-> <<>>, acl_connections |-> {},
                out |-> [l \in Links |-> <<>>], failed |-> FALSE]
  /\ peripheral = [l \in Links |->
                     [acl |-> FALSE, cis_connections |-> [h \in Handles |-> None], out |-> <<>>]]
  /\ usage \in Usages
  /\ host = [h \in Handles |-> "idle"]

-----------------------------------------------------------------------------
(* Operations on the tables.                                               *)

Used(t) == {h \in Handles : t[h] # None}
NewCisConnectionHandle(t) == Min(Handles \ Used(t))

Cid(cis) == <<cis.cig_id, cis.cis_id>>
OnLink(t, l) == {h \in Used(t) : t[h].acl = l}
Matching(t, l, state) == {h \in OnLink(t, l) : t[h].state = state}

NewCis(g, i, state, acl) ==
  [cig_id |-> g, cis_id |-> i, state |-> state, acl |-> acl, paths |-> {}]

Send(s, l, packet) ==
  IF l \in s.acl_connections THEN [s EXCEPT !.out[l] = Append(@, packet)] ELSE s

\* new_cis_connection for the central: the handle of the configuration is kept.
NewCisConnection(s, g, i) ==
  IF \E h \in Used(s.cis_connections) : Cid(s.cis_connections[h]) = <<g, i>>
  THEN s
  ELSE [s EXCEPT !.cis_connections[NewCisConnectionHandle(s.cis_connections)] =
                   NewCis(g, i, "Configuration", None)]

\* deque_cis_connection_request.
Dequeue(s) ==
  IF s.requests = <<>> THEN s
  ELSE LET r == Head(s.requests)
           sent == Send([s EXCEPT !.requests = Tail(@)], r.acl,
                        [op |-> "CIS_REQ", cig_id |-> r.cig_id, cis_id |-> r.cis_id])
       IN IF \/ s.cis_config[<<r.cig_id, r.cis_id>>] = None
             \/ s.cig_config[r.cig_id] = None
             \/ s.cis_connections[r.handle] = None
          THEN [s EXCEPT !.requests = Tail(@), !.failed = TRUE]
          ELSE [sent EXCEPT !.cis_connections[r.handle].acl = r.acl,
                            !.cis_connections[r.handle].state = "PendingRsp"]

-----------------------------------------------------------------------------
(* Commands of the central's host.                                         *)

HostMay(command) ==
  /\ command \in usage.commands
  /\ \A l \in Links : Len(central.out[l]) < usage.bound /\ Len(peripheral[l].out) < usage.bound

LeSetCigParameters_Always(g, i, sdus) ==
  /\ central' = NewCisConnection([central EXCEPT !.cig_config[g] = "configurable",
                                                 !.cis_config[<<g, i>>] = sdus], g, i)
  /\ UNCHANGED <<peripheral, host>>

\* Also LE_Set_CIG_Parameters_Test.
LeSetCigParameters(g, i, sdus) ==
  /\ central.cig_config[g] # "fixed"
  /\ \A h \in Used(central.cis_connections) :
       Cid(central.cis_connections[h]) = <<g, i>> => central.cis_connections[h].paths \subseteq sdus
  /\ central' = NewCisConnection([central EXCEPT !.cig_config[g] = "configurable",
                                                 !.cis_config[<<g, i>>] = sdus], g, i)
  /\ UNCHANGED <<peripheral, host>>

ForgetCig(s, g) ==
  [s EXCEPT !.cig_config[g] = None,
            !.cis_config = [k \in Cigs \X CisIds |-> IF k[1] = g THEN None ELSE @[k]],
            !.cis_connections =
               [h \in Handles |-> IF @[h] # None /\ @[h].cig_id = g THEN None ELSE @[h]]]

LeRemoveCig(g) ==
  /\ central.cig_config[g] # None
  /\ \A h \in Used(central.cis_connections) :
       central.cis_connections[h].cig_id = g => central.cis_connections[h].state = "Configuration"
  /\ central' = ForgetCig(central, g)
  /\ UNCHANGED <<peripheral, host>>

\* asked: a sequence of <<ACL link, CIS handle>> pairs.
LeCreateCis(asked) ==
  LET cis(n) == central.cis_connections[asked[n][2]]
      request(n) == [cig_id |-> cis(n).cig_id, cis_id |-> cis(n).cis_id,
                     acl |-> asked[n][1], handle |-> asked[n][2]]
      all == {cis(n).cig_id : n \in DOMAIN asked}
  IN
  /\ \A n \in DOMAIN asked : /\ asked[n][1] \in central.acl_connections
                             /\ cis(n) # None
                             /\ cis(n).state = "Configuration"
  /\ \A m, n \in DOMAIN asked : m # n => asked[m][2] # asked[n][2]
  /\ central.requests = <<>>
  /\ central' = Dequeue(
       [central EXCEPT !.requests = [n \in DOMAIN asked |-> request(n)],
                       !.cig_config = [g \in Cigs |-> IF g \in all THEN "fixed" ELSE @[g]]])
  /\ host' = [h \in Handles |-> IF \E n \in DOMAIN asked : asked[n][2] = h THEN "creating" ELSE host[h]]
  /\ UNCHANGED peripheral

\* LE_Setup_ISO_Data_Path and LE_Remove_ISO_Data_Path for one direction.
LeSetupIsoDataPath(h, d) ==
  /\ h \in Used(central.cis_connections)
  /\ d \notin central.cis_connections[h].paths
  /\ central' = [central EXCEPT !.cis_connections[h].paths = @ \cup {d}]
  /\ UNCHANGED <<peripheral, host>>

LeRemoveIsoDataPath(h, d) ==
  /\ h \in Used(central.cis_connections)
  /\ d \in central.cis_connections[h].paths
  /\ central' = [central EXCEPT !.cis_connections[h].paths = @ \ {d}]
  /\ UNCHANGED <<peripheral, host>>

Terminate(cis) == [op |-> "CIS_TERMINATE_IND", cig_id |-> cis.cig_id, cis_id |-> cis.cis_id]

\* HCI Disconnect of a CIS.
Disconnect(h) ==
  LET cis == central.cis_connections[h] IN
  /\ cis # None /\ cis.state \in {"Connected", "PendingRsp"}
  /\ central' = Send([central EXCEPT !.cis_connections[h].state = "Configuration"], cis.acl,
                     Terminate(cis))
  /\ host' = [host EXCEPT ![h] = "idle"]
  /\ UNCHANGED peripheral

-----------------------------------------------------------------------------
(* Commands of a peripheral's host.                                        *)

LeAcceptCisRequest(l, h) ==
  /\ h \in Matching(peripheral[l].cis_connections, l, "PendingAccept")
  /\ peripheral' = [peripheral EXCEPT ![l].cis_connections[h].state = "PendingInd",
                                      ![l].out = Append(@, [op |-> "CIS_RSP"])]
  /\ UNCHANGED <<central, host>>

LeRejectCisRequest(l, h) ==
  /\ h \in Matching(peripheral[l].cis_connections, l, "PendingAccept")
  /\ peripheral' = [peripheral EXCEPT ![l].cis_connections[h] = None,
                                      ![l].out = Append(@, [op |-> "REJECT_EXT_IND"])]
  /\ UNCHANGED <<central, host>>

PeripheralDisconnect(l, h) ==
  /\ h \in Matching(peripheral[l].cis_connections, l, "Connected")
  /\ peripheral' =
       [peripheral EXCEPT ![l].out = Append(@, Terminate(peripheral[l].cis_connections[h])),
                          ![l].cis_connections[h] = None]
  /\ UNCHANGED <<central, host>>

-----------------------------------------------------------------------------
(* ACL links.                                                              *)

AclConnected(l) ==
  /\ l \notin central.acl_connections /\ ~peripheral[l].acl
  /\ central.out[l] = <<>> /\ peripheral[l].out = <<>>
  /\ central' = [central EXCEPT !.acl_connections = @ \cup {l}]
  /\ peripheral' = [peripheral EXCEPT ![l].acl = TRUE]
  /\ UNCHANGED host

\* remove_acl_connection: central CISes return to their configuration.
RemoveAclConnection(s, l) ==
  [s EXCEPT !.acl_connections = @ \ {l},
            !.cis_connections =
               [h \in Handles |-> IF h \in OnLink(@, l)
                                  THEN [@[h] EXCEPT !.acl = None, !.state = "Configuration"]
                                  ELSE @[h]],
            !.requests = SelectSeq(@, LAMBDA r : r.acl # l)]

EventsOfRemoval_NoRequests(s, l) ==
  {h \in OnLink(s.cis_connections, l) : s.cis_connections[h].state # "Configuration"}

\* The handles for which remove_acl_connection sends Disconnection Complete or
\* LE CIS Established with an error.
EventsOfRemoval(s, l) ==
  {h \in OnLink(s.cis_connections, l) : s.cis_connections[h].state # "Configuration"}
  \cup {r.handle : r \in {q \in Range(s.requests) : q.acl = l}}

Told(handles, view) == [h \in Handles |-> IF h \in handles THEN view ELSE host[h]]

CentralLosesAcl(l) ==
  /\ l \in central.acl_connections
  /\ central' = RemoveAclConnection([central EXCEPT !.out[l] = Append(@, [op |-> "DISCONNECT"])], l)
  /\ host' = Told(EventsOfRemoval(central, l), "idle")
  /\ UNCHANGED peripheral

\* Every CIS of a peripheral is on its link.
PeripheralLosesAcl(l) ==
  /\ peripheral[l].acl
  /\ peripheral' = [peripheral EXCEPT ![l].acl = FALSE,
                                      ![l].cis_connections = [h \in Handles |-> None],
                                      ![l].out = Append(@, [op |-> "DISCONNECT"])]
  /\ UNCHANGED <<central, host>>

-----------------------------------------------------------------------------
(* Packets that the central receives.  s is its state, h one of the handles *)
(* that the scan of the unordered table may find.                           *)

LlCisRsp(s, l, h) ==
  Dequeue(Send([s EXCEPT !.cis_connections[h].state = "Connected"], l, [op |-> "CIS_IND"]))

LlRejectExtInd_NoDequeue(s, l, h) == [s EXCEPT !.cis_connections[h].state = "Configuration"]

LlRejectExtInd(s, l, h) == Dequeue([s EXCEPT !.cis_connections[h].state = "Configuration"])

LlCisTerminateInd(s, h) == [s EXCEPT !.cis_connections[h] = None]

ToTerminate_ByCig(t, l, packet) == {h \in OnLink(t, l) : t[h].cig_id = packet.cig_id}

ToTerminate(t, l, packet) == {h \in OnLink(t, l) : Cid(t[h]) = <<packet.cig_id, packet.cis_id>>}

CentralHandles(l, packet) ==
  LET t == central.cis_connections
      pending == Matching(t, l, "PendingRsp")
      named == ToTerminate(t, l, packet)
  IN
  \/ /\ packet.op = "CIS_RSP"
     /\ \E h \in pending : central' = LlCisRsp(central, l, h) /\ host' = Told({h}, "connected")
  \/ /\ packet.op = "REJECT_EXT_IND"
     /\ \E h \in pending : central' = LlRejectExtInd(central, l, h) /\ host' = Told({h}, "idle")
  \/ /\ packet.op \in {"CIS_RSP", "REJECT_EXT_IND"} /\ pending = {}
     /\ UNCHANGED <<central, host>>
  \/ /\ packet.op = "CIS_TERMINATE_IND"
     /\ \E h \in named : central' = LlCisTerminateInd(central, h) /\ host' = Told({h}, "idle")
  \/ /\ packet.op = "CIS_TERMINATE_IND" /\ named = {}
     /\ UNCHANGED <<central, host>>
  \/ /\ packet.op = "DISCONNECT"
     /\ central' = RemoveAclConnection(central, l)
     /\ host' = Told(EventsOfRemoval(central, l), "idle")

\* Packets for a link that is gone are dropped.
CentralReceives(l) ==
  /\ peripheral[l].out # <<>>
  /\ peripheral' = [peripheral EXCEPT ![l].out = Tail(@)]
  /\ \/ l \in central.acl_connections /\ CentralHandles(l, Head(peripheral[l].out))
     \/ l \notin central.acl_connections /\ UNCHANGED <<central, host>>

-----------------------------------------------------------------------------
(* Packets that a peripheral receives.                                     *)

LlCisReq(t, l, packet) ==
  [t EXCEPT ![NewCisConnectionHandle(t)] = NewCis(packet.cig_id, packet.cis_id, "PendingAccept", l)]

\* The tables that a peripheral may have after the packet.
PeripheralHandles(t, l, packet) ==
  LET pending == Matching(t, l, "PendingInd")
      named == ToTerminate(t, l, packet)
  IN
  CASE packet.op = "CIS_REQ" -> {LlCisReq(t, l, packet)}
    [] packet.op = "CIS_IND" ->
         IF pending = {} THEN {t} ELSE {[t EXCEPT ![h].state = "Connected"] : h \in pending}
    [] packet.op = "CIS_TERMINATE_IND" ->
         IF named = {} THEN {t} ELSE {[t EXCEPT ![h] = None] : h \in named}
    [] packet.op = "DISCONNECT" -> {[h \in Handles |-> None]}

PeripheralReceives(l) ==
  LET packet == Head(central.out[l]) IN
  /\ central.out[l] # <<>>
  /\ central' = [central EXCEPT !.out[l] = Tail(@)]
  /\ \/ /\ peripheral[l].acl
        /\ \E t \in PeripheralHandles(peripheral[l].cis_connections, l, packet) :
             peripheral' = [peripheral EXCEPT ![l].cis_connections = t,
                                              ![l].acl = packet.op # "DISCONNECT"]
     \/ ~peripheral[l].acl /\ UNCHANGED peripheral
  /\ UNCHANGED host

-----------------------------------------------------------------------------

\* A host that waits for the events of its last LE_Create_CIS, unless "overlap";
\* "withdraw" is a host that may remove a CIG without waiting.
Patient == "overlap" \in usage.commands \/ \A h \in Handles : host[h] # "creating"

\* Bound: new_cis_connection_handle panics when every handle is in use, so the
\* host asks for no more CISes than the peripherals have handles left.
Room(n) ==
  \A l \in Links : Cardinality(Used(peripheral[l].cis_connections)) + Len(central.out[l]) + n
                    <= Cardinality(Handles)

\* Only the data paths tell the directions apart.
Sdus == IF "path" \in usage.commands THEN SUBSET Direction \ {{}} ELSE {Direction}

CentralHost ==
  \/ /\ HostMay("configure")
     /\ \E s \in usage.streams, sdus \in Sdus : LeSetCigParameters(s[1], s[2], sdus)
  \/ /\ HostMay("remove") /\ (Patient \/ "withdraw" \in usage.commands)
     /\ \E g \in Cigs : LeRemoveCig(g)
  \/ /\ HostMay("create") /\ Patient
     /\ \E n \in 1 .. 2 : Room(n) /\ \E asked \in [1 .. n -> usage.links \X Handles] : LeCreateCis(asked)
  \/ /\ HostMay("path")
     /\ \E h \in Handles, d \in Direction : LeSetupIsoDataPath(h, d) \/ LeRemoveIsoDataPath(h, d)
  \/ \E h \in Handles :
       /\ \/ HostMay("disconnect") /\ host[h] = "connected"
          \/ HostMay("abort") /\ host[h] = "creating"
       /\ Disconnect(h)

Answer(l, h) == LeAcceptCisRequest(l, h) \/ LeRejectCisRequest(l, h)

PeripheralHost(l) ==
  \/ \E h \in Handles : Answer(l, h)
  \/ HostMay("terminate") /\ \E h \in Handles : PeripheralDisconnect(l, h)

Acl(l) == AclConnected(l) \/ (HostMay("acl") /\ (CentralLosesAcl(l) \/ PeripheralLosesAcl(l)))

Next ==
  /\ \/ CentralHost
     \/ \E l \in usage.links :
          PeripheralHost(l) \/ Acl(l) \/ CentralReceives(l) \/ PeripheralReceives(l)
  /\ UNCHANGED usage

Spec == Init /\ [][Next]_vars

(* Ticks deliver what is queued, and the peripheral's host answers a CIS    *)
(* request (the Connection Accept Timeout is not implemented).              *)
FairSpec ==
  /\ Spec
  /\ \A l \in Links : /\ WF_vars(CentralReceives(l) /\ UNCHANGED usage)
                       /\ WF_vars(PeripheralReceives(l) /\ UNCHANGED usage)
  /\ \A l \in Links : WF_vars((\E h \in Handles : Answer(l, h)) /\ UNCHANGED usage)

-----------------------------------------------------------------------------
(* Properties.                                                             *)

\* The state has its types, and a CIS that is not in its configuration state has
\* an ACL link: cis.acl_connection_handle.unwrap() in hci_disconnect,
\* hci_le_accept_cis_request and hci_le_reject_cis_request succeeds.
TypeOK ==
  /\ central \in Central
  /\ peripheral \in [Links -> Peripheral]
  /\ host \in [Handles -> {"idle", "creating", "connected"}]
  /\ \A h \in Used(central.cis_connections) :
       central.cis_connections[h].state # "Configuration" =>
         central.cis_connections[h].acl \in central.acl_connections

\* The state keeps its type.  Every CIS of the central belongs to one CIS
\* configuration of an existing CIG, which cig_config.get_mut(..).unwrap() in
\* hci_le_create_cis relies on, and the CIG cannot be reconfigured while one of its
\* CISes is pending or connected.  With more than one CIG this is for hosts that
\* do not remove a CIG while a request for it is queued ("withdraw").
CisConfigured ==
  LET t == central.cis_connections IN
  TypeOK /\ \A h \in Used(t) :
    /\ central.cis_config[Cid(t[h])] # None
    /\ central.cig_config[t[h].cig_id] # None
    /\ t[h].state # "Configuration" => central.cig_config[t[h].cig_id] = "fixed"
    /\ \A k \in Used(t) : Cid(t[h]) = Cid(t[k]) => h = k

(* A CIS in progress is not disconnected, a second LE_Create_CIS waits for  *)
(* the first, and the CISes are disconnected by one side only.              *)
Orderly ==
  /\ usage.commands \cap {"abort", "overlap"} = {}
  /\ ~({"disconnect", "terminate"} \subseteq usage.commands)

\* The host of an orderly central can tell from the events it got which CISes
\* are being created and which are connected, whenever links are lost.
HostKnows ==
  Orderly => \A h \in Handles :
    LET c == central.cis_connections[h] IN
    /\ host[h] = "connected" <=> (c # None /\ c.state = "Connected")
    /\ host[h] = "creating" <=> \/ c # None /\ c.state = "PendingRsp"
                                \/ \E r \in Range(central.requests) : r.handle = h

Quiet(l) == /\ l \in central.acl_connections /\ peripheral[l].acl
            /\ central.out[l] = <<>> /\ peripheral[l].out = <<>>

\* LL_CIS_RSP, LL_CIS_IND and the rejection do not name a CIS; nevertheless the
\* two ends of a link agree, once nothing is in flight, on which CISes are
\* connected and which are waiting for the peripheral's host.
StreamsAgree ==
  Orderly => \A l \in Links : Quiet(l) =>
    LET c == central.cis_connections
        p == peripheral[l].cis_connections
        in(t, state) == {Cid(t[h]) : h \in Matching(t, l, state)}
    IN
    /\ in(c, "Connected") = in(p, "Connected")
    /\ in(c, "PendingRsp") = in(p, "PendingAccept")
    /\ Matching(p, l, "PendingInd") = {}
    /\ \A g, h \in Used(p) : Cid(p[g]) = Cid(p[h]) => g = h

\* On one link, every CIS that an orderly host asks for is established or
\* reported failed.
RequestsServed ==
  \A h \in Handles :
    (host[h] = "creating" /\ Orderly /\ Cardinality(usage.links) = 1) ~> host[h] # "creating"
==============================================================================
