------------------------ MODULE LeConnected_proofs ------------------------
(* Machine-checked proofs about LeConnected: every command of a host is    *)
(* answered, and procedures of channel sounding start at ends that are     *)
(* ready, for any parameters, any CS configurations and any hosts.         *)
(*                                                                         *)
(* A task queue is reasoned about through the set of its tasks.  Each      *)
(* handler and each command is summed up once by what it does to its end:  *)
(* Handles and Commands say what it answers and asks, Plain that it leaves *)
(* channel sounding alone, and Steps that it keeps both ends ready.        *)
EXTENDS LeConnected, TLAPS

-----------------------------------------------------------------------------
(* Queues.  A task queue is a sequence of whatever tasks it holds.         *)

Elems(q) == {q[i] : i \in DOMAIN q}
Queue(q) == q \in Seq(Elems(q))

\* Every sequence is a sequence of its elements.
LEMMA SeqOfElems ==
  ASSUME NEW S, NEW q \in Seq(S)
  PROVE  q \in Seq(Elems(q))
<1>1. Len(q) \in Nat /\ q \in [1..Len(q) -> S]
  OBVIOUS
<1>2. q \in [1..Len(q) -> Elems(q)]
  BY <1>1 DEF Elems
<1> QED
  BY <1>1, <1>2

\* Deferring a task keeps the tasks of the queue and adds it.
LEMMA QueueAppend ==
  ASSUME NEW q, Queue(q), NEW t
  PROVE  /\ Queue(Append(q, t)) /\ Elems(Append(q, t)) = Elems(q) \cup {t}
         /\ Len(q) \in Nat /\ Len(Append(q, t)) = Len(q) + 1
<1> DEFINE S == Elems(q) \cup {t}
           r == Append(q, t)
<1>1. q \in Seq(Elems(q))
  BY DEF Queue
<1>2. /\ Len(q) \in Nat /\ DOMAIN q = 1..Len(q)
  BY <1>1
<1>3. q \in Seq(S)
  BY <1>1, <1>2 DEF Elems
<1>4. r \in Seq(S) /\ Len(r) = Len(q) + 1 /\ r[Len(q) + 1] = t
      /\ (\A i \in 1..Len(q) : r[i] = q[i]) /\ DOMAIN r = 1..Len(q) + 1
  BY <1>3, <1>2
<1>5. Elems(r) = Elems(q) \cup {t}
  BY <1>2, <1>4 DEF Elems
<1>6. r \in Seq(Elems(r))
  BY <1>4, <1>5
<1> QED
  BY <1>2, <1>4, <1>5, <1>6 DEF Queue

\* Running the first task takes it off the queue; the others stay.
LEMMA QueueTail ==
  ASSUME NEW q, Queue(q), q # <<>>
  PROVE  /\ Queue(Tail(q)) /\ Elems(q) = Elems(Tail(q)) \cup {Head(q)}
         /\ Len(q) \in Nat \ {0} /\ Len(Tail(q)) = Len(q) - 1
<1> DEFINE r == Tail(q)
<1>1. q \in Seq(Elems(q))
  BY DEF Queue
<1>2. /\ Len(q) \in Nat \ {0} /\ DOMAIN q = 1..Len(q) /\ Head(q) = q[1]
  BY <1>1
<1>4. /\ r \in Seq(Elems(q)) /\ DOMAIN r = 1..Len(q) - 1
      /\ \A i \in 1..Len(q) - 1 : r[i] = q[i + 1]
  BY <1>1, <1>2
<1>5. Elems(q) = Elems(r) \cup {q[1]}
  <2>1. \A i \in DOMAIN q : i = 1 \/ (i - 1 \in DOMAIN r /\ q[i] = r[i - 1])
    BY <1>2, <1>4
  <2>2. \A i \in DOMAIN r : i + 1 \in DOMAIN q /\ r[i] = q[i + 1]
    BY <1>2, <1>4
  <2>3. ASSUME NEW x \in Elems(q) PROVE x \in Elems(r) \cup {q[1]}
    BY <2>1 DEF Elems
  <2>4. ASSUME NEW x \in Elems(r) \cup {q[1]} PROVE x \in Elems(q)
    BY <1>2, <2>2 DEF Elems
  <2> QED
    BY <2>3, <2>4
<1>6. r \in Seq(Elems(r))
  BY <1>4, SeqOfElems, ZenonT(60)
<1> QED
  BY <1>1, <1>2, <1>5, <1>6 DEF Queue

-----------------------------------------------------------------------------
(* What a host that awaits the completion of a command is waiting for.     *)

Packets == {"LL_PHY_REQ", "LL_PHY_RSP", "LL_PHY_UPDATE_IND", "LE_CONNECTION_PARAMETER_REQUEST",
  "LE_CONNECTION_PARAMETER_UPDATE", "LL_SUBRATE_REQ", "LL_SUBRATE_IND", "LE_ENCRYPT_CONNECTION",
  "LE_ENCRYPT_CONNECTION_RESPONSE", "LE_READ_REMOTE_FEATURES", "LE_READ_REMOTE_FEATURES_RESPONSE",
  "READ_REMOTE_VERSION_INFORMATION", "READ_REMOTE_VERSION_INFORMATION_RESPONSE", "ACL",
  "LL_CS_CAPABILITIES_REQ", "LL_CS_CAPABILITIES_RSP", "LL_CS_FAE_REQ", "LL_CS_FAE_RSP",
  "LL_CS_CONFIG_REQ", "LL_CS_CONFIG_RSP", "LL_CS_CHANNEL_MAP_IND", "LL_CS_SEC_REQ",
  "LL_CS_SEC_RSP", "LL_CS_REQ", "LL_CS_RSP", "LL_CS_IND", "LL_CS_TERMINATE_REQ",
  "LL_CS_TERMINATE_RSP"}

\* The packet that asks the peer for what a command of kind k needs.
Asks(k, type) ==
  \/ k = "PHY" /\ type = "LL_PHY_REQ"
  \/ k = "UPDATE" /\ type = "LE_CONNECTION_PARAMETER_REQUEST"
  \/ k = "SUBRATE" /\ type = "LL_SUBRATE_REQ"
  \/ k = "ENCRYPTION" /\ type = "LE_ENCRYPT_CONNECTION"
  \/ k = "FEATURES" /\ type = "LE_READ_REMOTE_FEATURES"
  \/ k = "VERSION" /\ type = "READ_REMOTE_VERSION_INFORMATION"
  \/ k = "CAPABILITIES" /\ type = "LL_CS_CAPABILITIES_REQ"
  \/ k = "FAE" /\ type = "LL_CS_FAE_REQ"
  \/ k = "CONFIG" /\ type = "LL_CS_CONFIG_REQ"
  \/ k = "SECURITY" /\ type = "LL_CS_SEC_REQ"
  \/ k = "START" /\ type = "LL_CS_REQ"
  \/ k = "STOP" /\ type = "LL_CS_TERMINATE_REQ"

\* The packet with which the peer answers an end of the given role.
Answers(role, k, type) ==
  \/ k = "PHY" /\ role = "CENTRAL" /\ type = "LL_PHY_RSP"
  \/ k = "PHY" /\ role = "PERIPHERAL" /\ type = "LL_PHY_UPDATE_IND"
  \/ k = "UPDATE" /\ type = "LE_CONNECTION_PARAMETER_UPDATE"
  \/ k = "SUBRATE" /\ type = "LL_SUBRATE_IND"
  \/ k = "ENCRYPTION" /\ type = "LE_ENCRYPT_CONNECTION_RESPONSE"
  \/ k = "FEATURES" /\ type = "LE_READ_REMOTE_FEATURES_RESPONSE"
  \/ k = "VERSION" /\ type = "READ_REMOTE_VERSION_INFORMATION_RESPONSE"
  \/ k = "CAPABILITIES" /\ type = "LL_CS_CAPABILITIES_RSP"
  \/ k = "FAE" /\ type = "LL_CS_FAE_RSP"
  \/ k = "CONFIG" /\ type = "LL_CS_CONFIG_RSP"
  \/ k = "SECURITY" /\ type = "LL_CS_SEC_RSP"
  \/ k = "START" /\ role = "CENTRAL" /\ type = "LL_CS_RSP"
  \/ k = "START" /\ role = "PERIPHERAL" /\ type = "LL_CS_IND"
  \/ k = "STOP" /\ type = "LL_CS_TERMINATE_RSP"

\* A task of an end from which the completion of its own command (k, id) will come.
Leads(t, k, id) ==
  /\ t.id = id
  /\ \/ t.type = "EVENT" /\ t.v = k
     \/ t.type = "ENABLE_ENCRYPTION" /\ k = "ENCRYPTION"
     \/ Asks(k, t.type)

\* What the peer asked its host for and has still to answer.
Held(requests, k) ==
  \/ k = "UPDATE" /\ "UPDATE" \in requests
  \/ k = "ENCRYPTION" /\ "LTK" \in requests

\* The completion of the command (k, id) of the end s with peer p is under way.
UnderWay(s, p, k, id) ==
  \/ \E t \in Elems(s.tasks) : Leads(t, k, id)
  \/ \E t \in Elems(p.tasks) : t.id = id /\ Answers(s.role, k, t.type)
  \/ Held(p.requests, k)

Fields == {"role", "tasks", "awaiting", "requests", "initiated_phy_update_",
           "channel_sounding_host_support_", "config_map", "iv", "security_enabled",
           "remote_fae_table", "started", "failed"}

\* A packet, a deferred event or a deferred command; only some are about a CS
\* configuration.
Numbered == {"EVENT", "LL_CS_CONFIG_REQ", "LL_CS_CONFIG_RSP", "LL_CS_REQ", "LL_CS_RSP",
             "LL_CS_IND", "LL_CS_TERMINATE_REQ", "LL_CS_TERMINATE_RSP"}
IsTask(t) ==
  /\ t.type \in Packets \cup {"EVENT", "ENABLE_ENCRYPTION"}
  /\ t.type \notin Numbered => t.id = 0
IsEnd(s) ==
  /\ Fields \subseteq DOMAIN s /\ s.role \in Ctrl
  /\ Queue(s.tasks) /\ \A t \in Elems(s.tasks) : IsTask(t)
  /\ \A w \in s.awaiting : w = <<w[1], w[2]>> /\ (w[1] \in {"PHY", "UPDATE", "ENCRYPTION"} => w[2] = 0)

\* An end that accepts the procedure of a configuration (IncomingLlCsReq).
CanStart(s, id) ==
  /\ s.channel_sounding_host_support_ /\ s.config_map[id] # None
  /\ s.iv /\ s.remote_fae_table

(* What one end does when it handles the packet t: it answers what it is    *)
(* asked, its host is told what it awaited, and nothing else is forgotten.  *)
Handles(s, t, u) ==
  /\ IsEnd(u) /\ u.role = s.role
  /\ u.channel_sounding_host_support_ = s.channel_sounding_host_support_
  /\ Elems(s.tasks) \subseteq Elems(u.tasks)
  /\ u.awaiting \subseteq s.awaiting /\ s.requests \subseteq u.requests
  /\ s.initiated_phy_update_ /\ ~u.initiated_phy_update_ => <<"PHY", 0>> \notin u.awaiting
  /\ \A w \in u.awaiting :
       /\ t.id = w[2] /\ Answers(s.role, w[1], t.type)
       /\ w[1] = "START" => CanStart(s, w[2])
       /\ w[1] = "PHY" /\ s.role = "PERIPHERAL" => s.initiated_phy_update_
       => \E x \in Elems(u.tasks) : Leads(x, w[1], w[2])
  /\ \A k \in Kind :
       /\ Asks(k, t.type)
       /\ k = "START" => CanStart(s, t.id)
       /\ k = "CONFIG" => s.channel_sounding_host_support_
       => \/ \E x \in Elems(u.tasks) : x.id = t.id /\ Answers(Peer(s.role), k, x.type)
          \/ Held(u.requests, k)

\* The two ends are each other's peers.
LEMMA Peers == Peer("CENTRAL") = "PERIPHERAL" /\ Peer("PERIPHERAL") = "CENTRAL"
  BY DEF Peer, Ctrl, CentralOrPeripheral

-----------------------------------------------------------------------------
(* Channel sounding.                                                       *)

IsConfigPacket(t, id) == t.id = id /\ t.type \in {"LL_CS_CONFIG_REQ", "LL_CS_CONFIG_RSP"}
OneConfigPacket(q, id) ==
  \A i, j \in DOMAIN q : IsConfigPacket(q[i], id) /\ IsConfigPacket(q[j], id) => i = j
NoConfigPacket(q, id) == \A t \in Elems(q) : ~IsConfigPacket(t, id)

\* The values that the state and the packets of channel sounding take.
SoundingTypes(s) ==
  /\ s.config_map \in [ConfigIds -> Config \cup {None}]
  /\ \A t \in Elems(s.tasks) :
       /\ t.type \in {"LL_CS_CONFIG_REQ", "LL_CS_REQ", "LL_CS_RSP", "LL_CS_IND"} => t.id \in ConfigIds
       /\ t.type = "LL_CS_CONFIG_REQ" =>
            t.v.action = "CREATE" /\ t.v.role \in CsRole /\ t.v.params \in ConfigParams
       /\ t.type = "LL_CS_CHANNEL_MAP_IND" => t.v \in ChannelChoices

\* Who is secured has an initialization vector and supports channel sounding.
Secured(s, p) ==
  /\ s.security_enabled => s.iv /\ s.channel_sounding_host_support_
  /\ \A t \in Elems(s.tasks) :
       /\ t.type = "LL_CS_SEC_REQ" => s.iv /\ s.channel_sounding_host_support_
       /\ t.type = "LL_CS_SEC_RSP" => p.iv /\ p.channel_sounding_host_support_

\* One exchange for a configuration at a time: the request finds none at the peer, a
\* refusal leaves none there.
Configured(s, p) ==
  s.channel_sounding_host_support_ /\ p.channel_sounding_host_support_ =>
    \A id \in ConfigIds :
      /\ OneConfigPacket(s.tasks, id)
      /\ NoConfigPacket(s.tasks, id) \/ NoConfigPacket(p.tasks, id)
      /\ \A t \in Elems(s.tasks) : t.id = id =>
           /\ t.type = "LL_CS_CONFIG_REQ" =>
                /\ HasConfig(s, id) /\ s.config_map[id].role = t.v.role
                /\ ~HasConfig(p, id)
           /\ t.type = "LL_CS_CONFIG_RSP" => HasConfig(p, id) /\ (t.ok \/ ~HasConfig(s, id))
      /\ HasConfig(s, id) /\ HasConfig(p, id) => s.config_map[id].role # p.config_map[id].role

ReadyEnd(s, id) ==
  HasConfig(s, id) /\ s.config_map[id].procedure /\ s.security_enabled /\ s.remote_fae_table
Ready(s, p, id) == id \in ConfigIds /\ ReadyEnd(s, id) /\ ReadyEnd(p, id)

\* Procedures are asked for, accepted, indicated and reported only when both ends are ready.
Started(s, p) ==
  /\ ~s.failed
  /\ \A w \in s.awaiting : w[1] = "START" => Ready(s, p, w[2])
  /\ \A id \in s.started : Ready(s, p, id)
  /\ \A t \in Elems(s.tasks) : t.type \in {"LL_CS_REQ", "LL_CS_RSP", "LL_CS_IND"} => Ready(s, p, t.id)

Sounds(s, p) == SoundingTypes(s) /\ Secured(s, p) /\ Configured(s, p) /\ Started(s, p)

-----------------------------------------------------------------------------
(* What the other commands and packets leave alone.                        *)

\* Deferring another task keeps a queue's only configuration packet the only one,
LEMMA OneAppendOther ==
  ASSUME NEW q, Queue(q), NEW t, NEW id, OneConfigPacket(q, id), ~IsConfigPacket(t, id)
  PROVE  OneConfigPacket(Append(q, t), id)
<1> DEFINE r == Append(q, t)
<1>1. /\ Len(q) \in Nat /\ DOMAIN q = 1..Len(q) /\ DOMAIN r = 1..Len(q) + 1
      /\ r[Len(q) + 1] = t /\ \A i \in 1..Len(q) : r[i] = q[i]
  BY DEF Queue
<1> HIDE DEF r
<1>2. ASSUME NEW i \in DOMAIN r, NEW j \in DOMAIN r, IsConfigPacket(r[i], id), IsConfigPacket(r[j], id)
      PROVE  i = j
  <2>1. i # Len(q) + 1 /\ j # Len(q) + 1
    BY <1>1, <1>2
  <2>2. i \in DOMAIN q /\ j \in DOMAIN q /\ r[i] = q[i] /\ r[j] = q[j]
    BY <1>1, <2>1
  <2> QED
    BY <1>2, <2>2 DEF OneConfigPacket
<1> QED
  BY <1>2 DEF OneConfigPacket, r

\* and the first one is.
LEMMA OneAppendFirst ==
  ASSUME NEW q, Queue(q), NEW t, NEW id, NoConfigPacket(q, id)
  PROVE  OneConfigPacket(Append(q, t), id)
<1> DEFINE r == Append(q, t)
<1>1. /\ Len(q) \in Nat /\ DOMAIN q = 1..Len(q) /\ DOMAIN r = 1..Len(q) + 1
      /\ r[Len(q) + 1] = t /\ \A i \in 1..Len(q) : r[i] = q[i]
  BY DEF Queue
<1> HIDE DEF r
<1>2. \A i \in DOMAIN r : IsConfigPacket(r[i], id) => i = Len(q) + 1
  BY <1>1 DEF NoConfigPacket, Elems
<1> QED
  BY <1>2 DEF OneConfigPacket, r

\* Once it is run there is none left.
LEMMA OneTail ==
  ASSUME NEW q, Queue(q), q # <<>>, NEW id, OneConfigPacket(q, id)
  PROVE  /\ OneConfigPacket(Tail(q), id)
         /\ IsConfigPacket(Head(q), id) => NoConfigPacket(Tail(q), id)
<1> DEFINE r == Tail(q)
<1>1. /\ Len(q) \in Nat \ {0} /\ DOMAIN q = 1..Len(q) /\ DOMAIN r = 1..Len(q) - 1
      /\ Head(q) = q[1] /\ \A i \in 1..Len(q) - 1 : r[i] = q[i + 1]
  BY DEF Queue
<1> HIDE DEF r
<1>2. \A i \in DOMAIN r : i \in Int /\ i + 1 \in DOMAIN q /\ r[i] = q[i + 1] /\ i + 1 # 1
  BY <1>1
<1>3. OneConfigPacket(r, id)
  <2> SUFFICES ASSUME NEW i \in DOMAIN r, NEW j \in DOMAIN r,
                      IsConfigPacket(r[i], id), IsConfigPacket(r[j], id)
               PROVE  i = j
    BY DEF OneConfigPacket
  <2>1. i + 1 = j + 1
    BY <1>2 DEF OneConfigPacket
  <2> QED
    BY <1>2, <2>1
<1>4. ASSUME IsConfigPacket(Head(q), id) PROVE NoConfigPacket(r, id)
  <2> SUFFICES ASSUME NEW i \in DOMAIN r, IsConfigPacket(r[i], id) PROVE FALSE
    BY DEF NoConfigPacket, Elems
  <2>1. 1 \in DOMAIN q
    BY <1>1
  <2>2. i + 1 = 1
    BY <1>1, <1>2, <1>4, <2>1 DEF OneConfigPacket
  <2> QED
    BY <1>2, <2>2
<1> QED
  BY <1>3, <1>4 DEF r

Sounding == {"LL_CS_CONFIG_REQ", "LL_CS_CONFIG_RSP", "LL_CS_CHANNEL_MAP_IND", "LL_CS_SEC_REQ",
             "LL_CS_SEC_RSP", "LL_CS_REQ", "LL_CS_RSP", "LL_CS_IND"}

\* A step of an end that adds nothing to channel sounding.
Plain(s, u) ==
  /\ u.channel_sounding_host_support_ = s.channel_sounding_host_support_
  /\ u.config_map = s.config_map /\ u.iv = s.iv /\ u.security_enabled = s.security_enabled
  /\ s.remote_fae_table => u.remote_fae_table
  /\ u.started \subseteq s.started /\ u.failed = s.failed
  /\ \A w \in u.awaiting : w[1] = "START" => w \in s.awaiting
  /\ \A t \in Elems(u.tasks) : t \in Elems(s.tasks) \/ t.type \notin Sounding
  /\ \A id \in ConfigIds : OneConfigPacket(s.tasks, id) => OneConfigPacket(u.tasks, id)

-----------------------------------------------------------------------------
(* The handlers.                                                           *)

\* LL_PHY_REQ is answered: by LL_PHY_RSP, or by LL_PHY_UPDATE_IND of the central.
LEMMA HandlesPhyReq ==
  ASSUME NEW s, IsEnd(s), NEW t, IsTask(t), t.type = "LL_PHY_REQ"
  PROVE  Handles(s, t, IncomingLlPhyReq(s, t.v))
  BY QueueAppend, Peers
  DEF IncomingLlPhyReq, UpdatePhys, PhyUpdateComplete, Send, Tell, Task, Handles, IsEnd, Fields,
      IsTask, Packets, Numbered, Asks, Answers, Leads, Held, Ctrl, CentralOrPeripheral

\* It leaves channel sounding alone.
LEMMA PhyReqPlain ==
  ASSUME NEW s, IsEnd(s), NEW t, t.type = "LL_PHY_REQ"
  PROVE  Plain(s, IncomingLlPhyReq(s, t.v))
  BY QueueAppend, OneAppendOther
  DEF IncomingLlPhyReq, UpdatePhys, PhyUpdateComplete, Send, Tell, Task, Plain, IsEnd, Fields, Sounding, IsConfigPacket

\* LL_PHY_RSP makes the central update the PHYs and tell its host.
LEMMA HandlesPhyRsp ==
  ASSUME NEW s, IsEnd(s), NEW t, IsTask(t), t.type = "LL_PHY_RSP"
  PROVE  Handles(s, t, IncomingLlPhyRsp(s, t.v))
  BY QueueAppend, Peers
  DEF IncomingLlPhyRsp, UpdatePhys, PhyUpdateComplete, Send, Tell, Task, Handles, IsEnd, Fields,
      IsTask, Packets, Numbered, Asks, Answers, Leads, Held, Ctrl, CentralOrPeripheral

\* It leaves channel sounding alone.
LEMMA PhyRspPlain ==
  ASSUME NEW s, IsEnd(s), NEW t, t.type = "LL_PHY_RSP"
  PROVE  Plain(s, IncomingLlPhyRsp(s, t.v))
  BY QueueAppend, OneAppendOther
  DEF IncomingLlPhyRsp, UpdatePhys, PhyUpdateComplete, Send, Tell, Task, Plain, IsEnd, Fields, Sounding, IsConfigPacket

\* LL_PHY_UPDATE_IND ends the procedure that the peripheral started.
LEMMA HandlesPhyInd ==
  ASSUME NEW s, IsEnd(s), NEW t, IsTask(t), t.type = "LL_PHY_UPDATE_IND"
  PROVE  Handles(s, t, IncomingLlPhyUpdateInd(s, t.v))
  BY QueueAppend, Peers
  DEF IncomingLlPhyUpdateInd, PhyUpdateComplete, Tell, Task, Handles, IsEnd, Fields,
      IsTask, Packets, Numbered, Asks, Answers, Leads, Held, Ctrl, CentralOrPeripheral

\* It leaves channel sounding alone.
LEMMA PhyIndPlain ==
  ASSUME NEW s, IsEnd(s), NEW t, t.type = "LL_PHY_UPDATE_IND"
  PROVE  Plain(s, IncomingLlPhyUpdateInd(s, t.v))
  BY QueueAppend, OneAppendOther
  DEF IncomingLlPhyUpdateInd, PhyUpdateComplete, Tell, Task, Plain, IsEnd, Fields, Sounding, IsConfigPacket

\* A parameter request goes to the host, or is answered when the event is masked.
LEMMA HandlesParameterRequest ==
  ASSUME NEW s, IsEnd(s), NEW t, IsTask(t), t.type = "LE_CONNECTION_PARAMETER_REQUEST"
  PROVE  Handles(s, t, IncomingLeConnectionParameterRequest(s))
  BY QueueAppend, Peers
  DEF IncomingLeConnectionParameterRequest, Send, Task, Handles, IsEnd, Fields,
      IsTask, Packets, Numbered, Asks, Answers, Leads, Held, Ctrl, CentralOrPeripheral

\* It leaves channel sounding alone.
LEMMA ParameterRequestPlain ==
  ASSUME NEW s, IsEnd(s), NEW t, t.type = "LE_CONNECTION_PARAMETER_REQUEST"
  PROVE  Plain(s, IncomingLeConnectionParameterRequest(s))
  BY QueueAppend, OneAppendOther
  DEF IncomingLeConnectionParameterRequest, Send, Task, Plain, IsEnd, Fields, Sounding, IsConfigPacket

\* The answer to it completes the connection update.
LEMMA HandlesParameterUpdate ==
  ASSUME NEW s, IsEnd(s), NEW t, IsTask(t), t.type = "LE_CONNECTION_PARAMETER_UPDATE"
  PROVE  Handles(s, t, IncomingLeConnectionParameterUpdate(s, t.ok, t.v))
  BY QueueAppend, Peers
  DEF IncomingLeConnectionParameterUpdate, Tell, Task, Handles, IsEnd, Fields,
      IsTask, Packets, Numbered, Asks, Answers, Leads, Held, Ctrl, CentralOrPeripheral

\* It leaves channel sounding alone.
LEMMA ParameterUpdatePlain ==
  ASSUME NEW s, IsEnd(s), NEW t, t.type = "LE_CONNECTION_PARAMETER_UPDATE"
  PROVE  Plain(s, IncomingLeConnectionParameterUpdate(s, t.ok, t.v))
  BY QueueAppend, OneAppendOther
  DEF IncomingLeConnectionParameterUpdate, Tell, Task, Plain, IsEnd, Fields, Sounding, IsConfigPacket

\* LL_SUBRATE_REQ is answered, whether it is acceptable or not.
LEMMA HandlesSubrateReq ==
  ASSUME NEW s, IsEnd(s), NEW t, IsTask(t), t.type = "LL_SUBRATE_REQ"
  PROVE  Handles(s, t, IncomingLlSubrateReq(s, t.v))
  BY QueueAppend, Peers
  DEF IncomingLlSubrateReq, Subrated, Send, Later, Task, Handles, IsEnd, Fields,
      IsTask, Packets, Numbered, Asks, Answers, Leads, Held, Ctrl, CentralOrPeripheral

\* It leaves channel sounding alone.
LEMMA SubrateReqPlain ==
  ASSUME NEW s, IsEnd(s), NEW t, t.type = "LL_SUBRATE_REQ"
  PROVE  Plain(s, IncomingLlSubrateReq(s, t.v))
  BY QueueAppend, OneAppendOther
  DEF IncomingLlSubrateReq, Subrated, Send, Later, Task, Plain, IsEnd, Fields, Sounding, IsConfigPacket

\* LL_SUBRATE_IND has the subrate change reported later.
LEMMA HandlesSubrateInd ==
  ASSUME NEW s, IsEnd(s), NEW t, IsTask(t), t.type = "LL_SUBRATE_IND"
  PROVE  Handles(s, t, IncomingLlSubrateInd(s, t.ok, t.v))
  BY QueueAppend, Peers
  DEF IncomingLlSubrateInd, Subrated, Later, Task, Handles, IsEnd, Fields,
      IsTask, Packets, Numbered, Asks, Answers, Leads, Held, Ctrl, CentralOrPeripheral

\* It leaves channel sounding alone.
LEMMA SubrateIndPlain ==
  ASSUME NEW s, IsEnd(s), NEW t, t.type = "LL_SUBRATE_IND"
  PROVE  Plain(s, IncomingLlSubrateInd(s, t.ok, t.v))
  BY QueueAppend, OneAppendOther
  DEF IncomingLlSubrateInd, Subrated, Later, Task, Plain, IsEnd, Fields, Sounding, IsConfigPacket

\* A request to encrypt waits for the long term key of the host.
LEMMA HandlesEncrypt ==
  ASSUME NEW s, IsEnd(s), NEW t, IsTask(t), t.type = "LE_ENCRYPT_CONNECTION"
  PROVE  Handles(s, t, IncomingLeEncryptConnection(s, t.v))
  BY QueueAppend, Peers
  DEF IncomingLeEncryptConnection, Task, Handles, IsEnd, Fields,
      IsTask, Packets, Numbered, Asks, Answers, Leads, Held, Ctrl, CentralOrPeripheral

\* It leaves channel sounding alone.
LEMMA EncryptPlain ==
  ASSUME NEW s, IsEnd(s), NEW t, t.type = "LE_ENCRYPT_CONNECTION"
  PROVE  Plain(s, IncomingLeEncryptConnection(s, t.v))
  BY QueueAppend, OneAppendOther
  DEF IncomingLeEncryptConnection, Task, Plain, IsEnd, Fields, Sounding, IsConfigPacket

\* The answer to it is the encryption change of the central.
LEMMA HandlesEncrypted ==
  ASSUME NEW s, IsEnd(s), NEW t, IsTask(t), t.type = "LE_ENCRYPT_CONNECTION_RESPONSE"
  PROVE  Handles(s, t, IncomingLeEncryptConnectionResponse(s, t.ok, t.v))
  BY QueueAppend, Peers
  DEF IncomingLeEncryptConnectionResponse, Tell, Task, Handles, IsEnd, Fields,
      IsTask, Packets, Numbered, Asks, Answers, Leads, Held, Ctrl, CentralOrPeripheral

\* It leaves channel sounding alone.
LEMMA EncryptedPlain ==
  ASSUME NEW s, IsEnd(s), NEW t, t.type = "LE_ENCRYPT_CONNECTION_RESPONSE"
  PROVE  Plain(s, IncomingLeEncryptConnectionResponse(s, t.ok, t.v))
  BY QueueAppend, OneAppendOther
  DEF IncomingLeEncryptConnectionResponse, Tell, Task, Plain, IsEnd, Fields, Sounding, IsConfigPacket

\* A request for features is answered,
LEMMA HandlesFeatures ==
  ASSUME NEW s, IsEnd(s), NEW t, IsTask(t), t.type = "LE_READ_REMOTE_FEATURES"
  PROVE  Handles(s, t, IncomingLeReadRemoteFeatures(s))
  BY QueueAppend, Peers
  DEF IncomingLeReadRemoteFeatures, Send, Task, Handles, IsEnd, Fields,
      IsTask, Packets, Numbered, Asks, Answers, Leads, Held, Ctrl, CentralOrPeripheral

\* It leaves channel sounding alone.
LEMMA FeaturesPlain ==
  ASSUME NEW s, IsEnd(s), NEW t, t.type = "LE_READ_REMOTE_FEATURES"
  PROVE  Plain(s, IncomingLeReadRemoteFeatures(s))
  BY QueueAppend, OneAppendOther
  DEF IncomingLeReadRemoteFeatures, Send, Task, Plain, IsEnd, Fields, Sounding, IsConfigPacket

\* and the answer completes the command.
LEMMA HandlesFeaturesRsp ==
  ASSUME NEW s, IsEnd(s), NEW t, IsTask(t), t.type = "LE_READ_REMOTE_FEATURES_RESPONSE"
  PROVE  Handles(s, t, IncomingLeReadRemoteFeaturesResponse(s, t.v))
  BY QueueAppend, Peers
  DEF IncomingLeReadRemoteFeaturesResponse, Tell, Task, Handles, IsEnd, Fields,
      IsTask, Packets, Numbered, Asks, Answers, Leads, Held, Ctrl, CentralOrPeripheral

\* It leaves channel sounding alone.
LEMMA FeaturesRspPlain ==
  ASSUME NEW s, IsEnd(s), NEW t, t.type = "LE_READ_REMOTE_FEATURES_RESPONSE"
  PROVE  Plain(s, IncomingLeReadRemoteFeaturesResponse(s, t.v))
  BY QueueAppend, OneAppendOther
  DEF IncomingLeReadRemoteFeaturesResponse, Tell, Task, Plain, IsEnd, Fields, Sounding, IsConfigPacket

\* A request for the version is answered,
LEMMA HandlesVersion ==
  ASSUME NEW s, IsEnd(s), NEW t, IsTask(t), t.type = "READ_REMOTE_VERSION_INFORMATION"
  PROVE  Handles(s, t, IncomingReadRemoteVersion(s))
  BY QueueAppend, Peers
  DEF IncomingReadRemoteVersion, Send, Task, Handles, IsEnd, Fields,
      IsTask, Packets, Numbered, Asks, Answers, Leads, Held, Ctrl, CentralOrPeripheral

\* It leaves channel sounding alone.
LEMMA VersionPlain ==
  ASSUME NEW s, IsEnd(s), NEW t, t.type = "READ_REMOTE_VERSION_INFORMATION"
  PROVE  Plain(s, IncomingReadRemoteVersion(s))
  BY QueueAppend, OneAppendOther
  DEF IncomingReadRemoteVersion, Send, Task, Plain, IsEnd, Fields, Sounding, IsConfigPacket

\* and the answer completes the command.
LEMMA HandlesVersionRsp ==
  ASSUME NEW s, IsEnd(s), NEW t, IsTask(t), t.type = "READ_REMOTE_VERSION_INFORMATION_RESPONSE"
  PROVE  Handles(s, t, IncomingReadRemoteVersionResponse(s))
  BY QueueAppend, Peers
  DEF IncomingReadRemoteVersionResponse, Tell, Task, Handles, IsEnd, Fields,
      IsTask, Packets, Numbered, Asks, Answers, Leads, Held, Ctrl, CentralOrPeripheral

\* It leaves channel sounding alone.
LEMMA VersionRspPlain ==
  ASSUME NEW s, IsEnd(s), NEW t, t.type = "READ_REMOTE_VERSION_INFORMATION_RESPONSE"
  PROVE  Plain(s, IncomingReadRemoteVersionResponse(s))
  BY QueueAppend, OneAppendOther
  DEF IncomingReadRemoteVersionResponse, Tell, Task, Plain, IsEnd, Fields, Sounding, IsConfigPacket

\* Data answers nothing and asks nothing.
LEMMA HandlesAcl ==
  ASSUME NEW s, IsEnd(s), NEW t, IsTask(t), t.type = "ACL"
  PROVE  Handles(s, t, IncomingLeAclPacket(s))
  BY QueueAppend, Peers
  DEF IncomingLeAclPacket, Task, Handles, IsEnd, Fields,
      IsTask, Packets, Numbered, Asks, Answers, Leads, Held, Ctrl, CentralOrPeripheral

\* It leaves channel sounding alone.
LEMMA AclPlain ==
  ASSUME NEW s, IsEnd(s), NEW t, t.type = "ACL"
  PROVE  Plain(s, IncomingLeAclPacket(s))
  BY QueueAppend, OneAppendOther
  DEF IncomingLeAclPacket, Task, Plain, IsEnd, Fields, Sounding, IsConfigPacket

\* A request for CS capabilities is answered, with or without support,
LEMMA HandlesCapabilitiesReq ==
  ASSUME NEW s, IsEnd(s), NEW t, IsTask(t), t.type = "LL_CS_CAPABILITIES_REQ"
  PROVE  Handles(s, t, IncomingLlCsCapabilitiesReq(s, t.v))
  BY QueueAppend, Peers
  DEF IncomingLlCsCapabilitiesReq, CsPacket, Tell, Task, Handles, IsEnd, Fields,
      IsTask, Packets, Numbered, Asks, Answers, Leads, Held, Ctrl, CentralOrPeripheral

\* It leaves channel sounding alone.
LEMMA CapabilitiesReqPlain ==
  ASSUME NEW s, IsEnd(s), NEW t, t.type = "LL_CS_CAPABILITIES_REQ"
  PROVE  Plain(s, IncomingLlCsCapabilitiesReq(s, t.v))
  BY QueueAppend, OneAppendOther
  DEF IncomingLlCsCapabilitiesReq, CsPacket, Tell, Task, Plain, IsEnd, Fields, Sounding, IsConfigPacket

\* and the answer completes the command, even a refusal.
LEMMA HandlesCapabilitiesRsp ==
  ASSUME NEW s, IsEnd(s), NEW t, IsTask(t), t.type = "LL_CS_CAPABILITIES_RSP"
  PROVE  Handles(s, t, IncomingLlCsCapabilitiesRsp(s, t.ok, t.v))
  BY QueueAppend, Peers
  DEF IncomingLlCsCapabilitiesRsp, Tell, Task, Handles, IsEnd, Fields,
      IsTask, Packets, Numbered, Asks, Answers, Leads, Held, Ctrl, CentralOrPeripheral

\* It leaves channel sounding alone.
LEMMA CapabilitiesRspPlain ==
  ASSUME NEW s, IsEnd(s), NEW t, t.type = "LL_CS_CAPABILITIES_RSP"
  PROVE  Plain(s, IncomingLlCsCapabilitiesRsp(s, t.ok, t.v))
  BY QueueAppend, OneAppendOther
  DEF IncomingLlCsCapabilitiesRsp, Tell, Task, Plain, IsEnd, Fields, Sounding, IsConfigPacket

\* A request for the FAE table is answered,
LEMMA HandlesFaeReq ==
  ASSUME NEW s, IsEnd(s), NEW t, IsTask(t), t.type = "LL_CS_FAE_REQ"
  PROVE  Handles(s, t, IncomingLlCsFaeReq(s))
  BY QueueAppend, Peers
  DEF IncomingLlCsFaeReq, CsPacket, Task, Handles, IsEnd, Fields,
      IsTask, Packets, Numbered, Asks, Answers, Leads, Held, Ctrl, CentralOrPeripheral

\* It leaves channel sounding alone.
LEMMA FaeReqPlain ==
  ASSUME NEW s, IsEnd(s), NEW t, t.type = "LL_CS_FAE_REQ"
  PROVE  Plain(s, IncomingLlCsFaeReq(s))
  BY QueueAppend, OneAppendOther
  DEF IncomingLlCsFaeReq, CsPacket, Task, Plain, IsEnd, Fields, Sounding, IsConfigPacket

\* and the answer completes the command.
LEMMA HandlesFaeRsp ==
  ASSUME NEW s, IsEnd(s), NEW t, IsTask(t), t.type = "LL_CS_FAE_RSP"
  PROVE  Handles(s, t, IncomingLlCsFaeRsp(s, t.ok))
  BY QueueAppend, Peers
  DEF IncomingLlCsFaeRsp, Tell, Task, Handles, IsEnd, Fields,
      IsTask, Packets, Numbered, Asks, Answers, Leads, Held, Ctrl, CentralOrPeripheral

\* It leaves channel sounding alone.
LEMMA FaeRspPlain ==
  ASSUME NEW s, IsEnd(s), NEW t, t.type = "LL_CS_FAE_RSP"
  PROVE  Plain(s, IncomingLlCsFaeRsp(s, t.ok))
  BY ZenonT(60), QueueAppend, OneAppendOther
  DEF IncomingLlCsFaeRsp, Tell, Task, Plain, IsEnd, Fields, Sounding, IsConfigPacket

\* A CS configuration is accepted or refused by its id where there is support,
LEMMA HandlesConfigReq ==
  ASSUME NEW s, IsEnd(s), NEW t, IsTask(t), t.type = "LL_CS_CONFIG_REQ"
  PROVE  Handles(s, t, IncomingLlCsConfigReq(s, t.id, t.v))
  BY QueueAppend, Peers
  DEF IncomingLlCsConfigReq, CsPacket, Tell, Task, Handles, IsEnd, Fields,
      IsTask, Packets, Numbered, Asks, Answers, Leads, Held, Ctrl, CentralOrPeripheral

\* and either completes the command.
LEMMA HandlesConfigRsp ==
  ASSUME NEW s, IsEnd(s), NEW t, IsTask(t), t.type = "LL_CS_CONFIG_RSP"
  PROVE  Handles(s, t, IncomingLlCsConfigRsp(s, t.ok, t.id))
  BY QueueAppend, Peers
  DEF IncomingLlCsConfigRsp, Tell, Task, Handles, IsEnd, Fields,
      IsTask, Packets, Numbered, Asks, Answers, Leads, Held, Ctrl, CentralOrPeripheral

\* A CS channel map is taken over without an answer.
LEMMA HandlesChannelMap ==
  ASSUME NEW s, IsEnd(s), NEW t, IsTask(t), t.type = "LL_CS_CHANNEL_MAP_IND"
  PROVE  Handles(s, t, IncomingLlCsChannelMapInd(s, t.v))
  BY QueueAppend, Peers
  DEF IncomingLlCsChannelMapInd, WithChannels, Task, Handles, IsEnd, Fields,
      IsTask, Packets, Numbered, Asks, Answers, Leads, Held, Ctrl, CentralOrPeripheral

\* A request for CS security is accepted or refused,
LEMMA HandlesSecurityReq ==
  ASSUME NEW s, IsEnd(s), NEW t, IsTask(t), t.type = "LL_CS_SEC_REQ"
  PROVE  Handles(s, t, IncomingLlCsSecurityReq(s))
  BY QueueAppend, Peers
  DEF IncomingLlCsSecurityReq, CsPacket, Later, Task, Handles, IsEnd, Fields,
      IsTask, Packets, Numbered, Asks, Answers, Leads, Held, Ctrl, CentralOrPeripheral

\* and either completes the command.
LEMMA HandlesSecurityRsp ==
  ASSUME NEW s, IsEnd(s), NEW t, IsTask(t), t.type = "LL_CS_SEC_RSP"
  PROVE  Handles(s, t, IncomingLlCsSecurityRsp(s, t.ok))
  BY QueueAppend, Peers
  DEF IncomingLlCsSecurityRsp, Tell, Task, Handles, IsEnd, Fields,
      IsTask, Packets, Numbered, Asks, Answers, Leads, Held, Ctrl, CentralOrPeripheral

\* A start is answered by the peripheral; the central indicates and reports it.
LEMMA HandlesCsReq ==
  ASSUME NEW s, IsEnd(s), NEW t, IsTask(t), t.type = "LL_CS_REQ"
  PROVE  Handles(s, t, IncomingLlCsReq(s, t.id))
  BY QueueAppend, Peers
  DEF IncomingLlCsReq, CanStart, HasConfig, ReportStart, CsPacket, Tell, Task, Handles, IsEnd, Fields,
      IsTask, Packets, Numbered, Asks, Answers, Leads, Held, Ctrl, CentralOrPeripheral

\* The central indicates the start that the peripheral accepted, and reports it.
LEMMA HandlesCsRsp ==
  ASSUME NEW s, IsEnd(s), NEW t, IsTask(t), t.type = "LL_CS_RSP"
  PROVE  Handles(s, t, IncomingLlCsRsp(s, t.ok, t.id))
  BY QueueAppend, Peers
  DEF IncomingLlCsRsp, CanStart, HasConfig, ReportStart, CsPacket, Tell, Task, Handles, IsEnd, Fields,
      IsTask, Packets, Numbered, Asks, Answers, Leads, Held, Ctrl, CentralOrPeripheral

\* The peripheral reports the start that is indicated to it.
LEMMA HandlesCsInd ==
  ASSUME NEW s, IsEnd(s), NEW t, IsTask(t), t.type = "LL_CS_IND"
  PROVE  Handles(s, t, IncomingLlCsInd(s, t.id))
  BY QueueAppend, Peers
  DEF IncomingLlCsInd, CanStart, HasConfig, ReportStart, Tell, Task, Handles, IsEnd, Fields,
      IsTask, Packets, Numbered, Asks, Answers, Leads, Held, Ctrl, CentralOrPeripheral

\* A termination is answered whatever the configuration,
LEMMA HandlesTerminateReq ==
  ASSUME NEW s, IsEnd(s), NEW t, IsTask(t), t.type = "LL_CS_TERMINATE_REQ"
  PROVE  Handles(s, t, IncomingLlCsTerminateReq(s, t.id))
  BY QueueAppend, Peers
  DEF IncomingLlCsTerminateReq, ReportEnd, CsPacket, Tell, Task, Handles, IsEnd, Fields,
      IsTask, Packets, Numbered, Asks, Answers, Leads, Held, Ctrl, CentralOrPeripheral

\* It leaves channel sounding alone.
LEMMA TerminateReqPlain ==
  ASSUME NEW s, IsEnd(s), NEW t, t.type = "LL_CS_TERMINATE_REQ"
  PROVE  Plain(s, IncomingLlCsTerminateReq(s, t.id))
  BY QueueAppend, OneAppendOther
  DEF IncomingLlCsTerminateReq, ReportEnd, CsPacket, Tell, Task, Plain, IsEnd, Fields, Sounding, IsConfigPacket

\* and the answer completes it.
LEMMA HandlesTerminateRsp ==
  ASSUME NEW s, IsEnd(s), NEW t, IsTask(t), t.type = "LL_CS_TERMINATE_RSP"
  PROVE  Handles(s, t, IncomingLlCsTerminateRsp(s, t.id))
  BY QueueAppend, Peers
  DEF IncomingLlCsTerminateRsp, ReportEnd, Tell, Task, Handles, IsEnd, Fields,
      IsTask, Packets, Numbered, Asks, Answers, Leads, Held, Ctrl, CentralOrPeripheral

\* It leaves channel sounding alone.
LEMMA TerminateRspPlain ==
  ASSUME NEW s, IsEnd(s), NEW t, t.type = "LL_CS_TERMINATE_RSP"
  PROVE  Plain(s, IncomingLlCsTerminateRsp(s, t.id))
  BY QueueAppend, OneAppendOther
  DEF IncomingLlCsTerminateRsp, ReportEnd, Tell, Task, Plain, IsEnd, Fields, Sounding, IsConfigPacket

\* IncomingPacket handles every packet so.
LEMMA IncomingHandles ==
  ASSUME NEW s, IsEnd(s), NEW t, IsTask(t), t.type \in Packets
  PROVE  Handles(s, t, IncomingPacket(s, t))
<1>1. CASE t.type = "LL_PHY_REQ"
  BY <1>1, HandlesPhyReq DEF IncomingPacket
<1>2. CASE t.type = "LL_PHY_RSP"
  BY <1>2, HandlesPhyRsp DEF IncomingPacket
<1>3. CASE t.type = "LL_PHY_UPDATE_IND"
  BY <1>3, HandlesPhyInd DEF IncomingPacket
<1>4. CASE t.type = "LE_CONNECTION_PARAMETER_REQUEST"
  BY <1>4, HandlesParameterRequest DEF IncomingPacket
<1>5. CASE t.type = "LE_CONNECTION_PARAMETER_UPDATE"
  BY <1>5, HandlesParameterUpdate DEF IncomingPacket
<1>6. CASE t.type = "LL_SUBRATE_REQ"
  BY <1>6, HandlesSubrateReq DEF IncomingPacket
<1>7. CASE t.type = "LL_SUBRATE_IND"
  BY <1>7, HandlesSubrateInd DEF IncomingPacket
<1>8. CASE t.type = "LE_ENCRYPT_CONNECTION"
  BY <1>8, HandlesEncrypt DEF IncomingPacket
<1>9. CASE t.type = "LE_ENCRYPT_CONNECTION_RESPONSE"
  BY <1>9, HandlesEncrypted DEF IncomingPacket
<1>10. CASE t.type = "LE_READ_REMOTE_FEATURES"
  BY <1>10, HandlesFeatures DEF IncomingPacket
<1>11. CASE t.type = "LE_READ_REMOTE_FEATURES_RESPONSE"
  BY <1>11, HandlesFeaturesRsp DEF IncomingPacket
<1>12. CASE t.type = "READ_REMOTE_VERSION_INFORMATION"
  BY <1>12, HandlesVersion DEF IncomingPacket
<1>13. CASE t.type = "READ_REMOTE_VERSION_INFORMATION_RESPONSE"
  BY <1>13, HandlesVersionRsp DEF IncomingPacket
<1>14. CASE t.type = "ACL"
  BY <1>14, HandlesAcl DEF IncomingPacket
<1>15. CASE t.type = "LL_CS_CAPABILITIES_REQ"
  BY <1>15, HandlesCapabilitiesReq DEF IncomingPacket
<1>16. CASE t.type = "LL_CS_CAPABILITIES_RSP"
  BY <1>16, HandlesCapabilitiesRsp DEF IncomingPacket
<1>17. CASE t.type = "LL_CS_FAE_REQ"
  BY <1>17, HandlesFaeReq DEF IncomingPacket
<1>18. CASE t.type = "LL_CS_FAE_RSP"
  BY <1>18, HandlesFaeRsp DEF IncomingPacket
<1>19. CASE t.type = "LL_CS_CONFIG_REQ"
  BY <1>19, HandlesConfigReq DEF IncomingPacket
<1>20. CASE t.type = "LL_CS_CONFIG_RSP"
  BY <1>20, HandlesConfigRsp DEF IncomingPacket
<1>21. CASE t.type = "LL_CS_CHANNEL_MAP_IND"
  BY <1>21, HandlesChannelMap DEF IncomingPacket
<1>22. CASE t.type = "LL_CS_SEC_REQ"
  BY <1>22, HandlesSecurityReq DEF IncomingPacket
<1>23. CASE t.type = "LL_CS_SEC_RSP"
  BY <1>23, HandlesSecurityRsp DEF IncomingPacket
<1>24. CASE t.type = "LL_CS_REQ"
  BY <1>24, HandlesCsReq DEF IncomingPacket
<1>25. CASE t.type = "LL_CS_RSP"
  BY <1>25, HandlesCsRsp DEF IncomingPacket
<1>26. CASE t.type = "LL_CS_IND"
  BY <1>26, HandlesCsInd DEF IncomingPacket
<1>27. CASE t.type = "LL_CS_TERMINATE_REQ"
  BY <1>27, HandlesTerminateReq DEF IncomingPacket
<1>28. CASE t.type = "LL_CS_TERMINATE_RSP"
  BY <1>28, HandlesTerminateRsp DEF IncomingPacket
<1> QED
  BY <1>1, <1>2, <1>3, <1>4, <1>5, <1>6, <1>7, <1>8, <1>9, <1>10, <1>11, <1>12, <1>13, <1>14, <1>15, <1>16, <1>17, <1>18, <1>19, <1>20, <1>21, <1>22, <1>23, <1>24, <1>25, <1>26, <1>27, <1>28, SMTT(30) DEF Packets

-----------------------------------------------------------------------------
(* Host commands: what is awaited from now on is under way, and a request   *)
(* of the controller that the host answers is answered.                     *)
Commands(s, u) ==
  /\ IsEnd(u) /\ u.role = s.role
  /\ u.channel_sounding_host_support_ = s.channel_sounding_host_support_
  /\ Elems(s.tasks) \subseteq Elems(u.tasks) /\ s.awaiting \subseteq u.awaiting
  /\ s.initiated_phy_update_ => u.initiated_phy_update_
  /\ \A w \in u.awaiting \ s.awaiting :
       /\ w[1] \in Kind /\ \E x \in Elems(u.tasks) : Leads(x, w[1], w[2])
       /\ w[1] = "PHY" => u.initiated_phy_update_
  /\ \A k \in Kind : Held(s.requests, k) =>
       \/ Held(u.requests, k)
       \/ \E x \in Elems(u.tasks) : x.id = 0 /\ Answers(Peer(u.role), k, x.type)

\* LE Set PHY sends LL_PHY_REQ or has its event deferred.
LEMMA SetPhyCommands ==
  ASSUME NEW s, IsEnd(s), NEW tx, NEW rx
  PROVE  Commands(s, LeSetPhy(s, tx, rx))
  BY QueueAppend, Peers
  DEF LeSetPhy, Await, Send, Task, Commands, IsEnd, Fields,
      IsTask, Packets, Numbered, Asks, Answers, Leads, Held, Kind, Ctrl, CentralOrPeripheral

\* It leaves channel sounding alone.
LEMMA SetPhyPlainly ==
  ASSUME NEW s, IsEnd(s), NEW tx, NEW rx
  PROVE  Plain(s, LeSetPhy(s, tx, rx))
  BY QueueAppend, OneAppendOther
  DEF LeSetPhy, Await, Send, Task, Plain, IsEnd, Fields, Sounding, IsConfigPacket

\* LE Set Default PHY awaits nothing.
LEMMA SetDefaultPhyCommands ==
  ASSUME NEW s, IsEnd(s), NEW tx, NEW rx
  PROVE  Commands(s, LeSetDefaultPhy(s, tx, rx))
  BY QueueAppend, Peers
  DEF LeSetDefaultPhy, Task, Commands, IsEnd, Fields,
      IsTask, Packets, Numbered, Asks, Answers, Leads, Held, Kind, Ctrl, CentralOrPeripheral

\* It leaves channel sounding alone.
LEMMA SetDefaultPhyPlainly ==
  ASSUME NEW s, IsEnd(s), NEW tx, NEW rx
  PROVE  Plain(s, LeSetDefaultPhy(s, tx, rx))
  BY QueueAppend, OneAppendOther
  DEF LeSetDefaultPhy, Task, Plain, IsEnd, Fields, Sounding, IsConfigPacket

\* LE Connection Update asks the peer, or is reported by the central itself.
LEMMA ConnectionUpdateCommands ==
  ASSUME NEW s, IsEnd(s), NEW v
  PROVE  Commands(s, LeConnectionUpdate(s, v))
  BY QueueAppend, Peers
  DEF LeConnectionUpdate, Await, Send, Task, Commands, IsEnd, Fields,
      IsTask, Packets, Numbered, Asks, Answers, Leads, Held, Kind, Ctrl, CentralOrPeripheral

\* It leaves channel sounding alone.
LEMMA ConnectionUpdatePlainly ==
  ASSUME NEW s, IsEnd(s), NEW v
  PROVE  Plain(s, LeConnectionUpdate(s, v))
  BY QueueAppend, OneAppendOther
  DEF LeConnectionUpdate, Await, Send, Task, Plain, IsEnd, Fields, Sounding, IsConfigPacket

\* The answers of a host to a parameter request are sent.
LEMMA ParameterReplyCommands ==
  ASSUME NEW s, IsEnd(s), NEW v
  PROVE  Commands(s, LeRemoteConnectionParameterRequestReply(s, v))
  BY QueueAppend, Peers
  DEF LeRemoteConnectionParameterRequestReply, Send, Task, Commands, IsEnd, Fields,
      IsTask, Packets, Numbered, Asks, Answers, Leads, Held, Kind, Ctrl, CentralOrPeripheral

\* It leaves channel sounding alone.
LEMMA ParameterReplyPlainly ==
  ASSUME NEW s, IsEnd(s), NEW v
  PROVE  Plain(s, LeRemoteConnectionParameterRequestReply(s, v))
  BY QueueAppend, OneAppendOther
  DEF LeRemoteConnectionParameterRequestReply, Send, Task, Plain, IsEnd, Fields, Sounding, IsConfigPacket

\* So is a negative one.
LEMMA ParameterNegativeReplyCommands ==
  ASSUME NEW s, IsEnd(s)
  PROVE  Commands(s, LeRemoteConnectionParameterRequestNegativeReply(s))
  BY QueueAppend, Peers
  DEF LeRemoteConnectionParameterRequestNegativeReply, Send, Task, Commands, IsEnd, Fields,
      IsTask, Packets, Numbered, Asks, Answers, Leads, Held, Kind, Ctrl, CentralOrPeripheral

\* It leaves channel sounding alone.
LEMMA ParameterNegativeReplyPlainly ==
  ASSUME NEW s, IsEnd(s)
  PROVE  Plain(s, LeRemoteConnectionParameterRequestNegativeReply(s))
  BY QueueAppend, OneAppendOther
  DEF LeRemoteConnectionParameterRequestNegativeReply, Send, Task, Plain, IsEnd, Fields, Sounding, IsConfigPacket

\* LE Subrate Request asks the central, or is reported by the central itself.
LEMMA SubrateRequestCommands ==
  ASSUME NEW s, IsEnd(s), NEW v
  PROVE  Commands(s, LeSubrateRequest(s, v))
  BY QueueAppend, Peers
  DEF LeSubrateRequest, Subrated, Await, Later, Send, Task, Commands, IsEnd, Fields,
      IsTask, Packets, Numbered, Asks, Answers, Leads, Held, Kind, Ctrl, CentralOrPeripheral

\* It leaves channel sounding alone.
LEMMA SubrateRequestPlainly ==
  ASSUME NEW s, IsEnd(s), NEW v
  PROVE  Plain(s, LeSubrateRequest(s, v))
  BY QueueAppend, OneAppendOther
  DEF LeSubrateRequest, Subrated, Await, Later, Send, Task, Plain, IsEnd, Fields, Sounding, IsConfigPacket

\* LE Enable Encryption is deferred to a task of its own.
LEMMA EnableEncryptionCommands ==
  ASSUME NEW s, IsEnd(s), NEW key
  PROVE  Commands(s, LeEnableEncryption(s, key))
  BY QueueAppend, Peers
  DEF LeEnableEncryption, Await, Task, Commands, IsEnd, Fields,
      IsTask, Packets, Numbered, Asks, Answers, Leads, Held, Kind, Ctrl, CentralOrPeripheral

\* It leaves channel sounding alone.
LEMMA EnableEncryptionPlainly ==
  ASSUME NEW s, IsEnd(s), NEW key
  PROVE  Plain(s, LeEnableEncryption(s, key))
  BY QueueAppend, OneAppendOther
  DEF LeEnableEncryption, Await, Task, Plain, IsEnd, Fields, Sounding, IsConfigPacket

\* The long term key of the host is the answer to the central.
LEMMA KeyReplyCommands ==
  ASSUME NEW s, IsEnd(s), NEW key
  PROVE  Commands(s, LeLongTermKeyRequestReply(s, key))
  BY QueueAppend, Peers
  DEF LeLongTermKeyRequestReply, Send, Task, Commands, IsEnd, Fields,
      IsTask, Packets, Numbered, Asks, Answers, Leads, Held, Kind, Ctrl, CentralOrPeripheral

\* It leaves channel sounding alone.
LEMMA KeyReplyPlainly ==
  ASSUME NEW s, IsEnd(s), NEW key
  PROVE  Plain(s, LeLongTermKeyRequestReply(s, key))
  BY QueueAppend, OneAppendOther
  DEF LeLongTermKeyRequestReply, Send, Task, Plain, IsEnd, Fields, Sounding, IsConfigPacket

\* So is its absence.
LEMMA KeyNegativeReplyCommands ==
  ASSUME NEW s, IsEnd(s)
  PROVE  Commands(s, LeLongTermKeyRequestNegativeReply(s))
  BY QueueAppend, Peers
  DEF LeLongTermKeyRequestNegativeReply, Send, Task, Commands, IsEnd, Fields,
      IsTask, Packets, Numbered, Asks, Answers, Leads, Held, Kind, Ctrl, CentralOrPeripheral

\* It leaves channel sounding alone.
LEMMA KeyNegativeReplyPlainly ==
  ASSUME NEW s, IsEnd(s)
  PROVE  Plain(s, LeLongTermKeyRequestNegativeReply(s))
  BY QueueAppend, OneAppendOther
  DEF LeLongTermKeyRequestNegativeReply, Send, Task, Plain, IsEnd, Fields, Sounding, IsConfigPacket

\* LE Read Remote Features asks the peer.
LEMMA ReadFeaturesCommands ==
  ASSUME NEW s, IsEnd(s)
  PROVE  Commands(s, LeReadRemoteFeaturesPage0(s))
  BY QueueAppend, Peers
  DEF LeReadRemoteFeaturesPage0, Await, Send, Task, Commands, IsEnd, Fields,
      IsTask, Packets, Numbered, Asks, Answers, Leads, Held, Kind, Ctrl, CentralOrPeripheral

\* It leaves channel sounding alone.
LEMMA ReadFeaturesPlainly ==
  ASSUME NEW s, IsEnd(s)
  PROVE  Plain(s, LeReadRemoteFeaturesPage0(s))
  BY QueueAppend, OneAppendOther
  DEF LeReadRemoteFeaturesPage0, Await, Send, Task, Plain, IsEnd, Fields, Sounding, IsConfigPacket

\* Read Remote Version Information asks the peer.
LEMMA ReadVersionCommands ==
  ASSUME NEW s, IsEnd(s)
  PROVE  Commands(s, ReadRemoteVersionInformation(s))
  BY QueueAppend, Peers
  DEF ReadRemoteVersionInformation, Await, Send, Task, Commands, IsEnd, Fields,
      IsTask, Packets, Numbered, Asks, Answers, Leads, Held, Kind, Ctrl, CentralOrPeripheral

\* It leaves channel sounding alone.
LEMMA ReadVersionPlainly ==
  ASSUME NEW s, IsEnd(s)
  PROVE  Plain(s, ReadRemoteVersionInformation(s))
  BY QueueAppend, OneAppendOther
  DEF ReadRemoteVersionInformation, Await, Send, Task, Plain, IsEnd, Fields, Sounding, IsConfigPacket

\* LE Read Remote Transmit Power Level defers its event.
LEMMA ReadPowerCommands ==
  ASSUME NEW s, IsEnd(s)
  PROVE  Commands(s, LeReadRemoteTransmitPowerLevel(s))
  BY QueueAppend, Peers
  DEF LeReadRemoteTransmitPowerLevel, Await, Later, Task, Commands, IsEnd, Fields,
      IsTask, Packets, Numbered, Asks, Answers, Leads, Held, Kind, Ctrl, CentralOrPeripheral

\* It leaves channel sounding alone.
LEMMA ReadPowerPlainly ==
  ASSUME NEW s, IsEnd(s)
  PROVE  Plain(s, LeReadRemoteTransmitPowerLevel(s))
  BY QueueAppend, OneAppendOther
  DEF LeReadRemoteTransmitPowerLevel, Await, Later, Task, Plain, IsEnd, Fields, Sounding, IsConfigPacket

\* ACL data awaits nothing.
LEMMA SendDataCommands ==
  ASSUME NEW s, IsEnd(s), NEW n
  PROVE  Commands(s, [HandleAcl(s) EXCEPT !.sent = n])
  BY QueueAppend, Peers
  DEF HandleAcl, Await, Later, Send, Task, Commands, IsEnd, Fields,
      IsTask, Packets, Numbered, Asks, Answers, Leads, Held, Kind, Ctrl, CentralOrPeripheral

\* It leaves channel sounding alone.
LEMMA SendDataPlainly ==
  ASSUME NEW s, IsEnd(s), NEW n
  PROVE  Plain(s, [HandleAcl(s) EXCEPT !.sent = n])
  BY QueueAppend, OneAppendOther
  DEF HandleAcl, Await, Later, Send, Task, Plain, IsEnd, Fields, Sounding, IsConfigPacket

\* CS capabilities are asked for once and then reported from the cache.
LEMMA ReadCapabilitiesCommands ==
  ASSUME NEW s, IsEnd(s)
  PROVE  Commands(s, LeCsReadRemoteSupportedCapabilities(s))
  BY QueueAppend, Peers
  DEF LeCsReadRemoteSupportedCapabilities, Await, Later, CsPacket, Task, Commands, IsEnd, Fields,
      IsTask, Packets, Numbered, Asks, Answers, Leads, Held, Kind, Ctrl, CentralOrPeripheral

\* It leaves channel sounding alone.
LEMMA ReadCapabilitiesPlainly ==
  ASSUME NEW s, IsEnd(s)
  PROVE  Plain(s, LeCsReadRemoteSupportedCapabilities(s))
  BY QueueAppend, OneAppendOther
  DEF LeCsReadRemoteSupportedCapabilities, Await, Later, CsPacket, Task, Plain, IsEnd, Fields, Sounding, IsConfigPacket

\* Cached capabilities are written without an event.
LEMMA WriteCapabilitiesCommands ==
  ASSUME NEW s, IsEnd(s), NEW caps
  PROVE  Commands(s, LeCsWriteCachedRemoteSupportedCapabilities(s, caps))
  BY QueueAppend, Peers
  DEF LeCsWriteCachedRemoteSupportedCapabilities, Task, Commands, IsEnd, Fields,
      IsTask, Packets, Numbered, Asks, Answers, Leads, Held, Kind, Ctrl, CentralOrPeripheral

\* It leaves channel sounding alone.
LEMMA WriteCapabilitiesPlainly ==
  ASSUME NEW s, IsEnd(s), NEW caps
  PROVE  Plain(s, LeCsWriteCachedRemoteSupportedCapabilities(s, caps))
  BY QueueAppend, OneAppendOther
  DEF LeCsWriteCachedRemoteSupportedCapabilities, Task, Plain, IsEnd, Fields, Sounding, IsConfigPacket

\* So is a cached FAE table.
LEMMA WriteFaeCommands ==
  ASSUME NEW s, IsEnd(s)
  PROVE  Commands(s, LeCsWriteCachedRemoteFaeTable(s))
  BY QueueAppend, Peers
  DEF LeCsWriteCachedRemoteFaeTable, Task, Commands, IsEnd, Fields,
      IsTask, Packets, Numbered, Asks, Answers, Leads, Held, Kind, Ctrl, CentralOrPeripheral

\* It leaves channel sounding alone.
LEMMA WriteFaePlainly ==
  ASSUME NEW s, IsEnd(s)
  PROVE  Plain(s, LeCsWriteCachedRemoteFaeTable(s))
  BY QueueAppend, OneAppendOther
  DEF LeCsWriteCachedRemoteFaeTable, Task, Plain, IsEnd, Fields, Sounding, IsConfigPacket

\* The FAE table is asked for once and then reported from the cache.
LEMMA ReadFaeCommands ==
  ASSUME NEW s, IsEnd(s)
  PROVE  Commands(s, LeCsReadRemoteFaeTable(s))
  BY QueueAppend, Peers
  DEF LeCsReadRemoteFaeTable, Await, Later, CsPacket, Task, Commands, IsEnd, Fields,
      IsTask, Packets, Numbered, Asks, Answers, Leads, Held, Kind, Ctrl, CentralOrPeripheral

\* It leaves channel sounding alone.
LEMMA ReadFaePlainly ==
  ASSUME NEW s, IsEnd(s)
  PROVE  Plain(s, LeCsReadRemoteFaeTable(s))
  BY QueueAppend, OneAppendOther
  DEF LeCsReadRemoteFaeTable, Await, Later, CsPacket, Task, Plain, IsEnd, Fields, Sounding, IsConfigPacket

\* LE CS Security Enable asks the peripheral.
LEMMA SecurityCommands ==
  ASSUME NEW s, IsEnd(s)
  PROVE  Commands(s, LeCsSecurityEnable(s))
  BY QueueAppend, Peers
  DEF LeCsSecurityEnable, Await, CsPacket, Task, Commands, IsEnd, Fields,
      IsTask, Packets, Numbered, Asks, Answers, Leads, Held, Kind, Ctrl, CentralOrPeripheral

\* The default settings are set without an event.
LEMMA DefaultsCommands ==
  ASSUME NEW s, IsEnd(s), NEW roles
  PROVE  Commands(s, LeCsSetDefaultSettings(s, roles))
  BY QueueAppend, Peers
  DEF LeCsSetDefaultSettings, Task, Commands, IsEnd, Fields,
      IsTask, Packets, Numbered, Asks, Answers, Leads, Held, Kind, Ctrl, CentralOrPeripheral

\* It leaves channel sounding alone.
LEMMA DefaultsPlainly ==
  ASSUME NEW s, IsEnd(s), NEW roles
  PROVE  Plain(s, LeCsSetDefaultSettings(s, roles))
  BY QueueAppend, OneAppendOther
  DEF LeCsSetDefaultSettings, Task, Plain, IsEnd, Fields, Sounding, IsConfigPacket

\* LE CS Create Config asks the peer, or is reported when it is local.
LEMMA CreateConfigCommands ==
  ASSUME NEW s, IsEnd(s), NEW id, NEW role, NEW p, NEW both
  PROVE  Commands(s, LeCsCreateConfig(s, id, role, p, both))
  BY QueueAppend, Peers
  DEF LeCsCreateConfig, Await, Later, CsPacket, Task, Commands, IsEnd, Fields,
      IsTask, Packets, Numbered, Asks, Answers, Leads, Held, Kind, Ctrl, CentralOrPeripheral

\* LE CS Remove Config tells the peer.
LEMMA RemoveConfigCommands ==
  ASSUME NEW s, IsEnd(s), NEW id
  PROVE  Commands(s, LeCsRemoveConfig(s, id))
  BY QueueAppend, Peers
  DEF LeCsRemoveConfig, Await, CsPacket, Task, Commands, IsEnd, Fields,
      IsTask, Packets, Numbered, Asks, Answers, Leads, Held, Kind, Ctrl, CentralOrPeripheral

\* A channel classification is sent without an event.
LEMMA ClassifyCommands ==
  ASSUME NEW s, IsEnd(s), NEW n
  PROVE  Commands(s, LeCsSetChannelClassification(s, n))
  BY QueueAppend, Peers
  DEF LeCsSetChannelClassification, WithChannels, CsPacket, Task, Commands, IsEnd, Fields,
      IsTask, Packets, Numbered, Asks, Answers, Leads, Held, Kind, Ctrl, CentralOrPeripheral

\* Procedure parameters are set without an event.
LEMMA SetProcedureCommands ==
  ASSUME NEW s, IsEnd(s), NEW id
  PROVE  Commands(s, LeCsSetProcedureParameters(s, id))
  BY QueueAppend, Peers
  DEF LeCsSetProcedureParameters, Task, Commands, IsEnd, Fields,
      IsTask, Packets, Numbered, Asks, Answers, Leads, Held, Kind, Ctrl, CentralOrPeripheral

\* LE CS Procedure Enable asks the peer to start or to stop.
LEMMA ProcedureEnableCommands ==
  ASSUME NEW s, IsEnd(s), NEW id, NEW enable
  PROVE  Commands(s, LeCsProcedureEnable(s, id, enable))
  BY QueueAppend, Peers
  DEF LeCsProcedureEnable, Await, CsPacket, Task, Commands, IsEnd, Fields,
      IsTask, Packets, Numbered, Asks, Answers, Leads, Held, Kind, Ctrl, CentralOrPeripheral

\* A stop leaves the readiness for channel sounding alone.
LEMMA StopPlainly ==
  ASSUME NEW s, IsEnd(s), NEW id
  PROVE  Plain(s, LeCsProcedureEnable(s, id, FALSE))
  BY QueueAppend, OneAppendOther
  DEF LeCsProcedureEnable, Await, CsPacket, Task, Plain, IsEnd, Fields, Sounding, IsConfigPacket

-----------------------------------------------------------------------------
(* The invariant.                                                          *)

\* The commands of kind k are answered: the request of a configuration is answered by
\* its id when both ends support channel sounding, the start of a procedure is
\* accepted when the hosts coordinate.
Owed(k) ==
  /\ k = "CONFIG" => usage.support = Ctrl
  /\ k = "START" => Coordinating

Ends ==
  /\ DOMAIN ctl = Ctrl
  /\ \A c \in Ctrl : /\ IsEnd(ctl[c]) /\ ctl[c].role = c
                     /\ ctl[c].channel_sounding_host_support_ = (c \in usage.support)
  /\ ticking # None => ticking \in Ctrl /\ due \in 1..Len(ctl[ticking].tasks)

AnswersUnderWay ==
  \A c \in Ctrl : \A w \in ctl[c].awaiting :
    /\ w[1] \in Kind
    /\ Owed(w[1]) => UnderWay(ctl[c], ctl[Peer(c)], w[1], w[2])
    /\ w[1] = "PHY" /\ c = "PERIPHERAL" => ctl[c].initiated_phy_update_

Commanded(c) ==
  /\ ticking = None
  /\ \E u : Commands(ctl[c], u) /\ ctl' = [ctl EXCEPT ![c] = u] /\ UNCHANGED <<ticking, due>>

\* The actions of the hosts are such commands: PHYs,
LEMMA SetPhyCommanded == ASSUME Ends, NEW c \in Ctrl, SetPhy(c) PROVE Commanded(c)
  BY SetPhyCommands, SetDefaultPhyCommands DEF SetPhy, May, Becomes, Commanded, Ends

\* connection updates,
LEMMA UpdateCommanded == ASSUME Ends, NEW c \in Ctrl, UpdateParameters(c) PROVE Commanded(c)
  BY ConnectionUpdateCommands, ParameterReplyCommands, ParameterNegativeReplyCommands
  DEF UpdateParameters, May, Becomes, Commanded, Ends

\* subrates,
LEMMA SubrateCommanded == ASSUME Ends, NEW c \in Ctrl, Subrate(c) PROVE Commanded(c)
  BY SubrateRequestCommands, ZenonT(60) DEF Subrate, May, Becomes, Commanded, Ends

\* encryption,
LEMMA EncryptionCommanded == ASSUME Ends, NEW c \in Ctrl, Encryption(c) PROVE Commanded(c)
  BY EnableEncryptionCommands, KeyReplyCommands, KeyNegativeReplyCommands
  DEF Encryption, May, Becomes, Commanded, Ends

\* remote information and data,
LEMMA ExchangeCommanded == ASSUME Ends, NEW c \in Ctrl, Exchange(c) PROVE Commanded(c)
  BY ZenonT(60), ReadFeaturesCommands, ReadVersionCommands, ReadPowerCommands, SendDataCommands
  DEF Exchange, May, Becomes, Commanded, Ends

\* CS capabilities, FAE table and security,
LEMMA CapableCommanded == ASSUME Ends, NEW c \in Ctrl, Capable(c) PROVE Commanded(c)
  BY ReadCapabilitiesCommands, WriteCapabilitiesCommands, WriteFaeCommands, ReadFaeCommands,
     SecurityCommands
  DEF Capable, May, Becomes, Commanded, Ends

\* CS configurations,
LEMMA ConfigureCommanded == ASSUME Ends, NEW c \in Ctrl, Configure(c) PROVE Commanded(c)
  BY DefaultsCommands, CreateConfigCommands, RemoveConfigCommands
  DEF Configure, May, Becomes, Commanded, Ends

\* CS channels
LEMMA ClassifyCommanded == ASSUME Ends, NEW c \in Ctrl, Classify(c) PROVE Commanded(c)
  BY ClassifyCommands, ZenonT(60) DEF Classify, May, Becomes, Commanded, Ends

\* and CS procedures.
LEMMA ProcedureCommanded == ASSUME Ends, NEW c \in Ctrl, Procedure(c) PROVE Commanded(c)
  BY SetProcedureCommands, ProcedureEnableCommands DEF Procedure, May, Becomes, Commanded, Ends

\* A host command keeps the answers under way.
LEMMA CommandedKeeps ==
  ASSUME Ends, AnswersUnderWay, NEW c \in Ctrl, Commanded(c), UNCHANGED usage
  PROVE  Ends' /\ AnswersUnderWay'
<1>1. PICK u : Commands(ctl[c], u) /\ ctl' = [ctl EXCEPT ![c] = u] /\ UNCHANGED <<ticking, due>>
  BY ZenonT(60) DEF Commanded
<1>2. /\ ctl'[c] = u /\ \A d \in Ctrl \ {c} : ctl'[d] = ctl[d]
      /\ DOMAIN ctl' = Ctrl /\ ticking' = None
  BY <1>1 DEF Ends, Commanded
<1>3. Ends'
  BY <1>1, <1>2 DEF Ends, Commands
<1>4. ASSUME NEW d \in Ctrl, NEW w \in ctl'[d].awaiting
      PROVE  /\ w[1] \in Kind
             /\ Owed(w[1]) => UnderWay(ctl'[d], ctl'[Peer(d)], w[1], w[2])
             /\ w[1] = "PHY" /\ d = "PERIPHERAL" => ctl'[d].initiated_phy_update_
  <2>1. CASE d = c
    <3>1. Peer(c) \in Ctrl \ {c}
      BY Peers DEF Ctrl, CentralOrPeripheral
    <3>2. ctl'[Peer(c)] = ctl[Peer(c)] /\ w \in u.awaiting
      BY <1>2, <2>1, <3>1
    <3>3. CASE w \in ctl[c].awaiting
      BY <1>1, <1>2, <2>1, <3>2, <3>3 DEF Commands, AnswersUnderWay, UnderWay
    <3>4. CASE w \notin ctl[c].awaiting
      BY <1>1, <1>2, <2>1, <3>2, <3>4 DEF Commands, UnderWay
    <3> QED
      BY <3>3, <3>4
  <2>2. CASE d # c
    <3>1. Peer(d) = c /\ ctl'[d] = ctl[d] /\ Peer(c) = d /\ ctl[c].role = c /\ ctl[d].role = d
      BY <1>2, <2>2, Peers DEF Ctrl, CentralOrPeripheral, Ends
    <3>2. /\ w[1] \in Kind /\ w = <<w[1], w[2]>>
          /\ w[1] \in {"PHY", "UPDATE", "ENCRYPTION"} => w[2] = 0
          /\ Owed(w[1]) => UnderWay(ctl[d], ctl[c], w[1], w[2])
          /\ w[1] = "PHY" /\ d = "PERIPHERAL" => ctl[d].initiated_phy_update_
      BY <3>1 DEF AnswersUnderWay, Ends, IsEnd
    <3>3. Held(ctl[c].requests, w[1]) =>
            \/ Held(u.requests, w[1])
            \/ \E x \in Elems(u.tasks) : x.id = 0 /\ Answers(d, w[1], x.type)
      BY <1>1, <3>1, <3>2 DEF Commands
    <3>4. Held(ctl[c].requests, w[1]) => w[2] = 0
      BY <3>2 DEF Held
    <3>5. Elems(ctl[c].tasks) \subseteq Elems(u.tasks)
      BY <1>1 DEF Commands
    <3>6. Owed(w[1]) => UnderWay(ctl[d], u, w[1], w[2])
      BY <3>1, <3>2, <3>3, <3>4, <3>5 DEF UnderWay
    <3> QED
      BY <1>2, <3>1, <3>2, <3>6
  <2> QED
    BY <2>1, <2>2
<1>5. AnswersUnderWay'
  BY <1>4 DEF AnswersUnderWay, Owed, Coordinating
<1> QED
  BY <1>3, <1>5

-----------------------------------------------------------------------------
(* Channel sounding, under coordination.                                   *)

\* The ends of hosts that coordinate agree.
SoundingInv == Coordinating => \A c \in Ctrl : Sounds(ctl[c], ctl[Peer(c)])

\* Two ends whose channel sounding agrees, seen from each.
Both(s, p) == Sounds(s, p) /\ Sounds(p, s)

\* A step of the end s with peer p that keeps the configurations there, and sends,
\* awaits and reports only what the two are ready for.
Steps(s, p, u) ==
  /\ u.channel_sounding_host_support_ = s.channel_sounding_host_support_
  /\ u.config_map \in [ConfigIds -> Config \cup {None}]
  /\ \A id \in ConfigIds :
       IF HasConfig(s, id)
       THEN /\ HasConfig(u, id) /\ u.config_map[id].role = s.config_map[id].role
            /\ s.config_map[id].procedure => u.config_map[id].procedure
       ELSE ~HasConfig(u, id)
  /\ s.iv => u.iv
  /\ s.security_enabled => u.security_enabled
  /\ u.security_enabled => s.security_enabled \/ (u.iv /\ s.channel_sounding_host_support_)
  /\ s.remote_fae_table => u.remote_fae_table
  /\ \A id \in u.started : id \in s.started \/ Ready(s, p, id)
  /\ u.failed => s.failed
  /\ \A w \in u.awaiting : w[1] = "START" => w \in s.awaiting \/ Ready(s, p, w[2])
  /\ \A t \in Elems(u.tasks) :
       \/ t \in Elems(s.tasks)
       \/ /\ t.type \notin {"LL_CS_CONFIG_REQ", "LL_CS_CONFIG_RSP"}
          /\ t.type = "LL_CS_CHANNEL_MAP_IND" => t.v \in ChannelChoices
          /\ t.type = "LL_CS_SEC_REQ" => u.iv /\ s.channel_sounding_host_support_
          /\ t.type = "LL_CS_SEC_RSP" => p.iv /\ p.channel_sounding_host_support_
          /\ t.type \in {"LL_CS_REQ", "LL_CS_RSP", "LL_CS_IND"} => Ready(s, p, t.id)
  /\ \A id \in ConfigIds : OneConfigPacket(s.tasks, id) => OneConfigPacket(u.tasks, id)

\* Such a step keeps the agreement.
LEMMA StepsKeep ==
  ASSUME NEW s, NEW p, NEW u, Both(s, p), Steps(s, p, u)
  PROVE  Both(u, p) /\ Both(p, u)
<1>1. SoundingTypes(u) /\ SoundingTypes(p)
  BY DEF Both, Sounds, SoundingTypes, Steps, Ready
<1>2. Secured(u, p) /\ Secured(p, u)
  BY SMTT(30) DEF Both, Sounds, Secured, Steps
<1>3. Configured(u, p)
  BY SMTT(30) DEF Both, Sounds, Configured, Steps, NoConfigPacket, IsConfigPacket
<1>4. Configured(p, u)
  BY DEF Both, Sounds, Configured, Steps, NoConfigPacket, IsConfigPacket
<1>5. \A id : Ready(s, p, id) => Ready(u, p, id) /\ Ready(p, u, id)
  BY DEF Ready, ReadyEnd, Steps
<1>6. \A id : Ready(p, s, id) => Ready(s, p, id)
  BY DEF Ready
<1>7. Started(u, p) /\ Started(p, u)
  BY <1>5, <1>6 DEF Both, Sounds, Started, Steps
<1> QED
  BY <1>1, <1>2, <1>3, <1>4, <1>7, SMTT(30) DEF Both, Sounds

\* A step that adds nothing to channel sounding is one.
LEMMA PlainSteps ==
  ASSUME NEW s, NEW p, NEW u, Both(s, p), Plain(s, u)
  PROVE  Steps(s, p, u)
  BY DEF Both, Sounds, SoundingTypes, Plain, Steps, Sounding, HasConfig

(* What is known of the packet t that the end s has just sent to p.         *)
Arrives(s, p, t) ==
  /\ t.type \in {"LL_CS_CONFIG_REQ", "LL_CS_REQ", "LL_CS_RSP", "LL_CS_IND"} => t.id \in ConfigIds
  /\ t.type = "LL_CS_CONFIG_REQ" =>
       t.v.action = "CREATE" /\ t.v.role \in CsRole /\ t.v.params \in ConfigParams
  /\ t.type = "LL_CS_CHANNEL_MAP_IND" => t.v \in ChannelChoices
  /\ t.type = "LL_CS_SEC_REQ" => s.iv /\ s.channel_sounding_host_support_
  /\ t.type = "LL_CS_SEC_RSP" => p.iv /\ p.channel_sounding_host_support_
  /\ s.channel_sounding_host_support_ /\ p.channel_sounding_host_support_ =>
       \A id \in ConfigIds : IsConfigPacket(t, id) =>
         /\ NoConfigPacket(s.tasks, id) /\ NoConfigPacket(p.tasks, id)
         /\ t.type = "LL_CS_CONFIG_REQ" =>
              HasConfig(s, id) /\ s.config_map[id].role = t.v.role /\ ~HasConfig(p, id)
         /\ t.type = "LL_CS_CONFIG_RSP" => HasConfig(p, id) /\ (t.ok \/ ~HasConfig(s, id))
  /\ t.type \in {"LL_CS_REQ", "LL_CS_RSP", "LL_CS_IND"} => Ready(s, p, t.id)

\* Taking the first task off the queue keeps the agreement, and this is what the
\* packet brings with it.
LEMMA PopKeeps ==
  ASSUME NEW s, IsEnd(s), s.tasks # <<>>, NEW p, Both(s, p)
  PROVE  LET r == [s EXCEPT !.tasks = Tail(@)] IN
         Both(r, p) /\ Arrives(r, p, Head(s.tasks))
<1> DEFINE r == [s EXCEPT !.tasks = Tail(@)]
           t == Head(s.tasks)
<1>1. /\ Queue(s.tasks) /\ Elems(s.tasks) = Elems(r.tasks) \cup {t}
      /\ \A id : OneConfigPacket(s.tasks, id) =>
                   /\ OneConfigPacket(r.tasks, id)
                   /\ IsConfigPacket(t, id) => NoConfigPacket(r.tasks, id)
  BY QueueTail, OneTail DEF IsEnd, Fields
<1>2. /\ r.channel_sounding_host_support_ = s.channel_sounding_host_support_
      /\ r.config_map = s.config_map /\ r.iv = s.iv /\ r.security_enabled = s.security_enabled
      /\ r.remote_fae_table = s.remote_fae_table /\ r.started = s.started /\ r.failed = s.failed
      /\ r.awaiting = s.awaiting
  BY DEF IsEnd, Fields
<1> HIDE DEF r, t
<1>3. Both(r, p)
  BY <1>1, <1>2, PlainSteps, StepsKeep, ZenonT(60) DEF Plain
<1>4. Arrives(r, p, t)
  BY <1>1, <1>2 DEF Arrives, Both, Sounds, SoundingTypes, Secured, Configured, Started, HasConfig,
     IsConfigPacket, NoConfigPacket, Ready, ReadyEnd
<1> QED
  BY <1>3, <1>4 DEF r, t

\* A new configuration, and one with another channel map, are configurations.
LEMMA NewConfigIsConfig ==
  ASSUME NEW role \in CsRole, NEW p \in ConfigParams
  PROVE  /\ NewConfig(role, p) \in Config /\ NewConfig(role, p) # None
         /\ NewConfig(role, p).role = role
<1> DEFINE f == FALSE
<1>1. f \in BOOLEAN /\ NewConfig(role, p) = [role |-> role, params |-> p, enabled |-> f, procedure |-> f]
  BY DEF NewConfig
<1> HIDE DEF f
<1> QED
  BY <1>1, NoneAssumption DEF Config

\* The peer has the other role of a configuration.
LEMMA ComplementDiffers ==
  ASSUME NEW role \in CsRole
  PROVE  Complement(role) \in CsRole /\ Complement(role) # role
  BY DEF Complement, CsRole

\* A CS configuration that is asked for is made with the other role, or refused.
LEMMA ConfigReqKeeps ==
  ASSUME NEW s, NEW p, IsEnd(p), Both(s, p), NEW t, Arrives(s, p, t), t.type = "LL_CS_CONFIG_REQ"
  PROVE  Both(s, IncomingLlCsConfigReq(p, t.id, t.v))
<1> DEFINE u == IncomingLlCsConfigReq(p, t.id, t.v)
<1>0. t.id \in ConfigIds /\ t.v.action = "CREATE" /\ t.v.role \in CsRole /\ t.v.params \in ConfigParams
  BY DEF Arrives
<1>1. CASE ~p.channel_sounding_host_support_
  <2> DEFINE x == Task("LL_CS_CONFIG_RSP", FALSE, 0, None)
  <2>1. u = CsPacket(p, "LL_CS_CONFIG_RSP", FALSE, 0, None)
    BY <1>1, ZenonT(60) DEF IncomingLlCsConfigReq
  <2>2. /\ u.channel_sounding_host_support_ = p.channel_sounding_host_support_
        /\ u.remote_fae_table = p.remote_fae_table /\ u.iv = p.iv
        /\ u.security_enabled = p.security_enabled
        /\ u.started = p.started /\ u.failed = p.failed /\ u.config_map = p.config_map
        /\ u.awaiting = p.awaiting /\ u.tasks = Append(p.tasks, x)
    BY <2>1, ZenonT(60) DEF CsPacket, IsEnd, Fields
  <2>3. x.type = "LL_CS_CONFIG_RSP" /\ Elems(u.tasks) = Elems(p.tasks) \cup {x}
    BY <2>2, QueueAppend, ZenonT(60) DEF IsEnd, Task
  <2> HIDE DEF u, x
  <2>4. SoundingTypes(u) /\ Secured(u, s) /\ Secured(s, u)
    BY <2>2, <2>3 DEF Both, Sounds, SoundingTypes, Secured
  <2>5. Started(u, s) /\ Started(s, u)
    BY <2>2, <2>3, ZenonT(60) DEF Both, Sounds, Started, Ready, ReadyEnd, HasConfig
  <2>6. Configured(u, s) /\ Configured(s, u)
    BY <1>1, <2>2, ZenonT(60) DEF Configured
  <2> QED
    BY <2>4, <2>5, <2>6 DEF Both, Sounds, u
<1>2. CASE p.channel_sounding_host_support_ /\ ~AcceptableConfig(LocalCapabilities, t.v.role, t.v.params)
  <2> DEFINE x == Task("LL_CS_CONFIG_RSP", FALSE, t.id, None)
  <2>1. u = CsPacket(p, "LL_CS_CONFIG_RSP", FALSE, t.id, None)
    BY <1>2 DEF IncomingLlCsConfigReq
  <2>2. /\ u.channel_sounding_host_support_ = p.channel_sounding_host_support_
        /\ u.remote_fae_table = p.remote_fae_table /\ u.iv = p.iv
        /\ u.security_enabled = p.security_enabled
        /\ u.started = p.started /\ u.failed = p.failed /\ u.config_map = p.config_map
        /\ u.awaiting = p.awaiting /\ u.tasks = Append(p.tasks, x)
    BY <2>1, ZenonT(60) DEF CsPacket, IsEnd, Fields
  <2>3. x.type = "LL_CS_CONFIG_RSP" /\ x.id = t.id /\ Elems(u.tasks) = Elems(p.tasks) \cup {x}
    BY <2>2, QueueAppend, ZenonT(60) DEF IsEnd, Task
  <2> HIDE DEF x
  <2>4. \A id : IF id = t.id THEN NoConfigPacket(p.tasks, id) => OneConfigPacket(u.tasks, id)
                ELSE OneConfigPacket(p.tasks, id) => OneConfigPacket(u.tasks, id)
    BY <2>2, <2>3, OneAppendFirst, OneAppendOther, SMTT(30) DEF IsEnd, IsConfigPacket
  <2> HIDE DEF u, x
  <2>5. SoundingTypes(u) /\ Secured(u, s) /\ Secured(s, u)
    BY <2>2, <2>3 DEF Both, Sounds, SoundingTypes, Secured
  <2>6. Started(u, s) /\ Started(s, u)
    BY <2>2, <2>3, ZenonT(60) DEF Both, Sounds, Started, Ready, ReadyEnd, HasConfig
  <2>7. Configured(u, s) /\ Configured(s, u)
    BY <1>0, <2>2, <2>3, <2>4 DEF Both, Sounds, Configured, Arrives, HasConfig, IsConfigPacket, NoConfigPacket
  <2> QED
    BY <2>5, <2>6, <2>7 DEF Both, Sounds, u
<1>3. CASE p.channel_sounding_host_support_ /\ AcceptableConfig(LocalCapabilities, t.v.role, t.v.params)
  <2> DEFINE x == Task("LL_CS_CONFIG_RSP", TRUE, t.id, None)
             n == NewConfig(Complement(t.v.role), t.v.params)
  <2>1. u = Tell(CsPacket([p EXCEPT !.config_map[t.id] = n], "LL_CS_CONFIG_RSP", TRUE, t.id, None), "CONFIG", t.id)
    BY <1>0, <1>3 DEF IncomingLlCsConfigReq
  <2>e. u = Tell([[p EXCEPT !.config_map[t.id] = n] EXCEPT !.tasks = Append(@, x)], "CONFIG", t.id)
    BY <2>1 DEF CsPacket
  <2>f. x.type = "LL_CS_CONFIG_RSP" /\ x.id = t.id /\ x.ok
    BY DEF Task
  <2> HIDE DEF x, n
  <2>2. /\ u.channel_sounding_host_support_ = p.channel_sounding_host_support_
        /\ u.remote_fae_table = p.remote_fae_table /\ u.iv = p.iv
        /\ u.security_enabled = p.security_enabled
        /\ u.started = p.started /\ u.failed = p.failed
        /\ u.config_map = [p.config_map EXCEPT ![t.id] = n]
        /\ u.awaiting \subseteq p.awaiting /\ u.tasks = Append(p.tasks, x)
    BY <2>e DEF Tell, IsEnd, Fields
  <2>3. x.type = "LL_CS_CONFIG_RSP" /\ x.id = t.id /\ x.ok /\ Elems(u.tasks) = Elems(p.tasks) \cup {x}
    BY <2>2, <2>f, QueueAppend DEF IsEnd
  <2> HIDE DEF x
  <2>4. \A id : IF id = t.id THEN NoConfigPacket(p.tasks, id) => OneConfigPacket(u.tasks, id)
                ELSE OneConfigPacket(p.tasks, id) => OneConfigPacket(u.tasks, id)
    BY <2>2, <2>3, OneAppendFirst, OneAppendOther DEF IsEnd, IsConfigPacket
  <2>5. n \in Config /\ n # None /\ n.role # t.v.role
    BY <1>0, NewConfigIsConfig, ComplementDiffers DEF n
  <2> HIDE DEF u, x, n
  <2>6. SoundingTypes(u) /\ Secured(u, s) /\ Secured(s, u)
    BY <2>2, <2>3, <2>5, ZenonT(60) DEF Both, Sounds, SoundingTypes, Secured
  <2>a. p.config_map \in [ConfigIds -> Config \cup {None}]
    BY DEF Both, Sounds, SoundingTypes
  <2>b. \A id \in ConfigIds : u.config_map[id] = IF id = t.id THEN n ELSE p.config_map[id]
    BY <2>2, <2>a
  <2>c. s.channel_sounding_host_support_ => ~HasConfig(p, t.id)
    BY <1>0, <1>3 DEF Arrives, IsConfigPacket
  <2>d. \A id : Ready(s, p, id) => id # t.id
    BY <2>c, ZenonT(60) DEF Ready, ReadyEnd, Both, Sounds, Secured
  <2>7. Started(u, s) /\ Started(s, u)
    BY <2>2, <2>3, <2>b, <2>d DEF Both, Sounds, Started, Ready, ReadyEnd, HasConfig
  <2>g. Configured(p, s) /\ Configured(s, p)
    BY ZenonT(60) DEF Both, Sounds
  <2>8. Configured(u, s) /\ Configured(s, u)
    BY <1>0, <2>2, <2>3, <2>4, <2>5, <2>b, <2>g, SMTT(60)
    DEF Configured, Arrives, HasConfig, IsConfigPacket, NoConfigPacket
  <2> QED
    BY <2>6, <2>7, <2>8 DEF Both, Sounds, u
<1> QED
  BY <1>1, <1>2, <1>3

\* A refusal removes the configuration that its creator had stored.
LEMMA ConfigRspKeeps ==
  ASSUME NEW s, NEW p, IsEnd(p), Both(s, p), NEW t, Arrives(s, p, t), t.type = "LL_CS_CONFIG_RSP"
  PROVE  Both(s, IncomingLlCsConfigRsp(p, t.ok, t.id))
<1> DEFINE u == IncomingLlCsConfigRsp(p, t.ok, t.id)
           n == IF t.ok THEN p.config_map[t.id] ELSE None
<1>1. u = Tell([p EXCEPT !.config_map[t.id] = n], "CONFIG", t.id)
  BY DEF IncomingLlCsConfigRsp
<1> HIDE DEF n
<1>2. /\ u.channel_sounding_host_support_ = p.channel_sounding_host_support_
      /\ u.remote_fae_table = p.remote_fae_table /\ u.iv = p.iv
      /\ u.security_enabled = p.security_enabled
      /\ u.started = p.started /\ u.failed = p.failed
      /\ u.config_map = [p.config_map EXCEPT ![t.id] = n]
      /\ u.awaiting \subseteq p.awaiting /\ u.tasks = p.tasks
  BY <1>1 DEF Tell, IsEnd, Fields
<1>3. p.config_map \in [ConfigIds -> Config \cup {None}]
  BY DEF Both, Sounds, SoundingTypes
<1>4. u.config_map \in [ConfigIds -> Config \cup {None}]
  BY <1>2, <1>3, ZenonT(60) DEF n
<1>5. \A id \in ConfigIds : u.config_map[id] = IF id = t.id /\ ~t.ok THEN None ELSE p.config_map[id]
  BY <1>2, <1>3 DEF n
<1> HIDE DEF u
<1>6. SoundingTypes(u) /\ Secured(u, s) /\ Secured(s, u)
  BY <1>2, <1>4, ZenonT(60) DEF Both, Sounds, SoundingTypes, Secured
<1>7. \A id : Ready(s, p, id) => id # t.id \/ t.ok
  BY ZenonT(60) DEF Ready, ReadyEnd, Both, Sounds, Secured, Arrives, IsConfigPacket
<1>8. Started(u, s) /\ Started(s, u)
  BY <1>2, <1>5, <1>7 DEF Both, Sounds, Started, Ready, ReadyEnd, HasConfig
<1>c. Configured(p, s) /\ Configured(s, p)
  BY ZenonT(60) DEF Both, Sounds
<1>9. Configured(u, s) /\ Configured(s, u)
  BY <1>2, <1>5, <1>c, SMTT(60) DEF Configured, Arrives, HasConfig, IsConfigPacket, NoConfigPacket
<1> QED
  BY <1>6, <1>8, <1>9 DEF Both, Sounds, u

\* A channel classification replaces the channel map of a configuration only.
LEMMA ChannelsConfig ==
  ASSUME NEW c \in Config, NEW n \in ChannelChoices
  PROVE  LET d == [c EXCEPT !.params.channels = n] IN
         d \in Config /\ d # None /\ d.role = c.role /\ d.procedure = c.procedure
<1> DEFINE q == [c.params EXCEPT !.channels = n]
<1>1. q \in ConfigParams
  <2>1. CASE c.params \in ConfigChoices
    BY <2>1 DEF ConfigParams
  <2>2. CASE \E p \in ConfigChoices, m \in ChannelChoices : c.params = [p EXCEPT !.channels = m]
    <3>1. PICK p \in ConfigChoices, m \in ChannelChoices : c.params = [p EXCEPT !.channels = m]
      BY <2>2
    <3>2. q = [p EXCEPT !.channels = n]
      BY <3>1, ZenonT(60)
    <3> QED
      BY <3>2 DEF ConfigParams
  <2> QED
    BY <2>1, <2>2 DEF Config, ConfigParams
<1>2. [c EXCEPT !.params.channels = n] = [c EXCEPT !.params = q]
  OBVIOUS
<1> HIDE DEF q
<1>3. [c EXCEPT !.params = q] \in Config /\ [c EXCEPT !.params = q].role = c.role
      /\ [c EXCEPT !.params = q].procedure = c.procedure
  BY <1>1 DEF Config
<1> QED
  BY <1>2, <1>3, NoneAssumption

\* A channel classification keeps roles and procedure parameters.
LEMMA WithChannelsSteps ==
  ASSUME NEW s, NEW p, IsEnd(s), Both(s, p), NEW ids, NEW n \in ChannelChoices
  PROVE  Steps(s, p, WithChannels(s, ids, n))
<1> DEFINE m == [id \in ConfigIds |-> IF id \in ids /\ HasConfig(s, id)
                                      THEN [s.config_map[id] EXCEPT !.params.channels = n]
                                      ELSE s.config_map[id]]
           u == [s EXCEPT !.config_map = m]
<1>1. WithChannels(s, ids, n) = u
  BY SMTT(30) DEF WithChannels
<1>2. s.config_map \in [ConfigIds -> Config \cup {None}]
  BY DEF Both, Sounds, SoundingTypes
<1>3. ASSUME NEW id \in ConfigIds
      PROVE  /\ m[id] \in Config \cup {None}
             /\ IF HasConfig(s, id)
                THEN /\ m[id] # None /\ m[id].role = s.config_map[id].role
                     /\ m[id].procedure = s.config_map[id].procedure
                ELSE m[id] = None
  BY <1>2, ChannelsConfig DEF HasConfig
<1>4. m \in [ConfigIds -> Config \cup {None}]
  BY <1>3
<1> HIDE DEF m
<1>5. /\ u.channel_sounding_host_support_ = s.channel_sounding_host_support_
      /\ u.remote_fae_table = s.remote_fae_table /\ u.iv = s.iv
      /\ u.security_enabled = s.security_enabled
      /\ u.started = s.started /\ u.failed = s.failed
      /\ u.config_map = m /\ u.awaiting = s.awaiting /\ u.tasks = s.tasks
  BY DEF IsEnd, Fields
<1> HIDE DEF u
<1> QED
  BY <1>1, <1>3, <1>4, <1>5, ZenonT(60) DEF Steps, HasConfig

\* Security comes with an initialization vector,
LEMMA SecurityReqSteps ==
  ASSUME NEW s, NEW p, IsEnd(p), Both(s, p), NEW t, Arrives(s, p, t), t.type = "LL_CS_SEC_REQ"
  PROVE  Steps(p, s, IncomingLlCsSecurityReq(p))
  BY QueueAppend, OneAppendOther
  DEF IncomingLlCsSecurityReq, CsPacket, Later, Task, Both, Sounds, SoundingTypes, Steps, Arrives,
      HasConfig, IsConfigPacket, IsEnd, Fields

\* at both ends.
LEMMA SecurityRspSteps ==
  ASSUME NEW s, NEW p, IsEnd(p), Both(s, p), NEW t, Arrives(s, p, t), t.type = "LL_CS_SEC_RSP"
  PROVE  Steps(p, s, IncomingLlCsSecurityRsp(p, t.ok))
  BY ZenonT(60) DEF IncomingLlCsSecurityRsp, Tell, Both, Sounds, SoundingTypes, Steps, Arrives,
      HasConfig, IsEnd, Fields

\* Reporting a procedure as started adds it to what the host knows.
LEMMA ReportStartSteps ==
  ASSUME NEW s, NEW p, IsEnd(s), Both(s, p), NEW id, Ready(s, p, id)
  PROVE  Steps(s, p, ReportStart(s, id))
<1> DEFINE u == ReportStart(s, id)
           f == s.failed \/ ~s.config_map[id].procedure
<1>1. u = [Tell(s, "START", id) EXCEPT !.started = @ \cup {id}, !.failed = f]
  BY DEF ReportStart, Ready, ReadyEnd, Tell, IsEnd, Fields
<1>2. f => s.failed
  BY DEF Ready, ReadyEnd
<1> HIDE DEF f
<1>3. /\ u.channel_sounding_host_support_ = s.channel_sounding_host_support_
      /\ u.remote_fae_table = s.remote_fae_table /\ u.iv = s.iv
      /\ u.security_enabled = s.security_enabled
      /\ u.started = s.started \cup {id} /\ u.failed = f /\ u.config_map = s.config_map
      /\ u.awaiting \subseteq s.awaiting /\ u.tasks = s.tasks
  BY <1>1 DEF Tell, IsEnd, Fields
<1>4. s.config_map \in [ConfigIds -> Config \cup {None}]
  BY DEF Both, Sounds, SoundingTypes
<1> HIDE DEF u
<1> QED
  BY <1>2, <1>3, <1>4, ZenonT(60) DEF Steps, HasConfig, u

\* Sending the next packet of a start when both ends are ready.
LEMMA StartPacketSteps ==
  ASSUME NEW s, NEW p, IsEnd(s), Both(s, p), NEW id, Ready(s, p, id),
         NEW type \in {"LL_CS_REQ", "LL_CS_RSP", "LL_CS_IND"}, NEW ok
  PROVE  LET u == CsPacket(s, type, ok, id, None) IN
         Steps(s, p, u) /\ Both(u, p) /\ Ready(u, p, id) /\ IsEnd(u)
<1> DEFINE u == CsPacket(s, type, ok, id, None)
<1>1. Steps(s, p, u) /\ IsEnd(u)
  BY QueueAppend, OneAppendOther
  DEF CsPacket, Task, Both, Sounds, SoundingTypes, Steps, HasConfig, IsConfigPacket, IsEnd, Fields, IsTask,
      Packets, Numbered
<1> HIDE DEF u
<1>2. Both(u, p)
  BY <1>1, StepsKeep
<1>3. Ready(u, p, id)
  BY <1>1, ZenonT(60) DEF Steps, Ready, ReadyEnd
<1> QED
  BY <1>1, <1>2, <1>3 DEF u

\* Indicating the start and reporting it.
LEMMA IndicatesKeeps ==
  ASSUME NEW s, NEW p, IsEnd(s), Both(s, p), NEW id, Ready(s, p, id)
  PROVE  Both(ReportStart(CsPacket(s, "LL_CS_IND", TRUE, id, None), id), p)
<1> DEFINE u == CsPacket(s, "LL_CS_IND", TRUE, id, None)
<1>1. Both(u, p) /\ Ready(u, p, id) /\ IsEnd(u)
  BY StartPacketSteps, ZenonT(60)
<1> HIDE DEF u
<1>2. Both(ReportStart(u, id), p)
  BY <1>1, ReportStartSteps, StepsKeep
<1> QED
  BY <1>2, ZenonT(60) DEF u

\* A start is accepted, for both ends are ready,
LEMMA CsReqKeeps ==
  ASSUME NEW s, NEW p, IsEnd(p), Both(s, p), NEW t, Arrives(s, p, t), t.type = "LL_CS_REQ"
  PROVE  Both(IncomingLlCsReq(p, t.id), s)
<1>1. Ready(p, s, t.id) /\ Both(p, s)
  BY DEF Arrives, Ready, Both
<1>2. /\ p.channel_sounding_host_support_ /\ HasConfig(p, t.id) /\ p.iv /\ p.remote_fae_table
  BY <1>1, ZenonT(60) DEF Ready, ReadyEnd, Both, Sounds, Secured
<1>3. IncomingLlCsReq(p, t.id) = IF p.role = "PERIPHERAL" THEN CsPacket(p, "LL_CS_RSP", TRUE, t.id, None)
                                 ELSE ReportStart(CsPacket(p, "LL_CS_IND", TRUE, t.id, None), t.id)
  BY <1>2 DEF IncomingLlCsReq
<1>4. Both(CsPacket(p, "LL_CS_RSP", TRUE, t.id, None), s)
  BY <1>1, StartPacketSteps, ZenonT(60)
<1>5. Both(ReportStart(CsPacket(p, "LL_CS_IND", TRUE, t.id, None), t.id), s)
  BY <1>1, IndicatesKeeps, ZenonT(60)
<1> QED
  BY <1>3, <1>4, <1>5, ZenonT(60)

\* indicated
LEMMA CsRspKeeps ==
  ASSUME NEW s, NEW p, IsEnd(p), Both(s, p), NEW t, Arrives(s, p, t), t.type = "LL_CS_RSP"
  PROVE  Both(IncomingLlCsRsp(p, t.ok, t.id), s)
<1>1. Ready(p, s, t.id) /\ Both(p, s)
  BY DEF Arrives, Ready, Both
<1>2. \/ IncomingLlCsRsp(p, t.ok, t.id) = ReportStart(CsPacket(p, "LL_CS_IND", TRUE, t.id, None), t.id)
      \/ IncomingLlCsRsp(p, t.ok, t.id) = p
  BY ZenonT(60) DEF IncomingLlCsRsp
<1>3. Both(ReportStart(CsPacket(p, "LL_CS_IND", TRUE, t.id, None), t.id), s)
  BY <1>1, IndicatesKeeps, ZenonT(60)
<1> QED
  BY <1>1, <1>2, <1>3, ZenonT(60)

\* and reported.
LEMMA CsIndKeeps ==
  ASSUME NEW s, NEW p, IsEnd(p), Both(s, p), NEW t, Arrives(s, p, t), t.type = "LL_CS_IND"
  PROVE  Both(IncomingLlCsInd(p, t.id), s)
<1>1. Ready(p, s, t.id) /\ Both(p, s)
  BY DEF Arrives, Ready, Both
<1> QED
  BY <1>1, ReportStartSteps, StepsKeep DEF IncomingLlCsInd

\* Packets of the other procedures leave channel sounding alone.
LEMMA IncomingPlain ==
  ASSUME NEW s, IsEnd(s), NEW t, t.type \in Packets \ Sounding
  PROVE  Plain(s, IncomingPacket(s, t))
  BY PhyReqPlain, PhyRspPlain, PhyIndPlain, ParameterRequestPlain,
     ParameterUpdatePlain, SubrateReqPlain, SubrateIndPlain, EncryptPlain,
     EncryptedPlain, FeaturesPlain, FeaturesRspPlain, VersionPlain,
     VersionRspPlain, AclPlain, CapabilitiesReqPlain, CapabilitiesRspPlain,
     FaeReqPlain, FaeRspPlain, TerminateReqPlain, TerminateRspPlain, ZenonT(60)
  DEF IncomingPacket, Packets, Sounding

\* Whatever packet arrives, the two ends still agree.
LEMMA IncomingKeeps ==
  ASSUME NEW s, NEW p, IsEnd(p), Both(s, p), NEW t, t.type \in Packets, Arrives(s, p, t)
  PROVE  Both(s, IncomingPacket(p, t))
<1>0. Both(p, s)
  BY DEF Both
<1>1. CASE t.type \notin Sounding
  BY <1>0, <1>1, IncomingPlain, PlainSteps, StepsKeep
<1>2. CASE t.type = "LL_CS_CONFIG_REQ"
  BY <1>2, ConfigReqKeeps DEF IncomingPacket
<1>3. CASE t.type = "LL_CS_CONFIG_RSP"
  BY <1>3, ConfigRspKeeps DEF IncomingPacket
<1>4. CASE t.type = "LL_CS_CHANNEL_MAP_IND"
  <2>1. t.v \in ChannelChoices
    BY <1>4 DEF Arrives
  <2>2. IncomingPacket(p, t) = IncomingLlCsChannelMapInd(p, t.v)
    BY <1>4 DEF IncomingPacket
  <2> QED
    BY <1>0, <2>1, <2>2, WithChannelsSteps, StepsKeep, SMTT(30) DEF IncomingLlCsChannelMapInd
<1>5. CASE t.type = "LL_CS_SEC_REQ"
  <2>1. IncomingPacket(p, t) = IncomingLlCsSecurityReq(p)
    BY <1>5 DEF IncomingPacket
  <2> QED
    BY <1>0, <1>5, <2>1, SecurityReqSteps, StepsKeep
<1>6. CASE t.type = "LL_CS_SEC_RSP"
  <2>1. IncomingPacket(p, t) = IncomingLlCsSecurityRsp(p, t.ok)
    BY <1>6 DEF IncomingPacket
  <2> QED
    BY <1>0, <1>6, <2>1, SecurityRspSteps, StepsKeep
<1>7. CASE t.type = "LL_CS_REQ"
  <2>1. IncomingPacket(p, t) = IncomingLlCsReq(p, t.id)
    BY <1>7 DEF IncomingPacket
  <2> QED
    BY <1>7, <2>1, CsReqKeeps DEF Both
<1>8. CASE t.type = "LL_CS_RSP"
  <2>1. IncomingPacket(p, t) = IncomingLlCsRsp(p, t.ok, t.id)
    BY <1>8 DEF IncomingPacket
  <2> QED
    BY <1>8, <2>1, CsRspKeeps DEF Both
<1>9. CASE t.type = "LL_CS_IND"
  <2>1. IncomingPacket(p, t) = IncomingLlCsInd(p, t.id)
    BY <1>9 DEF IncomingPacket
  <2> QED
    BY <1>9, <2>1, CsIndKeeps DEF Both
<1> QED
  BY <1>1, <1>2, <1>3, <1>4, <1>5, <1>6, <1>7, <1>8, <1>9 DEF Sounding

\* A step that adds nothing to channel sounding keeps the agreement.
LEMMA PlainKeeps ==
  ASSUME NEW s, NEW p, NEW u, Both(s, p), Plain(s, u)
  PROVE  Both(u, p)
  BY PlainSteps, StepsKeep

\* LE CS Security Enable makes the initialization vector before it asks.
LEMMA SecurityKeeps ==
  ASSUME NEW s, NEW p, IsEnd(s), Both(s, p), MaySecure(s)
  PROVE  Both(LeCsSecurityEnable(s), p)
<1> DEFINE u == LeCsSecurityEnable(s)
           f == TRUE
           x == Task("LL_CS_SEC_REQ", TRUE, 0, None)
<1>1. f /\ x.type = "LL_CS_SEC_REQ"
  BY DEF Task
<1>e. u = Await([[s EXCEPT !.iv = f] EXCEPT !.tasks = Append(@, x)], "SECURITY", 0)
  BY DEF LeCsSecurityEnable, CsPacket
<1> HIDE DEF f, x
<1>2. /\ u.channel_sounding_host_support_ = s.channel_sounding_host_support_
      /\ u.remote_fae_table = s.remote_fae_table /\ u.iv = f
      /\ u.security_enabled = s.security_enabled
      /\ u.started = s.started /\ u.failed = s.failed /\ u.config_map = s.config_map
      /\ u.awaiting = s.awaiting \cup {<<"SECURITY", 0>>} /\ u.tasks = Append(s.tasks, x)
  BY <1>e DEF Await, IsEnd, Fields
<1> HIDE DEF u
<1>3. /\ Elems(u.tasks) = Elems(s.tasks) \cup {x}
      /\ \A id : OneConfigPacket(s.tasks, id) => OneConfigPacket(u.tasks, id)
  BY <1>1, <1>2, QueueAppend, OneAppendOther, SMTT(30) DEF IsEnd, IsConfigPacket
<1>4. s.config_map \in [ConfigIds -> Config \cup {None}] /\ s.channel_sounding_host_support_
  BY DEF Both, Sounds, SoundingTypes, MaySecure
<1>5. u.iv /\ \A w \in u.awaiting : w[1] = "START" => w \in s.awaiting
  BY <1>1, <1>2, SMTT(30)
<1>6. Steps(s, p, u)
  BY <1>1, <1>2, <1>3, <1>4, <1>5 DEF Steps, HasConfig
<1> QED
  BY <1>6, StepsKeep DEF u

\* LE CS Set Channel Classification keeps the configurations.
LEMMA ClassifyKeeps ==
  ASSUME NEW s, NEW p, IsEnd(s), Both(s, p), NEW n \in ChannelChoices
  PROVE  Both(LeCsSetChannelClassification(s, n), p)
<1> DEFINE u == CsPacket(s, "LL_CS_CHANNEL_MAP_IND", TRUE, 0, n)
<1>1. Steps(s, p, u) /\ IsEnd(u)
  BY QueueAppend, OneAppendOther
  DEF CsPacket, Task, Both, Sounds, SoundingTypes, Steps, HasConfig, IsConfigPacket, IsEnd, Fields,
      IsTask, Packets, Numbered
<1>2. LeCsSetChannelClassification(s, n) = WithChannels(u, ConfigIds, n)
  BY DEF LeCsSetChannelClassification
<1> HIDE DEF u
<1> QED
  BY <1>1, <1>2, StepsKeep, WithChannelsSteps

\* Setting a flag of a configuration that is there.
LEMMA FlagSteps ==
  ASSUME NEW s, NEW p, IsEnd(s), Both(s, p), NEW id \in ConfigIds, HasConfig(s, id)
  PROVE  /\ Steps(s, p, [s EXCEPT !.config_map[id].procedure = TRUE])
         /\ Steps(s, p, [s EXCEPT !.config_map[id].enabled = TRUE])
         /\ IsEnd([s EXCEPT !.config_map[id].enabled = TRUE])
<1> DEFINE f == TRUE
           a == [s.config_map[id] EXCEPT !.procedure = f]
           b == [s.config_map[id] EXCEPT !.enabled = f]
           m(x) == [s.config_map EXCEPT ![id] = x]
           u(x) == [s EXCEPT !.config_map = m(x)]
<1>0. f /\ f \in BOOLEAN
  OBVIOUS
<1>1. /\ [s EXCEPT !.config_map[id].procedure = TRUE] = u(a)
      /\ [s EXCEPT !.config_map[id].enabled = TRUE] = u(b)
  OBVIOUS
<1> HIDE DEF f
<1>2. s.config_map \in [ConfigIds -> Config \cup {None}] /\ s.config_map[id] \in Config
  BY DEF Both, Sounds, SoundingTypes, HasConfig
<1>3. /\ a \in Config /\ a.role = s.config_map[id].role /\ a.procedure
      /\ b \in Config /\ b.role = s.config_map[id].role /\ b.procedure = s.config_map[id].procedure
  BY <1>0, <1>2, ZenonT(60) DEF Config
<1> HIDE DEF a, b
<1>4. ASSUME NEW x \in Config, x.role = s.config_map[id].role,
             s.config_map[id].procedure => x.procedure
      PROVE  Steps(s, p, u(x)) /\ IsEnd(u(x))
  <2>1. x # None
    BY NoneAssumption
  <2>2. m(x) \in [ConfigIds -> Config \cup {None}]
    BY <1>2
  <2>3. \A i \in ConfigIds : m(x)[i] = IF i = id THEN x ELSE s.config_map[i]
    BY <1>2
  <2> DEFINE v == u(x)
  <2>4. /\ v.channel_sounding_host_support_ = s.channel_sounding_host_support_
        /\ v.remote_fae_table = s.remote_fae_table /\ v.iv = s.iv
        /\ v.security_enabled = s.security_enabled
        /\ v.started = s.started /\ v.failed = s.failed
        /\ v.config_map = m(x) /\ v.awaiting = s.awaiting /\ v.tasks = s.tasks
        /\ v.role = s.role /\ DOMAIN v = DOMAIN s
    BY DEF IsEnd, Fields
  <2> HIDE DEF m, u, v
  <2>5. Steps(s, p, v)
    BY <1>4, <2>1, <2>2, <2>3, <2>4, ZenonT(60) DEF Steps, HasConfig
  <2>6. IsEnd(v)
    BY <2>4 DEF IsEnd
  <2> QED
    BY <2>5, <2>6 DEF v
<1> QED
  BY <1>1, <1>3, <1>4

\* LE CS Procedure Enable asks for a start that both ends are ready for.
LEMMA EnableKeeps ==
  ASSUME NEW s, NEW p, IsEnd(s), Both(s, p), NEW id, Ready(s, p, id)
  PROVE  Both(LeCsProcedureEnable(s, id, TRUE), p)
<1> DEFINE a == [s EXCEPT !.config_map[id].enabled = TRUE]
           b == CsPacket(a, "LL_CS_REQ", TRUE, id, None)
<1>0. id \in ConfigIds /\ HasConfig(s, id)
  BY DEF Ready, ReadyEnd
<1>1. Both(a, p) /\ IsEnd(a) /\ Steps(s, p, a)
  BY <1>0, FlagSteps, StepsKeep, ZenonT(60)
<1>2. LeCsProcedureEnable(s, id, TRUE) = Await(b, "START", id)
  BY DEF LeCsProcedureEnable
<1> HIDE DEF a
<1>3. Ready(a, p, id)
  BY <1>1, ZenonT(60) DEF Steps, Ready, ReadyEnd
<1>4. Both(b, p) /\ Ready(b, p, id) /\ IsEnd(b)
  BY <1>1, <1>3, StartPacketSteps, ZenonT(60)
<1> HIDE DEF b
<1>5. Steps(b, p, Await(b, "START", id))
  BY <1>4 DEF Steps, Await, Both, Sounds, SoundingTypes, HasConfig, IsEnd, Fields
<1> QED
  BY <1>2, <1>4, <1>5, StepsKeep, ZenonT(60)

\* LE CS Create Config makes a configuration that neither end has.
LEMMA CreateKeeps ==
  ASSUME NEW s, NEW p, IsEnd(s), Both(s, p), NEW id \in ConfigIds, ~HasConfig(s, id), ~HasConfig(p, id),
         NEW role \in CsRole, NEW q \in ConfigParams, NEW both \in BOOLEAN
  PROVE  Both(LeCsCreateConfig(s, id, role, q, both), p)
<1> DEFINE n == NewConfig(role, q)
           u == LeCsCreateConfig(s, id, role, q, both)
           v == [action |-> "CREATE", role |-> role, params |-> q]
           x == IF both THEN Task("LL_CS_CONFIG_REQ", TRUE, id, v) ELSE Task("EVENT", TRUE, id, "CONFIG")
<1>1. u = Await([[s EXCEPT !.config_map[id] = n] EXCEPT !.tasks = Append(@, x)], "CONFIG", id)
  BY ZenonT(60) DEF LeCsCreateConfig, CsPacket, Later
<1>2. /\ x.id = id /\ x.type \in {"LL_CS_CONFIG_REQ", "EVENT"}
      /\ x.type = "LL_CS_CONFIG_REQ" =>
           x.v.action = "CREATE" /\ x.v.role = role /\ x.v.params = q
  BY DEF Task
<1>3. n \in Config /\ n # None /\ n.role = role
  BY NewConfigIsConfig
<1> HIDE DEF x, n
<1>4. /\ u.channel_sounding_host_support_ = s.channel_sounding_host_support_
      /\ u.remote_fae_table = s.remote_fae_table /\ u.iv = s.iv
      /\ u.security_enabled = s.security_enabled
      /\ u.started = s.started /\ u.failed = s.failed
      /\ u.config_map = [s.config_map EXCEPT ![id] = n]
      /\ u.awaiting = s.awaiting \cup {<<"CONFIG", id>>} /\ u.tasks = Append(s.tasks, x)
  BY <1>1 DEF Await, IsEnd, Fields
<1>5. Elems(u.tasks) = Elems(s.tasks) \cup {x}
  BY <1>4, QueueAppend, SMTT(30) DEF IsEnd
<1>6. s.config_map \in [ConfigIds -> Config \cup {None}]
  BY DEF Both, Sounds, SoundingTypes
<1>7. /\ u.config_map \in [ConfigIds -> Config \cup {None}]
      /\ \A i \in ConfigIds : u.config_map[i] = IF i = id THEN n ELSE s.config_map[i]
  BY <1>3, <1>4, <1>6, ZenonT(60)
<1> HIDE DEF u
<1>8. ASSUME s.channel_sounding_host_support_, p.channel_sounding_host_support_
      PROVE  /\ NoConfigPacket(s.tasks, id) /\ NoConfigPacket(p.tasks, id)
             /\ \A i \in ConfigIds : OneConfigPacket(u.tasks, i)
  <2>1. NoConfigPacket(s.tasks, id) /\ NoConfigPacket(p.tasks, id)
    BY <1>8, ZenonT(60) DEF Both, Sounds, Configured, NoConfigPacket, IsConfigPacket
  <2>2. \A i \in ConfigIds : OneConfigPacket(s.tasks, i)
    BY <1>8, ZenonT(60) DEF Both, Sounds, Configured
  <2>3. OneConfigPacket(u.tasks, id)
    BY <1>4, <2>1, OneAppendFirst DEF IsEnd
  <2>4. \A i \in ConfigIds \ {id} : OneConfigPacket(u.tasks, i)
    BY <1>2, <1>4, <2>2, OneAppendOther, ZenonT(60) DEF IsEnd, IsConfigPacket
  <2> QED
    BY <2>1, <2>3, <2>4
<1>9. SoundingTypes(u) /\ Secured(u, p) /\ Secured(p, u)
  BY <1>2, <1>4, <1>5, <1>7 DEF Both, Sounds, SoundingTypes, Secured
<1>10. Started(u, p) /\ Started(p, u)
  <2>1. \A i : Ready(s, p, i) => Ready(u, p, i)
    BY <1>4, <1>7 DEF Ready, ReadyEnd, HasConfig
  <2>2. \A i, x1, x2 : Ready(x1, x2, i) => Ready(x2, x1, i)
    BY DEF Ready
  <2>3. \A w \in u.awaiting : w[1] = "START" => w \in s.awaiting
    BY <1>4
  <2>4. \A y \in Elems(u.tasks) : y.type \in {"LL_CS_REQ", "LL_CS_RSP", "LL_CS_IND"} => y \in Elems(s.tasks)
    BY <1>2, <1>5
  <2>5. Started(u, p)
    BY <1>4, <2>1, <2>3, <2>4, ZenonT(60) DEF Both, Sounds, Started
  <2>6. Started(p, u)
    BY <2>1, <2>2, ZenonT(60) DEF Both, Sounds, Started
  <2> QED
    BY <2>5, <2>6, ZenonT(60)
<1>c. Configured(s, p) /\ Configured(p, s)
  BY ZenonT(60) DEF Both, Sounds
<1>11. Configured(u, p)
  BY <1>2, <1>3, <1>4, <1>5, <1>7, <1>8, <1>c, SMTT(60)
  DEF Configured, HasConfig, IsConfigPacket, NoConfigPacket
<1>12. Configured(p, u)
  BY <1>2, <1>3, <1>4, <1>5, <1>7, <1>8, <1>c, SMTT(60)
  DEF Configured, HasConfig, IsConfigPacket, NoConfigPacket
<1> QED
  BY <1>9, <1>10, <1>11, <1>12 DEF Both, Sounds, u

\* A command of the host of c after which the two ends still agree.
Agrees(c) == \E u : ctl' = [ctl EXCEPT ![c] = u] /\ Both(u, ctl[Peer(c)])

\* The actions of hosts that coordinate keep the agreement: PHYs,
LEMMA SetPhyAgrees ==
  ASSUME Ends, NEW c \in Ctrl, Both(ctl[c], ctl[Peer(c)]), SetPhy(c)
  PROVE  Agrees(c)
  BY SetPhyPlainly, SetDefaultPhyPlainly, PlainKeeps, ZenonT(60) DEF SetPhy, Becomes, Agrees, Ends

\* connection updates,
LEMMA UpdateAgrees ==
  ASSUME Ends, NEW c \in Ctrl, Both(ctl[c], ctl[Peer(c)]), UpdateParameters(c)
  PROVE  Agrees(c)
  BY ConnectionUpdatePlainly, ParameterReplyPlainly, ParameterNegativeReplyPlainly, PlainKeeps
  DEF UpdateParameters, Becomes, Agrees, Ends

\* subrates,
LEMMA SubrateAgrees ==
  ASSUME Ends, NEW c \in Ctrl, Both(ctl[c], ctl[Peer(c)]), Subrate(c)
  PROVE  Agrees(c)
  BY SubrateRequestPlainly, PlainKeeps, ZenonT(60) DEF Subrate, Becomes, Agrees, Ends

\* encryption,
LEMMA EncryptionAgrees ==
  ASSUME Ends, NEW c \in Ctrl, Both(ctl[c], ctl[Peer(c)]), Encryption(c)
  PROVE  Agrees(c)
  BY EnableEncryptionPlainly, KeyReplyPlainly, KeyNegativeReplyPlainly, PlainKeeps
  DEF Encryption, Becomes, Agrees, Ends

\* remote information and data,
LEMMA ExchangeAgrees ==
  ASSUME Ends, NEW c \in Ctrl, Both(ctl[c], ctl[Peer(c)]), Exchange(c)
  PROVE  Agrees(c)
<1>0. IsEnd(ctl[c])
  BY DEF Ends
<1>1. CASE Becomes(c, LeReadRemoteFeaturesPage0(ctl[c]))
  BY <1>0, <1>1, ReadFeaturesPlainly, PlainKeeps, ZenonT(60) DEF Becomes, Agrees
<1>2. CASE Becomes(c, ReadRemoteVersionInformation(ctl[c]))
  BY <1>0, <1>2, ReadVersionPlainly, PlainKeeps, ZenonT(60) DEF Becomes, Agrees
<1>3. CASE Becomes(c, LeReadRemoteTransmitPowerLevel(ctl[c]))
  BY <1>0, <1>3, ReadPowerPlainly, PlainKeeps, ZenonT(60) DEF Becomes, Agrees
<1>4. CASE Becomes(c, [HandleAcl(ctl[c]) EXCEPT !.sent = @ + 1])
  <2>1. Plain(ctl[c], [HandleAcl(ctl[c]) EXCEPT !.sent = @ + 1])
    BY <1>0, SendDataPlainly
  <2> QED
    BY <1>4, <2>1, PlainKeeps, ZenonT(60) DEF Becomes, Agrees
<1> QED
  BY <1>1, <1>2, <1>3, <1>4 DEF Exchange

\* CS capabilities, FAE table and security,
LEMMA CapableAgrees ==
  ASSUME Ends, NEW c \in Ctrl, Both(ctl[c], ctl[Peer(c)]), Capable(c)
  PROVE  Agrees(c)
  BY ZenonT(60), ReadCapabilitiesPlainly, WriteCapabilitiesPlainly, WriteFaePlainly, ReadFaePlainly, PlainKeeps,
     SecurityKeeps
  DEF Capable, Becomes, Agrees, Ends

\* CS configurations, which they do not remove,
LEMMA ConfigureAgrees ==
  ASSUME Ends, usage \in Usages, Coordinating, NEW c \in Ctrl, Both(ctl[c], ctl[Peer(c)]), Configure(c)
  PROVE  Agrees(c)
<1>0. IsEnd(ctl[c]) /\ usage.ids \subseteq ConfigIds /\ Peer(c) \in Ctrl
  BY UsagesAssumption, Peers DEF Ends, Usage, Ctrl, CentralOrPeripheral
<1>1. ASSUME NEW roles, Becomes(c, LeCsSetDefaultSettings(ctl[c], roles))
      PROVE  Agrees(c)
  BY <1>0, <1>1, DefaultsPlainly, PlainKeeps, ZenonT(60) DEF Becomes, Agrees
<1>2. ASSUME NEW id \in usage.ids, NEW role \in CsRole, NEW p \in ConfigChoices, NEW both \in BOOLEAN,
             Coordinated("CONFIG", id), Becomes(c, LeCsCreateConfig(ctl[c], id, role, p, both))
      PROVE  Agrees(c)
  <2>1. ~HasConfig(ctl[c], id) /\ ~HasConfig(ctl[Peer(c)], id)
    BY <1>0, <1>2, ZenonT(60) DEF Coordinated, Coordinating, Everywhere
  <2>2. p \in ConfigParams
    BY DEF ConfigParams
  <2> QED
    BY <1>0, <1>2, <2>1, <2>2, CreateKeeps, ZenonT(60) DEF Becomes, Agrees
<1>3. ~May(c, "REMOVE")
  BY DEF May, Coordinating
<1> QED
  BY <1>1, <1>2, <1>3, ZenonT(60) DEF Configure

\* CS channels
LEMMA ClassifyAgrees ==
  ASSUME Ends, NEW c \in Ctrl, Both(ctl[c], ctl[Peer(c)]), Classify(c)
  PROVE  Agrees(c)
  BY ClassifyKeeps, ZenonT(60) DEF Classify, Becomes, Agrees, Ends

\* and CS procedures.
LEMMA ProcedureAgrees ==
  ASSUME Ends, usage \in Usages, Coordinating, NEW c \in Ctrl, Both(ctl[c], ctl[Peer(c)]), Procedure(c)
  PROVE  Agrees(c)
<1>0. IsEnd(ctl[c]) /\ usage.ids \subseteq ConfigIds /\ Peer(c) \in Ctrl
  BY UsagesAssumption, Peers DEF Ends, Usage, Ctrl, CentralOrPeripheral
<1>1. ASSUME NEW id \in usage.ids, Coordinated("PROCEDURE", id),
             Becomes(c, LeCsSetProcedureParameters(ctl[c], id))
      PROVE  Agrees(c)
  <2>1. HasConfig(ctl[c], id)
    BY <1>1 DEF Coordinated, Coordinating, Everywhere
  <2> QED
    BY <1>0, <1>1, <2>1, FlagSteps, StepsKeep, ZenonT(60) DEF LeCsSetProcedureParameters, Becomes, Agrees
<1>2. ASSUME NEW id \in usage.ids, Coordinated("START", id),
             Becomes(c, LeCsProcedureEnable(ctl[c], id, TRUE))
      PROVE  Agrees(c)
  <2>1. Ready(ctl[c], ctl[Peer(c)], id)
    BY <1>0, <1>2, ZenonT(60) DEF Coordinated, Coordinating, Everywhere, Ready, ReadyEnd
  <2> QED
    BY <1>0, <1>2, <2>1, EnableKeeps, ZenonT(60) DEF Becomes, Agrees
<1>3. ASSUME NEW id, Becomes(c, LeCsProcedureEnable(ctl[c], id, FALSE))
      PROVE  Agrees(c)
  BY <1>0, <1>3, StopPlainly, PlainKeeps, ZenonT(60) DEF Becomes, Agrees
<1>4. PICK id \in usage.ids :
        \/ /\ Coordinated("PROCEDURE", id)
           /\ Becomes(c, LeCsSetProcedureParameters(ctl[c], id))
        \/ \E enable \in BOOLEAN :
             /\ Coordinated(IF enable THEN "START" ELSE "STOP", id)
             /\ Becomes(c, LeCsProcedureEnable(ctl[c], id, enable))
  BY ZenonT(60) DEF Procedure
<1>5. CASE Coordinated("PROCEDURE", id) /\ Becomes(c, LeCsSetProcedureParameters(ctl[c], id))
  BY <1>1, <1>5
<1>6. CASE \E enable \in BOOLEAN :
             /\ Coordinated(IF enable THEN "START" ELSE "STOP", id)
             /\ Becomes(c, LeCsProcedureEnable(ctl[c], id, enable))
  <2>1. \/ Coordinated("START", id) /\ Becomes(c, LeCsProcedureEnable(ctl[c], id, TRUE))
        \/ Becomes(c, LeCsProcedureEnable(ctl[c], id, FALSE))
    BY <1>6, ZenonT(60)
  <2> QED
    BY <1>2, <1>3, <2>1, ZenonT(60)
<1> QED
  BY <1>4, <1>5, <1>6, ZenonT(60)

\* A command after which one end agrees with the other keeps the invariant.
LEMMA AgreesKeeps ==
  ASSUME Ends, SoundingInv, NEW c \in Ctrl, UNCHANGED usage, Coordinating => Agrees(c)
  PROVE  SoundingInv'
<1> SUFFICES ASSUME Coordinating'
             PROVE  \A d \in Ctrl : Sounds(ctl'[d], ctl'[Peer(d)])
  BY DEF SoundingInv
<1>1. Coordinating
  BY DEF Coordinating
<1>2. PICK u : ctl' = [ctl EXCEPT ![c] = u] /\ Both(u, ctl[Peer(c)])
  BY <1>1 DEF Agrees
<1>3. Peer(c) \in Ctrl /\ Peer(c) # c /\ Peer(Peer(c)) = c /\ \A d \in Ctrl : d = c \/ d = Peer(c)
  BY Peers DEF Ctrl, CentralOrPeripheral
<1>4. ctl'[c] = u /\ ctl'[Peer(c)] = ctl[Peer(c)]
  BY <1>2, <1>3 DEF Ends
<1> QED
  BY <1>2, <1>3, <1>4 DEF Both

\* The first task of a Tick.
LEMMA RunTaskAgrees ==
  ASSUME Ends, SoundingInv, NEW c \in Ctrl, RunTask(c), UNCHANGED usage
  PROVE  SoundingInv'
<1> SUFFICES ASSUME Coordinating'
             PROVE  \A d \in Ctrl : Sounds(ctl'[d], ctl'[Peer(d)])
  BY DEF SoundingInv
<1> DEFINE t == Head(ctl[c].tasks)
           r == [ctl[c] EXCEPT !.tasks = Tail(@)]
           p == Peer(c)
<1>1. Coordinating
  BY DEF Coordinating
<1>2. p \in Ctrl /\ p # c /\ Peer(p) = c /\ \A d \in Ctrl : d = c \/ d = p
  BY Peers DEF Ctrl, CentralOrPeripheral
<1>3. Both(ctl[c], ctl[p]) /\ IsEnd(ctl[c]) /\ IsEnd(ctl[p])
  BY <1>1, <1>2 DEF SoundingInv, Both, Ends
<1>4. ctl[c].tasks # <<>>
  <2>1. due \in 1..Len(ctl[c].tasks)
    BY NoneAssumption DEF Ends, RunTask
  <2> QED
    BY <2>1
<1>5. Both(r, ctl[p]) /\ Arrives(r, ctl[p], t)
  BY <1>3, <1>4, PopKeeps
<1>6. IsTask(t) /\ IsEnd(r)
  BY <1>3, <1>4, QueueTail, SMTT(30) DEF IsEnd, Fields
<1>7. \/ t.type = "EVENT" /\ ctl' = [ctl EXCEPT ![c] = Tell(r, t.v, t.id)]
      \/ /\ t.type = "ENABLE_ENCRYPTION"
         /\ ctl' = [ctl EXCEPT ![c] = HandleLeEnableEncryption(r, t.v)]
      \/ /\ t.type \notin {"EVENT", "ENABLE_ENCRYPTION"}
         /\ ctl' = [ctl EXCEPT ![c] = r, ![p] = IncomingPacket(@, t)]
  BY DEF RunTask
<1> HIDE DEF t, r, p
<1>8. Both(ctl'[c], ctl'[p])
  <2>1. CASE t.type = "EVENT"
    <3>1. Plain(r, Tell(r, t.v, t.id))
      BY <1>6 DEF Plain, Tell, IsEnd, Fields
    <3>2. ctl'[c] = Tell(r, t.v, t.id) /\ ctl'[p] = ctl[p]
      BY <1>2, <1>7, <2>1 DEF Ends
    <3> QED
      BY <1>5, <3>1, <3>2, PlainKeeps
  <2>2. CASE t.type = "ENABLE_ENCRYPTION"
    <3>1. Plain(r, HandleLeEnableEncryption(r, t.v))
      BY <1>6, QueueAppend, OneAppendOther, SMTT(30)
      DEF Plain, HandleLeEnableEncryption, Send, Task, IsEnd, Fields, Sounding, IsConfigPacket
    <3>2. ctl'[c] = HandleLeEnableEncryption(r, t.v) /\ ctl'[p] = ctl[p]
      BY <1>2, <1>7, <2>2, SMTT(30) DEF Ends
    <3> QED
      BY <1>5, <3>1, <3>2, PlainKeeps
  <2>3. CASE t.type \in Packets
    <3>1. t.type \notin {"EVENT", "ENABLE_ENCRYPTION"}
      BY <2>3 DEF Packets
    <3>2. ctl'[c] = r /\ ctl'[p] = IncomingPacket(ctl[p], t)
      BY <1>2, <1>7, <3>1 DEF Ends
    <3> QED
      BY <1>3, <1>5, <2>3, <3>2, IncomingKeeps
  <2> QED
    BY <1>6, <2>1, <2>2, <2>3, SMTT(30) DEF IsTask
<1> QED
  BY <1>2, <1>8 DEF Both, p

\* Every step keeps the agreement on channel sounding.
LEMMA NextAgrees ==
  ASSUME Ends, usage \in Usages, SoundingInv, [Next]_vars
  PROVE  SoundingInv'
<1>1. CASE UNCHANGED vars
  BY <1>1 DEF vars, SoundingInv, Coordinating
<1>2. CASE Next
  <2>1. UNCHANGED usage
    BY <1>2 DEF Next
  <2>2. PICK c \in Ctrl :
          \/ SetPhy(c) \/ UpdateParameters(c) \/ Subrate(c) \/ Encryption(c) \/ Exchange(c)
          \/ Capable(c) \/ Configure(c) \/ Classify(c) \/ Procedure(c)
          \/ StartTick(c) \/ RunTask(c)
    BY <1>2 DEF Next
  <2>3. Coordinating => Both(ctl[c], ctl[Peer(c)])
    <3>1. Peer(c) \in Ctrl /\ Peer(Peer(c)) = c
      BY Peers DEF Ctrl, CentralOrPeripheral
    <3> QED
      BY <3>1 DEF SoundingInv, Both
  <2>4. CASE StartTick(c)
    BY <2>1, <2>4 DEF StartTick, SoundingInv, Coordinating
  <2>5. CASE RunTask(c)
    BY <2>1, <2>5, RunTaskAgrees
  <2>6. CASE ~StartTick(c) /\ ~RunTask(c)
    <3>1. Coordinating => Agrees(c)
      BY <2>2, <2>3, <2>6, SetPhyAgrees, UpdateAgrees, SubrateAgrees, EncryptionAgrees, ExchangeAgrees,
         CapableAgrees, ConfigureAgrees, ClassifyAgrees, ProcedureAgrees, ZenonT(60)
    <3> QED
      BY <2>1, <3>1, AgreesKeeps
  <2> QED
    BY <2>4, <2>5, <2>6
<1> QED
  BY <1>1, <1>2

\* A new connection has no channel sounding.
LEMMA InitAgrees ==
  ASSUME Init
  PROVE  SoundingInv
<1>1. ASSUME NEW c \in Ctrl
      PROVE  /\ ctl[c].awaiting = {} /\ ctl[c].tasks = <<>> /\ ctl[c].started = {}
             /\ ctl[c].config_map = [id \in ConfigIds |-> None]
             /\ ~ctl[c].security_enabled /\ ~ctl[c].failed
  <2>1. ctl[c] = LeSetDefaultSubrate(NewConnection(c), usage.subrate)
    BY DEF Init
  <2>2. LET x == NewConnection(c) IN
             /\ x.awaiting = {} /\ x.tasks = <<>> /\ x.started = {}
             /\ x.config_map = [id \in ConfigIds |-> None]
             /\ ~x.security_enabled /\ ~x.failed
    BY ZenonT(60) DEF NewConnection
  <2> QED
    BY <2>1, <2>2 DEF LeSetDefaultSubrate
<1>2. Elems(<<>>) = {} /\ DOMAIN <<>> = {}
  BY DEF Elems
<1>3. \A c \in Ctrl : Peer(c) \in Ctrl
  BY Peers DEF Ctrl, CentralOrPeripheral
<1>4. ASSUME NEW c \in Ctrl, NEW d \in Ctrl
      PROVE  Sounds(ctl[c], ctl[d])
  <2>1. SoundingTypes(ctl[c])
    BY <1>1, <1>2, SMTT(30) DEF SoundingTypes
  <2>2. Secured(ctl[c], ctl[d])
    BY <1>1, <1>2, SMTT(30) DEF Secured
  <2>3. Configured(ctl[c], ctl[d])
    BY <1>1, <1>2, SMTT(30) DEF Configured, HasConfig, OneConfigPacket, NoConfigPacket
  <2>4. Started(ctl[c], ctl[d])
    BY <1>1, <1>2 DEF Started
  <2> QED
    BY <2>1, <2>2, <2>3, <2>4, SMTT(30) DEF Sounds
<1> QED
  BY <1>3, <1>4 DEF SoundingInv

\* The start of a Tick keeps the answers under way.
LEMMA StartTickKeeps ==
  ASSUME Ends, AnswersUnderWay, NEW c \in Ctrl, StartTick(c), UNCHANGED usage
  PROVE  Ends' /\ AnswersUnderWay'
<1>1. ctl' = ctl /\ ticking' = c /\ due' = Len(ctl[c].tasks) /\ ctl[c].tasks # <<>>
  BY DEF StartTick
<1>2. Len(ctl[c].tasks) \in Nat \ {0}
  BY <1>1, QueueTail, ZenonT(60) DEF Ends, IsEnd
<1>3. Ends'
  BY <1>1, <1>2, SMTT(30) DEF Ends
<1>4. AnswersUnderWay'
  BY <1>1 DEF AnswersUnderWay, Owed, Coordinating
<1> QED
  BY <1>3, <1>4

\* The first task of the ticking controller, and its state without it.
LEMMA FirstTask ==
  ASSUME NEW s, IsEnd(s), s.tasks # <<>>
  PROVE  LET t == Head(s.tasks)
             r == [s EXCEPT !.tasks = Tail(@)] IN
         /\ IsTask(t) /\ IsEnd(r) /\ r.role = s.role /\ r.awaiting = s.awaiting
         /\ r.requests = s.requests /\ r.initiated_phy_update_ = s.initiated_phy_update_
         /\ r.channel_sounding_host_support_ = s.channel_sounding_host_support_
         /\ Elems(s.tasks) = Elems(r.tasks) \cup {t}
         /\ Len(s.tasks) \in Nat \ {0} /\ Len(r.tasks) = Len(s.tasks) - 1
  BY QueueTail DEF IsEnd, Fields

\* What running a task of its own does to an end.
Runs(s, t, u) ==
  /\ IsEnd(u) /\ u.role = s.role
  /\ u.channel_sounding_host_support_ = s.channel_sounding_host_support_
  /\ Elems(s.tasks) \subseteq Elems(u.tasks) /\ Len(s.tasks) <= Len(u.tasks)
  /\ u.awaiting \subseteq s.awaiting /\ u.requests = s.requests
  /\ u.initiated_phy_update_ = s.initiated_phy_update_
  /\ \A w \in u.awaiting : Leads(t, w[1], w[2]) => \E x \in Elems(u.tasks) : Leads(x, w[1], w[2])

\* Running a deferred event tells the host what it says,
LEMMA EventRuns ==
  ASSUME NEW s, IsEnd(s), NEW t, IsTask(t), t.type = "EVENT"
  PROVE  Runs(s, t, Tell(s, t.v, t.id))
  BY QueueAppend DEF Runs, Tell, IsEnd, Fields, Leads, Asks

\* running LE Enable Encryption sends the request.
LEMMA EncryptionRuns ==
  ASSUME NEW s, IsEnd(s), NEW t, IsTask(t), t.type = "ENABLE_ENCRYPTION"
  PROVE  Runs(s, t, HandleLeEnableEncryption(s, t.v))
  BY QueueAppend, SMTT(30) DEF Runs, HandleLeEnableEncryption, Send, Task, IsEnd, Fields, IsTask, Packets, Numbered, Leads, Asks

\* A task of the controller itself keeps the answers under way,
LEMMA OwnTaskKeeps ==
  ASSUME Ends, AnswersUnderWay, UNCHANGED usage, NEW c \in Ctrl, ticking = c,
         NEW r, IsEnd(r), r.role = c, r.awaiting = ctl[c].awaiting, r.requests = ctl[c].requests,
         r.initiated_phy_update_ = ctl[c].initiated_phy_update_,
         r.channel_sounding_host_support_ = ctl[c].channel_sounding_host_support_,
         NEW t, Elems(ctl[c].tasks) = Elems(r.tasks) \cup {t}, Len(r.tasks) = Len(ctl[c].tasks) - 1,
         Len(ctl[c].tasks) \in Nat,
         NEW u, Runs(r, t, u), ctl' = [ctl EXCEPT ![c] = u],
         t.type \in {"EVENT", "ENABLE_ENCRYPTION"},
         due' = due - 1, ticking' = IF due = 1 THEN None ELSE c
  PROVE  Ends' /\ AnswersUnderWay'
<1>1. /\ ctl'[c] = u /\ \A d \in Ctrl \ {c} : ctl'[d] = ctl[d]
      /\ DOMAIN ctl' = Ctrl
  BY DEF Ends
<1>2. Len(u.tasks) \in Nat
  BY QueueAppend, ZenonT(60) DEF Runs, IsEnd
<1>3. Ends'
  BY <1>1, <1>2, NoneAssumption DEF Ends, Runs
<1>4. ASSUME NEW d \in Ctrl, NEW w \in ctl'[d].awaiting
      PROVE  /\ w[1] \in Kind
             /\ Owed(w[1]) => UnderWay(ctl'[d], ctl'[Peer(d)], w[1], w[2])
             /\ w[1] = "PHY" /\ d = "PERIPHERAL" => ctl'[d].initiated_phy_update_
  <2>1. CASE d = c
    <3>1. Peer(c) \in Ctrl \ {c}
      BY Peers, ZenonT(60) DEF Ctrl, CentralOrPeripheral
    <3>2. ctl'[Peer(c)] = ctl[Peer(c)] /\ w \in u.awaiting /\ w \in ctl[c].awaiting
      BY <1>1, <2>1, <3>1, ZenonT(60) DEF Runs
    <3>3. /\ w[1] \in Kind
          /\ Owed(w[1]) => UnderWay(ctl[c], ctl[Peer(c)], w[1], w[2])
          /\ w[1] = "PHY" /\ d = "PERIPHERAL" => ctl[c].initiated_phy_update_
      BY <2>1, <3>2, ZenonT(60) DEF AnswersUnderWay
    <3>4. u.role = ctl[c].role
      BY ZenonT(60) DEF Runs, Ends
    <3>5. \A x \in Elems(ctl[c].tasks) : Leads(x, w[1], w[2]) => \E y \in Elems(u.tasks) : Leads(y, w[1], w[2])
      BY <3>2, ZenonT(60) DEF Runs
    <3>6. UnderWay(ctl[c], ctl[Peer(c)], w[1], w[2]) => UnderWay(u, ctl[Peer(c)], w[1], w[2])
      BY <3>4, <3>5, ZenonT(60) DEF UnderWay
    <3> QED
      BY <1>1, <2>1, <3>2, <3>3, <3>6, ZenonT(60) DEF Runs
  <2>2. CASE d # c
    <3>1. Peer(d) = c /\ ctl'[d] = ctl[d] /\ ctl'[c] = u /\ w \in ctl[d].awaiting
      BY <1>1, <2>2, Peers, ZenonT(60) DEF Ctrl, CentralOrPeripheral
    <3>2. /\ w[1] \in Kind
          /\ Owed(w[1]) => UnderWay(ctl[d], ctl[c], w[1], w[2])
          /\ w[1] = "PHY" /\ d = "PERIPHERAL" => ctl[d].initiated_phy_update_
      BY <3>1, ZenonT(60) DEF AnswersUnderWay
    <3>3. \A x \in Elems(ctl[c].tasks) : Answers(ctl[d].role, w[1], x.type) => x \in Elems(u.tasks)
      BY ZenonT(60) DEF Answers, Runs
    <3>4. UnderWay(ctl[d], ctl[c], w[1], w[2]) => UnderWay(ctl[d], u, w[1], w[2])
      BY <3>3, ZenonT(60) DEF UnderWay, Runs
    <3> QED
      BY <3>1, <3>2, <3>4
  <2> QED
    BY <2>1, <2>2, ZenonT(60)
<1>5. AnswersUnderWay'
  BY <1>4 DEF AnswersUnderWay, Owed, Coordinating
<1> QED
  BY <1>3, <1>5, SMTT(30)

\* A host that coordinates awaits a start only of what both ends will accept.
LEMMA AwaitedCanStart ==
  ASSUME SoundingInv, Coordinating, NEW c \in Ctrl, NEW w \in ctl[c].awaiting, w[1] = "START"
  PROVE  CanStart(ctl[c], w[2]) /\ CanStart(ctl[Peer(c)], w[2])
<1>1. Peer(c) \in Ctrl /\ Peer(Peer(c)) = c
  BY Peers DEF Ctrl, CentralOrPeripheral
<1>2. Sounds(ctl[c], ctl[Peer(c)]) /\ Sounds(ctl[Peer(c)], ctl[c])
  BY <1>1 DEF SoundingInv
<1> QED
  BY <1>2, ZenonT(60) DEF Sounds, Started, Secured, Ready, ReadyEnd, HasConfig, CanStart

\* as does a packet that it hands to the peer.
LEMMA PacketKeeps ==
  ASSUME Ends, AnswersUnderWay, SoundingInv, UNCHANGED usage, NEW c \in Ctrl, ticking = c,
         NEW r, IsEnd(r), r.role = c, r.awaiting = ctl[c].awaiting, r.requests = ctl[c].requests,
         r.initiated_phy_update_ = ctl[c].initiated_phy_update_,
         r.channel_sounding_host_support_ = ctl[c].channel_sounding_host_support_,
         NEW t, Elems(ctl[c].tasks) = Elems(r.tasks) \cup {t}, Len(r.tasks) = Len(ctl[c].tasks) - 1,
         Len(ctl[c].tasks) \in Nat,
         NEW u, Handles(ctl[Peer(c)], t, u), ctl' = [ctl EXCEPT ![c] = r, ![Peer(c)] = u],
         t.type \in Packets,
         due' = due - 1, ticking' = IF due = 1 THEN None ELSE c
  PROVE  Ends' /\ AnswersUnderWay'
<1> DEFINE p == Peer(c)
<1>0. p \in Ctrl /\ p # c /\ Peer(p) = c /\ (\A d \in Ctrl : d = c \/ d = p)
  BY Peers, SMTT(30) DEF Ctrl, CentralOrPeripheral
<1>1. ctl'[c] = r /\ ctl'[p] = u /\ DOMAIN ctl' = Ctrl
  BY <1>0 DEF Ends
<1>a. ctl[p].role = p /\ ctl[c].role = c /\ u.role = p /\ IsEnd(ctl[p]) /\ IsEnd(ctl[c])
  BY <1>0, ZenonT(60) DEF Ends, Handles
<1>b. ctl[p].channel_sounding_host_support_ = (p \in usage.support)
  BY <1>0, ZenonT(60) DEF Ends
<1> HIDE DEF p
<1>2. Ends'
  <2>1. \A d \in Ctrl : IsEnd(ctl'[d]) /\ ctl'[d].role = d
                     /\ ctl'[d].channel_sounding_host_support_ = (d \in usage.support)
    BY <1>0, <1>1, <1>a, ZenonT(60) DEF Ends, Handles, p
  <2>2. ticking' # None => ticking' \in Ctrl /\ due' \in 1..Len(ctl'[ticking'].tasks)
    BY <1>1, NoneAssumption DEF Ends
  <2> QED
    BY <1>1, <2>1, <2>2 DEF Ends
\* The end that sent the packet.
<1>3. ASSUME NEW w \in r.awaiting
      PROVE  /\ w[1] \in Kind
             /\ Owed(w[1]) => UnderWay(r, u, w[1], w[2])
             /\ w[1] = "PHY" /\ c = "PERIPHERAL" => r.initiated_phy_update_
  <2>1. /\ w[1] \in Kind
        /\ Owed(w[1]) => UnderWay(ctl[c], ctl[p], w[1], w[2])
        /\ w[1] = "PHY" /\ c = "PERIPHERAL" => r.initiated_phy_update_
    BY ZenonT(60) DEF AnswersUnderWay, p
  <2>2. ASSUME Leads(t, w[1], w[2]), Owed(w[1]) PROVE UnderWay(r, u, w[1], w[2])
    <3>1. t.id = w[2] /\ Asks(w[1], t.type)
      BY <2>2 DEF Leads, Packets
    <3>2. w[1] = "CONFIG" => ctl[p].channel_sounding_host_support_
      BY <1>0, <1>b, <2>2, ZenonT(60) DEF Owed
    <3>3. w[1] = "START" => CanStart(ctl[p], t.id)
      BY <2>2, <3>1, AwaitedCanStart DEF Owed, p
    <3>4. \/ \E x \in Elems(u.tasks) : x.id = t.id /\ Answers(c, w[1], x.type)
          \/ Held(u.requests, w[1])
      BY <1>0, <1>a, <2>1, <3>1, <3>2, <3>3, ZenonT(60) DEF Handles, p
    <3> QED
      BY <3>1, <3>4, ZenonT(60) DEF UnderWay
  <2>3. Elems(ctl[p].tasks) \subseteq Elems(u.tasks) /\ ctl[p].requests \subseteq u.requests
    BY ZenonT(60) DEF Handles, p
  <2>4. Held(ctl[p].requests, w[1]) => Held(u.requests, w[1])
    BY <2>3, ZenonT(60) DEF Held
  <2>5. Owed(w[1]) => UnderWay(r, u, w[1], w[2])
    BY <1>a, <2>1, <2>2, <2>3, <2>4, ZenonT(60) DEF UnderWay
  <2> QED
    BY <2>1, <2>5, ZenonT(60)
\* The end that handles it.
<1>4. ASSUME NEW w \in u.awaiting
      PROVE  /\ w[1] \in Kind
             /\ Owed(w[1]) => UnderWay(u, r, w[1], w[2])
             /\ w[1] = "PHY" /\ p = "PERIPHERAL" => u.initiated_phy_update_
  <2>0. w \in ctl[p].awaiting /\ w = <<w[1], w[2]>>
    BY <1>a DEF Handles, p, IsEnd
  <2>1. /\ w[1] \in Kind
        /\ Owed(w[1]) => UnderWay(ctl[p], ctl[c], w[1], w[2])
        /\ w[1] = "PHY" /\ p = "PERIPHERAL" => ctl[p].initiated_phy_update_
    BY <1>0, <2>0 DEF AnswersUnderWay
  <2>2. ASSUME t.id = w[2], Answers(p, w[1], t.type), Owed(w[1])
        PROVE  \E x \in Elems(u.tasks) : Leads(x, w[1], w[2])
    <3>1. w[1] = "START" => CanStart(ctl[p], w[2])
      BY <1>0, <2>0, <2>2, AwaitedCanStart DEF Owed
    <3> QED
      BY <1>a, <2>1, <2>2, <3>1, ZenonT(60) DEF Handles, p
  <2>3. Elems(ctl[p].tasks) \subseteq Elems(u.tasks)
    BY ZenonT(60) DEF Handles, p
  <2>5. Owed(w[1]) => UnderWay(u, r, w[1], w[2])
    BY <1>a, <2>1, <2>2, <2>3, ZenonT(60) DEF UnderWay
  <2>6. w[1] = "PHY" /\ p = "PERIPHERAL" => u.initiated_phy_update_
    <3>1. w[1] = "PHY" => w = <<"PHY", 0>>
      BY <1>a, <2>0, ZenonT(60) DEF IsEnd
    <3> QED
      BY <2>1, <3>1, ZenonT(60) DEF Handles, p
  <2> QED
    BY <2>1, <2>5, <2>6, ZenonT(60)
<1>5. AnswersUnderWay'
  BY <1>0, <1>1, <1>3, <1>4, SMTT(30) DEF AnswersUnderWay, Owed, Coordinating, p
<1> QED
  BY <1>2, <1>5

\* A Tick's next task keeps the answers under way.
LEMMA RunTaskKeeps ==
  ASSUME Ends, AnswersUnderWay, SoundingInv, NEW c \in Ctrl, RunTask(c), UNCHANGED usage
  PROVE  Ends' /\ AnswersUnderWay'
<1> DEFINE t == Head(ctl[c].tasks)
           r == [ctl[c] EXCEPT !.tasks = Tail(@)]
<1>0. ticking = c /\ IsEnd(ctl[c]) /\ ctl[c].role = c /\ ctl[c].tasks # <<>>
  <2>1. ticking = c /\ IsEnd(ctl[c]) /\ ctl[c].role = c
    BY DEF Ends, RunTask
  <2>2. due \in 1..Len(ctl[c].tasks)
    BY <2>1, NoneAssumption DEF Ends
  <2> QED
    BY <2>1, <2>2
<1>1. /\ IsTask(t) /\ IsEnd(r) /\ r.role = c /\ r.awaiting = ctl[c].awaiting
      /\ r.requests = ctl[c].requests /\ r.initiated_phy_update_ = ctl[c].initiated_phy_update_
      /\ r.channel_sounding_host_support_ = ctl[c].channel_sounding_host_support_
      /\ Elems(ctl[c].tasks) = Elems(r.tasks) \cup {t}
      /\ Len(ctl[c].tasks) \in Nat /\ Len(r.tasks) = Len(ctl[c].tasks) - 1
  BY <1>0, FirstTask, ZenonT(60)
<1>2. /\ due' = due - 1 /\ ticking' = IF due = 1 THEN None ELSE c
      /\ \/ t.type = "EVENT" /\ ctl' = [ctl EXCEPT ![c] = Tell(r, t.v, t.id)]
         \/ /\ t.type = "ENABLE_ENCRYPTION"
            /\ ctl' = [ctl EXCEPT ![c] = HandleLeEnableEncryption(r, t.v)]
         \/ /\ t.type \notin {"EVENT", "ENABLE_ENCRYPTION"}
            /\ ctl' = [ctl EXCEPT ![c] = r, ![Peer(c)] = IncomingPacket(@, t)]
  BY DEF RunTask
<1> HIDE DEF t, r
<1>3. CASE t.type = "EVENT"
  <2>1. Runs(r, t, Tell(r, t.v, t.id))
    BY <1>1, <1>3, EventRuns, ZenonT(60)
  <2>2. ctl' = [ctl EXCEPT ![c] = Tell(r, t.v, t.id)]
    BY <1>2, <1>3
  <2> QED
    BY <1>0, <1>1, <1>2, <1>3, <2>1, <2>2, OwnTaskKeeps, ZenonT(60)
<1>4. CASE t.type = "ENABLE_ENCRYPTION"
  <2>1. Runs(r, t, HandleLeEnableEncryption(r, t.v))
    BY <1>1, <1>4, EncryptionRuns
  <2>2. ctl' = [ctl EXCEPT ![c] = HandleLeEnableEncryption(r, t.v)]
    BY <1>2, <1>4
  <2> QED
    BY <1>0, <1>1, <1>2, <1>4, <2>1, <2>2, OwnTaskKeeps, ZenonT(60)
<1>5. CASE t.type \in Packets
  <2> DEFINE p == Peer(c)
             u == IncomingPacket(ctl[p], t)
  <2>1. p \in Ctrl /\ p # c
    BY Peers, ZenonT(60) DEF Ctrl, CentralOrPeripheral
  <2>2. Handles(ctl[p], t, u)
    BY <1>1, <1>5, <2>1, IncomingHandles, SMTT(30) DEF Ends
  <2>3. ctl' = [ctl EXCEPT ![c] = r, ![p] = u]
    BY <1>2, <1>5, <2>1 DEF Packets
  <2> HIDE DEF u
  <2> QED
    BY <1>0, <1>1, <1>2, <1>5, <2>2, <2>3, PacketKeeps, ZenonT(60)
<1> QED
  BY <1>1, <1>3, <1>4, <1>5 DEF IsTask

\* Every step keeps the answers under way.
LEMMA NextKeeps ==
  ASSUME Ends, AnswersUnderWay, SoundingInv, [Next]_vars
  PROVE  Ends' /\ AnswersUnderWay'
<1>1. CASE UNCHANGED vars
  BY <1>1 DEF vars, Ends, AnswersUnderWay, Owed, Coordinating
<1>2. CASE Next
  <2>1. UNCHANGED usage
    BY <1>2 DEF Next
  <2>2. PICK c \in Ctrl :
          \/ SetPhy(c) \/ UpdateParameters(c) \/ Subrate(c) \/ Encryption(c) \/ Exchange(c)
          \/ Capable(c) \/ Configure(c) \/ Classify(c) \/ Procedure(c)
          \/ StartTick(c) \/ RunTask(c)
    BY <1>2 DEF Next
  <2>3. Commanded(c) \/ StartTick(c) \/ RunTask(c)
    BY <2>2, SetPhyCommanded, UpdateCommanded, SubrateCommanded, EncryptionCommanded,
       ExchangeCommanded, CapableCommanded, ConfigureCommanded, ClassifyCommanded, ProcedureCommanded, ZenonT(60)
  <2> QED
    BY <2>1, <2>3, CommandedKeeps, StartTickKeeps, RunTaskKeeps
<1> QED
  BY <1>1, <1>2, ZenonT(60)

\* Nothing is awaited on a new connection.
LEMMA InitKeeps ==
  ASSUME Init
  PROVE  Ends /\ AnswersUnderWay
<1> DEFINE s(c) == NewConnection(c)
<1>1. ASSUME NEW c \in Ctrl
      PROVE  /\ ctl[c].awaiting = {} /\ ctl[c].tasks = <<>> /\ ctl[c].role = c
             /\ ctl[c].channel_sounding_host_support_ = (c \in usage.support)
             /\ Fields \subseteq DOMAIN ctl[c]
  <2>1. ctl[c] = LeSetDefaultSubrate(NewConnection(c), usage.subrate)
    BY DEF Init
  <2>2. LET x == NewConnection(c) IN
             /\ x.awaiting = {} /\ x.tasks = <<>> /\ x.role = c
             /\ x.channel_sounding_host_support_ = (c \in usage.support)
             /\ Fields \subseteq DOMAIN x
    BY ZenonT(60) DEF NewConnection, Fields
  <2> QED
    BY <2>1, <2>2 DEF LeSetDefaultSubrate, Fields
<1>2. Queue(<<>>) /\ Elems(<<>>) = {}
  BY DEF Queue, Elems
<1>3. DOMAIN ctl = Ctrl /\ ticking = None
  BY DEF Init
<1> QED
  BY <1>1, <1>2, <1>3 DEF Ends, AnswersUnderWay, IsEnd

\* When nothing is queued, only a host can hold an answer back.
LEMMA QuietAnswered ==
  ASSUME Ends, AnswersUnderWay, Quiet, NEW c \in Ctrl, NEW w \in ctl[c].awaiting, Owed(w[1])
  PROVE  \/ w[1] = "UPDATE" /\ "UPDATE" \in ctl[Peer(c)].requests
         \/ w[1] = "ENCRYPTION" /\ "LTK" \in ctl[Peer(c)].requests
<1>1. Peer(c) \in Ctrl
  BY Peers DEF Ctrl, CentralOrPeripheral
<1>2. Elems(ctl[c].tasks) = {} /\ Elems(ctl[Peer(c)].tasks) = {}
  BY <1>1 DEF Quiet, Elems
<1>3. UnderWay(ctl[c], ctl[Peer(c)], w[1], w[2])
  BY DEF AnswersUnderWay
<1> QED
  BY <1>2, <1>3, ZenonT(60) DEF UnderWay, Held

-----------------------------------------------------------------------------
(* The theorems.                                                           *)

\* The inductive invariant: the answers are under way, and hosts that coordinate
\* find both ends ready.
Inv == usage \in Usages /\ Ends /\ AnswersUnderWay /\ SoundingInv

\* The invariant holds, whatever the hosts ask and however their procedures cross.
THEOREM AlwaysInv == Spec => []Inv
<1>1. Init => Inv
  BY InitKeeps, InitAgrees DEF Init, Inv
<1>2. Inv /\ [Next]_vars => Inv'
  <2>1. [Next]_vars => UNCHANGED usage
    BY DEF Next, vars
  <2> QED
    BY <2>1, NextKeeps, NextAgrees DEF Inv
<1> QED
  BY <1>1, <1>2, PTL DEF Spec

\* No answer is lost.  Whatever commands the two hosts issue, in any number and any
\* order, and however their packets cross in the queues (IncomingPacket,
\* RunPendingTasks), a command that a host still awaits when nothing is queued waits
\* for the other host; CS commands for hosts that coordinate, both support it and
\* remove no configuration: a removal that crosses LL_CS_REQ has the start refused
\* with config id 0 (IncomingLlCsReq), and its host never gets the event.
THEOREM AlwaysAnswered == Spec => []AllAnswered
<1>1. Inv => AllAnswered
  <2> SUFFICES ASSUME Inv, Quiet, NEW c \in Ctrl, NEW w \in ctl[c].awaiting,
                      ~(w[1] \in {"CONFIG", "START", "STOP"} /\ ~(Coordinating /\ usage.support = Ctrl))
               PROVE  \/ w[1] = "UPDATE" /\ "UPDATE" \in ctl[Peer(c)].requests
                      \/ w[1] = "ENCRYPTION" /\ "LTK" \in ctl[Peer(c)].requests
    BY DEF AllAnswered
  <2>1. Owed(w[1])
    BY DEF Owed
  <2> QED
    BY <2>1, QuietAnswered DEF Inv
<1> QED
  BY <1>1, AlwaysInv, PTL

\* A started procedure is a ready one, for hosts that coordinate: when either host was
\* told that a procedure is enabled, both ends have its configuration, in opposite
\* roles, an initialization vector and the FAE table of the other; and the event
\* never reads procedure parameters that are not there (IncomingLlCsReq,
\* IncomingLlCsRsp and IncomingLlCsInd, whose value() would throw).
THEOREM AlwaysReady == Spec => [](Coordinating => StartedIsReady)
<1>1. Inv => (Coordinating => StartedIsReady)
  <2> SUFFICES ASSUME Inv, Coordinating PROVE StartedIsReady
    OBVIOUS
  <2>1. \A c \in Ctrl : Peer(c) \in Ctrl /\ Peer(Peer(c)) = c
    BY Peers DEF Ctrl, CentralOrPeripheral
  <2>2. \A c \in Ctrl : Sounds(ctl[c], ctl[Peer(c)]) /\ Sounds(ctl[Peer(c)], ctl[c])
    BY <2>1, ZenonT(60) DEF Inv, SoundingInv
  <2>3. Alive
    BY <2>2, SMTT(30) DEF Alive, Sounds, Started
  <2>4. ASSUME NEW c \in Ctrl, NEW id \in ctl[c].started
        PROVE  BothReady(id)
    <3>1. Ready(ctl[c], ctl[Peer(c)], id)
      BY <2>2, ZenonT(60) DEF Sounds, Started
    <3>2. /\ HasConfig(ctl[c], id) /\ HasConfig(ctl[Peer(c)], id)
          /\ ctl[c].config_map[id].role # ctl[Peer(c)].config_map[id].role
          /\ ctl[c].iv /\ ctl[Peer(c)].iv
          /\ ctl[c].remote_fae_table /\ ctl[Peer(c)].remote_fae_table
      BY <2>2, <3>1, ZenonT(60) DEF Ready, ReadyEnd, Sounds, Secured, Configured
    <3>3. c = "CENTRAL" \/ c = "PERIPHERAL"
      BY DEF Ctrl, CentralOrPeripheral
    <3> QED
      BY <3>2, <3>3, Peers DEF BothReady, Paired, C, P
  <2>5. StartedEverReady
    BY <2>4 DEF StartedEverReady
  <2>6. \A id \in P.started : BothReady(id)
    BY <2>5 DEF StartedEverReady, P, Ctrl, CentralOrPeripheral
  <2>7. \A c \in Ctrl : \A id \in ctl[c].started : HasConfig(C, id) /\ C.iv /\ C.remote_fae_table
    BY <2>5 DEF StartedEverReady, BothReady, Paired
  <2>8. P.started # {} => P.iv
    BY <2>6 DEF BothReady
  <2> QED
    BY <2>3, <2>5, <2>7, <2>8 DEF StartedIsReady
<1> QED
  BY <1>1, AlwaysInv, PTL

=============================================================================
