---------------------------- MODULE LeConnected ----------------------------
(***************************************************************************)
(* An LE-ACL connection between two rootcanal controllers while it is up:  *)
(* the procedures of LeProcedures and of LeChannelSounding, started by the *)
(* hosts of both ends at any time and served through the same queues of    *)
(* zero-delay tasks.  A Tick of a controller runs the tasks that were due  *)
(* when it started, in order; no host command comes in between.            *)
(*                                                                         *)
(* Abstractions: connecting, disconnecting and supervision are LeLink's;   *)
(* a host repeats a command only after its completion; all events but LE   *)
(* Remote Connection Parameter Request are unmasked.                       *)
(***************************************************************************)
EXTENDS LeChannelSounding, FiniteSets

CONSTANTS
  Usages,             \* what the hosts may do (see Usage)
  PhyChoices,         \* preferences <<tx, rx>> of PHY commands
  UpdateChoices,      \* parameters of connection updates
  ReplyChoices,       \* parameters of replies to parameter requests
  SubrateChoices,     \* parameters of subrate commands
  ConfigChoices,      \* parameters of CS configurations
  ChannelChoices,     \* numbers of channels of CS channel classifications
  ProcedureChoices,   \* CS procedure parameters
  CachedCapabilities, \* CS capabilities that a host may have kept
  InitialParameters,  \* connection parameters of the new connection
  MaxTasks,           \* bound: host commands stop at this queue length
  MaxData             \* bound: ACL packets each host sends

Ctrl == CentralOrPeripheral
Peer(c) == CHOOSE d \in Ctrl : d # c

(* host: the kinds of commands of each host; keys: the long term keys it    *)
(* may give; encrypted: the connection is encrypted already; masked: the    *)
(* parameter request event is; support: Channel Sounding (Host Support);    *)
(* subrate: the default subrate parameters; ids: the CS configurations they *)
(* use; coordinated: they agree on how they use them (see Coordinated).     *)
Kind == {"PHY", "DEFAULT_PHY", "UPDATE", "SUBRATE", "ENCRYPTION", "FEATURES", "VERSION", "POWER",
         "DATA", "CAPABILITIES", "CACHE", "FAE", "CONFIG", "LOCAL", "REMOVE", "CHANNELS",
         "SECURITY", "PROCEDURE", "START", "STOP"}
Usage == [host : [Ctrl -> SUBSET Kind], keys : [Ctrl -> SUBSET Keys], encrypted : BOOLEAN,
          masked : BOOLEAN, support : SUBSET Ctrl, subrate : SubrateChoices,
          ids : SUBSET ConfigIds, coordinated : BOOLEAN]

ASSUME UsagesAssumption == Usages \subseteq Usage

VARIABLES
  ctl,       \* the state of each end
  ticking,   \* the controller whose Tick is running, or None
  due,       \* tasks this Tick has still to run
  usage      \* the hosts of this behaviour, never changed

vars == <<ctl, ticking, due, usage>>

-----------------------------------------------------------------------------
NewConnection(c) ==
  [role |-> c, tasks |-> <<>>, awaiting |-> {}, requests |-> {}, masked |-> usage.masked,
   tx_phy_ |-> "LE_1M", rx_phy_ |-> "LE_1M", toldPhys |-> <<"LE_1M", "LE_1M">>,
   initiated_phy_update_ |-> FALSE, default_tx_phys_ |-> Phys, default_rx_phys_ |-> Phys,
   requested_tx_phys_ |-> Phys, requested_rx_phys_ |-> Phys,
   parameters |-> InitialParameters, subrate_parameters |-> usage.subrate,
   ltk |-> None, encrypted_ |-> usage.encrypted, remote_supported_features |-> None,
   sent |-> 0, received |-> 0,
   channel_sounding_host_support_ |-> c \in usage.support,
   remote_cs_capabilities |-> None, remote_fae_table |-> FALSE, role_enable |-> {},
   config_map |-> [id \in ConfigIds |-> None], security_enabled |-> FALSE, iv |-> FALSE,
   started |-> {}, failed |-> FALSE]

Init ==
  /\ usage \in Usages
  /\ ctl = [c \in Ctrl |-> LeSetDefaultSubrate(NewConnection(c), usage.subrate)]
  /\ ticking = None /\ due = 0

Alive == \A c \in Ctrl : ~ctl[c].failed

\* The switch of IncomingPacket.
IncomingPacket(s, t) ==
  CASE t.type = "LL_PHY_REQ" -> IncomingLlPhyReq(s, t.v)
    [] t.type = "LL_PHY_RSP" -> IncomingLlPhyRsp(s, t.v)
    [] t.type = "LL_PHY_UPDATE_IND" -> IncomingLlPhyUpdateInd(s, t.v)
    [] t.type = "LE_CONNECTION_PARAMETER_REQUEST" -> IncomingLeConnectionParameterRequest(s)
    [] t.type = "LE_CONNECTION_PARAMETER_UPDATE" -> IncomingLeConnectionParameterUpdate(s, t.ok, t.v)
    [] t.type = "LL_SUBRATE_REQ" -> IncomingLlSubrateReq(s, t.v)
    [] t.type = "LL_SUBRATE_IND" -> IncomingLlSubrateInd(s, t.ok, t.v)
    [] t.type = "LE_ENCRYPT_CONNECTION" -> IncomingLeEncryptConnection(s, t.v)
    [] t.type = "LE_ENCRYPT_CONNECTION_RESPONSE" -> IncomingLeEncryptConnectionResponse(s, t.ok, t.v)
    [] t.type = "LE_READ_REMOTE_FEATURES" -> IncomingLeReadRemoteFeatures(s)
    [] t.type = "LE_READ_REMOTE_FEATURES_RESPONSE" -> IncomingLeReadRemoteFeaturesResponse(s, t.v)
    [] t.type = "READ_REMOTE_VERSION_INFORMATION" -> IncomingReadRemoteVersion(s)
    [] t.type = "READ_REMOTE_VERSION_INFORMATION_RESPONSE" -> IncomingReadRemoteVersionResponse(s)
    [] t.type = "ACL" -> IncomingLeAclPacket(s)
    [] t.type = "LL_CS_CAPABILITIES_REQ" -> IncomingLlCsCapabilitiesReq(s, t.v)
    [] t.type = "LL_CS_CAPABILITIES_RSP" -> IncomingLlCsCapabilitiesRsp(s, t.ok, t.v)
    [] t.type = "LL_CS_FAE_REQ" -> IncomingLlCsFaeReq(s)
    [] t.type = "LL_CS_FAE_RSP" -> IncomingLlCsFaeRsp(s, t.ok)
    [] t.type = "LL_CS_CONFIG_REQ" -> IncomingLlCsConfigReq(s, t.id, t.v)
    [] t.type = "LL_CS_CONFIG_RSP" -> IncomingLlCsConfigRsp(s, t.ok, t.id)
    [] t.type = "LL_CS_CHANNEL_MAP_IND" -> IncomingLlCsChannelMapInd(s, t.v)
    [] t.type = "LL_CS_SEC_REQ" -> IncomingLlCsSecurityReq(s)
    [] t.type = "LL_CS_SEC_RSP" -> IncomingLlCsSecurityRsp(s, t.ok)
    [] t.type = "LL_CS_REQ" -> IncomingLlCsReq(s, t.id)
    [] t.type = "LL_CS_RSP" -> IncomingLlCsRsp(s, t.ok, t.id)
    [] t.type = "LL_CS_IND" -> IncomingLlCsInd(s, t.id)
    [] t.type = "LL_CS_TERMINATE_REQ" -> IncomingLlCsTerminateReq(s, t.id)
    [] t.type = "LL_CS_TERMINATE_RSP" -> IncomingLlCsTerminateRsp(s, t.id)

-----------------------------------------------------------------------------
(* The hosts.                                                              *)

Waits(c, kind, id) == <<kind, id>> \in ctl[c].awaiting
Becomes(c, s) == ctl' = [ctl EXCEPT ![c] = s] /\ UNCHANGED <<ticking, due>>

\* The host may issue a command of this kind, once the last one is completed.
May(c, kind) ==
  /\ Alive /\ ticking = None /\ \A d \in Ctrl : Len(ctl[d].tasks) < MaxTasks
  /\ kind \in usage.host[c] /\ ~Waits(c, kind, 0)

SetPhy(c) ==
  \E tx, rx \in PhyChoices :
    /\ ValidPhys(tx, rx)
    /\ \/ May(c, "PHY") /\ Becomes(c, LeSetPhy(ctl[c], tx, rx))
       \/ May(c, "DEFAULT_PHY") /\ Becomes(c, LeSetDefaultPhy(ctl[c], tx, rx))

UpdateParameters(c) ==
  \/ /\ May(c, "UPDATE")
     /\ \E v \in UpdateChoices : Becomes(c, LeConnectionUpdate(ctl[c], v))
  \/ /\ Alive /\ ticking = None /\ "UPDATE" \in ctl[c].requests
     /\ \/ \E v \in ReplyChoices :
             ValidReply(v) /\ Becomes(c, LeRemoteConnectionParameterRequestReply(ctl[c], v))
        \/ Becomes(c, LeRemoteConnectionParameterRequestNegativeReply(ctl[c]))

Subrate(c) ==
  /\ May(c, "SUBRATE")
  /\ \E v \in SubrateChoices :
       ValidSubrate(ctl[c], v) /\ Becomes(c, LeSubrateRequest(ctl[c], v))

Encryption(c) ==
  \/ /\ May(c, "ENCRYPTION") /\ ctl[c].role = "CENTRAL"
     /\ \E key \in usage.keys[c] : Becomes(c, LeEnableEncryption(ctl[c], key))
  \/ /\ Alive /\ ticking = None /\ "LTK" \in ctl[c].requests
     /\ \/ \E key \in usage.keys[c] : Becomes(c, LeLongTermKeyRequestReply(ctl[c], key))
        \/ Becomes(c, LeLongTermKeyRequestNegativeReply(ctl[c]))

Exchange(c) ==
  \/ May(c, "FEATURES") /\ Becomes(c, LeReadRemoteFeaturesPage0(ctl[c]))
  \/ May(c, "VERSION") /\ Becomes(c, ReadRemoteVersionInformation(ctl[c]))
  \/ May(c, "POWER") /\ Becomes(c, LeReadRemoteTransmitPowerLevel(ctl[c]))
  \/ /\ May(c, "DATA") /\ ctl[c].sent < MaxData
     /\ Becomes(c, [HandleAcl(ctl[c]) EXCEPT !.sent = @ + 1])

-----------------------------------------------------------------------------
(* The hosts of channel sounding.                                          *)

Idle(kind, id) == \A c \in Ctrl : ~Waits(c, kind, id)
Everywhere(P(_)) == \A c \in Ctrl : P(ctl[c])

(* Hosts that coordinate use a configuration id for one configuration, and  *)
(* use it when it is there at both ends, one command at a time; they start  *)
(* a procedure when both ends are secured, have the FAE table of the other  *)
(* and have set the procedure parameters.                                   *)
Coordinated(kind, id) ==
  usage.coordinated =>
    /\ \A k \in {"CONFIG", "START", "STOP"} : Idle(k, id)
    /\ kind = "CONFIG" => Everywhere(LAMBDA s : ~HasConfig(s, id))
    /\ kind # "CONFIG" => Everywhere(LAMBDA s : HasConfig(s, id))
    /\ kind = "START" => Everywhere(LAMBDA s : /\ s.config_map[id].procedure /\ id \notin s.started
                                               /\ s.security_enabled /\ s.remote_fae_table)
    /\ kind = "STOP" => Everywhere(LAMBDA s : id \in s.started)

Capable(c) ==
  \/ /\ May(c, "CAPABILITIES") /\ MayReadCapabilities(ctl[c])
     /\ Becomes(c, LeCsReadRemoteSupportedCapabilities(ctl[c]))
  \/ /\ May(c, "CACHE")
     /\ \/ /\ MayWriteCapabilities(ctl[c])
           /\ \E caps \in CachedCapabilities :
                Becomes(c, LeCsWriteCachedRemoteSupportedCapabilities(ctl[c], caps))
        \/ MayWriteFaeTable(ctl[c]) /\ Becomes(c, LeCsWriteCachedRemoteFaeTable(ctl[c]))
  \/ May(c, "FAE") /\ MayReadFaeTable(ctl[c]) /\ Becomes(c, LeCsReadRemoteFaeTable(ctl[c]))
  \/ /\ May(c, "SECURITY") /\ MaySecure(ctl[c])
     /\ Becomes(c, LeCsSecurityEnable(ctl[c]))

Configure(c) ==
  \/ \E roles \in {{}, CsRole} :
       /\ May(c, "CONFIG") /\ roles # ctl[c].role_enable /\ MaySetDefaults(ctl[c], roles)
       /\ Becomes(c, LeCsSetDefaultSettings(ctl[c], roles))
  \/ \E id \in usage.ids, role \in CsRole, p \in ConfigChoices, both \in BOOLEAN :
       /\ May(c, IF both THEN "CONFIG" ELSE "LOCAL") /\ ~Waits(c, "CONFIG", id)
       /\ Coordinated("CONFIG", id) /\ MayCreateConfig(ctl[c], id, role, p)
       /\ Becomes(c, LeCsCreateConfig(ctl[c], id, role, p, both))
  \/ \E id \in usage.ids :
       /\ May(c, "REMOVE") /\ ~Waits(c, "CONFIG", id) /\ HasConfig(ctl[c], id)
       /\ Becomes(c, LeCsRemoveConfig(ctl[c], id))

\* Hosts that coordinate classify channels for procedures that the other enabled.
Classify(c) ==
  /\ May(c, "CHANNELS")
  /\ usage.coordinated =>
       \A id \in ConfigIds : Idle("CONFIG", id) /\
         (HasConfig(ctl[c], id) => HasConfig(ctl[Peer(c)], id) /\ ctl[Peer(c)].config_map[id].enabled)
  /\ \E n \in ChannelChoices, reserved \in BOOLEAN :
       MayClassify(n, reserved) /\ Becomes(c, LeCsSetChannelClassification(ctl[c], n))

Procedure(c) ==
  \E id \in usage.ids :
    \/ /\ May(c, "PROCEDURE") /\ Coordinated("PROCEDURE", id)
       /\ \E q \in ProcedureChoices :
            MaySetProcedure(ctl[c], id, q) /\ Becomes(c, LeCsSetProcedureParameters(ctl[c], id))
    \/ \E enable \in BOOLEAN :
         LET kind == IF enable THEN "START" ELSE "STOP" IN
         /\ May(c, kind) /\ ~Waits(c, kind, id) /\ Coordinated(kind, id)
         /\ MayEnable(ctl[c], id)
         /\ Becomes(c, LeCsProcedureEnable(ctl[c], id, enable))

-----------------------------------------------------------------------------
StartTick(c) ==
  /\ Alive /\ ticking = None /\ ctl[c].tasks # <<>>
  /\ ticking' = c /\ due' = Len(ctl[c].tasks)
  /\ UNCHANGED ctl

\* RunPendingTasks: a packet is handed to its destination at once.  The Tick ends
\* with its last task.
RunTask(c) ==
  LET t == Head(ctl[c].tasks)
      s == [ctl[c] EXCEPT !.tasks = Tail(@)]
  IN
  /\ Alive /\ ticking = c
  /\ \/ t.type = "EVENT" /\ ctl' = [ctl EXCEPT ![c] = Tell(s, t.v, t.id)]
     \/ /\ t.type = "ENABLE_ENCRYPTION"
        /\ ctl' = [ctl EXCEPT ![c] = HandleLeEnableEncryption(s, t.v)]
     \/ /\ t.type \notin {"EVENT", "ENABLE_ENCRYPTION"}
        /\ ctl' = [ctl EXCEPT ![c] = s, ![Peer(c)] = IncomingPacket(@, t)]
  /\ due' = due - 1
  /\ ticking' = IF due = 1 THEN None ELSE c

Next ==
  /\ UNCHANGED usage
  /\ \E c \in Ctrl :
       \/ SetPhy(c) \/ UpdateParameters(c) \/ Subrate(c) \/ Encryption(c) \/ Exchange(c)
       \/ Capable(c) \/ Configure(c) \/ Classify(c) \/ Procedure(c)
       \/ StartTick(c) \/ RunTask(c)

Spec == Init /\ [][Next]_vars

-----------------------------------------------------------------------------
(* Properties.                                                             *)

Quiet == ticking = None /\ \A c \in Ctrl : ctl[c].tasks = <<>>
C == ctl["CENTRAL"]
P == ctl["PERIPHERAL"]

ConfigParams == ConfigChoices \cup {[p EXCEPT !.channels = n] : p \in ConfigChoices, n \in ChannelChoices}
Config == [role : CsRole, params : ConfigParams, enabled : BOOLEAN, procedure : BOOLEAN]

ASSUME NoneAssumption == None \notin Ctrl \cup Config
End == [role : Ctrl, awaiting : SUBSET (Kind \X ConfigIds), requests : SUBSET {"UPDATE", "LTK"},
        tx_phy_ : Phys, rx_phy_ : Phys, ltk : Keys \cup {None}, encrypted_ : BOOLEAN,
        remote_supported_features : BOOLEAN \cup {None}, received : 0..MaxData,
        remote_cs_capabilities : CachedCapabilities \cup {LocalCapabilities, None},
        config_map : [ConfigIds -> Config \cup {None}], started : SUBSET ConfigIds]

\* Every field keeps its type, and a Tick has no more tasks than are queued.
TypeOK ==
  /\ \A c \in Ctrl : [f \in DOMAIN [role |-> 0, awaiting |-> 0, requests |-> 0, tx_phy_ |-> 0,
                                   rx_phy_ |-> 0, ltk |-> 0, encrypted_ |-> 0,
                                   remote_supported_features |-> 0, received |-> 0,
                                   remote_cs_capabilities |-> 0, config_map |-> 0,
                                   started |-> 0] |-> ctl[c][f]] \in End
  /\ ticking # None => due \in 1..Len(ctl[ticking].tasks)

\* connSubrateFactor x (connPeripheralLatency + 1) <= 500, and connInterval x
\* connSubrateFactor x (connPeripheralLatency + 1) is less than half of
\* connSupervisionTimeout (le_acl_connection.h), in their units of 1.25 and 10 ms.
ValidParameters(p) ==
  LET events == p.conn_subrate_factor * (p.conn_peripheral_latency + 1) IN
  events <= 500 /\ p.conn_interval * events < 4 * p.conn_supervision_timeout

\* The parameters recorded at either end are always ones that the link could use.
ParametersValid == ValidParameters(C.parameters) /\ ValidParameters(P.parameters)

(* The record of a central that uses LE Connection Update is left behind; a *)
(* subrate request is checked against parameters that an update on its way  *)
(* replaces.                                                                *)
Updated == "UPDATE" \in usage.host["CENTRAL"]
Crossing == \A kind \in {"UPDATE", "SUBRATE"} : \E c \in Ctrl : kind \in usage.host[c]
OneKey == usage.keys["CENTRAL"] = usage.keys["PERIPHERAL"] /\ Cardinality(usage.keys["CENTRAL"]) = 1

\* The state keeps its type.  When nothing is under way both ends agree on the
\* link, in whatever order their procedures crossed: each sends on the PHY on which
\* the other receives, and its host was told so; they have the same connection and
\* subrate parameters (unless the central uses LE Connection Update, which leaves
\* its own record behind), and valid ones (unless updates cross subrate requests);
\* both are encrypted or none, for hosts that share one key; every ACL packet has
\* arrived.
LinkAgrees ==
  /\ TypeOK
  /\ Crossing \/ ParametersValid
  /\ \A c \in Ctrl : ctl[c].toldPhys = <<ctl[c].tx_phy_, ctl[c].rx_phy_>>
  /\ Quiet =>
       /\ C.tx_phy_ = P.rx_phy_ /\ C.rx_phy_ = P.tx_phy_
       /\ ~Updated => C.parameters = P.parameters
       /\ OneKey => C.encrypted_ = P.encrypted_
       /\ C.received = P.sent /\ P.received = C.sent

\* The hosts coordinate, and a configuration they have agreed on stays.
Coordinating ==
  usage.coordinated /\ \A c \in Ctrl : "REMOVE" \notin usage.host[c]

\* No answer is lost: once nothing is under way every command of a host has been
\* completed, unless the other host has still to answer a parameter or key
\* request.  Of channel sounding this needs hosts that coordinate, remove no
\* configuration and both support it: a refused LL_CS_REQ, and a refusal with
\* config id 0, leave the host without its event.
AllAnswered ==
  Quiet =>
    \A c \in Ctrl : \A w \in ctl[c].awaiting :
      \/ w[1] = "UPDATE" /\ "UPDATE" \in ctl[Peer(c)].requests
      \/ w[1] = "ENCRYPTION" /\ "LTK" \in ctl[Peer(c)].requests
      \/ w[1] \in {"CONFIG", "START", "STOP"} /\ ~(Coordinating /\ usage.support = Ctrl)

Paired(id) ==
  HasConfig(C, id) /\ HasConfig(P, id) /\ C.config_map[id].role # P.config_map[id].role

\* When nothing is under way the two ends agree on channel sounding, for hosts
\* that coordinate and remove none: a configuration is at both ends, with the same parameters and
\* opposite roles, or at none, even where the peer refuses what the creator
\* stored before asking; security is on at both or at none, and no refusal left
\* it half on; the same procedures are started.  (A peer without host support
\* refuses every configuration with config id 0, and others than 0 are kept.)
SoundingAgrees ==
  Quiet /\ Coordinating =>
    /\ \A id \in ConfigIds : usage.support = Ctrl \/ id = 0 =>
         \/ Paired(id) /\ C.config_map[id].params = P.config_map[id].params
         \/ ~HasConfig(C, id) /\ ~HasConfig(P, id)
    /\ C.security_enabled = P.security_enabled
    /\ C.started = P.started

\* The configuration is at both ends in opposite roles, both ends have an
\* initialization vector and the FAE table of the other.
BothReady(id) ==
  Paired(id) /\ C.iv /\ P.iv /\ C.remote_fae_table /\ P.remote_fae_table

\* A host is told that a procedure is started only when both ends are ready.
StartedEverReady == \A c \in Ctrl : \A id \in ctl[c].started : BothReady(id)

\* The central leaves configurations and the start of procedures to the peripheral.
PeripheralStarts == usage.host["CENTRAL"] \cap {"CONFIG", "REMOVE", "START"} = {}

\* A host is told that a procedure is started only when it can run.  For hosts that
\* coordinate both ends are ready, and the event never reads procedure parameters
\* that are not there.  Where only the peripheral starts procedures its host may do
\* so at any time: the checks of IncomingLlCsReq then guarantee that the central has
\* the configuration, an initialization vector and the FAE table, and on a link
\* that was encrypted LL_CS_SEC_REQ has reached the peripheral before LL_CS_IND.
\* (A start by a central whose host does not coordinate is reported even if the
\* peripheral refuses it: IncomingLlCsRsp.)
StartedIsReady ==
  /\ Coordinating => Alive /\ StartedEverReady
  /\ PeripheralStarts =>
       /\ \A c \in Ctrl : \A id \in ctl[c].started : HasConfig(C, id) /\ C.iv /\ C.remote_fae_table
       /\ usage.encrypted /\ P.started # {} => P.iv
=============================================================================
