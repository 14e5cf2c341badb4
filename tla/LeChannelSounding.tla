------------------------- MODULE LeChannelSounding -------------------------
(***************************************************************************)
(* Channel sounding on an LE-ACL connection: capabilities, FAE table,      *)
(* configurations, security, procedure parameters, start and termination,  *)
(* as operators on the state s of one end of the connection (see           *)
(* LeProcedures).                                                          *)
(*                                                                         *)
(* The packets carry the values of the code: where the receiver reads a    *)
(* field with another enumeration than the sender wrote it with, so do the *)
(* operators here.  Capabilities are those that a check in the code reads. *)
(* A channel map is its number of channels.  Antennas and timings are left *)
(* out, and so are the results of a procedure, which rootcanal does not    *)
(* produce.                                                                *)
(***************************************************************************)
EXTENDS LeProcedures

CONSTANTS
  ConfigIds,         \* CS configuration ids, 0 included
  LocalCapabilities  \* cs_local_supported_capabilities of the controllers

CsRole == {"INITIATOR", "REFLECTOR"}
Complement(role) == CHOOSE r \in CsRole : r # role

(* The parameters of a configuration; main and sub modes are the numbers of *)
(* the enumerations, 0xff for an unused sub mode; channels the number of    *)
(* channels of the map, reserved whether one of them is reserved.           *)
Unused == 255

\* modes and phys are the bits that are set, rtt the types of a non-zero count.
Capabilities(configs, roles, modes, rtt, phys, noFae) ==
  [num_config_supported |-> configs, roles_supported |-> roles, modes_supported |-> modes,
   rtt |-> rtt, cs_sync_phys_supported |-> phys, no_fae |-> noFae]

CsPacket(s, type, ok, id, v) == [s EXCEPT !.tasks = Append(@, Task(type, ok, id, v))]

HasConfig(s, id) == s.config_map[id] # None
NoConfigs(s) == \A id \in ConfigIds : ~HasConfig(s, id)

-----------------------------------------------------------------------------
(* Capabilities, settings and FAE table.                                   *)

MayReadCapabilities(s) == s.channel_sounding_host_support_ /\ s.remote_supported_features # FALSE

LeCsReadRemoteSupportedCapabilities(s) ==
  Await(IF s.remote_cs_capabilities # None THEN Later(s, "CAPABILITIES", 0)
        ELSE CsPacket(s, "LL_CS_CAPABILITIES_REQ", TRUE, 0, LocalCapabilities),
        "CAPABILITIES", 0)

MayWriteCapabilities(s) ==
  s.channel_sounding_host_support_ /\ s.remote_cs_capabilities = None /\ NoConfigs(s)

LeCsWriteCachedRemoteSupportedCapabilities(s, caps) ==
  [s EXCEPT !.remote_cs_capabilities = caps]

IncomingLlCsCapabilitiesReq(s, caps) ==
  IF ~s.channel_sounding_host_support_
  THEN CsPacket(s, "LL_CS_CAPABILITIES_RSP", FALSE, 0, LocalCapabilities)
  ELSE LET u == CsPacket(s, "LL_CS_CAPABILITIES_RSP", TRUE, 0, LocalCapabilities)
       IN  Tell([u EXCEPT !.remote_cs_capabilities = caps], "CAPABILITIES", 0)

IncomingLlCsCapabilitiesRsp(s, ok, caps) ==
  Tell(IF ok THEN [s EXCEPT !.remote_cs_capabilities = caps] ELSE s, "CAPABILITIES", 0)

MaySetDefaults(s, roles) ==
  (roles = {} => NoConfigs(s)) /\ roles \subseteq LocalCapabilities.roles_supported

LeCsSetDefaultSettings(s, roles) == [s EXCEPT !.role_enable = roles]

\* The remote controller is known to have no FAE table.
NoFae(s) == s.remote_cs_capabilities # None /\ s.remote_cs_capabilities.no_fae

MayReadFaeTable(s) == s.channel_sounding_host_support_ /\ ~NoFae(s)

LeCsReadRemoteFaeTable(s) ==
  Await(IF s.remote_fae_table THEN Later(s, "FAE", 0)
        ELSE CsPacket(s, "LL_CS_FAE_REQ", TRUE, 0, None), "FAE", 0)

MayWriteFaeTable(s) == ~NoFae(s) /\ ~s.remote_fae_table /\ NoConfigs(s)

LeCsWriteCachedRemoteFaeTable(s) == [s EXCEPT !.remote_fae_table = TRUE]

IncomingLlCsFaeReq(s) ==
  CsPacket(s, "LL_CS_FAE_RSP", s.channel_sounding_host_support_, 0, None)

IncomingLlCsFaeRsp(s, ok) == [Tell(s, "FAE", 0) EXCEPT !.remote_fae_table = @ \/ ok]

-----------------------------------------------------------------------------
(* Configurations.                                                         *)

\* The conditions that do not depend on the controllers.
ValidConfig(id, p) ==
  /\ id <= 3
  /\ p.main \in 1..3 /\ p.sub \in {1, 2, 3, Unused}
  /\ p.repetition <= 3 /\ p.mode0 \in 1..3 /\ p.mapRepetition >= 1
  /\ p.type = "TYPE_3C" => p.jump \in 2..8
  /\ p.sub # Unused => 1 <= p.minSteps /\ p.minSteps <= p.maxSteps

ValidChannelsAndModes(p) ==
  /\ ~p.reserved /\ p.channels >= 15
  /\ p.sub = Unused \/ <<p.main, p.sub>> \in {<<2, 1>>, <<2, 3>>, <<3, 2>>}

\* What a controller must support for a configuration in which it has this role.
SupportsModes(caps, p) == p.main = 3 \/ p.sub = 3 => 0 \in caps.modes_supported
SupportsRtt(caps, p) == p.rtt \in caps.rtt
SupportsPhy(caps, p) ==
  \/ p.phy = "LE_1M"
  \/ p.phy = "LE_2M" /\ 1 \in caps.cs_sync_phys_supported
  \/ p.phy = "LE_2M_2BT" /\ 2 \in caps.cs_sync_phys_supported

SupportedConfig(caps, id, role, p) ==
  /\ id < caps.num_config_supported
  /\ role \in caps.roles_supported
  /\ SupportsModes(caps, p) /\ SupportsRtt(caps, p) /\ SupportsPhy(caps, p)

MayCreateConfig(s, id, role, p) ==
  /\ s.remote_cs_capabilities # None
  /\ role \in s.role_enable
  /\ ValidConfig(id, p) /\ ValidChannelsAndModes(p)
  /\ SupportedConfig(LocalCapabilities, id, role, p)
  /\ SupportedConfig(s.remote_cs_capabilities, id, Complement(role), p)
  /\ p.type = "TYPE_3C"

NewConfig(role, p) == [role |-> role, params |-> p, enabled |-> FALSE, procedure |-> FALSE]

\* The configuration is there before the peer has agreed to it.
LeCsCreateConfig(s, id, role, p, both) ==
  LET u == [s EXCEPT !.config_map[id] = NewConfig(role, p)] IN
  Await(IF both
        THEN CsPacket(u, "LL_CS_CONFIG_REQ", TRUE, id, [action |-> "CREATE", role |-> role, params |-> p])
        ELSE Later(u, "CONFIG", id), "CONFIG", id)

\* The parameters of a request to remove a configuration.
RemovedParams ==
  [main |-> 1, sub |-> Unused, minSteps |-> 0, maxSteps |-> 0, repetition |-> 0, mode0 |-> 0,
   mapRepetition |-> 0, rtt |-> "RTT_AA_ONLY", phy |-> "LE_1M", type |-> "TYPE_3B", jump |-> 0,
   channels |-> 0, reserved |-> FALSE]

LeCsRemoveConfig(s, id) ==
  LET u == [s EXCEPT !.config_map[id] = None] IN
  Await(CsPacket(u, "LL_CS_CONFIG_REQ", TRUE, id,
                 [action |-> "REMOVE", role |-> "INITIATOR", params |-> RemovedParams]),
        "CONFIG", id)

\* The role of the peer (0 and 1) is read as a role supported (1 and 2), and its
\* main mode as a mode supported, where MODE_3 is 1.
AcceptableConfig(caps, role, p) ==
  /\ role \in caps.roles_supported
  /\ p.main = 1 /\ 0 \in caps.modes_supported
  /\ p.sub \in {2, Unused}
  /\ SupportsRtt(caps, p) /\ SupportsPhy(caps, p)
  /\ p.type = "TYPE_3C" /\ p.jump \in 2..8

\* Every refusal is answered with the id but the first one.
IncomingLlCsConfigReq(s, id, v) ==
  LET accepted == AcceptableConfig(LocalCapabilities, v.role, v.params)
      u == [s EXCEPT !.config_map[id] = IF v.action = "CREATE"
                                        THEN NewConfig(Complement(v.role), v.params) ELSE None]
  IN  CASE ~s.channel_sounding_host_support_ -> CsPacket(s, "LL_CS_CONFIG_RSP", FALSE, 0, None)
        [] s.channel_sounding_host_support_ /\ ~accepted ->
             CsPacket(s, "LL_CS_CONFIG_RSP", FALSE, id, None)
        [] OTHER -> Tell(CsPacket(u, "LL_CS_CONFIG_RSP", TRUE, id, None), "CONFIG", id)

IncomingLlCsConfigRsp_Kept(s, ok, id) == Tell(s, "CONFIG", id)

IncomingLlCsConfigRsp(s, ok, id) ==
  Tell([s EXCEPT !.config_map[id] = IF ok THEN @ ELSE None], "CONFIG", id)

\* The other end takes the classification over where a procedure is enabled.
WithChannels(s, ids, channels) ==
  [s EXCEPT !.config_map = [id \in ConfigIds |-> IF id \in ids /\ HasConfig(s, id)
                                                 THEN [@[id] EXCEPT !.params.channels = channels]
                                                 ELSE @[id]]]

MayClassify(channels, reserved) == ~reserved /\ channels >= 15

LeCsSetChannelClassification(s, channels) ==
  WithChannels(CsPacket(s, "LL_CS_CHANNEL_MAP_IND", TRUE, 0, channels), ConfigIds, channels)

IncomingLlCsChannelMapInd(s, channels) ==
  WithChannels(s, {id \in ConfigIds : HasConfig(s, id) /\ s.config_map[id].enabled}, channels)

-----------------------------------------------------------------------------
(* Security.                                                               *)

MaySecure(s) == s.role = "CENTRAL" /\ s.encrypted_ /\ s.channel_sounding_host_support_

\* iv: the initialization vector is not zero.
LeCsSecurityEnable(s) ==
  Await(CsPacket([s EXCEPT !.iv = TRUE], "LL_CS_SEC_REQ", TRUE, 0, None), "SECURITY", 0)

IncomingLlCsSecurityReq(s) ==
  IF s.channel_sounding_host_support_ /\ s.encrypted_
  THEN Later(CsPacket([s EXCEPT !.iv = TRUE, !.security_enabled = TRUE],
                      "LL_CS_SEC_RSP", TRUE, 0, None), "SECURITY", 0)
  ELSE CsPacket(s, "LL_CS_SEC_RSP", FALSE, 0, None)

IncomingLlCsSecurityRsp(s, ok) ==
  [Tell(s, "SECURITY", 0) EXCEPT !.security_enabled = @ \/ ok]

-----------------------------------------------------------------------------
(* Procedures.                                                             *)

\* q: the procedure parameters that are checked.
MaySetProcedure(s, id, q) ==
  /\ HasConfig(s, id) /\ ~s.config_map[id].enabled
  /\ 1250 <= q.minSubevent /\ q.minSubevent <= q.maxSubevent /\ q.maxSubevent <= 3999999
  /\ \/ q.phy = "LE_1M"
     \/ q.phy = "LE_2M" /\ 2 \in LocalCapabilities.cs_sync_phys_supported
     \/ q.phy = "LE_CODED_S2" /\ 3 \in LocalCapabilities.cs_sync_phys_supported

LeCsSetProcedureParameters(s, id) == [s EXCEPT !.config_map[id].procedure = TRUE]

MayEnable(s, id) ==
  HasConfig(s, id) /\ s.config_map[id].procedure /\ ~s.config_map[id].enabled

LeCsProcedureEnable(s, id, enable) ==
  IF enable
  THEN Await(CsPacket([s EXCEPT !.config_map[id].enabled = TRUE], "LL_CS_REQ", TRUE, id, None),
             "START", id)
  ELSE Await(CsPacket(s, "LL_CS_TERMINATE_REQ", TRUE, id, None), "STOP", id)

\* LE CS Procedure Enable Complete reads the procedure parameters of the
\* configuration, if it is there: without them value() throws.
ReportStart(s, id) ==
  IF ~HasConfig(s, id) THEN s
  ELSE [Tell(s, "START", id) EXCEPT !.started = @ \cup {id},
                                    !.failed = @ \/ ~s.config_map[id].procedure]

IncomingLlCsReq_Unsecured(s, id) ==
  LET refuse(reported) == CsPacket(s, "LL_CS_RSP", FALSE, reported, None) IN
  CASE ~s.channel_sounding_host_support_ \/ ~HasConfig(s, id) -> refuse(0)
    [] s.channel_sounding_host_support_ /\ HasConfig(s, id) /\ ~s.remote_fae_table -> refuse(id)
    [] OTHER -> IF s.role = "PERIPHERAL" THEN CsPacket(s, "LL_CS_RSP", TRUE, id, None)
                ELSE ReportStart(CsPacket(s, "LL_CS_IND", TRUE, id, None), id)

IncomingLlCsReq(s, id) ==
  LET refuse(reported) == CsPacket(s, "LL_CS_RSP", FALSE, reported, None) IN
  CASE ~s.channel_sounding_host_support_ \/ ~HasConfig(s, id) -> refuse(0)
    [] s.channel_sounding_host_support_ /\ HasConfig(s, id)
         /\ (~s.iv \/ ~s.remote_fae_table) -> refuse(id)
    [] OTHER -> IF s.role = "PERIPHERAL" THEN CsPacket(s, "LL_CS_RSP", TRUE, id, None)
                ELSE ReportStart(CsPacket(s, "LL_CS_IND", TRUE, id, None), id)

\* Whatever the status of the response.
IncomingLlCsRsp(s, ok, id) ==
  IF s.channel_sounding_host_support_ /\ s.role = "CENTRAL"
  THEN ReportStart(CsPacket(s, "LL_CS_IND", TRUE, id, None), id)
  ELSE s

IncomingLlCsInd(s, id) ==
  IF s.channel_sounding_host_support_ /\ s.role = "PERIPHERAL" THEN ReportStart(s, id) ELSE s

ReportEnd(s, id) == [Tell(s, "STOP", id) EXCEPT !.started = @ \ {id}]

IncomingLlCsTerminateReq(s, id) ==
  ReportEnd(CsPacket(s, "LL_CS_TERMINATE_RSP", HasConfig(s, id), id, None), id)

IncomingLlCsTerminateRsp(s, id) == ReportEnd(s, id)
=============================================================================
