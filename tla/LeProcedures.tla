---------------------------- MODULE LeProcedures ----------------------------
(***************************************************************************)
(* The procedures of the link layer on an LE-ACL connection that is up:    *)
(* PHY update, connection parameters, subrating, encryption, the exchange  *)
(* of features and versions, transmit power, ACL data.  They are written   *)
(* as operators from the state s of one end of the connection to its state *)
(* after a command of its host or a packet of its peer; LeConnected puts   *)
(* them together with those of LeChannelSounding.                          *)
(*                                                                         *)
(* What an end sends, and the events it defers, are appended to s.tasks.   *)
(* s.awaiting has the commands of the host whose completion it awaits, and *)
(* s.requests what its controller has asked the host.  A command that the  *)
(* code refuses leaves s as it is, so that its conditions are operators of *)
(* their own that the host commands have as guards.                        *)
(***************************************************************************)
EXTENDS Integers, Sequences

CONSTANTS
  None,              \* the empty optional
  Phys,              \* the PHYs the controllers support
  Keys               \* long term keys

CentralOrPeripheral == {"CENTRAL", "PERIPHERAL"}

(* A packet, an event (v is the kind of command it completes) or a deferred *)
(* command.  id is the CS configuration it is about, or 0.                  *)
Task(type, ok, id, v) == [type |-> type, ok |-> ok, id |-> id, v |-> v]

Send(s, type, ok, v) == [s EXCEPT !.tasks = Append(@, Task(type, ok, 0, v))]
Later(s, kind, id) == [s EXCEPT !.tasks = Append(@, Task("EVENT", TRUE, id, kind))]

Await(s, kind, id) == [s EXCEPT !.awaiting = @ \cup {<<kind, id>>}]
Tell(s, kind, id) == [s EXCEPT !.awaiting = @ \ {<<kind, id>>}]

-----------------------------------------------------------------------------
(* PHY update.                                                             *)

ValidPhys(tx, rx) == tx # {} /\ rx # {} /\ tx \cup rx \subseteq Phys

LeSetDefaultPhy(s, tx, rx) == [s EXCEPT !.default_tx_phys_ = tx, !.default_rx_phys_ = rx]

LeSetPhy(s, tx, rx) ==
  [Await(Send(s, "LL_PHY_REQ", TRUE, [tx |-> tx, rx |-> rx]), "PHY", 0) EXCEPT
     !.initiated_phy_update_ = TRUE, !.requested_tx_phys_ = tx, !.requested_rx_phys_ = rx]

SelectPhy(phys, current) ==
  CASE "LE_CODED" \in phys -> "LE_CODED"
    [] "LE_CODED" \notin phys /\ "LE_2M" \in phys -> "LE_2M"
    [] phys \cap {"LE_CODED", "LE_2M"} = {} /\ "LE_1M" \in phys -> "LE_1M"
    [] OTHER -> current

IndicatePhy(selected, current) == {selected} \ {current}

\* LePhyUpdateComplete, and SetTxPhy and SetRxPhy.
PhyUpdateComplete(s, tx, rx, report) ==
  [IF report THEN Tell(s, "PHY", 0) ELSE s EXCEPT
     !.tx_phy_ = tx, !.rx_phy_ = rx, !.toldPhys = IF report THEN <<tx, rx>> ELSE @]

\* The central selects PHYs among tx and rx, indicates and applies them.
UpdatePhys(s, txPhys, rxPhys, always) ==
  LET tx == SelectPhy(txPhys, s.tx_phy_)
      rx == SelectPhy(rxPhys, s.rx_phy_)
      u == Send(s, "LL_PHY_UPDATE_IND", TRUE, [tx |-> IndicatePhy(tx, s.tx_phy_),
                                               rx |-> IndicatePhy(rx, s.rx_phy_)])
  IN  PhyUpdateComplete(u, tx, rx, always \/ <<tx, rx>> # <<s.tx_phy_, s.rx_phy_>>)

IncomingLlPhyReq(s, v) ==
  IF s.role = "PERIPHERAL"
  THEN Send(s, "LL_PHY_RSP", TRUE, [tx |-> s.default_tx_phys_, rx |-> s.default_rx_phys_])
  ELSE UpdatePhys(s, v.rx \cap s.default_tx_phys_, v.tx \cap s.default_rx_phys_, FALSE)

IncomingLlPhyRsp(s, v) ==
  [UpdatePhys(s, v.rx \cap s.requested_tx_phys_, v.tx \cap s.requested_rx_phys_, TRUE)
     EXCEPT !.initiated_phy_update_ = FALSE]

IncomingLlPhyUpdateInd_SameWay(s, v) ==
  LET tx == SelectPhy(v.tx, s.tx_phy_)
      rx == SelectPhy(v.rx, s.rx_phy_)
      changed == <<tx, rx>> # <<s.tx_phy_, s.rx_phy_>>
  IN  [PhyUpdateComplete(s, tx, rx, changed \/ s.initiated_phy_update_)
         EXCEPT !.initiated_phy_update_ = FALSE]

IncomingLlPhyUpdateInd(s, v) ==
  LET tx == SelectPhy(v.rx, s.tx_phy_)
      rx == SelectPhy(v.tx, s.rx_phy_)
      changed == <<tx, rx>> # <<s.tx_phy_, s.rx_phy_>>
  IN  [PhyUpdateComplete(s, tx, rx, changed \/ s.initiated_phy_update_)
         EXCEPT !.initiated_phy_update_ = FALSE]

-----------------------------------------------------------------------------
(* Connection parameters.                                                  *)

\* interval in units of 1.25 ms, timeout of 10 ms.
Parameters(interval, factor, continuation, latency, timeout) ==
  [conn_interval |-> interval, conn_subrate_factor |-> factor,
   conn_continuation_number |-> continuation, conn_peripheral_latency |-> latency,
   conn_supervision_timeout |-> timeout]

\* The central updates the parameters of its peer; its own record is left alone.
LeConnectionUpdate(s, v) ==
  IF s.role = "CENTRAL"
  THEN Send(s, "LE_CONNECTION_PARAMETER_UPDATE", TRUE, v)
  ELSE Await(Send(s, "LE_CONNECTION_PARAMETER_REQUEST", TRUE, v), "UPDATE", 0)

IncomingLeConnectionParameterRequest(s) ==
  IF s.masked THEN Send(s, "LE_CONNECTION_PARAMETER_UPDATE", FALSE, None)
  ELSE [s EXCEPT !.requests = @ \cup {"UPDATE"}]

ValidReply(v) ==
  /\ v.interval \in 6..3200 /\ v.latency <= 499 /\ v.timeout \in 10..3200
  /\ v.timeout > ((((1 + v.latency) * v.interval * 10) \div 4) \div 10)

LeRemoteConnectionParameterRequestReply(s, v) ==
  [Send(s, "LE_CONNECTION_PARAMETER_UPDATE", TRUE, v) EXCEPT
     !.parameters = Parameters(v.interval, 1, 0, v.latency, v.timeout),
     !.requests = @ \ {"UPDATE"}]

LeRemoteConnectionParameterRequestNegativeReply(s) ==
  [Send(s, "LE_CONNECTION_PARAMETER_UPDATE", FALSE, None) EXCEPT !.requests = @ \ {"UPDATE"}]

IncomingLeConnectionParameterUpdate(s, ok, v) ==
  LET u == Tell(s, "UPDATE", 0) IN
  IF ok THEN [u EXCEPT !.parameters = Parameters(v.interval, 1, 0, v.latency, v.timeout)] ELSE u

-----------------------------------------------------------------------------
(* Subrating.                                                              *)

SubrateRanges(v) ==
  /\ v.min \in 1..500 /\ v.max \in 1..500 /\ v.min <= v.max
  /\ v.latency <= 499 /\ v.continuation <= 499 /\ v.timeout \in 10..3200

\* The acceptable parameters of a new connection.
LeSetDefaultSubrate(s, v) ==
  IF SubrateRanges(v) THEN [s EXCEPT !.subrate_parameters = v] ELSE s

ValidSubrate(s, v) ==
  /\ SubrateRanges(v)
  /\ v.max * (v.latency + 1) <= 500
  /\ s.parameters.conn_interval * v.max * (v.latency + 1) < v.timeout \div 2
  /\ v.continuation < v.max

Subrated(s, factor, continuation, latency, timeout) ==
  [s EXCEPT !.parameters = Parameters(@.conn_interval, factor, continuation, latency, timeout)]

LeSubrateRequest(s, v) ==
  IF s.role = "CENTRAL"
  THEN LET u == Subrated(s, v.max, v.continuation, v.latency, v.timeout)
           sent == Send(u, "LL_SUBRATE_IND", TRUE, u.parameters)
       IN  Await(Later([sent EXCEPT !.subrate_parameters = v], "SUBRATE", 0), "SUBRATE", 0)
  ELSE Await(Send(s, "LL_SUBRATE_REQ", TRUE, v), "SUBRATE", 0)

AcceptableSubrate(s, v) ==
  LET acc == s.subrate_parameters IN
  /\ v.max >= acc.min /\ v.min <= acc.max
  /\ v.latency <= acc.latency /\ v.timeout <= acc.timeout
  /\ s.parameters.conn_interval * v.min * (v.latency + 1) * 2 >= v.timeout

LeastOf(a, b) == IF a <= b THEN a ELSE b
MostOf(a, b) == IF a <= b THEN b ELSE a

\* The deferred event goes before the indication.
IncomingLlSubrateReq(s, v) ==
  LET acc == s.subrate_parameters
      factor == LeastOf(v.max, acc.max)
      u == Subrated(s, factor,
                    LeastOf(MostOf(v.continuation, acc.continuation), factor - 1),
                    LeastOf(v.latency, acc.latency), LeastOf(v.timeout, acc.timeout))
  IN  IF AcceptableSubrate(s, v)
      THEN Send(Later(u, "SUBRATE", 0), "LL_SUBRATE_IND", TRUE, u.parameters)
      ELSE Send(s, "LL_SUBRATE_IND", FALSE, None)

IncomingLlSubrateInd_ErrorIgnored(s, ok, v) ==
  IF ok THEN Later(Subrated(s, v.conn_subrate_factor, v.conn_continuation_number,
                            v.conn_peripheral_latency, v.conn_supervision_timeout), "SUBRATE", 0)
  ELSE s

IncomingLlSubrateInd(s, ok, v) ==
  Later(IF ok THEN Subrated(s, v.conn_subrate_factor, v.conn_continuation_number,
                            v.conn_peripheral_latency, v.conn_supervision_timeout)
        ELSE s, "SUBRATE", 0)

-----------------------------------------------------------------------------
(* Encryption.                                                             *)

LeEnableEncryption(s, key) ==
  Await([s EXCEPT !.tasks = Append(@, Task("ENABLE_ENCRYPTION", TRUE, 0, key))], "ENCRYPTION", 0)

HandleLeEnableEncryption(s, key) ==
  Send([s EXCEPT !.ltk = key], "LE_ENCRYPT_CONNECTION", TRUE, key)

IncomingLeEncryptConnection(s, key) ==
  [s EXCEPT !.ltk = key, !.requests = @ \cup {"LTK"}]

\* The key of the request is not compared with that of the host.
LeLongTermKeyRequestReply(s, key) ==
  [Send(s, "LE_ENCRYPT_CONNECTION_RESPONSE", TRUE, key) EXCEPT
     !.encrypted_ = TRUE, !.requests = @ \ {"LTK"}]

LeLongTermKeyRequestNegativeReply(s) ==
  [Send(s, "LE_ENCRYPT_CONNECTION_RESPONSE", FALSE, None) EXCEPT !.requests = @ \ {"LTK"}]

IncomingLeEncryptConnectionResponse(s, ok, key) ==
  LET success == ok /\ (s.ltk = None \/ s.ltk = key) IN
  [Tell(s, "ENCRYPTION", 0) EXCEPT !.encrypted_ = @ \/ success]

-----------------------------------------------------------------------------
(* Features, version, transmit power, data.                                *)

LeReadRemoteFeaturesPage0(s) ==
  Await(Send(s, "LE_READ_REMOTE_FEATURES", TRUE, None), "FEATURES", 0)

\* Of the features only Channel Sounding (Host Support) is used.
IncomingLeReadRemoteFeatures(s) ==
  Send(s, "LE_READ_REMOTE_FEATURES_RESPONSE", TRUE, s.channel_sounding_host_support_)

IncomingLeReadRemoteFeaturesResponse(s, v) ==
  [Tell(s, "FEATURES", 0) EXCEPT !.remote_supported_features = v]

ReadRemoteVersionInformation(s) ==
  Await(Send(s, "READ_REMOTE_VERSION_INFORMATION", TRUE, None), "VERSION", 0)

IncomingReadRemoteVersion(s) ==
  Send(s, "READ_REMOTE_VERSION_INFORMATION_RESPONSE", TRUE, None)

IncomingReadRemoteVersionResponse(s) == Tell(s, "VERSION", 0)

LeReadRemoteTransmitPowerLevel(s) == Await(Later(s, "POWER", 0), "POWER", 0)

\* The packet is acknowledged when it has been sent, delivered or not.
HandleAcl(s) == Await(Later(Send(s, "ACL", TRUE, None), "DATA", 0), "DATA", 0)

IncomingLeAclPacket(s) == [s EXCEPT !.received = @ + 1]
=============================================================================
