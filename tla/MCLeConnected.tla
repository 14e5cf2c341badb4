--------------------------- MODULE MCLeConnected ---------------------------
(* TLC instances of LeConnected.                                           *)
EXTENDS LeConnected, TLC

CONSTANTS K1, K2

AllPhys == {"LE_1M", "LE_2M", "LE_CODED"}
Preferences == {{"LE_1M"}, {"LE_2M", "LE_CODED"}}
Updates == {[interval |-> 6, latency |-> 0, timeout |-> 400],
            [interval |-> 800, latency |-> 1, timeout |-> 401]}
\* The last one is just out of range.
Replies == Updates \cup {[interval |-> 800, latency |-> 1, timeout |-> 400]}
SubrateDefaults == [min |-> 1, max |-> 8, latency |-> 0, continuation |-> 1, timeout |-> 3200]
Subrates == {SubrateDefaults,
             [min |-> 1, max |-> 1, latency |-> 0, continuation |-> 0, timeout |-> 1700],
             [min |-> 2, max |-> 8, latency |-> 0, continuation |-> 1, timeout |-> 100]}
Initially == Parameters(800, 1, 0, 0, 400)

AllTypes == {"RTT_AA_ONLY", "RTT_SOUNDING", "RTT_RANDOM"}
DefaultCapabilities == Capabilities(3, CsRole, {0}, AllTypes, {0}, FALSE)
OldCapabilities == {Capabilities(3, CsRole, {}, AllTypes, {}, TRUE)}

Mode(main, sub) ==
  [main |-> main, sub |-> sub, minSteps |-> 2, maxSteps |-> 3, repetition |-> 0, mode0 |-> 1,
   mapRepetition |-> 1, rtt |-> "RTT_AA_ONLY", phy |-> "LE_1M", type |-> "TYPE_3C", jump |-> 2,
   channels |-> 15, reserved |-> FALSE]
Channels == {14, 72}
Configs == {Mode(1, Unused), Mode(3, 2), [Mode(1, Unused) EXCEPT !.channels = 14]}
Procedures == {[minSubevent |-> 1250, maxSubevent |-> 1250, phy |-> "LE_1M"],
               [minSubevent |-> 1250, maxSubevent |-> 1250, phy |-> "LE_2M"]}

Both(kinds) == [c \in Ctrl |-> kinds]
Nothing == [host |-> Both({}), keys |-> Both({K1}), encrypted |-> FALSE, masked |-> FALSE,
            support |-> Ctrl, subrate |-> SubrateDefaults, ids |-> {1}, coordinated |-> TRUE]

\* Both ends change PHYs.
Fast == [Nothing EXCEPT !.host = Both({"PHY", "DEFAULT_PHY"})]
\* Both subrate; the peripheral asks for parameters; it does both; the central
\* updates too.
Subrating == [Nothing EXCEPT !.host = Both({"SUBRATE"})]
Asking == [Nothing EXCEPT !.host["PERIPHERAL"] = {"UPDATE"}]
Tuning == [Nothing EXCEPT !.host = ("CENTRAL" :> {"SUBRATE"} @@ "PERIPHERAL" :> {"SUBRATE", "UPDATE"})]
Refusing == [Tuning EXCEPT !.masked = TRUE]
Updating == [Tuning EXCEPT !.host = Both({"SUBRATE", "UPDATE"})]
\* Encryption, refreshed, while CS security is enabled; with one key, and with two.
Securing == [Nothing EXCEPT !.host = ("CENTRAL" :> {"ENCRYPTION", "SECURITY", "FEATURES", "CAPABILITIES"} @@
                                      "PERIPHERAL" :> {"CAPABILITIES", "DATA", "FAE"})]
Mistaken == [Securing EXCEPT !.keys = Both({K1, K2}), !.host["CENTRAL"] = {"ENCRYPTION", "SECURITY"}]
Unsupporting == [Securing EXCEPT !.support = {"CENTRAL"}, !.encrypted = TRUE, !.ids = {0, 1},
                                 !.host["CENTRAL"] = @ \cup {"FAE", "CACHE", "CONFIG"}]
Talking == [Nothing EXCEPT !.host = Both({"FEATURES", "VERSION", "POWER", "DATA"})]
\* Channel sounding from capabilities to procedures.
Sounding == [Nothing EXCEPT !.encrypted = TRUE,
               !.host = ("CENTRAL" :> {"CAPABILITIES", "CONFIG", "SECURITY", "FAE", "PROCEDURE", "START"} @@
                         "PERIPHERAL" :> {"CACHE", "CONFIG", "CHANNELS", "FAE", "PROCEDURE", "START", "STOP"})]
Removing == [Nothing EXCEPT !.coordinated = FALSE,
               !.host = ("CENTRAL" :> {"CAPABILITIES", "CONFIG", "REMOVE"} @@
                         "PERIPHERAL" :> {"CONFIG", "LOCAL", "CHANNELS"})]

\* Only the peripheral's host configures and starts, and does not wait for the other.
Pulling == [Nothing EXCEPT !.coordinated = FALSE, !.encrypted = TRUE,
              !.host = ("CENTRAL" :> {"SECURITY", "FAE", "PROCEDURE"} @@
                        "PERIPHERAL" :> {"CACHE", "CONFIG", "FAE", "PROCEDURE", "START"})]

AllHosts == {Fast, Subrating, Asking, Tuning, Refusing, Updating, Securing, Mistaken,
             Unsupporting, Talking, Sounding, Removing, Pulling}

\* The central updates the parameters of the connection.
UpdatingHosts == {Updating}
\* The central starts a procedure when it has done its own part.
Hasty == [Sounding EXCEPT !.coordinated = FALSE]
HastyHosts == {Hasty}
=============================================================================
