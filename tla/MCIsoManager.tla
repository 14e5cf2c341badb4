---------------------------- MODULE MCIsoManager ----------------------------
(***************************************************************************)
(* TLC instance of the isochronous manager: LeIso, LeBig and               *)
(* IsoParameters side by side.  The three share no state, so that a        *)
(* behaviour follows one of them and the others keep their initial state.  *)
(***************************************************************************)
EXTENDS LeIso

CONSTANTS l1, l2, g1, g2, s1, s2, BigHandles, AdvertisingHandles, BisHandles, MaxBis

VARIABLES
  part,                                          \* the part this behaviour follows
  trains, big_config, bis_connections, bigHost,  \* LeBig
  input, result                                  \* IsoParameters

B == INSTANCE LeBig WITH host <- bigHost

ASSUME BigAssumption == B!ParameterAssumption

\* The source's constants.  The least common multiple of the slot and two of the last three
\* intervals exceeds 32 bits; of 400001 and 7500 only twice of it does.
P == INSTANCE IsoParameters WITH
       Slot <- 1250, MaxSlots <- 65535,
       MinSduInterval <- 255, MaxSduInterval <- 1048575,
       MinLatency <- 5000, MaxLatency <- 4000000,
       Intervals <- {0, 254, 7500, 10000, 215250, 400001, 998000},
       Latencies <- {4000, 20000, 4000000},
       Sdus <- {0, 251, 252}, Framings <- {FALSE, TRUE}

\* Two CISes of one CIG, or one of each of two CIGs.
OneCig == {<<g1, s1>>, <<g1, s2>>}
TwoCigs == {<<g1, s1>>, <<g2, s1>>}

\* The central disconnects CISes; the peripherals do; neither waits for the other.
AllUsages ==
  {[links |-> {l1, l2}, streams |-> OneCig, bound |-> 2,
    commands |-> {"configure", "create", "remove", "withdraw", "acl", "disconnect"}],
   [links |-> {l1}, streams |-> OneCig, bound |-> 3,
    commands |-> {"configure", "create", "remove", "withdraw", "acl", "disconnect"}],
   [links |-> {l1, l2}, streams |-> TwoCigs, bound |-> 2,
    commands |-> {"configure", "create", "remove", "acl", "disconnect"}],
   [links |-> {l1}, streams |-> TwoCigs, bound |-> 2,
    commands |-> {"configure", "create", "remove", "acl", "disconnect"}],
   [links |-> {l1}, streams |-> OneCig, bound |-> 1,
    commands |-> {"configure", "create", "remove", "withdraw", "acl", "terminate", "path"}],
   [links |-> {l1}, streams |-> OneCig, bound |-> 1,
    commands |-> {"configure", "create", "acl", "disconnect", "terminate", "abort", "overlap"}]}

\* Not in AllUsages: a host that removes a CIG whose request is queued.
HastyUsages ==
  {[links |-> {l1}, streams |-> TwoCigs, bound |-> 2,
    commands |-> {"configure", "create", "remove", "withdraw"}]}

NoInput == [sdu_interval |-> [d \in P!Dirs |-> 0], latency |-> [d \in P!Dirs |-> 0],
            max_sdu |-> [d \in P!Dirs |-> 0], framed |-> FALSE]

MCInit ==
  /\ Init /\ B!Init /\ result = P!Outcome("none")
  /\ \/ part = "cis" /\ input = NoInput
     \/ part = "big" /\ input = NoInput /\ usage = CHOOSE u \in Usages : TRUE
     \/ part = "parameters" /\ input \in P!Inputs /\ usage = CHOOSE u \in Usages : TRUE

bigVars == <<trains, big_config, bis_connections, bigHost>>
parameterVars == <<input, result>>

MCNext ==
  /\ \/ part = "cis" /\ Next /\ UNCHANGED <<bigVars, parameterVars>>
     \/ part = "big" /\ B!Next /\ UNCHANGED <<vars, parameterVars>>
     \/ part = "parameters" /\ P!Next /\ UNCHANGED <<vars, bigVars>>
  /\ UNCHANGED part

allVars == <<part, vars, bigVars, parameterVars>>
others == <<part, usage, bigVars, parameterVars>>

\* FairSpec of LeIso.
MCSpec ==
  /\ MCInit /\ [][MCNext]_allVars
  /\ \A l \in Links : /\ WF_allVars(part = "cis" /\ CentralReceives(l) /\ UNCHANGED others)
                      /\ WF_allVars(part = "cis" /\ PeripheralReceives(l) /\ UNCHANGED others)
                      /\ WF_allVars(/\ part = "cis" /\ UNCHANGED others
                                    /\ \E h \in Handles : Answer(l, h))

\* The BIS table of LeBig holds exactly the BISes of the BIGs that exist, and no two
\* BIGs use one periodic advertising train.
BisesOfBigs == B!BisesOfBigs
\* Interval, bursts and transport latency of an accepted CIG are what the host asked for.
ParametersDeliver == P!ParametersDeliver
\* iso_interval returns the least interval that suits unframed PDUs, for all intervals: "Unframed
\* PDUs shall only be used when the ISO_Interval is equal to or an integer multiple of the
\* SDU_Interval".  The code does not keep it where the least common multiple wraps.
IntervalAlwaysLeast == P!IntervalIsLeast
=============================================================================
