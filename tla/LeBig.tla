-------------------------------- MODULE LeBig --------------------------------
(***************************************************************************)
(* Broadcast isochronous groups of the IsoManager: LE_Create_BIG,          *)
(* LE_Terminate_BIG and the data paths of their BISes.  The periodic       *)
(* advertising trains a BIG is attached to belong to the controller, which *)
(* the IsoManager asks through get_advertiser_info; they start and stop at *)
(* any time.  Parameters out of range are rejected before anything changes *)
(* and are left out.                                                       *)
(***************************************************************************)
EXTENDS Naturals, FiniteSets

CONSTANTS
  None,
  BigHandles, AdvertisingHandles,
  BisHandles,   \* 0xd00 .. 0xdfe
  MaxBis        \* 0x1f

Big == [advertising_handle : AdvertisingHandles, num_bis : 1 .. MaxBis]
Bis == [big_handle : BigHandles, bis_id : 1 .. MaxBis, advertising_handle : AdvertisingHandles,
        path : BOOLEAN]

\* What the handlers check of their parameters, and that None is neither record.
ParameterAssumption ==
  /\ IsFiniteSet(BisHandles) /\ BisHandles \subseteq Nat /\ MaxBis \in Nat
  /\ None \notin Big \cup Bis

VARIABLES
  trains,            \* advertising sets with periodic advertising enabled
  big_config,        \* [BigHandles -> Big or None]
  bis_connections,   \* [BisHandles -> Bis or None]
  host               \* history: BIS handles in the last LE Create BIG Complete of each BIG

vars == <<trains, big_config, bis_connections, host>>

Init ==
  /\ trains = {}
  /\ big_config = [b \in BigHandles |-> None]
  /\ bis_connections = [h \in BisHandles |-> None]
  /\ host = [b \in BigHandles |-> {}]

Free == {h \in BisHandles : bis_connections[h] = None}
Rank(h) == Cardinality({k \in Free : k <= h})

\* The train is not associated with another BIG.
TrainFree(b, a) ==
  \A c \in BigHandles : big_config[c] # None => big_config[c].advertising_handle # a

\* Bound: new_bis_connection_handle panics when the handles run out.
LeCreateBig(b, a, n) ==
  /\ big_config[b] = None
  /\ a \in trains
  /\ TrainFree(b, a)
  /\ n <= Cardinality(Free)
  /\ big_config' = [big_config EXCEPT ![b] = [advertising_handle |-> a, num_bis |-> n]]
  /\ bis_connections' =
       [h \in BisHandles |->
          IF h \in Free /\ Rank(h) <= n
          THEN [big_handle |-> b, bis_id |-> Rank(h), advertising_handle |-> a, path |-> FALSE]
          ELSE bis_connections[h]]
  /\ host' = [host EXCEPT ![b] = {h \in Free : Rank(h) <= n}]
  /\ UNCHANGED trains

LeTerminateBig_KeepsBises(b) ==
  /\ big_config[b] # None
  /\ big_config' = [big_config EXCEPT ![b] = None]
  /\ host' = [host EXCEPT ![b] = {}]
  /\ UNCHANGED <<trains, bis_connections>>

LeTerminateBig(b) ==
  /\ big_config[b] # None
  /\ big_config' = [big_config EXCEPT ![b] = None]
  /\ bis_connections' =
       [h \in BisHandles |->
          IF bis_connections[h] # None /\ bis_connections[h].big_handle = b
          THEN None ELSE bis_connections[h]]
  /\ host' = [host EXCEPT ![b] = {}]
  /\ UNCHANGED trains

\* Only the input direction of a broadcaster; LE_Remove_ISO_Data_Path undoes it.
LeSetupIsoDataPath(h) ==
  /\ bis_connections[h] # None /\ ~bis_connections[h].path
  /\ bis_connections' = [bis_connections EXCEPT ![h].path = TRUE]
  /\ UNCHANGED <<trains, big_config, host>>

LeRemoveIsoDataPath(h) ==
  /\ bis_connections[h] # None /\ bis_connections[h].path
  /\ bis_connections' = [bis_connections EXCEPT ![h].path = FALSE]
  /\ UNCHANGED <<trains, big_config, host>>

\* LE_Set_Periodic_Advertising_Enable, or the removal of the set: neither looks
\* at the BIGs.
PeriodicTrain(a) ==
  /\ trains' = IF a \in trains THEN trains \ {a} ELSE trains \cup {a}
  /\ UNCHANGED <<big_config, bis_connections, host>>

Next ==
  \/ \E b \in BigHandles, a \in AdvertisingHandles, n \in 1 .. MaxBis : LeCreateBig(b, a, n)
  \/ \E b \in BigHandles : LeTerminateBig(b)
  \/ \E h \in BisHandles : LeSetupIsoDataPath(h) \/ LeRemoveIsoDataPath(h)
  \/ \E a \in AdvertisingHandles : PeriodicTrain(a)

Spec == Init /\ [][Next]_vars

-----------------------------------------------------------------------------

\* The BISes are exactly those of the BIGs: one for each BIS index of each BIG, on
\* the BIG's advertising train, under the handle its host was told; and no two
\* BIGs share a train, although trains stop and start under them.
BisesOfBigs ==
  /\ \A b \in BigHandles :
       LET of == {h \in BisHandles : bis_connections[h] # None /\ bis_connections[h].big_handle = b}
       IN /\ of = host[b]
          /\ IF big_config[b] = None THEN of = {}
             ELSE /\ Cardinality(of) = big_config[b].num_bis
                  /\ {bis_connections[h].bis_id : h \in of} = 1 .. big_config[b].num_bis
                  /\ \A h \in of : bis_connections[h].advertising_handle =
                                     big_config[b].advertising_handle
  /\ \A b, c \in BigHandles :
       (big_config[b] # None /\ big_config[c] # None /\ b # c) =>
         big_config[b].advertising_handle # big_config[c].advertising_handle
==============================================================================
