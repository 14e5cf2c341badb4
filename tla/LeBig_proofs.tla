----------------------------- MODULE LeBig_proofs -----------------------------
(***************************************************************************)
(* Proof that the table of BISes and the BIGs describe each other, for any *)
(* range of BIS handles and any number of BIGs and trains.                 *)
(***************************************************************************)
EXTENDS LeBig, FiniteSetTheorems, TLAPS

\* The BISes of a BIG.
Of(b) == {h \in BisHandles : bis_connections[h] # None /\ bis_connections[h].big_handle = b}

TypeOK ==
  /\ big_config \in [BigHandles -> Big \cup {None}]
  /\ bis_connections \in [BisHandles -> Bis \cup {None}]
  /\ host \in [BigHandles -> SUBSET BisHandles]

\* What BisesOfBigs says of one BIG.
Described(b) ==
  /\ Of(b) = host[b]
  /\ big_config[b] = None => Of(b) = {}
  /\ big_config[b] # None =>
       /\ Cardinality(Of(b)) = big_config[b].num_bis
       /\ {bis_connections[h].bis_id : h \in Of(b)} = 1 .. big_config[b].num_bis
       /\ \A h \in Of(b) : bis_connections[h].advertising_handle = big_config[b].advertising_handle

Apart ==
  \A b, c \in BigHandles :
    (big_config[b] # None /\ big_config[c] # None /\ b # c) =>
      big_config[b].advertising_handle # big_config[c].advertising_handle

IInv == TypeOK /\ (\A b \in BigHandles : Described(b)) /\ Apart

-----------------------------------------------------------------------------

\* The invariant is BisesOfBigs and the types.
LEMMA InvariantIsProperty == IInv <=> TypeOK /\ BisesOfBigs
BY ZenonT(60) DEF IInv, Described, Apart, BisesOfBigs, Of

\* new_bis_connection_handle, called n times, takes the n lowest free handles:
\* their ranks are 1 .. n, each once.
LEMMA LowestFree ==
  ASSUME NEW F \in SUBSET Nat, IsFiniteSet(F), NEW n \in Nat, n <= Cardinality(F)
  PROVE  LET r(h) == Cardinality({k \in F : k <= h})
             S == {h \in F : r(h) <= n}
         IN  IsFiniteSet(S) /\ Cardinality(S) = n /\ {r(h) : h \in S} = 1 .. n
             /\ \A h \in S : r(h) \in 1 .. n
<1> DEFINE below(h) == {k \in F : k <= h}
           f == [h \in F |-> Cardinality(below(h))]
           S == {h \in F : f[h] <= n}
           g == [h \in S |-> f[h]]
           N == Cardinality(F)
<1>1. N \in Nat /\ \A h \in F : h \in Nat
  BY FS_CardinalityType
<1>2. ASSUME NEW h \in F
      PROVE  IsFiniteSet(below(h)) /\ f[h] = Cardinality(below(h)) /\ f[h] \in 1 .. N
  <2>1. below(h) \in SUBSET F /\ h \in below(h) /\ f[h] = Cardinality(below(h))
    BY <1>1
  <2>2. IsFiniteSet(below(h)) /\ f[h] <= N
    BY <2>1, FS_Subset
  <2>3. f[h] \in Nat
    BY <2>1, <2>2, FS_CardinalityType
  <2>4. f[h] # 0
    BY <2>1, <2>2, FS_EmptySet
  <2> HIDE DEF f, N, below
  <2> QED
    BY <1>1, <2>1, <2>2, <2>3, <2>4
<1>3. ASSUME NEW h \in F, NEW k \in F, h < k
      PROVE  f[h] # f[k]
  <2>1. h \in Nat /\ k \in Nat
    BY <1>1
  <2>2. below(h) \in SUBSET below(k)
    <3>1. ASSUME NEW x \in F, x <= h PROVE x <= k
      BY <1>1, <1>3, <2>1, <3>1
    <3> QED
      BY <3>1, ZenonT(60)
  <2>3. k \in below(k) /\ k \notin below(h)
    BY <1>3, <2>1
  <2> HIDE DEF f, below
  <2> QED
    BY <1>2, <2>2, <2>3, FS_Subset
<1> HIDE DEF N, f
<1>4. \A h, k \in F : f[h] = f[k] => h = k
  BY <1>1, <1>3
<1>5. IsFiniteSet(1 .. N) /\ Cardinality(1 .. N) = N /\ IsFiniteSet(1 .. n) /\ Cardinality(1 .. n) = n
  BY <1>1, FS_Interval
<1>6. f \in [F -> 1 .. N]
  BY <1>2 DEF f
<1>7. f \in Injection(F, 1 .. N)
  BY <1>4, <1>6 DEF Injection, IsInjective
<1>8. f \in Surjection(F, 1 .. N)
  BY <1>5, <1>7, FS_Injection DEF N
<1>9. n <= N
  BY DEF N
<1>10. \A i \in 1 .. n : \E h \in S : f[h] = i
  BY <1>1, <1>8, <1>9 DEF Surjection
<1>11. \A h \in S : h \in F /\ f[h] \in 1 .. n
  BY <1>1, <1>6
<1> HIDE DEF S
<1>12. g \in Injection(S, 1 .. n)
  BY <1>4, <1>11, ZenonT(60) DEF Injection, IsInjective
<1>13. g \in Surjection(S, 1 .. n)
  BY <1>10, <1>11 DEF Surjection
<1>14. IsFiniteSet(S) /\ Cardinality(S) = n
  BY <1>5, <1>12, <1>13, FS_Injection
<1>15. {f[h] : h \in S} = 1 .. n
  BY <1>10, <1>11
<1>16. \A h \in F : f[h] = Cardinality({k \in F : k <= h})
  BY DEF f
<1>17. S = {h \in F : Cardinality({k \in F : k <= h}) <= n}
  BY <1>16, ZenonT(60) DEF S
<1> QED
  BY <1>11, <1>14, <1>15, <1>16, <1>17, ZenonT(60)

\* A step that changes neither BIGs nor anything but the data paths of BISes.
LEMMA PathStep ==
  ASSUME IInv, UNCHANGED <<big_config, host>>,
         bis_connections' \in [BisHandles -> Bis \cup {None}],
         \A h \in BisHandles :
           /\ bis_connections'[h] = None <=> bis_connections[h] = None
           /\ bis_connections[h] # None =>
                /\ bis_connections'[h].big_handle = bis_connections[h].big_handle
                /\ bis_connections'[h].bis_id = bis_connections[h].bis_id
                /\ bis_connections'[h].advertising_handle = bis_connections[h].advertising_handle
  PROVE  IInv'
<1>1. \A b \in BigHandles : Of(b)' = Of(b)
  BY DEF Of
<1>2. \A b \in BigHandles :
        {bis_connections'[h].bis_id : h \in Of(b)} = {bis_connections[h].bis_id : h \in Of(b)}
  BY DEF Of
<1>3. \A b \in BigHandles : Described(b)'
  BY <1>1, <1>2, ZenonT(60) DEF IInv, Described, Of
<1> QED
  BY <1>3 DEF IInv, TypeOK, Apart

\* LE_Create_BIG: the new BISes are the lowest free handles.
LEMMA CreateSafe ==
  ASSUME ParameterAssumption, IInv, NEW b \in BigHandles, NEW a \in AdvertisingHandles,
         NEW n \in 1 .. MaxBis, LeCreateBig(b, a, n)
  PROVE  IInv'
<1> DEFINE New == {h \in Free : Rank(h) <= n}
           no == FALSE
           bis(h) == [big_handle |-> b, bis_id |-> Rank(h), advertising_handle |-> a, path |-> no]
           big == [advertising_handle |-> a, num_bis |-> n]
<1>1. /\ n \in Nat /\ Free \in SUBSET Nat /\ Free \in SUBSET BisHandles /\ IsFiniteSet(Free)
      /\ n <= Cardinality(Free) /\ no \in BOOLEAN
  <2>1. Free \in SUBSET BisHandles
    BY DEF Free
  <2>2. IsFiniteSet(Free)
    BY <2>1, FS_Subset, ZenonT(60) DEF ParameterAssumption
  <2>3. n \in Nat /\ Free \in SUBSET Nat
    BY <2>1 DEF ParameterAssumption
  <2>4. n <= Cardinality(Free)
    BY DEF LeCreateBig
  <2> QED
    BY <2>1, <2>2, <2>3, <2>4
<1>2. /\ Cardinality(New) = n /\ {Rank(h) : h \in New} = 1 .. n /\ \A h \in New : Rank(h) \in 1 .. n
  BY <1>1, LowestFree, ZenonT(60) DEF Rank
<1>3. /\ \A h \in New : h \in BisHandles /\ bis_connections[h] = None /\ bis_connections'[h] = bis(h)
      /\ \A h \in BisHandles \ New : bis_connections'[h] = bis_connections[h]
      /\ bis_connections' = [h \in BisHandles |-> bis_connections'[h]]
      /\ big_config[b] = None /\ big_config' = [big_config EXCEPT ![b] = big]
      /\ host' = [host EXCEPT ![b] = New]
  BY DEF LeCreateBig, Free
<1> HIDE DEF no, New
<1>4. /\ big \in Big /\ big # None /\ big.advertising_handle = a /\ big.num_bis = n
      /\ \A h \in New : /\ bis(h) \in Bis /\ bis(h) # None /\ bis(h).big_handle = b
                        /\ bis(h).bis_id = Rank(h) /\ bis(h).advertising_handle = a
  BY <1>1, <1>2 DEF Big, Bis, ParameterAssumption
<1> HIDE DEF bis, big
<1>5. TypeOK'
  <2>1. bis_connections' \in [BisHandles -> Bis \cup {None}]
    BY <1>3, <1>4 DEF IInv, TypeOK
  <2>2. New \in SUBSET BisHandles
    BY <1>3
  <2> QED
    BY <1>3, <1>4, <2>1, <2>2 DEF IInv, TypeOK
<1>6. /\ big_config'[b] = big /\ \A c \in BigHandles \ {b} : big_config'[c] = big_config[c]
      /\ host'[b] = New /\ \A c \in BigHandles \ {b} : host'[c] = host[c]
  BY <1>3 DEF IInv, TypeOK
<1>7. Of(b) = {}
  BY <1>3 DEF IInv, Described
<1>8. Of(b)' = New
  BY <1>3, <1>4, <1>7 DEF Of
<1>9. \A c \in BigHandles \ {b} : Of(c)' = Of(c) /\ Of(c) \cap New = {}
  BY <1>3, <1>4 DEF Of
<1>10. Described(b)'
  <2>1. \A h \in New : bis_connections'[h].bis_id = Rank(h) /\ bis_connections'[h].advertising_handle = a
    BY <1>3, <1>4
  <2>2. {bis_connections'[h].bis_id : h \in New} = 1 .. n
    BY <1>2, <2>1
  <2> QED
    BY <1>2, <1>4, <1>6, <1>8, <2>1, <2>2 DEF Described
<1>11. ASSUME NEW c \in BigHandles \ {b} PROVE Described(c)'
  <2>1. \A h \in Of(c) : bis_connections'[h] = bis_connections[h]
    BY <1>3, <1>9 DEF Of
  <2>2. {bis_connections'[h].bis_id : h \in Of(c)} = {bis_connections[h].bis_id : h \in Of(c)}
    BY <2>1
  <2> QED
    BY <1>6, <1>9, <2>1, <2>2 DEF IInv, Described
<1>12. Apart'
  BY <1>4, <1>6 DEF IInv, Apart, LeCreateBig, TrainFree
<1> QED
  BY <1>5, <1>10, <1>11, <1>12 DEF IInv

\* LE_Terminate_BIG removes the BISes with the BIG.
LEMMA TerminateSafe ==
  ASSUME IInv, NEW b \in BigHandles, LeTerminateBig(b)
  PROVE  IInv'
<1>1. /\ \A h \in BisHandles : bis_connections'[h] = IF h \in Of(b) THEN None ELSE bis_connections[h]
      /\ bis_connections' = [h \in BisHandles |-> bis_connections'[h]]
  BY DEF LeTerminateBig, Of
<1>2. /\ big_config'[b] = None /\ \A c \in BigHandles \ {b} : big_config'[c] = big_config[c]
      /\ host'[b] = {} /\ \A c \in BigHandles \ {b} : host'[c] = host[c]
  BY DEF LeTerminateBig, IInv, TypeOK
<1>3. TypeOK'
  BY <1>1 DEF LeTerminateBig, IInv, TypeOK
<1>4. Of(b)' = {} /\ \A c \in BigHandles \ {b} : Of(c)' = Of(c) /\ Of(c) \cap Of(b) = {}
  BY <1>1 DEF Of
<1>5. Described(b)'
  BY <1>2, <1>4 DEF Described
<1>6. ASSUME NEW c \in BigHandles \ {b} PROVE Described(c)'
  <2>1. \A h \in Of(c) : bis_connections'[h] = bis_connections[h]
    BY <1>1, <1>4 DEF Of
  <2>2. {bis_connections'[h].bis_id : h \in Of(c)} = {bis_connections[h].bis_id : h \in Of(c)}
    BY <2>1
  <2> QED
    BY <1>2, <1>4, <2>1, <2>2 DEF IInv, Described
<1>7. Apart'
  BY <1>2 DEF IInv, Apart
<1> QED
  BY <1>3, <1>5, <1>6, <1>7 DEF IInv

\* The data path of a BIS.
LEMMA DataPathSafe ==
  ASSUME ParameterAssumption, IInv, NEW h \in BisHandles, LeSetupIsoDataPath(h) \/ LeRemoveIsoDataPath(h)
  PROVE  IInv'
<1>1. PICK q \in BOOLEAN : bis_connections' = [bis_connections EXCEPT ![h].path = q]
  BY ZenonT(60) DEF LeSetupIsoDataPath, LeRemoveIsoDataPath
<1> DEFINE old == bis_connections[h]
           new == [old EXCEPT !.path = q]
<1>2. old \in Bis /\ UNCHANGED <<big_config, host>>
  BY DEF IInv, TypeOK, LeSetupIsoDataPath, LeRemoveIsoDataPath
<1>3. /\ new \in Bis /\ new.big_handle = old.big_handle /\ new.bis_id = old.bis_id
      /\ new.advertising_handle = old.advertising_handle
  BY <1>2 DEF Bis
<1>4. bis_connections' = [bis_connections EXCEPT ![h] = new]
  BY <1>1
<1> HIDE DEF new
<1>5. /\ bis_connections' \in [BisHandles -> Bis \cup {None}] /\ bis_connections'[h] = new
      /\ \A k \in BisHandles \ {h} : bis_connections'[k] = bis_connections[k]
  BY <1>3, <1>4 DEF IInv, TypeOK
<1>6. old # None /\ new # None
  BY <1>2, <1>3 DEF ParameterAssumption
<1> QED
  BY <1>2, <1>3, <1>5, <1>6, PathStep

\* Every step keeps the invariant.
LEMMA NextIInv ==
  ASSUME ParameterAssumption, IInv, [Next]_vars
  PROVE  IInv'
<1>1. CASE UNCHANGED <<big_config, bis_connections, host>>
  BY <1>1, PathStep DEF IInv, TypeOK
<1>2. CASE Next
  BY <1>1, <1>2, CreateSafe, TerminateSafe, DataPathSafe DEF Next, PeriodicTrain
<1>3. CASE UNCHANGED vars
  BY <1>1, <1>3 DEF vars
<1> QED
  BY <1>2, <1>3

\* No BIG and no BIS.
LEMMA InitIInv == Init => IInv
BY DEF Init, IInv, TypeOK, Described, Apart, Of

\* For any handles, BIGs and trains: the BISes that LE_Create_BIG allocates are
\* exactly those of the BIGs that exist, one per BIS index, and no two BIGs share
\* a train.
THEOREM BisesAlwaysOfBigs ==
  ASSUME ParameterAssumption
  PROVE  Spec => []BisesOfBigs
<1>1. IInv /\ [Next]_vars => IInv'
  BY NextIInv
<1>2. IInv => BisesOfBigs
  BY InvariantIsProperty
<1> QED
  BY <1>1, <1>2, InitIInv, PTL DEF Spec
===============================================================================
