-------------------------- MODULE PublishingProofs --------------------------
(***************************************************************************)
(* For every set of versions, digests and processes, any number of         *)
(* sweepers and crashes: what is published keeps its content, retention    *)
(* takes no version that is one of the newest, and without it only the     *)
(* two kinds of upsert of one version can wait for each other.             *)
(*                                                                         *)
(* Storage is charged exactly if the org has a quota row; the artifacts    *)
(* are, if also sweeps, and creators and upserts of a version, keep apart  *)
(* (WritersApart).  Live versions have their references, and clients see   *)
(* VersionIndex, if the bytes of two publishes differ (BytesApart); and    *)
(* with one sweep at a time besides no reference is left behind but in the *)
(* two cases that stranded records.                                        *)
(***************************************************************************)
EXTENDS Publishing, FiniteSetTheorems, WellFoundedInduction, TLAPS

(* A process stands for its row from the beginning of its transaction.     *)
Inserting == {"create", "lockRow", "upsert", "replace", "replaceRow"}

(* The control points of retention after it ranked the versions.           *)
Retaining == {"prune", "charge", "expireAssets", "readAssets", "readVersions", "expire"}

Occurs(x, s) == \E i \in DOMAIN s : s[i] = x
Before(x, y, s) == \E i, j \in DOMAIN s : i < j /\ s[i] = x /\ s[j] = y
Distinct(s) == \A i, j \in DOMAIN s : s[i] = s[j] => i = j

TypeInv == TypeOK /\ IsFiniteSet(refs)

(* The rows there are, in one order.                                       *)
OrderInv ==
  /\ Distinct(created)
  /\ \A v \in Versions :
       /\ Occurs(v, created) <=> row[v].state # "none"
       /\ row[v].state # "none" => row[v].digest \in Digests
  /\ \A p \in Procs : Occurs(p, created) <=> pc[p] \in Inserting

(* Only adapters whose versions may change reach the upserts.              *)
UpsertsMutable(p) ==
  /\ pc[p] = "store" =>
       job[p].op = "publish" \/ (job[p].op = "upsert" /\ job[p].version \notin Immutable)
  /\ pc[p] \in {"lockRow", "upsert"} =>
       job[p].op \in {"upsert", "touch"} /\ job[p].version \notin Immutable
  /\ pc[p] \in {"replace", "replaceRow"} =>
       job[p].op = "replace" /\ job[p].version \notin Immutable

(* What a retention waits to prune stays beyond the newest KeepLastN.      *)
Surplus(v) ==
  row[v].state # "none" /\ IsFiniteSet(NewerThan(v)) /\ Cardinality(NewerThan(v)) >= KeepLastN

RetainsNewest(p) ==
  pc[p] \in Retaining =>
    p \in Sweepers /\ IsFiniteSet(job[p].pruned) /\ \A v \in job[p].pruned : Surplus(v)

ProcInv == \A p \in Procs : UpsertsMutable(p) /\ RetainsNewest(p)

(* At which control points a process holds which locks.                    *)
HoldsInOrder(p) ==
  /\ \A d \in DigestsHeld(p) :
       \/ pc[p] = "replaceRow"
       \/ d \in DigestsWanted(p) /\ \A e \in DigestsWanted(p) \ DigestsHeld(p) : d < e
  /\ quotaLock = p =>
       pc[p] \in {"replaceRow", "expireAssets", "readAssets", "readVersions", "expire",
       "countStorage", "countArtifacts", "setQuota"}
  /\ \A v \in RowsHeld(p) : pc[p] \in Retaining \/ (pc[p] = "upsert" /\ v = job[p].version)

LockInv == \A p \in Procs : HoldsInOrder(p)

IInv == TypeInv /\ OrderInv /\ ProcInv /\ LockInv

-----------------------------------------------------------------------------
(* The order of the rows.                                                  *)

Index(x, s) == CHOOSE i \in DOMAIN s : s[i] = x

LEMMA IndexIs ==
  ASSUME NEW s, Distinct(s), NEW i \in DOMAIN s
  PROVE  Index(s[i], s) = i
BY DEF Distinct, Index

(* Positions tell which of two elements comes first.                       *)
LEMMA LaterIsAfter ==
  ASSUME NEW s \in Seq(Versions \union Procs), Distinct(s),
         NEW v, Occurs(v, s), NEW w, Occurs(w, s)
  PROVE  Index(w, s) > Index(v, s) <=> Before(v, w, s)
<1>1. PICK i \in DOMAIN s : s[i] = v
  BY DEF Occurs
<1>2. PICK j \in DOMAIN s : s[j] = w
  BY DEF Occurs
<1>3. Index(v, s) = i /\ Index(w, s) = j
  BY <1>1, <1>2, IndexIs
<1>4. i \in Int /\ j \in Int
  OBVIOUS
<1>5. Before(v, w, s) => i < j
  BY <1>1, <1>2 DEF Before, Distinct
<1>6. i < j => Before(v, w, s)
  BY <1>1, <1>2 DEF Before
<1> QED BY <1>3, <1>4, <1>5, <1>6

LEMMA OccurringAreFinite ==
  ASSUME NEW s \in Seq(Versions \union Procs), NEW S, \A x \in S : Occurs(x, s)
  PROVE  IsFiniteSet(S)
<1> DEFINE T == {s[i] : i \in 1..Len(s)}
           f == [i \in 1..Len(s) |-> s[i]]
<1>1. IsFiniteSet(1..Len(s))
  BY FS_Interval
<1>2. f \in Surjection(1..Len(s), T)
  BY DEF Surjection
<1>3. IsFiniteSet(T)
  BY <1>1, <1>2, FS_Surjection
<1>4. S \subseteq T
  BY DEF Occurs
<1> QED BY <1>3, <1>4, FS_Subset

(* t has the versions of s in the order they have in s.                    *)
KeepsOrder(s, t) ==
  /\ \A v \in Versions : Occurs(v, s) => Occurs(v, t)
  /\ \A v, w \in Versions : Before(v, w, s) => Before(v, w, t)

LEMMA AppendedRow ==
  ASSUME NEW s \in Seq(Versions \union Procs), Distinct(s),
         NEW p \in Procs, ~ Occurs(p, s)
  PROVE  /\ Append(s, p) \in Seq(Versions \union Procs)
         /\ Distinct(Append(s, p))
         /\ KeepsOrder(s, Append(s, p))
         /\ \A x \in Versions \union Procs : Occurs(x, Append(s, p)) <=> Occurs(x, s) \/ x = p
<1> DEFINE t == Append(s, p)
<1>1. /\ t \in Seq(Versions \union Procs) /\ Len(t) = Len(s) + 1 /\ DOMAIN t = 1..(Len(s) + 1)
      /\ \A i \in 1..Len(s) : t[i] = s[i]
      /\ t[Len(s) + 1] = p /\ DOMAIN s = 1..Len(s) /\ Len(s) \in Nat
  OBVIOUS
<1> HIDE DEF t
<1>2. Distinct(t)
  BY <1>1 DEF Distinct, Occurs
<1>3. \A i \in DOMAIN s : i \in DOMAIN t /\ s[i] = t[i]
  BY <1>1
<1>4. KeepsOrder(s, t)
  BY <1>3 DEF KeepsOrder, Occurs, Before
<1>5. \A x \in Versions \union Procs : Occurs(x, t) <=> Occurs(x, s) \/ x = p
  BY <1>1 DEF Occurs
<1> QED BY <1>1, <1>2, <1>4, <1>5 DEF t

(* An abandoned or merged row leaves the others in their order.            *)
LEMMA RowLeaves ==
  ASSUME created \in Seq(Versions \union Procs), Distinct(created),
         PublishingAssumption, NEW p \in Procs
  PROVE  /\ Without(p) \in Seq(Versions \union Procs)
         /\ Distinct(Without(p))
         /\ KeepsOrder(created, Without(p))
         /\ \A x \in Versions \union Procs :
              Occurs(x, Without(p)) <=> Occurs(x, created) /\ x # p
<1>1. CASE ~ Occurs(p, created)
  BY <1>1 DEF Without, KeepsOrder, Occurs
<1>2. CASE Occurs(p, created)
  <2>1. PICK k \in DOMAIN created : created[k] = p
    BY <1>2 DEF Occurs
  <2>2. k = Position(p)
    BY <2>1, IndexIs DEF Position, Index
  <2> DEFINE n == Len(created)
             old(i) == IF i < k THEN i ELSE i + 1
             new(j) == IF j < k THEN j ELSE j - 1
             t == [i \in 1..(n - 1) |-> created[old(i)]]
  <2>3. Without(p) = t
    BY <1>2, <2>2 DEF Without, Occurs
  <2>4. n \in Nat /\ DOMAIN created = 1..n /\ k \in 1..n
    OBVIOUS
  <2>5. \A i \in 1..(n - 1) : old(i) \in 1..n /\ old(i) # k /\ new(old(i)) = i
    BY <2>4
  <2>6. \A j \in 1..n : j # k => new(j) \in 1..(n - 1) /\ old(new(j)) = j
    BY <2>4
  <2>7. \A i, j \in 1..n : i # k /\ j # k /\ i < j => new(i) < new(j)
    BY <2>4
  <2> HIDE DEF old, new
  <2>8. t \in Seq(Versions \union Procs) /\ DOMAIN t = 1..(n - 1)
    BY <2>4, <2>5
  <2>9. \A i \in DOMAIN t : t[i] = created[old(i)]
    BY <2>8
  <2>10. \A j \in DOMAIN created : created[j] # p => new(j) \in DOMAIN t /\ t[new(j)] = created[j]
    BY <2>1, <2>4, <2>6, <2>8, <2>9
  <2> HIDE DEF t, n
  <2>11. Distinct(t)
    BY <2>4, <2>5, <2>8, <2>9 DEF Distinct
  <2>12. \A i \in DOMAIN t : t[i] # p
    BY <2>1, <2>4, <2>5, <2>8, <2>9 DEF Distinct
  <2>13. \A x \in Versions \union Procs : Occurs(x, t) <=> Occurs(x, created) /\ x # p
    BY <2>4, <2>5, <2>8, <2>9, <2>10, <2>12 DEF Occurs
  <2>14. p \notin Versions
    BY DEF PublishingAssumption
  <2>15. \A v, w \in Versions : Before(v, w, created) => Before(v, w, t)
    BY <2>1, <2>4, <2>7, <2>10, <2>14 DEF Before
  <2>16. KeepsOrder(created, t)
    BY <2>13, <2>14, <2>15 DEF KeepsOrder
  <2> QED BY <2>3, <2>8, <2>11, <2>13, <2>16
<1> QED BY <1>1, <1>2

(* A new version takes the place of the process that inserted it.          *)
LEMMA RowArrives ==
  ASSUME NEW s \in Seq(Versions \union Procs), Distinct(s), Versions \cap Procs = {},
         NEW p \in Procs, Occurs(p, s), NEW v \in Versions, ~ Occurs(v, s)
  PROVE  LET t == [i \in DOMAIN s |-> IF s[i] = p THEN v ELSE s[i]]
         IN  /\ t \in Seq(Versions \union Procs)
             /\ Distinct(t)
             /\ KeepsOrder(s, t)
             /\ \A x \in Versions \union Procs :
                  Occurs(x, t) <=> (Occurs(x, s) \/ x = v) /\ x # p
<1> DEFINE t == [i \in DOMAIN s |-> IF s[i] = p THEN v ELSE s[i]]
<1>1. DOMAIN s = 1..Len(s) /\ Len(s) \in Nat
  OBVIOUS
<1>2. t \in Seq(Versions \union Procs) /\ DOMAIN t = DOMAIN s
  BY <1>1
<1>3. \A i \in DOMAIN s : t[i] = IF s[i] = p THEN v ELSE s[i]
  OBVIOUS
<1> HIDE DEF t
<1>4. Distinct(t)
  BY <1>2, <1>3 DEF Distinct, Occurs
<1>5. v # p /\ p \notin Versions
  OBVIOUS
<1>6. KeepsOrder(s, t)
  BY <1>2, <1>3, <1>5 DEF KeepsOrder, Occurs, Before
<1>7. \A x \in Versions \union Procs : Occurs(x, t) <=> (Occurs(x, s) \/ x = v) /\ x # p
  BY <1>2, <1>3, <1>5 DEF Occurs
<1> QED BY <1>2, <1>4, <1>6, <1>7 DEF t
-----------------------------------------------------------------------------
(* The surplus.                                                            *)

LEMMA LiveAreFinite ==
  ASSUME TypeOK, OrderInv
  PROVE  IsFiniteSet(LiveVersions)
BY OccurringAreFinite DEF TypeOK, OrderInv, LiveVersions

(* No insertion, revival or abandoned row moves a version up.              *)
LEMMA SurplusStays ==
  ASSUME TypeOK, OrderInv, TypeOK', OrderInv',
         KeepsOrder(created, created'), LiveVersions \subseteq LiveVersions',
         NEW v \in Versions, Surplus(v)
  PROVE  Surplus(v)'
<1>1. /\ created \in Seq(Versions \union Procs) /\ Distinct(created)
      /\ created' \in Seq(Versions \union Procs) /\ Distinct(created')
  BY DEF TypeOK, OrderInv
<1>2. Occurs(v, created) /\ Occurs(v, created') /\ row'[v].state # "none"
  BY DEF Surplus, OrderInv, KeepsOrder
<1>3. ASSUME NEW w \in NewerThan(v)
      PROVE  w \in NewerThan(v)'
  <2>1. w \in Versions /\ w \in LiveVersions /\ Index(w, created) > Index(v, created)
    BY <1>3 DEF NewerThan, LiveVersions, Position, Index
  <2>2. Occurs(w, created) /\ w \in LiveVersions' /\ Occurs(w, created')
    BY <2>1 DEF OrderInv, LiveVersions
  <2>3. Before(v, w, created)
    BY <1>1, <1>2, <2>1, <2>2, LaterIsAfter
  <2>4. Before(v, w, created')
    BY <2>1, <2>3 DEF KeepsOrder
  <2>5. Index(w, created') > Index(v, created')
    BY <1>1, <1>2, <2>2, <2>4, LaterIsAfter
  <2> QED BY <2>2, <2>5 DEF NewerThan, Position, Index
<1>4. \A w \in NewerThan(v)' : Occurs(w, created')
  BY DEF NewerThan, LiveVersions, OrderInv
<1>5. IsFiniteSet(NewerThan(v)')
  BY <1>1, <1>4, OccurringAreFinite
<1>6. NewerThan(v) \in SUBSET NewerThan(v)'
  BY <1>3
<1>7. /\ IsFiniteSet(NewerThan(v)) /\ Cardinality(NewerThan(v)) \in Nat
      /\ Cardinality(NewerThan(v)') \in Nat
      /\ Cardinality(NewerThan(v)) <= Cardinality(NewerThan(v)')
  BY <1>5, <1>6, FS_Subset, FS_CardinalityType
<1>8. KeepLastN \in Nat /\ Cardinality(NewerThan(v)) >= KeepLastN
  BY PublishingAssumption DEF PublishingAssumption, Surplus
<1>9. Cardinality(NewerThan(v)') >= KeepLastN
  BY <1>7, <1>8
<1> QED BY <1>2, <1>5, <1>9 DEF Surplus

(* What one retention prunes leaves KeepLastN newer versions to everything *)
(* else that is surplus: those newer than the newest it prunes.            *)
LEMMA PruningLeavesNewest ==
  ASSUME TypeOK, OrderInv, NEW S \in SUBSET Versions, \A u \in S : Surplus(u),
         NEW v \in Versions, Surplus(v)
  PROVE  IsFiniteSet(NewerThan(v) \ S) /\ Cardinality(NewerThan(v) \ S) >= KeepLastN
<1> DEFINE N == NewerThan(v)
<1>1. IsFiniteSet(N) /\ IsFiniteSet(N \ S) /\ Cardinality(N) >= KeepLastN
  BY FS_Difference DEF Surplus
<1>2. CASE N \cap S = {}
  BY <1>1, <1>2, FS_Subset
<1>3. CASE N \cap S # {}
  <2> DEFINE T == {NewerThan(u) : u \in N \cap S}
  <2>1. \A u \in N : u \in LiveVersions /\ Position(u) > Position(v)
    BY DEF NewerThan
  <2>2. \A u \in Versions : row[u].state # "none" => Position(u) \in Int
    <3>1. ASSUME NEW u \in Versions, row[u].state # "none"
          PROVE  Position(u) \in Int
      <4>1. Occurs(u, created)
        BY <3>1 DEF OrderInv
      <4>2. Position(u) \in DOMAIN created
        BY <4>1 DEF Occurs, Position
      <4> QED BY <4>2 DEF TypeOK
    <3> QED BY <3>1
  <2>3. \A u \in LiveVersions : u \in Versions /\ Position(u) \in Int
    BY <2>2 DEF LiveVersions
  <2>4. Position(v) \in Int
    BY <2>2 DEF Surplus
  <2>5. \A u \in N : NewerThan(u) \subseteq N /\ u \notin NewerThan(u)
    BY <2>1, <2>3, <2>4 DEF NewerThan
  <2>6. T \subseteq FiniteSubsetsOf(N) /\ T # {}
    BY <1>1, <1>3, <2>5, FS_Subset DEF FiniteSubsetsOf
  <2>7. IsWellFoundedOn(StrictSubsetOrdering(N), FiniteSubsetsOf(N))
    BY FS_StrictSubsetOrderingWellFounded
  <2>8. \E X \in T : \A Y \in T : <<Y, X>> \notin StrictSubsetOrdering(N)
    BY <2>6, <2>7, WFMin
  <2>9. PICK u \in N \cap S : \A w \in N \cap S :
               <<NewerThan(w), NewerThan(u)>> \notin StrictSubsetOrdering(N)
    BY <2>8
  <2>10. ASSUME NEW w \in NewerThan(u), w \in S
         PROVE  FALSE
    <3>1. w \in N \cap S /\ NewerThan(w) \subseteq NewerThan(u) /\ w \notin NewerThan(w)
      BY <2>1, <2>3, <2>5, <2>10 DEF NewerThan
    <3>2. NewerThan(w) # NewerThan(u) /\ NewerThan(w) \in SUBSET N /\ NewerThan(u) \in SUBSET N
      BY <2>5, <2>10, <3>1
    <3> QED BY <2>9, <3>1, <3>2 DEF StrictSubsetOrdering
  <2>11. NewerThan(u) \in SUBSET (N \ S)
    BY <2>5, <2>10
  <2>12. /\ Cardinality(NewerThan(u)) \in Nat /\ Cardinality(N \ S) \in Nat
         /\ Cardinality(NewerThan(u)) <= Cardinality(N \ S)
    BY <1>1, <2>11, FS_Subset, FS_CardinalityType
  <2>13. KeepLastN \in Nat /\ Cardinality(NewerThan(u)) >= KeepLastN
    BY PublishingAssumption DEF PublishingAssumption, Surplus
  <2> QED BY <1>1, <2>12, <2>13
<1> QED BY <1>2, <1>3
-----------------------------------------------------------------------------
(* Types.                                                                  *)

LEMMA JobForType ==
  ASSUME NEW kind \in OperationKinds, NEW v \in Versions, NEW d \in Digests, NEW e \in Digests
  PROVE  JobFor(kind, v, d, e) \in Job
BY DEF Job, JobFor

LEMMA BlankType == Blank \in Job
<1>1. Versions # {} /\ Digests # {} /\ "retain" \in OperationKinds
  BY PublishingAssumption DEF PublishingAssumption, OperationKinds
<1> QED BY <1>1, JobForType DEF Blank

LEMMA FinishType ==
  ASSUME TypeOK, NEW p \in Procs, Finish(p)
  PROVE  pc' \in [Procs -> PCs] /\ job' \in [Procs -> Job]
BY BlankType DEF TypeOK, Finish, Goto, PCs

LEMMA EndTransactionType ==
  ASSUME TypeOK, NEW p \in Procs, EndTransaction(p)
  PROVE  /\ digestLock' \in [Digests -> Procs \union {NoProc}]
         /\ rowLock' \in [Versions -> Procs \union {NoProc}]
         /\ quotaLock' \in Procs \union {NoProc}
BY DEF TypeOK, EndTransaction

LEMMA ArtifactsType ==
  ASSUME TypeOK, NEW n \in Int, AdjustArtifacts(n)
  PROVE  usedArtifacts' \in Nat /\ metered' \in BOOLEAN
BY DEF TypeOK, AdjustArtifacts, AtLeastZero

LEMMA StorageType ==
  ASSUME TypeOK, NEW n \in Int, AdjustStorage(n)
  PROVE  usedStorage' \in Nat /\ metered' \in BOOLEAN
BY DEF TypeOK, AdjustStorage, AtLeastZero

(* A row the process has inserted, or the content it has written.          *)
LEMMA WriteRowType ==
  ASSUME TypeOK, OrderInv, NEW p \in Procs, pc[p] \in Inserting, WriteRow(p)
  PROVE  /\ row' \in [Versions -> Row] /\ created' \in Seq(Versions \union Procs)
         /\ row'[job[p].version].digest \in Digests
         /\ LiveVersions' = LiveVersions \union {job[p].version}
         /\ \A v \in Versions : v # job[p].version => row'[v] = row[v]
         /\ Distinct(created') /\ KeepsOrder(created, created')
         /\ \A x \in Versions \union Procs :
              Occurs(x, created') <=> (Occurs(x, created) \/ x = job[p].version) /\ x # p
<1> DEFINE v == job[p].version
<1>1. /\ v \in Versions /\ job[p].digest \in Digests /\ row \in [Versions -> Row]
      /\ created \in Seq(Versions \union Procs)
  BY DEF TypeOK, Job
<1>2. row' = [row EXCEPT ![v] = [state |-> "live", digest |-> job[p].digest]]
  BY DEF WriteRow
<1>3. /\ row' \in [Versions -> Row] /\ row'[v].digest \in Digests
      /\ \A w \in Versions : w # v => row'[w] = row[w]
      /\ row'[v].state = "live"
  BY <1>1, <1>2 DEF Row
<1>4. LiveVersions' = LiveVersions \union {v}
  BY <1>1, <1>3 DEF LiveVersions
<1>5. Distinct(created) /\ Occurs(p, created) /\ v # p /\ Versions \cap Procs = {}
  BY <1>1, PublishingAssumption DEF OrderInv, PublishingAssumption
<1>6. created' \in Seq(Versions \union Procs) /\ Distinct(created') /\ KeepsOrder(created,
    created')
        /\ \A x \in Versions \union Procs :
              Occurs(x, created') <=> (Occurs(x, created) \/ x = v) /\ x # p
  <2>1. CASE row[v].state = "none"
    <3>1. ~ Occurs(v, created)
      BY <1>1, <2>1 DEF OrderInv
    <3>2. created' = [i \in DOMAIN created |-> IF created[i] = p THEN v ELSE created[i]]
      BY <2>1 DEF WriteRow, Inserted
    <3>3. p \in Procs
      OBVIOUS
    <3> HIDE DEF v
    <3> QED BY <1>1, <1>5, <3>1, <3>2, <3>3, RowArrives
  <2>2. CASE row[v].state # "none"
    <3>1. Occurs(v, created) /\ created' = Without(p)
      BY <1>1, <2>2 DEF OrderInv, WriteRow, Inserted
    <3> HIDE DEF v
    <3> QED BY <1>1, <1>5, <3>1, RowLeaves, PublishingAssumption
  <2> QED BY <2>1, <2>2
<1> QED BY <1>3, <1>4, <1>6

LEMMA InitType == Init => TypeInv /\ OrderInv
<1> SUFFICES ASSUME Init PROVE TypeInv /\ OrderInv
  OBVIOUS
<1>1. Cardinality(Elsewhere) \in Nat /\ Metered \in BOOLEAN /\ MaxCrashes \in Nat
  BY PublishingAssumption, FS_CardinalityType DEF PublishingAssumption
<1>2. created \in Seq(Versions \union Procs)
  BY DEF Init
<1>3. TypeOK
  BY <1>1, <1>2, BlankType DEF Init, TypeOK, Row, PCs
<1>4. IsFiniteSet(refs)
  BY FS_EmptySet DEF Init
<1>5. DOMAIN created = {}
  BY DEF Init
<1>6. OrderInv
  BY <1>5 DEF Init, OrderInv, Distinct, Occurs, Inserting
<1> QED BY <1>3, <1>4, <1>6 DEF TypeInv

LEMMA TypeStep ==
  ASSUME TypeInv, OrderInv, ProcInv, NEW p \in Procs, Step(p)
  PROVE  TypeInv'
<1> USE DEF TypeInv
<1>0. /\ job \in [Procs -> Job] /\ job[p] \in Job /\ pc \in [Procs -> PCs]
      /\ job[p].version \in Versions /\ job[p].digest \in Digests /\ job[p].old \in Digests
      /\ RefOf(p) \in Ref /\ refs \in SUBSET Ref /\ IsFiniteSet(refs)
  BY DEF TypeOK, Job, Ref, RefOf
<1>1. CASE StartRequest(p)
  <2>1. ASSUME NEW v \in Versions, NEW d \in Digests, NEW kind \in {"publish", "upsert"},
               StartStore(p, kind, v, d)
        PROVE  TypeInv'
    <3>1. JobFor(kind, v, d, d) \in Job
      BY JobForType DEF OperationKinds
    <3> QED BY <2>1, <3>1 DEF TypeOK, StartStore, Goto, PCs, history, usage, locks
  <2>2. ASSUME NEW v \in Versions, NEW d \in Digests, StartReplace(p, v, d)
        PROVE  TypeInv'
    <3>1. JobFor("replace", v, d, IF row[v].state = "live" THEN row[v].digest ELSE d) \in Job
      BY JobForType DEF OperationKinds, OrderInv
    <3>2. created' \in Seq(Versions \union Procs)
      BY <2>2 DEF TypeOK, StartReplace
    <3> QED BY <2>2, <3>1, <3>2 DEF TypeOK, StartReplace, Goto, PCs, history, usage, locks
  <2>3. ASSUME NEW v \in Versions, StartTouch(p, v)
        PROVE  TypeInv'
    <3>1. JobFor("touch", v, row[v].digest, row[v].digest) \in Job
      BY <2>3, JobForType DEF OperationKinds, OrderInv, StartTouch
    <3>2. created' \in Seq(Versions \union Procs)
      BY <2>3 DEF TypeOK, StartTouch
    <3> QED BY <2>3, <3>1, <3>2 DEF TypeOK, StartTouch, Goto, PCs, history, usage, locks
  <2> QED BY <1>1, <2>1, <2>2, <2>3 DEF StartRequest
<1>2. CASE \E d \in Digests : LockDigest(p, d)
  BY <1>2 DEF TypeOK, LockDigest, history, usage
<1>3. CASE StoreRef(p)
  <2>1. refs' \in SUBSET Ref /\ IsFiniteSet(refs') /\ created' \in Seq(Versions \union Procs)
    <3>1. refs' = refs \union {RefOf(p)} /\ created' = Append(created, p)
      BY <1>3 DEF StoreRef
    <3>2. created \in Seq(Versions \union Procs)
      BY DEF TypeOK
    <3> QED BY <1>0, <3>1, <3>2, FS_AddElement
  <2>2. usedStorage' \in Nat /\ metered' \in BOOLEAN
    <3>1. AdjustStorage(IF Referenced(job[p].digest, refs) THEN 0 ELSE 1)
      BY <1>3 DEF StoreRef
    <3> QED BY <3>1, StorageType
  <2>3. job' \in [Procs -> Job] /\ pc' \in [Procs -> PCs]
    BY <1>0, <1>3 DEF StoreRef, Job, Goto, PCs
  <2>4. EndTransaction(p)
    BY <1>3 DEF StoreRef
  <2> QED BY <1>3, <2>1, <2>2, <2>3, <2>4, EndTransactionType DEF StoreRef, TypeOK, history
<1>4. CASE CreateVersion(p)
  <2>1. WriteRow(p) /\ AdjustArtifacts(1) /\ pc[p] \in Inserting
    BY <1>4 DEF CreateVersion, Inserting
  <2>2. row' \in [Versions -> Row] /\ created' \in Seq(Versions \union Procs)
    BY <2>1, WriteRowType
  <2>3. usedArtifacts' \in Nat /\ metered' \in BOOLEAN
    BY <2>1, ArtifactsType
  <2> QED BY <1>4, <2>2, <2>3 DEF CreateVersion, TypeOK, Goto, PCs, history, locks
<1>5. ASSUME created' = Without(p)
      PROVE  created' \in Seq(Versions \union Procs)
  BY <1>5, RowLeaves, PublishingAssumption DEF TypeOK, OrderInv
<1>6. CASE Conflict(p)
  <2>1. pc' \in [Procs -> PCs] /\ job' \in [Procs -> Job]
    <3>1. CASE Finish(p)
      BY <3>1, FinishType
    <3>2. CASE Goto(p, "release") /\ UNCHANGED job
      BY <1>0, <3>2 DEF Goto, PCs
    <3> QED BY <1>6, <3>1, <3>2 DEF Conflict
  <2>2. created' = Without(p)
    BY <1>6 DEF Conflict
  <2> QED BY <1>5, <1>6, <2>1, <2>2 DEF Conflict, TypeOK, history, usage, locks
<1>7. CASE CreateOverQuota(p)
  <2>1. Finish(p) /\ created' = Without(p)
    BY <1>7 DEF CreateOverQuota
  <2>2. stranded' \in SUBSET Ref
    BY <1>0, <1>7 DEF CreateOverQuota, TypeOK
  <2> QED BY <1>5, <1>7, <2>1, <2>2, FinishType DEF CreateOverQuota, TypeOK, usage, locks
<1>8. CASE ReleaseRef(p)
  <2>1. Finish(p) /\ EndTransaction(p)
    BY <1>8 DEF ReleaseRef
  <2>2. refs' \in SUBSET Ref /\ IsFiniteSet(refs')
    BY <1>0, <1>8, FS_RemoveElement DEF ReleaseRef
  <2>3. PICK n \in {0, -1} : AdjustStorage(n)
    BY <1>8 DEF ReleaseRef
  <2>4. usedStorage' \in Nat /\ metered' \in BOOLEAN
    BY <2>3, StorageType
  <2> QED BY <1>8, <2>1, <2>2, <2>4, FinishType, EndTransactionType DEF ReleaseRef, TypeOK,
      history
<1>9. CASE DropOldAsset(p)
  BY <1>0, <1>9 DEF DropOldAsset, TypeOK, AssetsOf, Goto, PCs, history, usage, locks
<1>10. CASE UpsertAsset(p)
  <2>1. Finish(p)
    BY <1>10 DEF UpsertAsset
  <2>2. assets' \in SUBSET Asset
    <3> DEFINE a == [version |-> job[p].version, digest |-> job[p].digest,
                     linked |-> job[p].op # "upsert"]
    <3>1. a \in Asset
      BY <1>0 DEF Asset
    <3>2. assets' \subseteq assets \union {a}
      BY <1>10 DEF UpsertAsset
    <3> QED BY <3>1, <3>2 DEF TypeOK
  <2>3. stranded' \in SUBSET Ref
    BY <1>0, <1>10 DEF UpsertAsset, TypeOK
  <2> QED BY <1>10, <2>1, <2>2, <2>3, FinishType DEF UpsertAsset, TypeOK, usage, locks
<1>11. CASE ReplaceLockQuota(p)
  BY <1>0, <1>11 DEF ReplaceLockQuota, TypeOK, LockedQuota, Goto, PCs, history, usage
<1>12. CASE CommitReplace(p)
  <2>1. WriteRow(p) /\ EndTransaction(p) /\ pc[p] \in Inserting
    BY <1>12 DEF CommitReplace, Inserting
  <2>2. row' \in [Versions -> Row] /\ created' \in Seq(Versions \union Procs)
    BY <2>1, WriteRowType
  <2>3. refs' \in SUBSET Ref /\ IsFiniteSet(refs')
    BY <1>0, <1>12, FS_RemoveElement, FS_AddElement
      DEF CommitReplace, RefsAfterReplace, RefsLessOld
  <2>4. NetDelta(p) \in Int /\ AdjustStorage(NetDelta(p))
    BY <1>12 DEF CommitReplace, NetDelta
  <2>5. PICK n \in {0, 1} : AdjustArtifacts(n)
    BY <1>12 DEF CommitReplace, ArtifactsAdded
  <2>6. usedStorage' \in Nat /\ usedArtifacts' \in Nat /\ metered' \in BOOLEAN
    BY <2>4, <2>5, StorageType, ArtifactsType
  <2> QED BY <1>12, <2>1, <2>2, <2>3, <2>6, EndTransactionType
        DEF CommitReplace, TypeOK, Goto, PCs, history
<1>13. ASSUME Abandon(p), crashes' \in 0..MaxCrashes,
             stranded' = stranded
       PROVE  TypeInv'
  <2>1. EndTransaction(p) /\ Finish(p) /\ created' = Without(p)
    BY <1>13 DEF Abandon
  <2> QED BY <1>5, <1>13, <2>1, FinishType, EndTransactionType DEF Abandon, TypeOK, history, usage
<1>14. CASE ReplaceOverQuota(p) \/ UpsertOverQuota(p) \/ DeadlockVictim(p) \/ Crash(p)
  BY <1>13, <1>14, PublishingAssumption
    DEF ReplaceOverQuota, UpsertOverQuota, DeadlockVictim, Crash, TypeOK, PublishingAssumption,
    history
<1>15. CASE LockVersionRow(p)
  <2>1. [job[p] EXCEPT !.charge = Revives(job[p].version)] \in Job
    BY <1>0 DEF Job, Revives
  <2>2. job' \in [Procs -> Job] /\ pc' \in [Procs -> PCs]
    BY <1>0, <1>15, <2>1 DEF LockVersionRow, Goto, PCs
  <2>3. rowLock' \in [Versions -> Procs \union {NoProc}]
    BY <1>15 DEF LockVersionRow, TypeOK
  <2> QED BY <1>15, <2>2, <2>3 DEF LockVersionRow, TypeOK, history, usage
<1>16. CASE UpsertVersion(p)
  <2>1. WriteRow(p) /\ EndTransaction(p) /\ pc[p] \in Inserting
    BY <1>16 DEF UpsertVersion, Inserting
  <2>2. row' \in [Versions -> Row] /\ created' \in Seq(Versions \union Procs)
    BY <2>1, WriteRowType
  <2>3. PICK n \in {0, 1} : AdjustArtifacts(n)
    BY <1>16 DEF UpsertVersion
  <2>4. usedArtifacts' \in Nat /\ metered' \in BOOLEAN
    BY <2>3, ArtifactsType
  <2>5. pc' \in [Procs -> PCs] /\ job' \in [Procs -> Job]
    <3>1. CASE Finish(p)
      BY <3>1, FinishType
    <3>2. CASE Goto(p, "asset") /\ UNCHANGED job
      BY <1>0, <3>2 DEF Goto, PCs
    <3> QED BY <1>16, <3>1, <3>2 DEF UpsertVersion
  <2> QED BY <1>16, <2>1, <2>2, <2>4, <2>5, EndTransactionType DEF UpsertVersion, TypeOK, history
<1>17. CASE RankVersions(p)
  <2>1. [job[p] EXCEPT !.pruned = BeyondNewest(KeepLastN)] \in Job
    BY <1>0 DEF Job, BeyondNewest, LiveVersions
  <2> QED BY <1>17, <2>1 DEF RankVersions, TypeOK, Goto, PCs, history, usage, locks
<1>18. CASE \E v \in Versions : LockPrunedRow(p, v)
  BY <1>18 DEF LockPrunedRow, TypeOK, Goto, PCs, history, usage
<1>19. CASE RetentionLockQuota(p)
  BY <1>19 DEF RetentionLockQuota, TypeOK, LockedQuota, Goto, PCs, history, usage
<1>20. CASE Survey(p)
  <2>1. job[p].pruned \subseteq Versions /\ pc[p] \in Retaining
    BY <1>0, <1>20 DEF Job, Survey, ExpireAssets, ReadLiveAssets, ReadLiveVersions, Retaining
  <2>2. \A v \in job[p].pruned : row[v].digest \in Digests
    BY <2>1 DEF ProcInv, RetainsNewest, Surplus, OrderInv
  <2>3. PrunedAssets(p) \in SUBSET Asset /\ PrunedDigests(p) \in SUBSET Digests
    BY <2>2 DEF PrunedAssets, PrunedDigests, TypeOK, Asset
  <2>4. job' \in [Procs -> Job]
    <3>1. CASE ExpireAssets(p)
      <4>1. [job[p] EXCEPT !.expired = PrunedAssets(p), !.released = PrunedDigests(p)] \in Job
        BY <1>0, <2>3 DEF Job
      <4> QED BY <1>0, <3>1, <4>1 DEF ExpireAssets
    <3>2. CASE ReadLiveAssets(p)
      <4>1. [job[p] EXCEPT !.released = @ \ LiveAssetDigests(p)] \in Job
        BY <1>0 DEF Job
      <4> QED BY <1>0, <3>2, <4>1 DEF ReadLiveAssets
    <3>3. CASE ReadLiveVersions(p)
      <4>1. [job[p] EXCEPT !.released = @ \ LiveVersionDigests(p)] \in Job
        BY <1>0 DEF Job
      <4> QED BY <1>0, <3>3, <4>1 DEF ReadLiveVersions
    <3> QED BY <1>20, <3>1, <3>2, <3>3 DEF Survey
  <2>5. pc' \in [Procs -> PCs]
    BY <1>0, <1>20 DEF Survey, ExpireAssets, ReadLiveAssets, ReadLiveVersions, Goto, PCs
  <2> QED BY <1>20, <2>4, <2>5
          DEF Survey, ExpireAssets, ReadLiveAssets, ReadLiveVersions, TypeOK, history, usage,
          locks
<1>21. CASE CommitRetention(p)
  <2>1. Finish(p) /\ EndTransaction(p)
    BY <1>21 DEF CommitRetention
  <2>2. row' \in [Versions -> Row]
    BY <1>21 DEF CommitRetention, TypeOK, Row
  <2>3. refs' \in SUBSET Ref /\ IsFiniteSet(refs')
    BY <1>0, <1>21, FS_Subset DEF CommitRetention
  <2>4. Cardinality(job[p].pruned) \in Nat
    BY <1>21, FS_CardinalityType DEF CommitRetention, ProcInv, RetainsNewest, Retaining
  <2>5. Cardinality(RefundedByRetention(p)) \in Nat
    <3> DEFINE T == {r.digest : r \in refs}
               f == [r \in refs |-> r.digest]
    <3>1. f \in Surjection(refs, T)
      BY DEF Surjection
    <3>2. IsFiniteSet(T)
      BY <1>0, <3>1, FS_Surjection
    <3>3. RefundedByRetention(p) \in SUBSET T
      BY DEF RefundedByRetention
    <3> QED BY <3>2, <3>3, FS_Subset, FS_CardinalityType
  <2>6. AdjustArtifacts(- Cardinality(job[p].pruned))
        /\ AdjustStorage(- Cardinality(RefundedByRetention(p)))
    BY <1>21 DEF CommitRetention
  <2>7. usedStorage' \in Nat /\ usedArtifacts' \in Nat /\ metered' \in BOOLEAN
    BY <2>4, <2>5, <2>6, StorageType, ArtifactsType
  <2>8. assets' \in SUBSET Asset
    BY <1>21 DEF CommitRetention, TypeOK
  <2> QED BY <1>21, <2>1, <2>2, <2>3, <2>7, <2>8, FinishType, EndTransactionType
        DEF CommitRetention, TypeOK, history
<1>22. CASE BeginRecount(p)
  BY <1>22 DEF BeginRecount, TypeOK, LockedQuota, Goto, PCs, history, usage
<1>23. CASE CountStorage(p)
  <2> DEFINE T == {r.digest : r \in refs}
             f == [r \in refs |-> r.digest]
  <2>1. f \in Surjection(refs, T)
    BY DEF Surjection
  <2>2. IsFiniteSet(T) /\ IsFiniteSet(Elsewhere)
    BY <1>0, <2>1, FS_Surjection, PublishingAssumption DEF PublishingAssumption
  <2>3. Cardinality(T \union Elsewhere) \in Nat
    BY <2>2, FS_Union, FS_CardinalityType
  <2>4. [job[p] EXCEPT !.storage = Cardinality(T \union Elsewhere)] \in Job
    BY <1>0, <2>3 DEF Job
  <2> QED BY <1>23, <2>4 DEF CountStorage, TypeOK, Goto, PCs, history, usage, locks
<1>24. CASE CountArtifacts(p)
  <2>1. Cardinality(LiveVersions) \in Nat
    BY LiveAreFinite, FS_CardinalityType
  <2>2. [job[p] EXCEPT !.artifacts = Cardinality(LiveVersions)] \in Job
    BY <1>0, <2>1 DEF Job
  <2> QED BY <1>24, <2>2 DEF CountArtifacts, TypeOK, Goto, PCs, history, usage, locks
<1>25. CASE SetQuota(p)
  <2>1. Finish(p) /\ EndTransaction(p)
    BY <1>25 DEF SetQuota
  <2>2. usedStorage' \in Nat /\ usedArtifacts' \in Nat
    BY <1>0, <1>25 DEF SetQuota, Job
  <2> QED BY <1>25, <2>1, <2>2, FinishType, EndTransactionType DEF SetQuota, TypeOK, history
<1> QED
  BY <1>1, <1>2, <1>3, <1>4, <1>6, <1>7, <1>8, <1>9, <1>10, <1>11, <1>12, <1>14, <1>15,
     <1>16, <1>17, <1>18, <1>19, <1>20, <1>21, <1>22, <1>23, <1>24, <1>25
    DEF Step, PublishStep, UpsertStep, RetentionStep, QuotaStep
-----------------------------------------------------------------------------
(* The order of the rows, step by step.                                    *)

(* No live version is lost or overtaken from behind.                       *)
Promotes == KeepsOrder(created, created') /\ LiveVersions \subseteq LiveVersions'

(* Every process but p is where it was.                                    *)
OnlyMoves(p) == \A q \in Procs : q # p => pc'[q] = pc[q]

LEMMA RowsStay ==
  ASSUME OrderInv, row' = row, created' = created,
         \A q \in Procs : pc[q] \in Inserting <=> pc'[q] \in Inserting
  PROVE  OrderInv' /\ Promotes
BY DEF OrderInv, Promotes, KeepsOrder, LiveVersions

LEMMA RowBegins ==
  ASSUME TypeOK, OrderInv, NEW p \in Procs, OnlyMoves(p), row' = row, created' = Append(created,
  p),
         pc[p] \notin Inserting, pc'[p] \in Inserting
  PROVE  OrderInv' /\ Promotes
<1>1. created \in Seq(Versions \union Procs) /\ Distinct(created) /\ ~ Occurs(p, created)
  BY DEF TypeOK, OrderInv
<1>2. /\ Distinct(created') /\ KeepsOrder(created, created')
      /\ \A x \in Versions \union Procs : Occurs(x, created') <=> Occurs(x, created) \/ x = p
  BY <1>1, AppendedRow
<1>3. p \notin Versions
  BY PublishingAssumption DEF PublishingAssumption
<1> QED BY <1>2, <1>3 DEF OrderInv, OnlyMoves, Promotes, LiveVersions

LEMMA RowEnds ==
  ASSUME TypeOK, OrderInv, NEW p \in Procs, OnlyMoves(p), row' = row, created' = Without(p),
         pc'[p] \notin Inserting
  PROVE  OrderInv' /\ Promotes
<1>1. created \in Seq(Versions \union Procs) /\ Distinct(created)
  BY DEF TypeOK, OrderInv
<1>2. /\ Distinct(created') /\ KeepsOrder(created, created')
      /\ \A x \in Versions \union Procs : Occurs(x, created') <=> Occurs(x, created) /\ x # p
  BY <1>1, RowLeaves, PublishingAssumption
<1>3. p \notin Versions
  BY PublishingAssumption DEF PublishingAssumption
<1> QED BY <1>2, <1>3 DEF OrderInv, OnlyMoves, Promotes, LiveVersions

LEMMA RowWritten ==
  ASSUME TypeOK, OrderInv, NEW p \in Procs, OnlyMoves(p), WriteRow(p),
         pc[p] \in Inserting, pc'[p] \notin Inserting
  PROVE  OrderInv' /\ Promotes
<1>1. p \notin Versions /\ job[p].version \in Versions /\ job[p].version \notin Procs
  BY PublishingAssumption DEF PublishingAssumption, TypeOK, Job
<1>2. row'[job[p].version].state = "live"
  BY <1>1 DEF TypeOK, WriteRow
<1> QED BY <1>1, <1>2, WriteRowType DEF OrderInv, OnlyMoves, Promotes

LEMMA AbandonEnds ==
  ASSUME TypeOK, OrderInv, NEW p \in Procs, Abandon(p)
  PROVE  OrderInv' /\ Promotes
<1>1. OnlyMoves(p) /\ pc'[p] \notin Inserting
  BY DEF TypeOK, Abandon, Finish, Goto, OnlyMoves, Inserting
<1> QED BY <1>1, RowEnds DEF Abandon

(* A retention keeps the rows it prunes.                                   *)
LEMMA RetentionKeepsRows ==
  ASSUME TypeOK, OrderInv, ProcInv, NEW p \in Procs, CommitRetention(p)
  PROVE  OrderInv'
<1>1. pc[p] \notin Inserting /\ \A q \in Procs : pc'[q] \in Inserting <=> pc[q] \in Inserting
  BY DEF CommitRetention, TypeOK, Finish, Goto, Inserting
<1>2. \A v \in job[p].pruned : row[v].state # "none"
  BY DEF CommitRetention, ProcInv, RetainsNewest, Retaining, Surplus
<1>3. \A v \in Versions : /\ row'[v].state # "none" <=> row[v].state # "none"
                          /\ row'[v].digest = row[v].digest
  BY <1>2 DEF CommitRetention, TypeOK, Row
<1>4. created' = created
  BY DEF CommitRetention
<1> QED BY <1>1, <1>3, <1>4 DEF OrderInv

LEMMA OrderStep ==
  ASSUME TypeOK, OrderInv, ProcInv, NEW p \in Procs, Step(p)
  PROVE  OrderInv' /\ (Promotes \/ CommitRetention(p))
<1>0. pc \in [Procs -> PCs]
  BY DEF TypeOK
<1>1. ASSUME NEW l \in PCs, Goto(p, l)
      PROVE  pc'[p] = l /\ OnlyMoves(p)
  BY <1>0, <1>1 DEF Goto, OnlyMoves
<1>2. ASSUME Finish(p)
      PROVE  pc'[p] = "idle" /\ OnlyMoves(p)
  BY <1>0, <1>2 DEF Finish, Goto, OnlyMoves
<1>3. ASSUME row' = row, created' = created, OnlyMoves(p),
             pc[p] \in Inserting <=> pc'[p] \in Inserting
      PROVE  OrderInv' /\ Promotes
  BY <1>3, RowsStay DEF OnlyMoves
<1>4. CASE StartRequest(p)
  <2>1. ASSUME NEW v \in Versions, NEW d \in Digests, NEW kind \in {"publish", "upsert"},
               StartStore(p, kind, v, d)
        PROVE  OrderInv' /\ Promotes
    BY <1>1, <1>3, <2>1 DEF StartStore, Serves, Inserting, PCs
  <2>2. ASSUME NEW v \in Versions, NEW d \in Digests, StartReplace(p, v, d)
        PROVE  OrderInv' /\ Promotes
    <3>1. pc[p] = "idle" /\ Goto(p, "replace") /\ row' = row /\ created' = Append(created, p)
      BY <2>2 DEF StartReplace, Serves
    <3> QED BY <1>1, <3>1, RowBegins DEF Inserting, PCs
  <2>3. ASSUME NEW v \in Versions, StartTouch(p, v)
        PROVE  OrderInv' /\ Promotes
    <3>1. pc[p] = "idle" /\ Goto(p, "lockRow") /\ row' = row /\ created' = Append(created, p)
      BY <2>3 DEF StartTouch, Serves
    <3> QED BY <1>1, <3>1, RowBegins DEF Inserting, PCs
  <2> QED BY <1>4, <2>1, <2>2, <2>3 DEF StartRequest
<1>5. CASE \E d \in Digests : LockDigest(p, d)
  BY <1>3, <1>5 DEF LockDigest, OnlyMoves
<1>6. CASE StoreRef(p)
  <2>1. /\ pc[p] = "store" /\ row' = row /\ created' = Append(created, p)
        /\ Goto(p, "create") \/ Goto(p, "lockRow")
    BY <1>6 DEF StoreRef
  <2> QED BY <1>1, <2>1, RowBegins DEF Inserting, PCs
<1>7. CASE CreateVersion(p)
  <2>1. pc[p] = "create" /\ WriteRow(p) /\ Goto(p, "asset")
    BY <1>7 DEF CreateVersion
  <2> QED BY <1>1, <2>1, RowWritten DEF Inserting, PCs
<1>8. CASE Conflict(p) \/ CreateOverQuota(p)
  <2>1. row' = row /\ created' = Without(p) /\ (Goto(p, "release") \/ Finish(p))
    BY <1>8 DEF Conflict, CreateOverQuota
  <2> QED BY <1>1, <1>2, <2>1, RowEnds DEF Inserting, PCs
<1>9. CASE ReleaseRef(p) \/ DropOldAsset(p) \/ UpsertAsset(p)
  <2>1. /\ pc[p] \in {"release", "unasset", "asset"} /\ row' = row /\ created' = created
        /\ Goto(p, "asset") \/ Finish(p)
    BY <1>9 DEF ReleaseRef, DropOldAsset, UpsertAsset
  <2> QED BY <1>1, <1>2, <1>3, <2>1 DEF Inserting, PCs
<1>10. CASE ReplaceLockQuota(p)
  BY <1>1, <1>3, <1>10 DEF ReplaceLockQuota, Inserting, PCs
<1>11. CASE CommitReplace(p)
  <2>1. pc[p] = "replaceRow" /\ WriteRow(p) /\ (Goto(p, "unasset") \/ Goto(p, "asset"))
    BY <1>11 DEF CommitReplace
  <2> QED BY <1>1, <2>1, RowWritten DEF Inserting, PCs
<1>12. CASE ReplaceOverQuota(p) \/ UpsertOverQuota(p) \/ DeadlockVictim(p) \/ Crash(p)
  BY <1>12, AbandonEnds DEF ReplaceOverQuota, UpsertOverQuota, DeadlockVictim, Crash
<1>13. CASE LockVersionRow(p)
  BY <1>1, <1>3, <1>13 DEF LockVersionRow, Inserting, PCs
<1>14. CASE UpsertVersion(p)
  <2>1. pc[p] = "upsert" /\ WriteRow(p) /\ (Goto(p, "asset") \/ Finish(p))
    BY <1>14 DEF UpsertVersion
  <2> QED BY <1>1, <1>2, <2>1, RowWritten DEF Inserting, PCs
<1>15. CASE \E v \in Versions : LockPrunedRow(p, v)
  <2>1. /\ pc[p] = "prune" /\ row' = row /\ created' = created
        /\ Goto(p, "charge") \/ UNCHANGED pc
    BY <1>15 DEF LockPrunedRow
  <2>2. CASE Goto(p, "charge")
    BY <1>1, <1>3, <2>1, <2>2 DEF Inserting, PCs
  <2>3. CASE UNCHANGED pc
    BY <1>3, <2>1, <2>3 DEF OnlyMoves
  <2> QED BY <2>1, <2>2, <2>3
<1>16. CASE RankVersions(p) \/ RetentionLockQuota(p) \/ Survey(p)
  <2>1. /\ pc[p] \in {"idle", "charge", "expireAssets", "readAssets", "readVersions"}
        /\ row' = row /\ created' = created
        /\ \E l \in {"prune", "expireAssets", "readAssets", "readVersions", "expire"} : Goto(p, l)
    BY <1>16 DEF RankVersions, RetentionLockQuota, Survey, ExpireAssets, ReadLiveAssets,
        ReadLiveVersions
  <2> QED BY <1>1, <1>3, <2>1 DEF Inserting, PCs
<1>17. CASE CommitRetention(p)
  BY <1>17, RetentionKeepsRows
<1>18. CASE QuotaStep(p)
  <2>1. /\ pc[p] \in {"idle", "countStorage", "countArtifacts", "setQuota"}
        /\ row' = row /\ created' = created
        /\ Finish(p) \/ \E l \in {"countStorage", "countArtifacts", "setQuota"} : Goto(p, l)
    BY <1>18 DEF QuotaStep, BeginRecount, CountStorage, CountArtifacts, SetQuota
  <2> QED BY <1>1, <1>2, <1>3, <2>1 DEF Inserting, PCs
<1> QED
  BY <1>4, <1>5, <1>6, <1>7, <1>8, <1>9, <1>10, <1>11, <1>12, <1>13, <1>14, <1>15, <1>16,
     <1>17, <1>18 DEF Step, PublishStep, UpsertStep, RetentionStep
-----------------------------------------------------------------------------
(* The processes.                                                          *)

LEMMA OthersStay ==
  ASSUME TypeOK, NEW p \in Procs, Step(p), NEW q \in Procs, q # p
  PROVE  pc'[q] = pc[q] /\ job'[q] = job[q]
<1>0. job \in [Procs -> Job] /\ pc \in [Procs -> PCs]
  BY DEF TypeOK
<1>1. CASE StartRequest(p) \/ (\E d \in Digests : LockDigest(p, d))
  BY <1>0, <1>1 DEF StartRequest, StartStore, StartReplace, StartTouch, LockDigest, Goto
<1>2. CASE PublishStep(p)
  BY <1>0, <1>2 DEF PublishStep, StoreRef, CreateVersion, Conflict, CreateOverQuota, ReleaseRef,
     DropOldAsset, UpsertAsset, Finish, Goto
<1>3. CASE UpsertStep(p)
  BY <1>0, <1>3 DEF UpsertStep, ReplaceLockQuota, CommitReplace, ReplaceOverQuota,
     LockVersionRow, UpsertVersion, UpsertOverQuota, Abandon, Finish, Goto
<1>4. CASE RetentionStep(p)
  BY <1>0, <1>4 DEF RetentionStep, RankVersions, LockPrunedRow, RetentionLockQuota, Survey,
      ExpireAssets, ReadLiveAssets, ReadLiveVersions,
     CommitRetention, Finish, Goto
<1>5. CASE QuotaStep(p)
  BY <1>0, <1>5 DEF QuotaStep, BeginRecount, CountStorage, CountArtifacts, SetQuota, Finish, Goto
<1>6. CASE DeadlockVictim(p) \/ Crash(p)
  BY <1>0, <1>6 DEF DeadlockVictim, Crash, Abandon, Finish, Goto
<1> QED BY <1>1, <1>2, <1>3, <1>4, <1>5, <1>6 DEF Step

LEMMA SurplusStep ==
  ASSUME TypeOK, OrderInv, ProcInv, TypeOK', OrderInv', NEW p \in Procs,
         Promotes \/ CommitRetention(p), NEW v \in Versions, Surplus(v)
  PROVE  Surplus(v)'
<1>1. CASE Promotes
  BY <1>1, SurplusStays DEF Promotes
<1>2. CASE CommitRetention(p)
  <2> DEFINE S == job[p].pruned
  <2>1. S \in SUBSET Versions /\ \A u \in S : Surplus(u)
    BY <1>2 DEF CommitRetention, ProcInv, RetainsNewest, Retaining, TypeOK, Job
  <2>2. IsFiniteSet(NewerThan(v) \ S) /\ Cardinality(NewerThan(v) \ S) >= KeepLastN
    BY <2>1, PruningLeavesNewest
  <2>3. LiveVersions' = LiveVersions \ S /\ created' = created /\ row'[v].state # "none"
    BY <1>2 DEF CommitRetention, TypeOK, Row, LiveVersions, Surplus
  <2>4. NewerThan(v)' = NewerThan(v) \ S
    BY <2>3 DEF NewerThan, Position
  <2> QED BY <2>2, <2>3, <2>4 DEF Surplus
<1> QED BY <1>1, <1>2

LEMMA MutableRequest ==
  ASSUME NEW p \in Procs, NEW kind, kind # "publish", NEW v \in Versions, NEW d,
         Serves(p, kind, v, d)
  PROVE  v \notin Immutable
BY DEF Serves, Immutable

LEMMA UpsertsMutableStep ==
  ASSUME TypeOK, NEW p \in Procs, UpsertsMutable(p), Step(p)
  PROVE  UpsertsMutable(p)'
<1>0. job \in [Procs -> Job] /\ pc \in [Procs -> PCs]
  BY DEF TypeOK
<1>1. ASSUME NEW l \in {"idle", "create", "release", "unasset", "asset", "prune", "charge",
                        "expireAssets", "readAssets", "readVersions", "expire", "countStorage",
                        "countArtifacts", "setQuota"},
             pc'[p] = l
      PROVE  UpsertsMutable(p)'
  BY <1>1 DEF UpsertsMutable
<1>2. CASE StartRequest(p)
  <2>1. ASSUME NEW v \in Versions, NEW d \in Digests, NEW kind \in {"publish", "upsert"},
               StartStore(p, kind, v, d)
        PROVE  UpsertsMutable(p)'
    BY <1>0, <2>1, MutableRequest DEF StartStore, Goto, UpsertsMutable, JobFor
  <2>2. ASSUME NEW v \in Versions, NEW d \in Digests, StartReplace(p, v, d)
        PROVE  UpsertsMutable(p)'
    BY <1>0, <2>2, MutableRequest DEF StartReplace, Goto, UpsertsMutable, JobFor
  <2>3. ASSUME NEW v \in Versions, StartTouch(p, v)
        PROVE  UpsertsMutable(p)'
    BY <1>0, <2>3, MutableRequest DEF StartTouch, Goto, UpsertsMutable, JobFor
  <2> QED BY <1>2, <2>1, <2>2, <2>3 DEF StartRequest
<1>3. CASE \E d \in Digests : LockDigest(p, d)
  BY <1>3 DEF LockDigest, UpsertsMutable
<1>4. CASE StoreRef(p)
  BY <1>0, <1>4 DEF StoreRef, Goto, UpsertsMutable, Job
<1>5. CASE CreateVersion(p) \/ Conflict(p) \/ CreateOverQuota(p) \/ ReleaseRef(p)
           \/ DropOldAsset(p) \/ UpsertAsset(p)
  <2>1. pc'[p] \in {"idle", "release", "asset"}
    BY <1>0, <1>5 DEF CreateVersion, Conflict, CreateOverQuota, ReleaseRef, DropOldAsset,
       UpsertAsset, Finish, Goto
  <2> QED BY <1>1, <2>1
<1>6. CASE ReplaceLockQuota(p)
  BY <1>0, <1>6 DEF ReplaceLockQuota, Goto, UpsertsMutable
<1>7. CASE LockVersionRow(p)
  BY <1>0, <1>7 DEF LockVersionRow, Goto, UpsertsMutable, Job
<1>8. CASE CommitReplace(p) \/ UpsertVersion(p) \/ ReplaceOverQuota(p) \/ UpsertOverQuota(p)
           \/ DeadlockVictim(p) \/ Crash(p)
  <2>1. pc'[p] \in {"idle", "unasset", "asset"}
    BY <1>0, <1>8 DEF CommitReplace, UpsertVersion, ReplaceOverQuota, UpsertOverQuota,
       DeadlockVictim, Crash, Abandon, Finish, Goto
  <2> QED BY <1>1, <2>1
<1>9. CASE RetentionStep(p)
  <2>1. pc'[p] \in {"idle", "prune", "charge", "expireAssets", "readAssets", "readVersions",
      "expire"}
    BY <1>0, <1>9 DEF RetentionStep, RankVersions, LockPrunedRow, RetentionLockQuota, Survey,
        ExpireAssets, ReadLiveAssets, ReadLiveVersions,
       CommitRetention, Finish, Goto
  <2> QED BY <1>1, <2>1
<1>10. CASE QuotaStep(p)
  <2>1. pc'[p] \in {"idle", "countStorage", "countArtifacts", "setQuota"}
    BY <1>0, <1>10 DEF QuotaStep, BeginRecount, CountStorage, CountArtifacts, SetQuota,
       Finish, Goto
  <2> QED BY <1>1, <2>1
<1> QED
  BY <1>2, <1>3, <1>4, <1>5, <1>6, <1>7, <1>8, <1>9, <1>10 DEF Step, PublishStep, UpsertStep

(* A retention ranks in one snapshot, and prunes what it ranked.           *)
LEMMA RetainsNewestStep ==
  ASSUME TypeOK, OrderInv, ProcInv, TypeOK', OrderInv', NEW p \in Procs, Step(p),
         NEW q \in Procs
  PROVE  RetainsNewest(q)'
<1>0. /\ job \in [Procs -> Job] /\ pc \in [Procs -> PCs]
      /\ job[p].pruned \subseteq Versions /\ job[q].pruned \subseteq Versions
  BY DEF TypeOK, Job
<1>1. ASSUME NEW v \in Versions, Surplus(v)
      PROVE  Surplus(v)'
  BY <1>1, OrderStep, SurplusStep
<1>2. ASSUME pc[q] \in Retaining, job'[q].pruned = job[q].pruned
      PROVE  RetainsNewest(q)'
  BY <1>0, <1>1, <1>2 DEF RetainsNewest, ProcInv
<1>3. CASE q # p
  <2>1. pc'[q] = pc[q] /\ job'[q] = job[q]
    BY <1>3, OthersStay
  <2> QED BY <1>2, <2>1 DEF RetainsNewest
<1>4. CASE RankVersions(p) /\ q = p
  <2>1. IsFiniteSet(LiveVersions)
    BY LiveAreFinite
  <2>2. IsFiniteSet(BeyondNewest(KeepLastN)) /\ \A v \in LiveVersions : IsFiniteSet(NewerThan(v))
    BY <2>1, FS_Subset DEF BeyondNewest, NewerThan
  <2>3. \A v \in BeyondNewest(KeepLastN) : v \in Versions /\ Surplus(v)
    BY <2>2 DEF BeyondNewest, LiveVersions, Surplus
  <2>4. p \in Sweepers /\ job'[p].pruned = BeyondNewest(KeepLastN)
    BY <1>0, <1>4 DEF RankVersions, Job
  <2> QED BY <1>1, <1>4, <2>2, <2>3, <2>4 DEF RetainsNewest
<1>5. CASE (\E d \in Digests : LockDigest(p, d)) /\ q = p
  <2>1. pc'[p] = pc[p] /\ job'[p] = job[p]
    BY <1>5 DEF LockDigest
  <2> QED BY <1>2, <1>5, <2>1 DEF RetainsNewest
<1>6. CASE ((\E v \in Versions : LockPrunedRow(p, v)) \/ RetentionLockQuota(p) \/ Survey(p))
           /\ q = p
  <2>1. pc[p] \in Retaining /\ job'[p].pruned = job[p].pruned
    BY <1>0, <1>6 DEF LockPrunedRow, RetentionLockQuota, Survey, ExpireAssets, ReadLiveAssets,
        ReadLiveVersions, Retaining, Job
  <2> QED BY <1>2, <1>6, <2>1
<1>7. CASE StartRequest(p) /\ q = p
  <2>1. pc'[p] \in {"store", "replace", "lockRow"}
    BY <1>0, <1>7 DEF StartRequest, StartStore, StartReplace, StartTouch, Goto
  <2> QED BY <1>7, <2>1 DEF RetainsNewest, Retaining
<1>8. CASE (PublishStep(p) \/ UpsertStep(p) \/ QuotaStep(p)) /\ q = p
  <2>1. CASE PublishStep(p)
    <3>1. pc'[p] \in {"create", "lockRow", "asset", "release", "idle"}
      BY <1>0, <2>1 DEF PublishStep, StoreRef, CreateVersion, Conflict, CreateOverQuota,
          ReleaseRef,
         DropOldAsset, UpsertAsset, Finish, Goto
    <3> QED BY <1>8, <3>1 DEF RetainsNewest, Retaining
  <2>2. CASE UpsertStep(p)
    <3>1. pc'[p] \in {"replaceRow", "unasset", "asset", "upsert", "idle"}
      BY <1>0, <2>2 DEF UpsertStep, ReplaceLockQuota, CommitReplace, ReplaceOverQuota,
         LockVersionRow, UpsertVersion, UpsertOverQuota, Abandon, Finish, Goto
    <3> QED BY <1>8, <3>1 DEF RetainsNewest, Retaining
  <2>3. CASE QuotaStep(p)
    <3>1. pc'[p] \in {"countStorage", "countArtifacts", "setQuota", "idle"}
      BY <1>0, <2>3 DEF QuotaStep, BeginRecount, CountStorage, CountArtifacts, SetQuota,
         Finish, Goto
    <3> QED BY <1>8, <3>1 DEF RetainsNewest, Retaining
  <2> QED BY <1>8, <2>1, <2>2, <2>3
<1>9. CASE (CommitRetention(p) \/ DeadlockVictim(p) \/ Crash(p)) /\ q = p
  <2>1. pc'[p] = "idle"
    BY <1>0, <1>9 DEF CommitRetention, DeadlockVictim, Crash, Abandon, Finish, Goto
  <2> QED BY <1>9, <2>1 DEF RetainsNewest, Retaining
<1> QED BY <1>3, <1>4, <1>5, <1>6, <1>7, <1>8, <1>9 DEF Step, RetentionStep

LEMMA ProcStep ==
  ASSUME TypeOK, OrderInv, ProcInv, TypeOK', OrderInv', NEW p \in Procs, Step(p)
  PROVE  ProcInv'
<1> SUFFICES ASSUME NEW q \in Procs
             PROVE  UpsertsMutable(q)' /\ RetainsNewest(q)'
  BY DEF ProcInv
<1>1. CASE q = p
  BY <1>1, UpsertsMutableStep, RetainsNewestStep DEF ProcInv
<1>2. CASE q # p
  <2>1. pc'[q] = pc[q] /\ job'[q] = job[q]
    BY <1>2, OthersStay
  <2>2. UpsertsMutable(q)'
    BY <2>1 DEF ProcInv, UpsertsMutable
  <2> QED BY <2>2, RetainsNewestStep
<1> QED BY <1>1, <1>2
-----------------------------------------------------------------------------
(* The locks.                                                              *)

LocksStay(q) ==
  /\ \A d \in Digests : digestLock'[d] = q <=> digestLock[d] = q
  /\ \A v \in Versions : rowLock'[v] = q <=> rowLock[v] = q
  /\ quotaLock' = q => quotaLock = q

LEMMA OthersLocksStay ==
  ASSUME TypeOK, NEW p \in Procs, Step(p), NEW q \in Procs, q # p
  PROVE  /\ DigestsHeld(q)' = DigestsHeld(q) /\ RowsHeld(q)' = RowsHeld(q)
         /\ quotaLock' = q => quotaLock = q
<1>0. q # NoProc /\ p # NoProc
  BY PublishingAssumption DEF PublishingAssumption
<1> SUFFICES LocksStay(q)
  BY DEF LocksStay, DigestsHeld, RowsHeld
<1>1. ASSUME UNCHANGED locks
      PROVE  LocksStay(q)
  BY <1>1 DEF locks, LocksStay
<1>2. ASSUME EndTransaction(p)
      PROVE  LocksStay(q)
  BY <1>0, <1>2 DEF EndTransaction, TypeOK, LocksStay
<1>3. CASE StartRequest(p)
  BY <1>1, <1>3 DEF StartRequest, StartStore, StartReplace, StartTouch
<1>4. CASE \E d \in Digests : LockDigest(p, d)
  BY <1>0, <1>4 DEF LockDigest, TypeOK, LocksStay
<1>5. CASE PublishStep(p)
  BY <1>1, <1>2, <1>5 DEF PublishStep, StoreRef, CreateVersion, Conflict, CreateOverQuota,
     ReleaseRef, DropOldAsset, UpsertAsset
<1>6. CASE UpsertStep(p)
  <2>1. CASE ReplaceLockQuota(p)
    BY <1>0, <2>1 DEF ReplaceLockQuota, LockedQuota, LocksStay
  <2>2. CASE LockVersionRow(p)
    BY <1>0, <2>2 DEF LockVersionRow, RowFree, TypeOK, LocksStay
  <2> QED BY <1>2, <1>6, <2>1, <2>2 DEF UpsertStep, CommitReplace, ReplaceOverQuota,
      UpsertVersion, UpsertOverQuota, Abandon
<1>7. CASE RetentionStep(p)
  <2>1. CASE \E v \in Versions : LockPrunedRow(p, v)
    BY <1>0, <2>1 DEF LockPrunedRow, TypeOK, LocksStay
  <2>2. CASE RetentionLockQuota(p)
    BY <1>0, <2>2 DEF RetentionLockQuota, LockedQuota, LocksStay
  <2> QED BY <1>1, <1>2, <1>7, <2>1, <2>2 DEF RetentionStep, RankVersions, Survey, ExpireAssets,
      ReadLiveAssets, ReadLiveVersions, CommitRetention
<1>8. CASE QuotaStep(p)
  <2>1. CASE BeginRecount(p)
    BY <1>0, <2>1 DEF BeginRecount, LockedQuota, LocksStay
  <2> QED BY <1>1, <1>2, <1>8, <2>1 DEF QuotaStep, CountStorage, CountArtifacts, SetQuota
<1>9. CASE DeadlockVictim(p) \/ Crash(p)
  BY <1>2, <1>9 DEF DeadlockVictim, Crash, Abandon
<1> QED
  BY <1>3, <1>4, <1>5, <1>6, <1>7, <1>8, <1>9 DEF Step

(* A transaction that ends keeps no lock.                                  *)
LEMMA EndReleases ==
  ASSUME TypeOK, NEW p \in Procs, EndTransaction(p)
  PROVE  HoldsInOrder(p)'
<1>1. p # NoProc
  BY PublishingAssumption DEF PublishingAssumption
<1>2. DigestsHeld(p)' = {} /\ RowsHeld(p)' = {} /\ quotaLock' # p
  BY <1>1 DEF EndTransaction, DigestsHeld, RowsHeld, TypeOK
<1> QED BY <1>2 DEF HoldsInOrder

LEMMA OwnLocksStep ==
  ASSUME TypeOK, NEW p \in Procs, HoldsInOrder(p), Step(p)
  PROVE  HoldsInOrder(p)'
<1>0. /\ job \in [Procs -> Job] /\ pc \in [Procs -> PCs] /\ p # NoProc
      /\ rowLock \in [Versions -> Procs \union {NoProc}]
      /\ digestLock \in [Digests -> Procs \union {NoProc}]
  BY PublishingAssumption DEF PublishingAssumption, TypeOK
<1>1. ASSUME pc[p] \in {"idle", "create", "unasset", "asset"}, UNCHANGED locks
      PROVE  HoldsInOrder(p)'
  BY <1>1 DEF HoldsInOrder, DigestsHeld, DigestsWanted, RowsHeld, locks, Retaining
<1>2. CASE StartRequest(p)
  BY <1>1, <1>2 DEF StartRequest, StartStore, StartReplace, StartTouch, Serves
<1>3. CASE \E d \in Digests : LockDigest(p, d)
  <2>1. PICK d \in Digests : LockDigest(p, d)
    BY <1>3
  <2>2. DigestsHeld(p)' = DigestsHeld(p) \union {d} /\ DigestsWanted(p)' = DigestsWanted(p)
    BY <1>0, <2>1 DEF LockDigest, DigestsHeld, DigestsWanted
  <2>3. /\ d \in DigestsWanted(p) /\ pc[p] # "replaceRow"
        /\ \A e \in DigestsWanted(p) \ DigestsHeld(p) : d <= e
    BY <2>1 DEF LockDigest, NextDigest, DigestsWanted
  <2>4. DigestsWanted(p) \subseteq Nat
    BY <1>0, PublishingAssumption DEF PublishingAssumption, DigestsWanted, Job
  <2>5. \A x \in DigestsHeld(p) \union {d} :
          x \in DigestsWanted(p)
            /\ \A e \in DigestsWanted(p) \ (DigestsHeld(p) \union {d}) : x < e
    BY <2>3, <2>4 DEF HoldsInOrder
  <2> QED BY <2>1, <2>2, <2>5 DEF LockDigest, HoldsInOrder, RowsHeld
<1>4. CASE PublishStep(p)
  BY <1>1, <1>4, EndReleases DEF PublishStep, StoreRef, CreateVersion, Conflict, CreateOverQuota,
     ReleaseRef, DropOldAsset, UpsertAsset
<1>5. CASE ReplaceLockQuota(p)
  BY <1>0, <1>5 DEF ReplaceLockQuota, HoldsInOrder, Goto, DigestsHeld, RowsHeld, Retaining
<1>6. CASE LockVersionRow(p)
  <2>1. DigestsHeld(p) = {} /\ quotaLock # p /\ RowsHeld(p) = {}
    BY <1>6 DEF LockVersionRow, HoldsInOrder, DigestsWanted, Retaining
  <2>2. DigestsHeld(p)' = {} /\ quotaLock' # p /\ pc'[p] = "upsert"
    BY <1>0, <1>6, <2>1 DEF LockVersionRow, Goto, DigestsHeld
  <2>3. job'[p].version = job[p].version
    BY <1>0, <1>6 DEF LockVersionRow, Job
  <2>4. \A v \in RowsHeld(p)' : v = job[p].version
    BY <1>0, <1>6, <2>1 DEF LockVersionRow, RowsHeld
  <2> QED BY <2>2, <2>3, <2>4 DEF HoldsInOrder
<1>7. CASE CommitReplace(p) \/ ReplaceOverQuota(p) \/ UpsertVersion(p) \/ UpsertOverQuota(p)
           \/ DeadlockVictim(p) \/ Crash(p)
  BY <1>7, EndReleases DEF CommitReplace, ReplaceOverQuota, UpsertVersion, UpsertOverQuota,
     DeadlockVictim, Crash, Abandon
<1>8. CASE RetentionStep(p)
  <2>1. CASE \E v \in Versions : LockPrunedRow(p, v)
    <3>1. DigestsHeld(p)' = {} /\ quotaLock' # p /\ pc'[p] \in Retaining
      BY <1>0, <2>1 DEF LockPrunedRow, HoldsInOrder, DigestsWanted, DigestsHeld, Goto, Retaining
    <3> QED BY <3>1 DEF HoldsInOrder
  <2>2. CASE RetentionLockQuota(p)
    <3>1. DigestsHeld(p)' = {} /\ pc'[p] = "expireAssets"
      BY <1>0, <2>2 DEF RetentionLockQuota, HoldsInOrder, DigestsWanted, DigestsHeld, Goto
    <3> QED BY <3>1 DEF HoldsInOrder, Retaining
  <2>3. CASE Survey(p)
    <3>1. DigestsHeld(p)' = {} /\ pc'[p] \in Expiring
      BY <1>0, <2>3 DEF Survey, ExpireAssets, ReadLiveAssets, ReadLiveVersions, HoldsInOrder,
          DigestsWanted, DigestsHeld,
         Goto, locks, Expiring
    <3> QED BY <3>1 DEF HoldsInOrder, Retaining, Expiring
  <2> QED BY <1>1, <1>8, <2>1, <2>2, <2>3, EndReleases DEF RetentionStep, RankVersions,
      CommitRetention
<1>9. CASE QuotaStep(p)
  <2>1. CASE BeginRecount(p)
    <3>1. DigestsHeld(p)' = {} /\ RowsHeld(p)' = {} /\ pc'[p] = "countStorage"
      BY <1>0, <2>1
        DEF BeginRecount, HoldsInOrder, DigestsWanted, DigestsHeld, RowsHeld, Goto, Retaining
    <3> QED BY <3>1 DEF HoldsInOrder
  <2>2. CASE CountStorage(p) \/ CountArtifacts(p)
    <3>1. /\ DigestsHeld(p)' = {} /\ RowsHeld(p)' = {}
          /\ pc'[p] \in {"countArtifacts", "setQuota"}
      BY <1>0, <2>2 DEF CountStorage, CountArtifacts, HoldsInOrder, DigestsWanted, DigestsHeld,
         RowsHeld, Goto, Retaining, locks
    <3> QED BY <3>1 DEF HoldsInOrder
  <2> QED BY <1>9, <2>1, <2>2, EndReleases DEF QuotaStep, SetQuota
<1> QED
  BY <1>2, <1>3, <1>4, <1>5, <1>6, <1>7, <1>8, <1>9 DEF Step, UpsertStep

LEMMA LockStep ==
  ASSUME TypeOK, LockInv, NEW p \in Procs, Step(p)
  PROVE  LockInv'
<1> SUFFICES ASSUME NEW q \in Procs
             PROVE  HoldsInOrder(q)'
  BY DEF LockInv
<1>1. CASE q = p
  BY <1>1, OwnLocksStep DEF LockInv
<1>2. CASE q # p
  <2>1. pc'[q] = pc[q] /\ job'[q] = job[q]
    BY <1>2, OthersStay
  <2>2. DigestsWanted(q)' = DigestsWanted(q)
    BY <2>1 DEF DigestsWanted
  <2>3. HoldsInOrder(q)
    BY DEF LockInv
  <2> QED BY <1>2, <2>1, <2>2, <2>3, OthersLocksStay DEF HoldsInOrder
<1> QED BY <1>1, <1>2
-----------------------------------------------------------------------------
(* Who can wait for whom.                                                  *)

WaitsForDigest(p, d, q) == NextDigest(p, d) /\ digestLock[d] = q
WaitsForQuota(p, q) == quotaLock = q
WaitsForRow(p, q) ==
  pc[p] \in {"lockRow", "upsert", "replaceRow"} /\ rowLock[job[p].version] = q

LEMMA WaitingIsFor ==
  ASSUME NEW p \in Procs, pc[p] # "prune", NEW q \in WaitsFor(p)
  PROVE  /\ q # p
         /\ \/ \E d \in Digests : WaitsForDigest(p, d, q)
            \/ WaitsForQuota(p, q)
            \/ WaitsForRow(p, q)
BY DEF WaitsFor, Others, WaitsForDigest, WaitsForQuota, WaitsForRow

LEMMA NoCycle ==
  ASSUME TypeOK, ProcInv, LockInv, NEW S \in SUBSET Waiting, WaitCycle(S),
         S \cap Sweepers = {}, ~ MixedUpserts(S)
  PROVE  FALSE
<1>1. /\ \A p \in S : p \in Procs /\ pc[p] \notin Retaining /\ pc[p] # "prune"
      /\ \A p \in S : WaitsFor(p) \cap S # {}
      /\ S # {}
  BY DEF Waiting, WaitCycle, Deadlocked, ProcInv, RetainsNewest, Retaining
<1>2. ASSUME NEW p \in S, NEW q \in S, WaitsForRow(p, q)
      PROVE  pc[q] = "upsert" /\ job[q].version = job[p].version
  <2>1. job[p].version \in RowsHeld(q)
    BY <1>1, <1>2 DEF WaitsForRow, RowsHeld, TypeOK, Job
  <2> QED BY <1>1, <2>1 DEF LockInv, HoldsInOrder
<1>3. \A p \in S : pc[p] # "replaceRow"
  <2> SUFFICES ASSUME NEW p \in S, pc[p] = "replaceRow"
               PROVE  FALSE
    OBVIOUS
  <2>1. PICK q \in S : q \in WaitsFor(p)
    BY <1>1
  <2>2. rowLock[job[p].version] = q
    BY <2>1 DEF WaitsFor, Others, NextDigest, DigestsWanted
  <2>3. pc[q] = "upsert" /\ job[q].version = job[p].version
    BY <1>2, <2>2 DEF WaitsForRow
  <2>4. job[p].op = "replace" /\ job[q].op \in {"upsert", "touch"}
    BY <1>1, <2>3 DEF ProcInv, UpsertsMutable
  <2> QED BY <2>3, <2>4 DEF MixedUpserts
<1>4. \A q \in S : quotaLock # q
  <2> SUFFICES ASSUME NEW q \in S, quotaLock = q
               PROVE  FALSE
    OBVIOUS
  <2>1. pc[q] \in {"countStorage", "countArtifacts", "setQuota"}
    BY <1>1, <1>3 DEF LockInv, HoldsInOrder, Retaining
  <2>2. WaitsFor(q) = {}
    BY <2>1 DEF WaitsFor, Others, NextDigest, DigestsWanted
  <2> QED BY <1>1, <2>2
<1>5. \A p, q \in S : ~ WaitsForRow(p, q)
  <2> SUFFICES ASSUME NEW p \in S, NEW q \in S, WaitsForRow(p, q)
               PROVE  FALSE
    OBVIOUS
  <2>1. pc[q] = "upsert" /\ rowLock[job[q].version] = q
    BY <1>2 DEF WaitsForRow
  <2>2. PICK r \in S : r \in WaitsFor(q)
    BY <1>1
  <2>3. r # q /\ (r = quotaLock \/ r = rowLock[job[q].version])
    BY <2>1, <2>2 DEF WaitsFor, Others, NextDigest, DigestsWanted
  <2> QED BY <1>4, <2>1, <2>3
<1>6. \A p \in S : \E q \in S, d \in Digests : WaitsForDigest(p, d, q)
  <2> TAKE p \in S
  <2>1. PICK q \in S : q \in WaitsFor(p)
    BY <1>1
  <2> QED BY <1>1, <1>4, <1>5, <2>1, WaitingIsFor DEF WaitsForQuota
<1>7. Digests \subseteq Nat /\ \A p \in S : DigestsWanted(p) \subseteq Digests
  BY <1>1, PublishingAssumption DEF PublishingAssumption, DigestsWanted, TypeOK, Job
(* The holder of a digest waits for a later one, so those who wait for     *)
(* digests later than one of them wait for each other already.             *)
<1>8. ASSUME NEW p \in S, NEW d \in Digests, NEW q \in S, WaitsForDigest(p, d, q),
             NEW e \in Digests, NextDigest(q, e)
      PROVE  d < e
  <2>1. d \in DigestsHeld(q) /\ e \in DigestsWanted(q) \ DigestsHeld(q)
    BY <1>8 DEF WaitsForDigest, DigestsHeld, NextDigest
  <2> QED BY <1>1, <1>3, <2>1 DEF LockInv, HoldsInOrder
<1>9. PICK p \in S, d \in Digests : NextDigest(p, d)
  BY <1>1, <1>6 DEF WaitsForDigest
<1> DEFINE T == {q \in S : \E e \in Digests : d < e /\ NextDigest(q, e)}
<1>10. \A q \in S : \A e, f \in Digests : NextDigest(q, e) /\ NextDigest(q, f) => e = f
  <2>1. ASSUME NEW q \in S, NEW e \in Digests, NEW f \in Digests,
               NextDigest(q, e), NextDigest(q, f)
        PROVE  e = f
    <3>1. e <= f /\ f <= e /\ e \in Nat /\ f \in Nat
      BY <1>7, <2>1 DEF NextDigest
    <3> QED BY <3>1
  <2> QED BY <2>1
<1>11. p \notin T
  BY <1>7, <1>9, <1>10
<1>12. ASSUME NEW q \in S, NEW e \in Digests, NextDigest(q, e), d <= e
       PROVE  WaitsFor(q) \cap T # {}
  <2>1. PICK r \in S : WaitsForDigest(q, e, r)
    BY <1>6, <1>10, <1>12 DEF WaitsForDigest
  <2>2. PICK f \in Digests : NextDigest(r, f)
    BY <1>6 DEF WaitsForDigest
  <2>3. e < f
    BY <1>8, <2>1, <2>2
  <2>4. r \in T
    BY <1>7, <1>12, <2>2, <2>3
  <2>5. r # q
    BY <1>7, <1>10, <1>12, <2>2, <2>3
  <2>6. r # NoProc
    BY <1>1, PublishingAssumption DEF PublishingAssumption
  <2>7. r \in WaitsFor(q)
    BY <2>1, <2>5, <2>6 DEF WaitsForDigest, WaitsFor, Others
  <2> QED BY <2>4, <2>7
<1>13. T # {}
  BY <1>7, <1>9, <1>12
<1>14. \A q \in T : WaitsFor(q) \cap T # {}
  BY <1>7, <1>12
<1>15. T = S
  BY <1>13, <1>14 DEF WaitCycle, Deadlocked
<1> QED BY <1>11, <1>15

-----------------------------------------------------------------------------
(* The theorems.                                                           *)

LEMMA InitIInv == Init => IInv
<1> SUFFICES ASSUME Init PROVE IInv
  OBVIOUS
<1>1. /\ \A p \in Procs : pc[p] = "idle" /\ p # NoProc /\ quotaLock # p
      /\ \A p \in Procs : DigestsHeld(p) = {} /\ RowsHeld(p) = {}
  BY PublishingAssumption DEF PublishingAssumption, Init, DigestsHeld, RowsHeld
<1>2. ProcInv /\ LockInv
  BY <1>1 DEF ProcInv, UpsertsMutable, RetainsNewest, Retaining, LockInv, HoldsInOrder
<1> QED BY <1>2, InitType DEF IInv

LEMMA IInvStep == IInv /\ [Next]_vars => IInv'
<1> SUFFICES ASSUME IInv, [Next]_vars PROVE IInv'
  OBVIOUS
<1>1. CASE Next
  <2>1. PICK p \in Procs : Step(p)
    BY <1>1 DEF Next
  <2>2. TypeInv'
    BY <2>1, TypeStep DEF IInv
  <2>3. OrderInv'
    BY <2>1, OrderStep DEF IInv, TypeInv
  <2>4. ProcInv' /\ LockInv'
    BY <2>1, <2>2, <2>3, ProcStep, LockStep DEF IInv, TypeInv
  <2> QED BY <2>2, <2>3, <2>4 DEF IInv
<1>2. CASE UNCHANGED vars
  <2> USE <1>2 DEF vars, history, usage, locks
  <2>1. TypeInv'
    BY DEF IInv, TypeInv, TypeOK
  <2>2. OrderInv'
    BY DEF IInv, OrderInv
  <2>3. \A v : NewerThan(v)' = NewerThan(v)
    BY DEF NewerThan, LiveVersions, Position
  <2>4. ProcInv'
    BY <2>3 DEF IInv, ProcInv, UpsertsMutable, RetainsNewest, Surplus
  <2>5. LockInv'
    BY DEF IInv, LockInv, HoldsInOrder, DigestsHeld, DigestsWanted, RowsHeld
  <2> QED BY <2>1, <2>2, <2>4, <2>5 DEF IInv
<1> QED BY <1>1, <1>2

LEMMA IInvAlways == Spec => []IInv
BY InitIInv, IInvStep, PTL DEF Spec

(* The variables have their types in every reachable state.                *)
THEOREM TypeCorrect == Spec => []TypeOK
<1>1. IInv => TypeOK
  BY DEF IInv, TypeInv
<1> QED BY <1>1, IInvAlways, PTL

(* Publishes, replacements, upserts, releases and recounts that wait for   *)
(* each other include both kinds of upsert of one version, or a retention: *)
(* lockDigestsTx sorts (blobs.ts:59), the quota row comes after every      *)
(* digest, and whoever holds it waits at most for a version's row.         *)
THEOREM WaitsAreOrdered == Spec => []NoDeadlock
<1>1. IInv => NoDeadlock
  BY NoCycle DEF IInv, TypeInv, NoDeadlock
<1> QED BY <1>1, IInvAlways, PTL

KeptByStep(v) ==
  /\ row[v].state # "none" /\ v \in Immutable => KeepsContent(v)
  /\ PrunedAsSurplus(v)

LEMMA WritesElsewhere ==
  ASSUME TypeOK, NEW p \in Procs, WriteRow(p), NEW v \in Versions,
         v \notin Immutable \/ row[v].state = "none" \/ v # job[p].version
  PROVE  KeptByStep(v)
<1>1. row' = [row EXCEPT ![job[p].version] = [state |-> "live", digest |-> job[p].digest]]
  BY DEF WriteRow
<1>2. row'[v].state = "deleted" => row'[v] = row[v]
  BY <1>1 DEF TypeOK
<1>3. row[v].state # "none" /\ v \in Immutable => row'[v] = row[v]
  BY <1>1 DEF TypeOK
<1> QED BY <1>2, <1>3 DEF KeptByStep, KeepsContent, PrunedAsSurplus

LEMMA StepKeeps ==
  ASSUME IInv, NEW p \in Procs, Step(p), NEW v \in Versions
  PROVE  KeptByStep(v)
<1>0. TypeOK /\ ProcInv
  BY DEF IInv, TypeInv
<1>1. ASSUME row' = row
      PROVE  KeptByStep(v)
  BY <1>1 DEF KeptByStep, KeepsContent, PrunedAsSurplus
<1>2. CASE StartRequest(p) \/ (\E d \in Digests : LockDigest(p, d)) \/ QuotaStep(p)
           \/ DeadlockVictim(p) \/ Crash(p)
  BY <1>1, <1>2 DEF StartRequest, StartStore, StartReplace, StartTouch, LockDigest, QuotaStep,
     BeginRecount, CountStorage, CountArtifacts, SetQuota, DeadlockVictim, Crash, Abandon
<1>3. CASE CreateVersion(p)
  <2>1. WriteRow(p) /\ row[job[p].version].state = "none"
    BY <1>3 DEF CreateVersion
  <2> QED BY <1>0, <2>1, WritesElsewhere
<1>4. CASE CommitReplace(p) \/ UpsertVersion(p)
  <2>1. WriteRow(p) /\ pc[p] \in {"replaceRow", "upsert"}
    BY <1>4 DEF CommitReplace, UpsertVersion
  <2>2. job[p].version \notin Immutable
    BY <1>0, <2>1 DEF ProcInv, UpsertsMutable
  <2> QED BY <1>0, <2>1, <2>2, WritesElsewhere
<1>5. CASE CommitRetention(p)
  <2>1. \A u \in job[p].pruned : Surplus(u)
    BY <1>0, <1>5 DEF CommitRetention, ProcInv, RetainsNewest, Retaining
  <2>2. row'[v] = IF v \in job[p].pruned THEN [row[v] EXCEPT !.state = "deleted"] ELSE row[v]
    BY <1>5 DEF CommitRetention
  <2>3. KeepsContent(v)
    BY <1>0, <2>2 DEF KeepsContent, TypeOK, Row
  <2>4. PrunedAsSurplus(v)
    BY <1>0, <2>1, <2>2 DEF PrunedAsSurplus, TypeOK, Row, Surplus
  <2> QED BY <2>3, <2>4 DEF KeptByStep
<1>6. CASE PublishStep(p)
  BY <1>1, <1>3, <1>6 DEF PublishStep, StoreRef, Conflict, CreateOverQuota, ReleaseRef,
     DropOldAsset, UpsertAsset
<1>7. CASE UpsertStep(p)
  BY <1>1, <1>4, <1>7 DEF UpsertStep, ReplaceLockQuota, ReplaceOverQuota, LockVersionRow,
     UpsertOverQuota, Abandon
<1>8. CASE RetentionStep(p)
  BY <1>1, <1>5, <1>8 DEF RetentionStep, RankVersions, LockPrunedRow, RetentionLockQuota,
      Survey, ExpireAssets, ReadLiveAssets, ReadLiveVersions
<1> QED BY <1>2, <1>6, <1>7, <1>8 DEF Step

(* A version that only publishes write keeps its content for ever and,     *)
(* once pruned, stays deleted; retention deletes a version only while      *)
(* KeepLastN newer ones are live, whatever was published, revived or       *)
(* pruned by another retention while it waited (README.md:99,              *)
(* retention.ts:94).                                                       *)
THEOREM PublishedVersionsAreKept == Spec => PublishedIsKept
<1>1. IInv /\ [Next]_vars => [\A v \in Versions : KeptByStep(v)]_vars
  BY StepKeeps DEF Next
<1>2. [\A v \in Versions : KeptByStep(v)]_vars =>
        [\A v \in Versions :
           /\ row[v].state # "none" /\ v \in Immutable => KeepsContent(v)
           /\ PrunedAsSurplus(v)]_vars
  BY DEF KeptByStep
<1> QED BY <1>1, <1>2, IInvAlways, PTL DEF Spec, PublishedIsKept
-----------------------------------------------------------------------------
(* Usage.                                                                  *)

(* One sweep runs at a time: two that rank the same version both refund    *)
(* it (retention.ts:94).                                                   *)
OneSweeper == \A p, q \in Sweepers : p = q

(* The org has a quota row, and no process creates a version that another  *)
(* one upserts: an upsert of a version that has no row locks nothing, and  *)
(* two would both charge it (versions.ts:81).                              *)
WritersApart ==
  /\ Metered /\ OneSweeper
  /\ \A p, q \in Procs : \A x \in Requests[p], y \in Requests[q] :
       p # q /\ x.op = "upsert" /\ x.version = y.version => y.op = "touch"

(* What the org is charged for.                                            *)
Stored == {r.digest : r \in refs}
Charged == Stored \union Elsewhere

(* Every writer of usage holds the quota row's lock from its first read.   *)
KeepsQuota(p) ==
  pc[p] \in {"replaceRow", "expireAssets", "readAssets", "readVersions", "expire",
  "countStorage", "countArtifacts", "setQuota"} =>
    quotaLock = p

CountsStorage(p) ==
  pc[p] \in {"countArtifacts", "setQuota"} => job[p].storage = Cardinality(Charged)

CountsArtifacts(p) == pc[p] = "setQuota" => job[p].artifacts = Cardinality(LiveVersions)

(* What a sweep refunds is live until it commits.                          *)
PrunesLive(p) ==
  /\ pc[p] \in Retaining => job[p].pruned \subseteq LiveVersions
  /\ pc[p] \in {"charge", "expireAssets", "readAssets", "readVersions", "expire"}
       => job[p].pruned \subseteq RowsHeld(p)

PruneInv == \A p \in Procs : PrunesLive(p)

Requesting == {"store", "create", "lockRow", "upsert", "replace", "replaceRow"}
Requested(p) == \E x \in Requests[p] : x.op = job[p].op /\ x.version = job[p].version

(* What an upsert charges is decided under the row's lock, or nobody else  *)
(* can create the row.                                                     *)
ChargesRight(p) ==
  /\ pc[p] \in Requesting => Requested(p)
  /\ pc[p] = "create" => job[p].op = "publish"
  /\ pc[p] \in {"lockRow", "upsert"} /\ job[p].op = "touch" =>
       row[job[p].version].state # "none"
  /\ pc[p] = "upsert" =>
       /\ job[p].charge <=> Revives(job[p].version)
       /\ rowLock[job[p].version] = p \/ row[job[p].version].state = "none"

StorageInv ==
  /\ metered /\ usedStorage = Cardinality(Charged)
  /\ \A p \in Procs : KeepsQuota(p) /\ CountsStorage(p)

UsageInv ==
  /\ StorageInv
  /\ PruneInv
  /\ usedArtifacts = Cardinality(LiveVersions) /\ Cardinality(LiveVersions) <= MaxArtifacts
  /\ \A p \in Procs : CountsArtifacts(p) /\ ChargesRight(p)

LEMMA ChargedAreFinite ==
  ASSUME TypeInv
  PROVE  IsFiniteSet(Charged) /\ Cardinality(Charged) \in Nat
<1> DEFINE f == [r \in refs |-> r.digest]
<1>1. f \in Surjection(refs, Stored)
  BY DEF Surjection, Stored
<1>2. IsFiniteSet(Stored) /\ IsFiniteSet(Elsewhere)
  BY <1>1, FS_Surjection, PublishingAssumption DEF PublishingAssumption, TypeInv
<1>3. IsFiniteSet(Charged)
  BY <1>2, FS_Union DEF Charged
<1> QED BY <1>3, FS_CardinalityType

LEMMA ReferencedIsCharged ==
  ASSUME NEW d, NEW rs
  PROVE  Referenced(d, rs) <=> d \in {r.digest : r \in rs} \union Elsewhere
BY DEF Referenced

LEMMA FewerBy ==
  ASSUME NEW S, IsFiniteSet(S), NEW T \in SUBSET S
  PROVE  Cardinality(S \ T) = Cardinality(S) - Cardinality(T) /\ Cardinality(T) \in Nat
         /\ Cardinality(S \ T) \in Nat
<1>1. IsFiniteSet(T) /\ S \cap T = T
  BY FS_Subset
<1> QED BY <1>1, FS_Difference, FS_CardinalityType

(* The steps that write storage, versions or the quota row.                *)
LEMMA Writers ==
  ASSUME TypeOK, NEW p \in Procs, Step(p)
  PROVE  /\ \/ refs' = refs /\ usedStorage' = usedStorage
            \/ StoreRef(p) \/ ReleaseRef(p) \/ CommitReplace(p) \/ CommitRetention(p) \/ SetQuota(p)
         /\ \/ row' = row /\ usedArtifacts' = usedArtifacts
            \/ CreateVersion(p) \/ CommitReplace(p) \/ UpsertVersion(p) \/ CommitRetention(p)
            \/ SetQuota(p)
         /\ metered => metered'
<1>1. CASE StartRequest(p) \/ (\E d \in Digests : LockDigest(p, d))
  BY <1>1 DEF StartRequest, StartStore, StartReplace, StartTouch, LockDigest, usage
<1>2. CASE PublishStep(p)
  BY <1>2 DEF PublishStep, StoreRef, CreateVersion, Conflict, CreateOverQuota, ReleaseRef,
     DropOldAsset, UpsertAsset, usage, AdjustStorage, AdjustArtifacts
<1>3. CASE UpsertStep(p)
  BY <1>3 DEF UpsertStep, ReplaceLockQuota, CommitReplace, ReplaceOverQuota,
     LockVersionRow, UpsertVersion, UpsertOverQuota, Abandon, usage, AdjustStorage,
     AdjustArtifacts
<1>4. CASE RetentionStep(p)
  BY <1>4 DEF RetentionStep, RankVersions, LockPrunedRow, RetentionLockQuota, Survey,
      ExpireAssets, ReadLiveAssets, ReadLiveVersions,
     CommitRetention, usage, AdjustStorage, AdjustArtifacts
<1>5. CASE QuotaStep(p)
  BY <1>5 DEF QuotaStep, BeginRecount, CountStorage, CountArtifacts, SetQuota, usage
<1>6. CASE DeadlockVictim(p) \/ Crash(p)
  BY <1>6 DEF DeadlockVictim, Crash, Abandon, usage
<1> QED BY <1>1, <1>2, <1>3, <1>4, <1>5, <1>6 DEF Step

(* A change of the charged digests, or of the live versions, finds the     *)
(* quota row free: by its own lock, or by the UPDATE that waits for it.    *)
LEMMA StorageStep ==
  ASSUME TypeInv, StorageInv, NEW p \in Procs, Step(p)
  PROVE  /\ usedStorage' = Cardinality(Charged')
         /\ Charged' = Charged \/ QuotaFree(p)
<1>0. /\ job[p].digest \in Digests /\ IsFiniteSet(Charged) /\ Cardinality(Charged) \in Nat
      /\ metered /\ usedStorage = Cardinality(Charged) /\ KeepsQuota(p) /\ CountsStorage(p)
  BY ChargedAreFinite DEF StorageInv, TypeInv, TypeOK, Job
<1>1. Charged' = {r.digest : r \in refs'} \union Elsewhere
  BY DEF Charged, Stored
<1>2. CASE refs' = refs /\ usedStorage' = usedStorage
  BY <1>0, <1>2 DEF Charged, Stored
<1>3. CASE SetQuota(p)
  BY <1>0, <1>3 DEF SetQuota, CountsStorage, Charged, Stored
<1>4. CASE StoreRef(p)
  <2> DEFINE d == job[p].digest
  <2>1. Charged' = Charged \union {d}
    BY <1>4 DEF StoreRef, Charged, Stored, RefOf
  <2>2. Referenced(d, refs) <=> d \in Charged
    BY ReferencedIsCharged DEF Charged, Stored
  <2>3. Cardinality(Charged \union {d}) =
          IF d \in Charged THEN Cardinality(Charged) ELSE Cardinality(Charged) + 1
    BY <1>0, FS_AddElement
  <2>4. usedStorage' = AtLeastZero(usedStorage + (IF d \in Charged THEN 0 ELSE 1))
    BY <1>0, <1>4, <2>2 DEF StoreRef, AdjustStorage
  <2>5. usedStorage' = Cardinality(Charged \union {d})
    BY <1>0, <2>3, <2>4 DEF AtLeastZero
  <2>6. QuotaFree(p)
    BY <1>4 DEF StoreRef
  <2> QED BY <2>1, <2>5, <2>6
<1>5. CASE ReleaseRef(p)
  <2> DEFINE d == job[p].digest
             rest == refs \ {RefOf(p)}
             refund == RefOf(p) \in refs /\ ~ Referenced(d, rest)
  <2>1. refs' = rest /\ AdjustStorage(IF refund THEN -1 ELSE 0) /\ (refund => QuotaFree(p))
    BY <1>5 DEF ReleaseRef
  <2>2. RefOf(p).digest = d
    BY DEF RefOf
  <2>3. CASE refund
    <3>1. d \in Charged /\ Charged' = Charged \ {d}
      BY <1>1, <2>1, <2>2, <2>3 DEF Charged, Stored, Referenced
    <3>2. Cardinality(Charged \ {d}) = Cardinality(Charged) - 1 /\ Cardinality(Charged \ {d}) \in Nat
      BY <1>0, <3>1, FS_RemoveElement, FS_CardinalityType
    <3>3. usedStorage' = AtLeastZero(usedStorage + (-1))
      BY <1>0, <2>1, <2>3 DEF AdjustStorage
    <3> QED BY <1>0, <2>1, <2>3, <3>1, <3>2, <3>3 DEF AtLeastZero
  <2>4. CASE ~ refund
    <3>1. Charged' = Charged
      BY <1>1, <2>1, <2>2, <2>4 DEF Charged, Stored, Referenced
    <3>2. usedStorage' = AtLeastZero(usedStorage + 0)
      BY <1>0, <2>1, <2>4 DEF AdjustStorage
    <3> QED BY <1>0, <3>1, <3>2 DEF AtLeastZero
  <2> QED BY <2>3, <2>4
<1>6. CASE CommitReplace(p)
  <2> DEFINE d == job[p].digest
             o == job[p].old
             rest == RefsLessOld(p)
             C == {r.digest : r \in rest} \union Elsewhere
             charge == IF Referenced(d, rest) THEN 0 ELSE 1
             refund == OldRef(p) \in refs /\ Changes(p) /\ ~ Referenced(o, rest)
  <2>1. /\ pc[p] = "replaceRow" /\ refs' = rest \union {RefOf(p)}
        /\ AdjustStorage(NetDelta(p))
        /\ NetDelta(p) = charge - (IF refund THEN 1 ELSE 0)
    BY <1>6 DEF CommitReplace, NetDelta, RefsAfterReplace
  <2>2. OldRef(p).digest = o /\ RefOf(p).digest = d
    BY DEF OldRef, RefOf
  <2>3. C = IF refund THEN Charged \ {o} ELSE Charged
    BY <2>2 DEF RefsLessOld, Charged, Stored, Referenced
  <2>4. refund => o \in Charged
    BY <2>2 DEF Charged, Stored
  <2>5. /\ IsFiniteSet(C) /\ Cardinality(C) \in Nat
        /\ Cardinality(C) = Cardinality(Charged) - (IF refund THEN 1 ELSE 0)
    <3> HIDE DEF C, refund, rest
    <3>1. CASE refund
      <4>1. C = Charged \ {o} /\ o \in Charged
        BY <2>3, <2>4, <3>1
      <4>2. /\ IsFiniteSet(Charged \ {o})
            /\ Cardinality(Charged \ {o}) = Cardinality(Charged) - 1
        BY <1>0, <4>1, FS_RemoveElement
      <4> QED BY <1>0, <3>1, <4>1, <4>2, FS_CardinalityType
    <3>2. CASE ~ refund
      BY <1>0, <2>3, <3>2
    <3> QED BY <3>1, <3>2
  <2>6. Charged' = C \union {d}
    BY <1>1, <2>1, <2>2
  <2>7. Referenced(d, rest) <=> d \in C
    BY ReferencedIsCharged
  <2> HIDE DEF C, refund, rest
  <2>8. Cardinality(C \union {d}) = Cardinality(C) + charge
    <3>1. Cardinality(C \union {d}) = IF d \in C THEN Cardinality(C) ELSE Cardinality(C) + 1
      BY <2>5, FS_AddElement
    <3> QED BY <2>5, <2>7, <3>1
  <2>9. usedStorage' = AtLeastZero(usedStorage + NetDelta(p))
    BY <1>0, <2>1 DEF AdjustStorage
  <2>10. usedStorage + NetDelta(p) = Cardinality(C) + charge
    BY <1>0, <2>1, <2>5
  <2>11. usedStorage' = Cardinality(Charged')
    BY <2>5, <2>6, <2>8, <2>9, <2>10 DEF AtLeastZero
  <2> QED BY <1>0, <2>1, <2>11 DEF KeepsQuota, QuotaFree
<1>7. CASE CommitRetention(p)
  <2>1. /\ pc[p] = "expire" /\ AdjustStorage(- Cardinality(RefundedByRetention(p)))
        /\ refs' = {r \in refs : r.digest \notin job[p].released}
    BY <1>7 DEF CommitRetention
  <2>2. /\ RefundedByRetention(p) \in SUBSET Charged
        /\ Charged' = Charged \ RefundedByRetention(p)
    BY <1>1, <2>1 DEF RefundedByRetention, Charged, Stored
  <2>3. /\ Cardinality(Charged \ RefundedByRetention(p))
             = Cardinality(Charged) - Cardinality(RefundedByRetention(p))
        /\ Cardinality(RefundedByRetention(p)) \in Nat
        /\ Cardinality(Charged \ RefundedByRetention(p)) \in Nat
    BY <1>0, <2>2, FewerBy
  <2>4. usedStorage' = AtLeastZero(usedStorage + (- Cardinality(RefundedByRetention(p))))
    BY <1>0, <2>1 DEF AdjustStorage
  <2>5. usedStorage' = Cardinality(Charged')
    BY <1>0, <2>2, <2>3, <2>4 DEF AtLeastZero
  <2> QED BY <1>0, <2>1, <2>5 DEF KeepsQuota, QuotaFree
<1> QED BY <1>2, <1>3, <1>4, <1>5, <1>6, <1>7, Writers DEF TypeInv

LEMMA VersionsStep ==
  ASSUME TypeInv, OrderInv, UsageInv, NEW p \in Procs, Step(p)
  PROVE  /\ usedArtifacts' = Cardinality(LiveVersions') /\ Cardinality(LiveVersions') <= MaxArtifacts
         /\ LiveVersions' = LiveVersions \/ QuotaFree(p)
<1> DEFINE v == job[p].version
           n == Cardinality(LiveVersions)
<1>0. /\ TypeOK /\ v \in Versions /\ IsFiniteSet(LiveVersions) /\ n \in Nat
      /\ metered /\ usedArtifacts = n /\ n <= MaxArtifacts /\ MaxArtifacts \in Nat
      /\ KeepsQuota(p) /\ CountsArtifacts(p) /\ ChargesRight(p) /\ PrunesLive(p)
  BY LiveAreFinite, FS_CardinalityType, PublishingAssumption
    DEF UsageInv, StorageInv, PruneInv, TypeInv, TypeOK, Job, PublishingAssumption
<1>1. CASE row' = row /\ usedArtifacts' = usedArtifacts
  BY <1>0, <1>1 DEF LiveVersions
<1>2. CASE SetQuota(p)
  BY <1>0, <1>2 DEF SetQuota, CountsArtifacts, LiveVersions
<1>3. ASSUME WriteRow(p), pc[p] \in Inserting,
             AdjustArtifacts(IF v \in LiveVersions THEN 0 ELSE 1),
             v \notin LiveVersions => ArtifactQuotaAllows(1)
      PROVE  usedArtifacts' = Cardinality(LiveVersions') /\ Cardinality(LiveVersions') <= MaxArtifacts
  <2>1. LiveVersions' = LiveVersions \union {v}
    BY <1>0, <1>3, WriteRowType
  <2>2. Cardinality(LiveVersions \union {v}) = IF v \in LiveVersions THEN n ELSE n + 1
    BY <1>0, FS_AddElement
  <2>3. usedArtifacts' = AtLeastZero(n + (IF v \in LiveVersions THEN 0 ELSE 1))
    BY <1>0, <1>3 DEF AdjustArtifacts
  <2>4. v \notin LiveVersions => n + 1 <= MaxArtifacts
    BY <1>0, <1>3 DEF ArtifactQuotaAllows
  <2> HIDE DEF n, v
  <2> QED BY <1>0, <2>1, <2>2, <2>3, <2>4 DEF AtLeastZero
<1>4. CASE CreateVersion(p)
  <2>1. WriteRow(p) /\ pc[p] \in Inserting /\ v \notin LiveVersions /\ QuotaFree(p)
    BY <1>4 DEF CreateVersion, Inserting, LiveVersions
  <2> QED BY <1>3, <1>4, <2>1 DEF CreateVersion
<1>5. CASE CommitReplace(p)
  <2>1. WriteRow(p) /\ pc[p] \in Inserting /\ pc[p] = "replaceRow" /\ (Revives(v) <=> v \notin LiveVersions)
    BY <1>0, <1>5 DEF CommitReplace, Inserting, LiveVersions, Revives
  <2>2. AdjustArtifacts(IF v \in LiveVersions THEN 0 ELSE 1)
    BY <1>5, <2>1 DEF CommitReplace, ArtifactsAdded
  <2>3. QuotaFree(p)
    BY <1>0, <2>1 DEF KeepsQuota, QuotaFree
  <2> QED BY <1>3, <1>5, <2>1, <2>2, <2>3 DEF CommitReplace
<1>6. CASE UpsertVersion(p)
  <2>1. WriteRow(p) /\ pc[p] = "upsert" /\ pc[p] \in Inserting /\ QuotaFree(p)
    BY <1>6 DEF UpsertVersion, Inserting
  <2>2. job[p].charge <=> v \notin LiveVersions
    BY <1>0, <2>1 DEF ChargesRight, Revives, LiveVersions
  <2>3. AdjustArtifacts(IF v \in LiveVersions THEN 0 ELSE 1)
    BY <1>6, <2>2 DEF UpsertVersion
  <2> QED BY <1>3, <1>6, <2>1, <2>2, <2>3 DEF UpsertVersion
<1>7. CASE CommitRetention(p)
  <2> DEFINE S == job[p].pruned
  <2>1. /\ pc[p] = "expire" /\ AdjustArtifacts(- Cardinality(S)) /\ S \in SUBSET LiveVersions
        /\ row' = [w \in Versions |-> IF w \in S THEN [row[w] EXCEPT !.state = "deleted"] ELSE row[w]]
    BY <1>0, <1>7 DEF CommitRetention, PrunesLive, Retaining
  <2>2. LiveVersions' = LiveVersions \ S
    BY <1>0, <2>1 DEF LiveVersions, TypeOK, Row
  <2>3. /\ Cardinality(LiveVersions \ S) = n - Cardinality(S)
        /\ Cardinality(S) \in Nat /\ Cardinality(LiveVersions \ S) \in Nat
    BY <1>0, <2>1, FewerBy
  <2>4. usedArtifacts' = AtLeastZero(n + (- Cardinality(S)))
    BY <1>0, <2>1 DEF AdjustArtifacts
  <2>5. QuotaFree(p)
    BY <1>0, <2>1 DEF KeepsQuota, QuotaFree
  <2> HIDE DEF n, S
  <2> QED BY <1>0, <2>2, <2>3, <2>4, <2>5 DEF AtLeastZero
<1> QED BY <1>1, <1>2, <1>4, <1>5, <1>6, <1>7, Writers DEF TypeInv

LEMMA QuotaLockStays ==
  ASSUME TypeOK, NEW p \in Procs, Step(p), NEW q \in Procs, q # p, quotaLock = q
  PROVE  quotaLock' = q
<1>0. q # NoProc /\ ~ QuotaFree(p)
  BY PublishingAssumption DEF PublishingAssumption, QuotaFree
<1>1. ASSUME EndTransaction(p)
      PROVE  quotaLock' = q
  BY <1>1 DEF EndTransaction
<1>2. CASE StartRequest(p) \/ (\E d \in Digests : LockDigest(p, d))
  BY <1>2 DEF StartRequest, StartStore, StartReplace, StartTouch, LockDigest, locks
<1>3. CASE PublishStep(p)
  BY <1>1, <1>3 DEF PublishStep, StoreRef, CreateVersion, Conflict, CreateOverQuota, ReleaseRef,
     DropOldAsset, UpsertAsset, locks
<1>4. CASE UpsertStep(p)
  BY <1>0, <1>1, <1>4 DEF UpsertStep, ReplaceLockQuota, CommitReplace, ReplaceOverQuota,
     LockVersionRow, UpsertVersion, UpsertOverQuota, Abandon, locks
<1>5. CASE RetentionStep(p)
  BY <1>0, <1>1, <1>5 DEF RetentionStep, RankVersions, LockPrunedRow, RetentionLockQuota,
      Survey, ExpireAssets, ReadLiveAssets, ReadLiveVersions,
     CommitRetention, locks
<1>6. CASE QuotaStep(p)
  BY <1>0, <1>1, <1>6 DEF QuotaStep, BeginRecount, CountStorage, CountArtifacts, SetQuota, locks
<1>7. CASE DeadlockVictim(p) \/ Crash(p)
  BY <1>1, <1>7 DEF DeadlockVictim, Crash, Abandon
<1> QED BY <1>2, <1>3, <1>4, <1>5, <1>6, <1>7 DEF Step

(* No version's row goes away.                                             *)
LEMMA RowsRemain ==
  ASSUME TypeOK, OrderInv, ProcInv, NEW p \in Procs, Step(p),
         NEW v \in Versions, row[v].state # "none"
  PROVE  row'[v].state # "none"
<1>1. OrderInv'
  BY OrderStep
<1>2. CASE Promotes
  BY <1>1, <1>2 DEF Promotes, KeepsOrder, OrderInv
<1>3. CASE CommitRetention(p)
  BY <1>3 DEF CommitRetention, TypeOK, Row
<1> QED BY <1>2, <1>3, OrderStep

(* A row that an upsert has decided to charge, or not, is left alone.      *)
LEMMA UpsertedRowStays ==
  ASSUME WritersApart, TypeOK, ProcInv, UsageInv, NEW p \in Procs, Step(p),
         NEW q \in Procs, q # p, pc[q] = "upsert"
  PROVE  row'[job[q].version] = row[job[q].version]
<1> DEFINE v == job[q].version
<1>0. /\ v \in Versions /\ job[p].version \in Versions /\ q # NoProc
      /\ row \in [Versions -> Row]
  BY PublishingAssumption DEF PublishingAssumption, TypeOK, Job
<1>1. /\ ChargesRight(p) /\ PrunesLive(p) /\ ChargesRight(q) /\ UpsertsMutable(p)
      /\ job[q].op \in {"upsert", "touch"} /\ Requested(q)
  BY DEF UsageInv, PruneInv, ChargesRight, Requesting, ProcInv, UpsertsMutable
<1>2. rowLock[v] = q \/ (row[v].state = "none" /\ job[q].op = "upsert")
  BY <1>1 DEF ChargesRight
<1>3. row[v].state = "none" => job[q].op = "upsert"
  BY <1>1 DEF ChargesRight
<1>4. ASSUME Requested(p), job[p].version = v, job[q].op = "upsert"
      PROVE  job[p].op = "touch"
  BY <1>1, <1>4 DEF WritersApart, Requested
<1>5. ASSUME WriteRow(p), job[p].version # v
      PROVE  row'[v] = row[v]
  BY <1>0, <1>5 DEF WriteRow
<1>6. CASE row' = row
  BY <1>6
<1>7. CASE CreateVersion(p)
  <2>1. /\ WriteRow(p) /\ Requested(p) /\ job[p].op = "publish"
        /\ row[job[p].version].state = "none"
    BY <1>1, <1>7 DEF CreateVersion, ChargesRight, Requesting
  <2> QED BY <1>3, <1>4, <1>5, <2>1
<1>8. CASE CommitReplace(p)
  <2>1. /\ WriteRow(p) /\ Requested(p) /\ job[p].op = "replace"
        /\ RowFree(p, job[p].version)
    BY <1>1, <1>8 DEF CommitReplace, ChargesRight, Requesting, UpsertsMutable
  <2> QED BY <1>0, <1>2, <1>4, <1>5, <2>1 DEF RowFree
<1>9. CASE UpsertVersion(p)
  <2>1. /\ WriteRow(p) /\ Requested(p) /\ RowFree(p, job[p].version)
        /\ job[p].op = "touch" => row[job[p].version].state # "none"
    BY <1>1, <1>9 DEF UpsertVersion, ChargesRight, Requesting
  <2> QED BY <1>0, <1>2, <1>4, <1>5, <2>1 DEF RowFree
<1>10. CASE CommitRetention(p)
  <2>1. v \notin job[p].pruned
    BY <1>0, <1>1, <1>2, <1>10
      DEF CommitRetention, PrunesLive, Retaining, RowsHeld, LiveVersions
  <2> QED BY <1>0, <1>10, <2>1 DEF CommitRetention
<1>11. SetQuota(p) => row' = row
  BY DEF SetQuota
<1> QED BY <1>6, <1>7, <1>8, <1>9, <1>10, <1>11, Writers

LEMMA StorageInvStep ==
  ASSUME TypeInv, StorageInv, NEW p \in Procs, Step(p)
  PROVE  StorageInv'
<1>0. TypeOK /\ metered /\ job \in [Procs -> Job] /\ pc \in [Procs -> PCs] /\ job[p] \in Job
  BY DEF TypeInv, TypeOK, StorageInv
<1>1. metered' /\ usedStorage' = Cardinality(Charged')
  BY <1>0, Writers, StorageStep
<1>2. ASSUME NEW q \in Procs, q # p
      PROVE  KeepsQuota(q)' /\ CountsStorage(q)'
  <2>0. /\ pc'[q] = pc[q] /\ job'[q] = job[q] /\ q # NoProc
        /\ KeepsQuota(q) /\ CountsStorage(q)
    BY <1>0, <1>2, OthersStay, PublishingAssumption DEF StorageInv, PublishingAssumption
  <2>1. KeepsQuota(q)'
    BY <1>0, <1>2, <2>0, QuotaLockStays DEF KeepsQuota
  <2>2. pc[q] \in {"countArtifacts", "setQuota"} => ~ QuotaFree(p)
    BY <1>2, <2>0 DEF KeepsQuota, QuotaFree
  <2> QED BY <2>0, <2>1, <2>2, StorageStep DEF CountsStorage
<1>3. KeepsQuota(p)' /\ CountsStorage(p)'
  <2>0. KeepsQuota(p) /\ CountsStorage(p)
    BY DEF StorageInv
  <2>1. ASSUME pc'[p] \notin {"replaceRow", "expireAssets", "readAssets", "readVersions",
      "expire", "countStorage",
                             "countArtifacts", "setQuota"}
        PROVE  KeepsQuota(p)' /\ CountsStorage(p)'
    BY <2>1 DEF KeepsQuota, CountsStorage
  <2>2. CASE StartRequest(p)
    BY <1>0, <2>1, <2>2 DEF StartRequest, StartStore, StartReplace, StartTouch, Goto
  <2>3. CASE \E d \in Digests : LockDigest(p, d)
    <3>1. UNCHANGED <<refs, quotaLock, pc, job>>
      BY <2>3 DEF LockDigest
    <3> QED BY <2>0, <3>1 DEF KeepsQuota, CountsStorage, Charged, Stored
  <2>4. CASE PublishStep(p)
    BY <1>0, <2>1, <2>4 DEF PublishStep, StoreRef, CreateVersion, Conflict, CreateOverQuota,
       ReleaseRef, DropOldAsset, UpsertAsset, Finish, Goto
  <2>5. CASE UpsertStep(p)
    <3>1. CASE ReplaceLockQuota(p)
      <4>1. pc'[p] = "replaceRow" /\ quotaLock' = p
        BY <1>0, <3>1 DEF ReplaceLockQuota, LockedQuota, Goto
      <4> QED BY <4>1 DEF KeepsQuota, CountsStorage
    <3> QED BY <1>0, <2>1, <2>5, <3>1 DEF UpsertStep, CommitReplace, ReplaceOverQuota,
        LockVersionRow, UpsertVersion, UpsertOverQuota, Abandon, Finish, Goto
  <2>6. CASE RetentionStep(p)
    <3>1. CASE RetentionLockQuota(p)
      <4>1. pc'[p] = "expireAssets" /\ quotaLock' = p
        BY <1>0, <3>1 DEF RetentionLockQuota, LockedQuota, Goto
      <4> QED BY <4>1 DEF KeepsQuota, CountsStorage
    <3>2. CASE Survey(p)
      <4>1. /\ pc[p] \in {"expireAssets", "readAssets", "readVersions"}
            /\ pc'[p] \in {"readAssets", "readVersions", "expire"} /\ quotaLock' = quotaLock
        BY <1>0, <3>2 DEF Survey, ExpireAssets, ReadLiveAssets, ReadLiveVersions, Goto, locks
      <4> QED BY <2>0, <4>1 DEF KeepsQuota, CountsStorage
    <3>3. CASE \E v \in Versions : LockPrunedRow(p, v)
      <4>1. pc'[p] \in {"prune", "charge"}
        BY <1>0, <3>3 DEF LockPrunedRow, Goto
      <4> QED BY <2>1, <4>1
    <3> QED BY <1>0, <2>1, <2>6, <3>1, <3>2, <3>3 DEF RetentionStep, RankVersions,
        CommitRetention, Finish, Goto
  <2>7. CASE QuotaStep(p)
    <3>1. CASE BeginRecount(p)
      <4>1. pc'[p] = "countStorage" /\ quotaLock' = p
        BY <1>0, <3>1 DEF BeginRecount, LockedQuota, Goto
      <4> QED BY <4>1 DEF KeepsQuota, CountsStorage
    <3>2. CASE CountStorage(p)
      <4>1. /\ pc[p] = "countStorage" /\ pc'[p] = "countArtifacts" /\ quotaLock' = quotaLock
            /\ job'[p].storage = Cardinality(Charged) /\ Charged' = Charged
        BY <1>0, <3>2 DEF CountStorage, Goto, Charged, Stored, locks, Job
      <4> QED BY <2>0, <4>1 DEF KeepsQuota, CountsStorage
    <3>3. CASE CountArtifacts(p)
      <4>1. /\ pc[p] = "countArtifacts" /\ pc'[p] = "setQuota" /\ quotaLock' = quotaLock
            /\ job'[p].storage = job[p].storage /\ Charged' = Charged
        BY <1>0, <3>3 DEF CountArtifacts, Goto, Charged, Stored, locks, Job
      <4> QED BY <2>0, <4>1 DEF KeepsQuota, CountsStorage
    <3> QED BY <1>0, <2>1, <2>7, <3>1, <3>2, <3>3 DEF QuotaStep, SetQuota, Finish, Goto
  <2>8. CASE DeadlockVictim(p) \/ Crash(p)
    BY <1>0, <2>1, <2>8 DEF DeadlockVictim, Crash, Abandon, Finish, Goto
  <2> QED BY <2>2, <2>3, <2>4, <2>5, <2>6, <2>7, <2>8 DEF Step
<1> QED BY <1>1, <1>2, <1>3 DEF StorageInv

LEMMA PruneInvStep ==
  ASSUME OneSweeper, TypeOK, OrderInv, ProcInv, PruneInv, NEW p \in Procs, Step(p)
  PROVE  PruneInv'
<1>0. /\ job \in [Procs -> Job] /\ pc \in [Procs -> PCs] /\ job[p] \in Job /\ PrunesLive(p)
      /\ rowLock \in [Versions -> Procs \union {NoProc}]
  BY DEF TypeOK, PruneInv
<1>1. ASSUME NEW q \in Procs, q # p
      PROVE  PrunesLive(q)'
  <2>0. pc'[q] = pc[q] /\ job'[q] = job[q] /\ RowsHeld(q)' = RowsHeld(q) /\ PrunesLive(q)
    BY <1>1, OthersStay, OthersLocksStay DEF PruneInv
  <2>1. CASE pc[q] \in Retaining
    <3>1. CommitRetention(p) => p \in Sweepers /\ q \in Sweepers
      BY <2>1 DEF CommitRetention, ProcInv, RetainsNewest, Retaining
    <3>2. LiveVersions \subseteq LiveVersions'
      BY <1>1, <3>1, OrderStep DEF OneSweeper, Promotes
    <3> QED BY <2>0, <3>2 DEF PrunesLive
  <2>2. CASE pc[q] \notin Retaining
    BY <2>0, <2>2 DEF PrunesLive, Retaining
  <2> QED BY <2>1, <2>2
<1>2. PrunesLive(p)'
  <2>1. ASSUME pc'[p] \notin Retaining
        PROVE  PrunesLive(p)'
    BY <2>1 DEF PrunesLive, Retaining
  <2>2. CASE RankVersions(p)
    <3>1. pc'[p] = "prune" /\ job'[p].pruned \subseteq LiveVersions /\ LiveVersions' = LiveVersions
      BY <1>0, <2>2 DEF RankVersions, Goto, BeyondNewest, Job, LiveVersions
    <3> QED BY <3>1 DEF PrunesLive
  <2>3. CASE \E v \in Versions : LockPrunedRow(p, v)
    <3>1. PICK v \in Versions : LockPrunedRow(p, v)
      BY <2>3
    <3>2. /\ pc[p] = "prune" /\ job' = job /\ LiveVersions' = LiveVersions
          /\ RowsHeld(p)' = RowsHeld(p) \union {v}
          /\ \/ pc'[p] = "charge" /\ job[p].pruned = RowsHeld(p) \union {v}
             \/ pc'[p] = "prune"
      BY <1>0, <3>1 DEF LockPrunedRow, Goto, LiveVersions, RowsHeld
    <3> QED BY <1>0, <3>2 DEF PrunesLive, Retaining
  <2>4. CASE RetentionLockQuota(p) \/ Survey(p)
    <3>1. /\ pc[p] \in {"charge", "expireAssets", "readAssets", "readVersions"}
          /\ job'[p].pruned = job[p].pruned
          /\ LiveVersions' = LiveVersions /\ RowsHeld(p)' = RowsHeld(p)
      BY <1>0, <2>4 DEF RetentionLockQuota, Survey, ExpireAssets, ReadLiveAssets,
          ReadLiveVersions, Goto, LiveVersions, RowsHeld, locks, Job
    <3> QED BY <1>0, <3>1 DEF PrunesLive, Retaining
  <2>5. CASE \E d \in Digests : LockDigest(p, d)
    <3>1. pc' = pc /\ job' = job /\ LiveVersions' = LiveVersions /\ RowsHeld(p)' = RowsHeld(p)
      BY <2>5 DEF LockDigest, LiveVersions, RowsHeld
    <3> QED BY <1>0, <3>1 DEF PrunesLive
  <2>6. CASE StartRequest(p)
    <3>1. pc'[p] \in {"store", "replace", "lockRow"}
      BY <1>0, <2>6 DEF StartRequest, StartStore, StartReplace, StartTouch, Goto
    <3> QED BY <2>1, <3>1 DEF Retaining
  <2>7. CASE PublishStep(p)
    <3>1. pc'[p] \in {"create", "lockRow", "asset", "release", "idle"}
      BY <1>0, <2>7 DEF PublishStep, StoreRef, CreateVersion, Conflict, CreateOverQuota,
          ReleaseRef,
         DropOldAsset, UpsertAsset, Finish, Goto
    <3> QED BY <2>1, <3>1 DEF Retaining
  <2>8. CASE UpsertStep(p)
    <3>1. pc'[p] \in {"replaceRow", "unasset", "asset", "upsert", "idle"}
      BY <1>0, <2>8 DEF UpsertStep, ReplaceLockQuota, CommitReplace, ReplaceOverQuota,
         LockVersionRow, UpsertVersion, UpsertOverQuota, Abandon, Finish, Goto
    <3> QED BY <2>1, <3>1 DEF Retaining
  <2>9. CASE QuotaStep(p) \/ CommitRetention(p) \/ DeadlockVictim(p) \/ Crash(p)
    <3>1. pc'[p] \in {"countStorage", "countArtifacts", "setQuota", "idle"}
      BY <1>0, <2>9 DEF QuotaStep, BeginRecount, CountStorage, CountArtifacts, SetQuota,
         CommitRetention, DeadlockVictim, Crash, Abandon, Finish, Goto
    <3> QED BY <2>1, <3>1 DEF Retaining
  <2> QED BY <2>2, <2>3, <2>4, <2>5, <2>6, <2>7, <2>8, <2>9 DEF Step, RetentionStep
<1> QED BY <1>1, <1>2 DEF PruneInv

LEMMA OthersUsageStep ==
  ASSUME WritersApart, TypeInv, OrderInv, ProcInv, UsageInv, NEW p \in Procs, Step(p),
         NEW q \in Procs, q # p
  PROVE  CountsArtifacts(q)' /\ ChargesRight(q)'
<1>0. /\ pc'[q] = pc[q] /\ job'[q] = job[q] /\ RowsHeld(q)' = RowsHeld(q) /\ TypeOK
      /\ q # NoProc /\ job[q].version \in Versions
      /\ KeepsQuota(q) /\ CountsArtifacts(q) /\ ChargesRight(q)
  BY OthersStay, OthersLocksStay, PublishingAssumption
    DEF TypeInv, TypeOK, Job, UsageInv, StorageInv, PublishingAssumption
<1>2. CountsArtifacts(q)'
  <2>1. pc[q] = "setQuota" => ~ QuotaFree(p)
    BY <1>0 DEF KeepsQuota, QuotaFree
  <2> QED BY <1>0, <2>1, VersionsStep DEF CountsArtifacts
<1>4. ChargesRight(q)'
  <2>1. Requested(q)' <=> Requested(q)
    BY <1>0 DEF Requested
  <2>2. pc[q] = "upsert" => row'[job[q].version] = row[job[q].version]
    BY <1>0, UpsertedRowStays
  <2>3. rowLock[job[q].version] = q => rowLock'[job[q].version] = q
    BY <1>0 DEF RowsHeld
  <2>4. row[job[q].version].state # "none" => row'[job[q].version].state # "none"
    BY <1>0, RowsRemain
  <2>5. pc[q] = "upsert" => (Revives(job[q].version)' <=> Revives(job[q].version))
    BY <1>0, <2>2 DEF Revives
  <2> QED BY <1>0, <2>1, <2>2, <2>3, <2>4, <2>5 DEF ChargesRight
<1> QED BY <1>2, <1>4

(* The control points at which a process relies on nothing.                *)
LEMMA RestOwesNothing ==
  ASSUME NEW p \in Procs,
         pc'[p] \in {"idle", "release", "unasset", "asset"}
  PROVE  CountsArtifacts(p)' /\ ChargesRight(p)'
BY DEF CountsArtifacts, ChargesRight, Requesting

LEMMA OwnUsageStep ==
  ASSUME TypeInv, OrderInv, ProcInv, UsageInv, NEW p \in Procs, Step(p)
  PROVE  CountsArtifacts(p)' /\ ChargesRight(p)'
<1>0. /\ job \in [Procs -> Job] /\ pc \in [Procs -> PCs] /\ TypeOK /\ metered
      /\ rowLock \in [Versions -> Procs \union {NoProc}] /\ job[p] \in Job
      /\ CountsArtifacts(p) /\ ChargesRight(p) /\ UpsertsMutable(p)
  BY DEF TypeInv, TypeOK, UsageInv, StorageInv, ProcInv
<1>1. ASSUME Finish(p) \/ Goto(p, "release") \/ Goto(p, "unasset") \/ Goto(p, "asset")
      PROVE  CountsArtifacts(p)' /\ ChargesRight(p)'
  <2>1. pc'[p] \in {"idle", "release", "unasset", "asset"}
    BY <1>0, <1>1 DEF Finish, Goto
  <2> QED BY <2>1, RestOwesNothing
<1>2. CASE StartRequest(p)
  <2>1. ASSUME NEW v \in Versions, NEW d \in Digests, NEW kind \in {"publish", "upsert"},
               StartStore(p, kind, v, d)
        PROVE  pc'[p] = "store" /\ Requested(p)'
    BY <1>0, <2>1 DEF StartStore, Goto, JobFor, Serves, Requested
  <2>2. ASSUME NEW v \in Versions, NEW d \in Digests, StartReplace(p, v, d)
        PROVE  pc'[p] = "replace" /\ Requested(p)'
    BY <1>0, <2>2 DEF StartReplace, Goto, JobFor, Serves, Requested
  <2>3. ASSUME NEW v \in Versions, StartTouch(p, v)
        PROVE  pc'[p] = "lockRow" /\ Requested(p)' /\ row'[job'[p].version].state # "none"
    BY <1>0, <2>3 DEF StartTouch, Goto, JobFor, Serves, Requested
  <2>4. /\ pc'[p] \in {"store", "replace", "lockRow"} /\ Requested(p)'
        /\ pc'[p] = "lockRow" => row'[job'[p].version].state # "none"
    BY <1>2, <2>1, <2>2, <2>3 DEF StartRequest
  <2> QED BY <2>4 DEF CountsArtifacts, ChargesRight, Requesting
<1>3. CASE \E d \in Digests : LockDigest(p, d)
  <2>1. /\ UNCHANGED <<row, refs, rowLock, quotaLock, pc, job>> /\ Charged' = Charged
        /\ LiveVersions' = LiveVersions /\ RowsHeld(p)' = RowsHeld(p)
    BY <1>3 DEF LockDigest, Charged, Stored, LiveVersions, RowsHeld
  <2> QED BY <1>0, <2>1
        DEF CountsArtifacts, ChargesRight, Requested, Revives
<1>4. CASE StoreRef(p)
  <2>1. /\ pc[p] = "store" /\ pc'[p] = (IF job[p].op = "publish" THEN "create" ELSE "lockRow")
        /\ job'[p].op = job[p].op /\ job'[p].version = job[p].version
    BY <1>0, <1>4 DEF StoreRef, Goto, Job
  <2>2. job[p].op \in {"publish", "upsert"} /\ Requested(p)'
    BY <1>0, <2>1 DEF UpsertsMutable, ChargesRight, Requesting, Requested
  <2> QED BY <2>1, <2>2 DEF CountsArtifacts, ChargesRight, Requesting
<1>5. CASE CreateVersion(p) \/ Conflict(p) \/ CreateOverQuota(p) \/ ReleaseRef(p)
           \/ DropOldAsset(p) \/ UpsertAsset(p)
  BY <1>1, <1>5 DEF CreateVersion, Conflict, CreateOverQuota, ReleaseRef, DropOldAsset,
      UpsertAsset
<1>6. CASE ReplaceLockQuota(p)
  <2>1. pc[p] = "replace" /\ pc'[p] = "replaceRow" /\ job' = job /\ quotaLock' = p
    BY <1>0, <1>6 DEF ReplaceLockQuota, LockedQuota, Goto
  <2>2. Requested(p)'
    BY <1>0, <2>1 DEF ChargesRight, Requesting, Requested
  <2> QED BY <2>1, <2>2 DEF CountsArtifacts, ChargesRight, Requesting
<1>7. CASE LockVersionRow(p)
  <2> DEFINE v == job[p].version
  <2>1. /\ pc[p] = "lockRow" /\ pc'[p] = "upsert" /\ row' = row /\ v \in Versions
        /\ job'[p].op = job[p].op /\ job'[p].version = v /\ job'[p].charge = Revives(v)
        /\ rowLock'[v] = p \/ row[v].state = "none"
    BY <1>0, <1>7 DEF LockVersionRow, Goto, Job
  <2>2. Requested(p)' /\ (Revives(v)' <=> Revives(v))
    BY <1>0, <2>1 DEF ChargesRight, Requesting, Requested, Revives
  <2>3. job[p].op = "touch" => row[v].state # "none"
    BY <1>0, <2>1 DEF ChargesRight
  <2>4. (job[p].charge <=> Revives(job[p].version))'
    BY <2>1 DEF Revives
  <2>5. ChargesRight(p)'
    BY <2>1, <2>2, <2>3, <2>4 DEF ChargesRight
  <2> QED BY <2>1, <2>5 DEF CountsArtifacts
<1>8. CASE CommitReplace(p) \/ UpsertVersion(p) \/ ReplaceOverQuota(p) \/ UpsertOverQuota(p)
           \/ DeadlockVictim(p) \/ Crash(p)
  BY <1>1, <1>8 DEF CommitReplace, UpsertVersion, ReplaceOverQuota, UpsertOverQuota,
     DeadlockVictim, Crash, Abandon
<1>9. CASE RankVersions(p) \/ (\E v \in Versions : LockPrunedRow(p, v))
           \/ RetentionLockQuota(p) \/ Survey(p)
  <2>1. pc'[p] \in {"prune", "charge", "expireAssets", "readAssets", "readVersions", "expire"}
    BY <1>0, <1>9 DEF RankVersions, LockPrunedRow, RetentionLockQuota, Survey, ExpireAssets,
        ReadLiveAssets, ReadLiveVersions, Goto
  <2> QED BY <2>1 DEF CountsArtifacts, ChargesRight, Requesting
<1>13. CASE CommitRetention(p) \/ SetQuota(p)
  BY <1>1, <1>13 DEF CommitRetention, SetQuota
<1>14. CASE BeginRecount(p) \/ CountStorage(p)
  <2>1. pc'[p] \in {"countStorage", "countArtifacts"}
    BY <1>0, <1>14 DEF BeginRecount, CountStorage, Goto
  <2> QED BY <2>1 DEF CountsArtifacts, ChargesRight, Requesting
<1>15. CASE CountArtifacts(p)
  <2>1. /\ pc'[p] = "setQuota" /\ LiveVersions' = LiveVersions
        /\ job'[p].artifacts = Cardinality(LiveVersions)
    BY <1>0, <1>15 DEF CountArtifacts, Goto, LiveVersions, Job
  <2> QED BY <2>1 DEF CountsArtifacts, ChargesRight, Requesting
<1> QED
  BY <1>2, <1>3, <1>4, <1>5, <1>6, <1>7, <1>8, <1>9, <1>13, <1>14, <1>15
    DEF Step, PublishStep, UpsertStep, RetentionStep, QuotaStep

LEMMA StorageInvAlways ==
  ASSUME Metered
  PROVE  Spec => []StorageInv
<1>1. Init => StorageInv
  <2> SUFFICES ASSUME Init PROVE StorageInv
    OBVIOUS
  <2>1. Charged = Elsewhere
    BY DEF Init, Charged, Stored
  <2> QED BY <2>1 DEF Init, StorageInv, KeepsQuota, CountsStorage
<1>2. IInv /\ StorageInv /\ [Next]_vars => StorageInv'
  <2> SUFFICES ASSUME IInv, StorageInv, [Next]_vars PROVE StorageInv'
    OBVIOUS
  <2>1. CASE Next
    BY <2>1, StorageInvStep DEF Next, IInv
  <2>2. CASE UNCHANGED vars
    BY <2>2 DEF vars, history, usage, locks, StorageInv, KeepsQuota, CountsStorage, Charged,
        Stored
  <2> QED BY <2>1, <2>2
<1> QED BY <1>1, <1>2, IInvAlways, PTL DEF Spec

LEMMA UsageInvStep ==
  ASSUME WritersApart, IInv, UsageInv, [Next]_vars
  PROVE  UsageInv'
<1> USE DEF IInv
<1>1. CASE Next
  <2>1. PICK p \in Procs : Step(p)
    BY <1>1 DEF Next
  <2>2. StorageInv'
    BY <2>1, StorageInvStep DEF UsageInv
  <2>3. ASSUME NEW q \in Procs
        PROVE  CountsArtifacts(q)' /\ ChargesRight(q)'
    BY <2>1, OwnUsageStep, OthersUsageStep
  <2>4. PruneInv'
    BY <2>1, PruneInvStep DEF UsageInv, WritersApart, TypeInv
  <2> QED BY <2>1, <2>2, <2>3, <2>4, VersionsStep DEF UsageInv
<1>2. CASE UNCHANGED vars
  BY <1>2 DEF vars, history, usage, locks, UsageInv, StorageInv, KeepsQuota, CountsStorage,
      CountsArtifacts,
     PruneInv, PrunesLive, ChargesRight, Requested, Revives, Charged, Stored, LiveVersions,
     RowsHeld
<1> QED BY <1>1, <1>2

LEMMA UsageInit ==
  ASSUME WritersApart, Init
  PROVE  UsageInv
<1>1. \A p \in Procs : KeepsQuota(p) /\ CountsStorage(p) /\ CountsArtifacts(p)
                        /\ PrunesLive(p) /\ ChargesRight(p)
  BY DEF Init, KeepsQuota, CountsStorage, CountsArtifacts, PrunesLive, ChargesRight,
     Requesting, Retaining
<1>2. Charged = Elsewhere /\ LiveVersions = {}
  BY DEF Init, Charged, Stored, LiveVersions
<1>3. Cardinality({}) = 0 /\ MaxArtifacts \in Nat
  BY FS_EmptySet, PublishingAssumption DEF PublishingAssumption
<1> QED BY <1>1, <1>2, <1>3 DEF Init, UsageInv, StorageInv, PruneInv, WritersApart

(* Storage is charged once for every digest the org references, whatever   *)
(* publishes, replacements, upserts, sweeps and recounts, as many as there *)
(* are, interleave, abort or crash (governance.ts:77).                     *)
THEOREM StorageIsCharged ==
  ASSUME Metered
  PROVE  Spec => []StorageMatchesRefs
<1>1. StorageInv => StorageMatchesRefs
  BY DEF StorageInv, StorageMatchesRefs, Charged, Stored
<1> QED BY <1>1, StorageInvAlways, PTL

(* With one sweep at a time, and upserts apart from other creators, the    *)
(* quota row counts exactly the live versions too, never beyond the limit  *)
(* (quota.ts:11).                                                          *)
THEOREM UsageIsCounted ==
  ASSUME WritersApart
  PROVE  Spec => []UsageIsExact
<1>1. UsageInv => UsageIsExact
  BY DEF UsageInv, StorageInv, UsageIsExact, ArtifactsMatchVersions, StorageMatchesRefs,
     Charged, Stored
<1>2. Init => UsageInv
  BY UsageInit
<1>3. IInv /\ UsageInv /\ [Next]_vars => UsageInv'
  BY UsageInvStep
<1> QED BY <1>1, <1>2, <1>3, IInvAlways, PTL DEF Spec
-----------------------------------------------------------------------------
(* References.                                                             *)

Uploads(p, v, d) == \E x \in Requests[p] : x.op # "touch" /\ x.version = v /\ x.digest = d
ContentOf(v, d) == \E p \in Procs : Uploads(p, v, d)

(* The bytes of a version that is only published come from one process and *)
(* belong to that version: of two identical publishes one releases the     *)
(* reference of both (run publish_conflict), and a sweep releases a digest *)
(* for every version that has it (retention.ts:270).                       *)
BytesApart ==
  \A p, q \in Procs : \A x \in Requests[p], y \in Requests[q] :
    x.version \in Immutable /\ y.op # "touch" /\ x.digest = y.digest =>
      p = q /\ x.version = y.version

Holds(v, d) == row[v].state = "live" /\ row[v].digest = d

Uploading ==
  {"store", "create", "release", "unasset", "asset", "replace", "replaceRow", "lockRow", "upsert"}

RowsAreUploads == \A v \in Versions : row[v].state # "none" => ContentOf(v, row[v].digest)
AssetsAreUploads == \A a \in assets : ContentOf(a.version, a.digest)

JobIsUpload(p) ==
  /\ pc[p] \in Uploading =>
       ContentOf(job[p].version, job[p].digest) /\ ContentOf(job[p].version, job[p].old)
  /\ pc[p] \in {"store", "create", "release"} => Uploads(p, job[p].version, job[p].digest)

(* A publish keeps its reference until it has a row, and releases one only *)
(* if no row holds it.                                                     *)
GuardsRef(p) ==
  job[p].version \in Immutable =>
    /\ pc[p] = "create" /\ row[job[p].version].state = "none" => RefOf(p) \in refs
    /\ (pc[p] = "create" /\ job[p].refCreated) \/ pc[p] = "release" =>
         ~ Holds(job[p].version, job[p].digest)

ReleasesPruned(p) ==
  pc[p] \in Expiring => \A e \in job[p].released : \E u \in job[p].pruned : ContentOf(u, e)

ContentInv ==
  /\ RowsAreUploads /\ AssetsAreUploads /\ LiveVersionsHaveRefs
  /\ \A p \in Procs : JobIsUpload(p) /\ GuardsRef(p) /\ ReleasesPruned(p)

LEMMA OneUploader ==
  ASSUME BytesApart, NEW p \in Procs, NEW v \in Immutable, NEW d, Uploads(p, v, d),
         NEW q \in Procs, NEW u, Uploads(q, u, d)
  PROVE  p = q /\ u = v
BY DEF BytesApart, Uploads

LEMMA OneVersion ==
  ASSUME BytesApart, NEW v \in Immutable, NEW d, ContentOf(v, d), NEW u, ContentOf(u, d)
  PROVE  u = v
BY OneUploader DEF ContentOf

(* What happens to the row of a version that is only published.            *)
LEMMA PublishedRowStep ==
  ASSUME TypeOK, ProcInv, NEW p \in Procs, Step(p), NEW v \in Versions, v \in Immutable
  PROVE  \/ row'[v] = row[v]
         \/ /\ CreateVersion(p) /\ v = job[p].version
            /\ row[v].state = "none" /\ row'[v] = [state |-> "live", digest |-> job[p].digest]
         \/ /\ CommitRetention(p) /\ v \in job[p].pruned
            /\ row[v].state # "none" /\ row'[v].state = "deleted" /\ row'[v].digest = row[v].digest
<1>1. CASE row' = row
  BY <1>1
<1>2. ASSUME WriteRow(p)
      PROVE  row'[v] = IF v = job[p].version THEN [state |-> "live", digest |-> job[p].digest]
                                             ELSE row[v]
  BY <1>2 DEF WriteRow, TypeOK
<1>3. CASE CreateVersion(p)
  BY <1>2, <1>3 DEF CreateVersion
<1>4. CASE CommitReplace(p) \/ UpsertVersion(p)
  <2>1. WriteRow(p) /\ pc[p] \in {"replaceRow", "upsert"}
    BY <1>4 DEF CommitReplace, UpsertVersion
  <2>2. job[p].version \notin Immutable
    BY <2>1 DEF ProcInv, UpsertsMutable
  <2> QED BY <1>2, <2>1, <2>2
<1>5. CASE CommitRetention(p)
  <2>1. \A u \in job[p].pruned : row[u].state # "none"
    BY <1>5 DEF CommitRetention, ProcInv, RetainsNewest, Retaining, Surplus
  <2>2. row'[v] = IF v \in job[p].pruned THEN [row[v] EXCEPT !.state = "deleted"] ELSE row[v]
    BY <1>5 DEF CommitRetention
  <2> QED BY <1>5, <2>1, <2>2 DEF TypeOK, Row
<1>6. CASE SetQuota(p)
  BY <1>6 DEF SetQuota
<1> QED BY <1>1, <1>3, <1>4, <1>5, <1>6, Writers

(* What happens to a reference of such a version.                          *)
LEMMA PublishedRefStep ==
  ASSUME TypeOK, ProcInv, NEW p \in Procs, Step(p), NEW r \in Ref, r.version \in Immutable
  PROVE  \/ r \in refs' <=> r \in refs
         \/ StoreRef(p) /\ r = RefOf(p) /\ r \in refs'
         \/ ReleaseRef(p) /\ r = RefOf(p) /\ r \notin refs'
         \/ CommitRetention(p) /\ r.digest \in job[p].released /\ r \notin refs'
<1>1. CASE refs' = refs
  BY <1>1
<1>2. CASE StoreRef(p)
  BY <1>2 DEF StoreRef
<1>3. CASE ReleaseRef(p)
  BY <1>3 DEF ReleaseRef
<1>4. CASE CommitReplace(p)
  <2>1. pc[p] = "replaceRow" /\ refs' = RefsLessOld(p) \union {RefOf(p)}
    BY <1>4 DEF CommitReplace, RefsAfterReplace
  <2>2. job[p].version \notin Immutable
    BY <2>1 DEF ProcInv, UpsertsMutable
  <2>3. r # RefOf(p) /\ r # OldRef(p)
    BY <2>2 DEF RefOf, OldRef
  <2> QED BY <2>1, <2>3 DEF RefsLessOld
<1>5. CASE CommitRetention(p)
  BY <1>5 DEF CommitRetention
<1>6. CASE SetQuota(p)
  BY <1>6 DEF SetQuota
<1> QED BY <1>1, <1>2, <1>3, <1>4, <1>5, <1>6, Writers

LEMMA AssetWriters ==
  ASSUME NEW p \in Procs, Step(p)
  PROVE  assets' = assets \/ DropOldAsset(p) \/ UpsertAsset(p) \/ CommitRetention(p)
<1>1. CASE StartRequest(p) \/ (\E d \in Digests : LockDigest(p, d))
  BY <1>1 DEF StartRequest, StartStore, StartReplace, StartTouch, LockDigest
<1>2. CASE PublishStep(p)
  BY <1>2 DEF PublishStep, StoreRef, CreateVersion, Conflict, CreateOverQuota, ReleaseRef
<1>3. CASE UpsertStep(p)
  BY <1>3 DEF UpsertStep, ReplaceLockQuota, CommitReplace, ReplaceOverQuota,
     LockVersionRow, UpsertVersion, UpsertOverQuota, Abandon
<1>4. CASE RetentionStep(p)
  BY <1>4 DEF RetentionStep, RankVersions, LockPrunedRow, RetentionLockQuota, Survey,
      ExpireAssets, ReadLiveAssets, ReadLiveVersions
<1>5. CASE QuotaStep(p)
  BY <1>5 DEF QuotaStep, BeginRecount, CountStorage, CountArtifacts, SetQuota
<1>6. CASE DeadlockVictim(p) \/ Crash(p)
  BY <1>6 DEF DeadlockVictim, Crash, Abandon
<1> QED BY <1>1, <1>2, <1>3, <1>4, <1>5, <1>6 DEF Step

(* A process goes on with what it was requested to upload.                 *)
LEMMA JobIsUploadStep ==
  ASSUME TypeOK, RowsAreUploads, NEW p \in Procs, JobIsUpload(p), Step(p)
  PROVE  JobIsUpload(p)'
<1>0. job \in [Procs -> Job] /\ pc \in [Procs -> PCs] /\ job[p] \in Job
  BY DEF TypeOK
<1>1. ASSUME pc'[p] \notin Uploading
      PROVE  JobIsUpload(p)'
  BY <1>1 DEF JobIsUpload, Uploading
<1>2. ASSUME pc[p] \in Uploading, job'[p].version = job[p].version,
             job'[p].digest = job[p].digest, job'[p].old = job[p].old,
             pc'[p] \in {"create", "release"} => pc[p] \in {"store", "create", "release"},
             pc'[p] # "store" \/ pc[p] = "store"
      PROVE  JobIsUpload(p)'
  BY <1>2 DEF JobIsUpload, ContentOf, Uploads
<1>3. ASSUME NEW v \in Versions, NEW d \in Digests, NEW kind \in {"publish", "upsert"},
             StartStore(p, kind, v, d)
      PROVE  JobIsUpload(p)'
  <2>1. job'[p].version = v /\ job'[p].digest = d /\ job'[p].old = d
    BY <1>0, <1>3 DEF StartStore, JobFor
  <2>2. Uploads(p, v, d)
    BY <1>3 DEF StartStore, Serves, Uploads
  <2> QED BY <2>1, <2>2 DEF JobIsUpload, ContentOf, Uploads
<1>4. ASSUME NEW v \in Versions, NEW d \in Digests, StartReplace(p, v, d)
      PROVE  JobIsUpload(p)'
  <2>1. /\ job'[p].version = v /\ job'[p].digest = d /\ pc'[p] = "replace"
        /\ job'[p].old = IF row[v].state = "live" THEN row[v].digest ELSE d
    BY <1>0, <1>4 DEF StartReplace, JobFor, Goto
  <2>2. Uploads(p, v, d)
    BY <1>4 DEF StartReplace, Serves, Uploads
  <2>3. ContentOf(v, d) /\ ContentOf(v, job'[p].old)
    BY <2>1, <2>2 DEF ContentOf, RowsAreUploads
  <2> QED BY <2>1, <2>3 DEF JobIsUpload, ContentOf, Uploads
<1>5. ASSUME NEW v \in Versions, StartTouch(p, v)
      PROVE  JobIsUpload(p)'
  <2>1. /\ job'[p].version = v /\ job'[p].digest = row[v].digest /\ pc'[p] = "lockRow"
        /\ job'[p].old = row[v].digest /\ row[v].state = "live"
    BY <1>0, <1>5 DEF StartTouch, JobFor, Goto
  <2>2. ContentOf(v, row[v].digest)
    BY <2>1 DEF RowsAreUploads
  <2> QED BY <2>1, <2>2 DEF JobIsUpload, ContentOf, Uploads
<1>6. CASE \E d \in Digests : LockDigest(p, d)
  <2>1. pc' = pc /\ job' = job
    BY <1>6 DEF LockDigest
  <2> QED BY <2>1 DEF JobIsUpload, ContentOf, Uploads
<1>7. CASE StoreRef(p)
  BY <1>0, <1>2, <1>7 DEF StoreRef, Goto, Uploading, Job
<1>8. CASE CreateVersion(p) \/ Conflict(p) \/ CreateOverQuota(p) \/ ReleaseRef(p)
           \/ DropOldAsset(p) \/ UpsertAsset(p)
  <2>1. CASE pc'[p] = "idle"
    BY <1>1, <2>1 DEF Uploading
  <2>2. CASE pc'[p] # "idle"
    <3>1. /\ pc[p] \in {"create", "unasset"} /\ pc'[p] \in {"release", "asset"} /\ job' = job
          /\ pc'[p] = "release" => pc[p] = "create"
      BY <1>0, <1>8, <2>2 DEF CreateVersion, Conflict, CreateOverQuota, ReleaseRef, DropOldAsset,
         UpsertAsset, Finish, Goto
    <3> QED BY <1>2, <3>1 DEF Uploading
  <2> QED BY <2>1, <2>2
<1>9. CASE UpsertStep(p)
  <2>1. CASE pc'[p] = "idle"
    BY <1>1, <2>1 DEF Uploading
  <2>2. CASE LockVersionRow(p)
    BY <1>0, <1>2, <2>2 DEF LockVersionRow, Goto, Uploading, Job
  <2>3. CASE pc'[p] # "idle" /\ ~ LockVersionRow(p)
    <3>1. /\ pc[p] \in {"replace", "replaceRow", "upsert"} /\ job' = job
          /\ pc'[p] \in {"replaceRow", "unasset", "asset"}
      BY <1>0, <1>9, <2>3 DEF UpsertStep, ReplaceLockQuota, CommitReplace, ReplaceOverQuota,
         UpsertVersion, UpsertOverQuota, Abandon, Finish, Goto
    <3> QED BY <1>2, <3>1 DEF Uploading
  <2> QED BY <2>1, <2>2, <2>3
<1>10. CASE RetentionStep(p)
  <2>1. pc'[p] \in {"idle", "prune", "charge", "expireAssets", "readAssets", "readVersions",
      "expire"}
    BY <1>0, <1>10 DEF RetentionStep, RankVersions, LockPrunedRow, RetentionLockQuota, Survey,
        ExpireAssets, ReadLiveAssets, ReadLiveVersions,
       CommitRetention, Finish, Goto
  <2> QED BY <1>1, <2>1 DEF Uploading
<1>11. CASE QuotaStep(p) \/ DeadlockVictim(p) \/ Crash(p)
  <2>1. pc'[p] \in {"idle", "countStorage", "countArtifacts", "setQuota"}
    BY <1>0, <1>11 DEF QuotaStep, BeginRecount, CountStorage, CountArtifacts, SetQuota,
       DeadlockVictim, Crash, Abandon, Finish, Goto
  <2> QED BY <1>1, <2>1 DEF Uploading
<1> QED
  BY <1>3, <1>4, <1>5, <1>6, <1>7, <1>8, <1>9, <1>10, <1>11 DEF Step, StartRequest, PublishStep

LEMMA RowsAreUploadsStep ==
  ASSUME TypeOK, ProcInv, ContentInv, NEW p \in Procs, Step(p)
  PROVE  RowsAreUploads'
<1> SUFFICES ASSUME NEW v \in Versions, row'[v].state # "none"
             PROVE  ContentOf(v, row'[v].digest)
  BY DEF RowsAreUploads, ContentOf, Uploads
<1>0. row \in [Versions -> Row] /\ job[p] \in Job /\ JobIsUpload(p)
      /\ (row[v].state # "none" => ContentOf(v, row[v].digest))
  BY DEF TypeOK, ContentInv, RowsAreUploads
<1>1. CASE row' = row \/ SetQuota(p)
  BY <1>0, <1>1 DEF SetQuota
<1>2. CASE CreateVersion(p) \/ CommitReplace(p) \/ UpsertVersion(p)
  <2>1. WriteRow(p) /\ pc[p] \in Uploading
    BY <1>2 DEF CreateVersion, CommitReplace, UpsertVersion, Uploading
  <2>2. CASE v = job[p].version
    <3>1. row'[v].digest = job[p].digest
      BY <1>0, <2>1, <2>2 DEF WriteRow
    <3> QED BY <1>0, <2>1, <2>2, <3>1 DEF JobIsUpload
  <2>3. CASE v # job[p].version
    <3>1. row'[v] = row[v]
      BY <1>0, <2>1, <2>3 DEF WriteRow
    <3> QED BY <1>0, <3>1
  <2> QED BY <2>2, <2>3
<1>3. CASE CommitRetention(p)
  <2>1. row'[v] = IF v \in job[p].pruned THEN [row[v] EXCEPT !.state = "deleted"] ELSE row[v]
    BY <1>3 DEF CommitRetention
  <2>2. v \in job[p].pruned => row[v].state # "none"
    BY <1>3 DEF CommitRetention, ProcInv, RetainsNewest, Retaining, Surplus
  <2>3. row'[v].digest = row[v].digest /\ row[v].state # "none"
    BY <1>0, <2>1, <2>2 DEF Row
  <2> QED BY <1>0, <2>3
<1> QED BY <1>1, <1>2, <1>3, Writers

LEMMA AssetsAreUploadsStep ==
  ASSUME ContentInv, NEW p \in Procs, Step(p)
  PROVE  AssetsAreUploads'
<1> SUFFICES ASSUME NEW a \in assets'
             PROVE  ContentOf(a.version, a.digest)
  BY DEF AssetsAreUploads, ContentOf, Uploads
<1>1. CASE a \in assets
  BY <1>1 DEF ContentInv, AssetsAreUploads
<1>2. CASE a \notin assets
  <2>1. UpsertAsset(p)
    BY <1>2, AssetWriters DEF DropOldAsset, CommitRetention
  <2>2. a.version = job[p].version /\ a.digest = job[p].digest /\ pc[p] \in Uploading
    BY <1>2, <2>1 DEF UpsertAsset, Uploading
  <2> QED BY <2>2 DEF ContentInv, JobIsUpload
<1> QED BY <1>1, <1>2

LEMMA OnlySurveyExpires ==
  ASSUME TypeOK, NEW p \in Procs, Step(p), pc'[p] \in Expiring, ~ Survey(p)
  PROVE  pc[p] \in Expiring /\ pc' = pc /\ job' = job
<1>0. pc \in [Procs -> PCs]
  BY DEF TypeOK
<1> USE DEF Expiring
<1>1. CASE StartRequest(p)
  BY <1>0, <1>1 DEF StartRequest, StartStore, StartReplace, StartTouch, Goto
<1>2. CASE PublishStep(p)
  BY <1>0, <1>2 DEF PublishStep, StoreRef, CreateVersion, Conflict, CreateOverQuota,
     ReleaseRef, DropOldAsset, UpsertAsset, Finish, Goto
<1>3. CASE UpsertStep(p)
  BY <1>0, <1>3 DEF UpsertStep, ReplaceLockQuota, CommitReplace, ReplaceOverQuota,
     LockVersionRow, UpsertVersion, UpsertOverQuota, Abandon, Finish, Goto
<1>4. CASE RetentionStep(p)
  BY <1>0, <1>4 DEF RetentionStep, RankVersions, LockPrunedRow, RetentionLockQuota,
     CommitRetention, Finish, Goto
<1>5. CASE QuotaStep(p) \/ DeadlockVictim(p) \/ Crash(p)
  BY <1>0, <1>5 DEF QuotaStep, BeginRecount, CountStorage, CountArtifacts, SetQuota,
     DeadlockVictim, Crash, Abandon, Finish, Goto
<1>6. CASE \E d \in Digests : LockDigest(p, d)
  BY <1>6 DEF LockDigest
<1> QED BY <1>1, <1>2, <1>3, <1>4, <1>5, <1>6 DEF Step

LEMMA ReleasesPrunedStep ==
  ASSUME TypeOK, ProcInv, ContentInv, NEW p \in Procs, Step(p), NEW q \in Procs
  PROVE  ReleasesPruned(q)'
<1>0. job \in [Procs -> Job] /\ pc \in [Procs -> PCs] /\ job[p] \in Job /\ ReleasesPruned(q)
  BY DEF TypeOK, ContentInv
<1>1. CASE pc'[q] = pc[q] /\ job'[q] = job[q]
  BY <1>0, <1>1 DEF ReleasesPruned
<1>2. CASE ExpireAssets(p) /\ q = p
  <2>1. /\ pc[p] = "expireAssets" /\ job'[p].pruned = job[p].pruned
        /\ job'[p].released = PrunedDigests(p)
    BY <1>0, <1>2 DEF ExpireAssets, Job
  <2>2. \A u \in job[p].pruned : u \in Versions /\ row[u].state # "none"
    BY <1>0, <2>1 DEF ProcInv, RetainsNewest, Retaining, Surplus, Job
  <2>3. \A e \in PrunedDigests(p) : \E u \in job[p].pruned : ContentOf(u, e)
    BY <2>2 DEF PrunedDigests, PrunedAssets, ContentInv, RowsAreUploads, AssetsAreUploads
  <2> QED BY <1>2, <2>1, <2>3 DEF ReleasesPruned, ContentOf, Uploads
<1>3. CASE (ReadLiveAssets(p) \/ ReadLiveVersions(p)) /\ q = p
  <2>1. /\ pc[p] \in Expiring /\ job'[p].pruned = job[p].pruned
        /\ job'[p].released \subseteq job[p].released
    BY <1>0, <1>3 DEF ReadLiveAssets, ReadLiveVersions, Job, Expiring
  <2> QED BY <1>0, <1>3, <2>1 DEF ReleasesPruned
<1>4. CASE q = p /\ pc'[p] \notin Expiring
  BY <1>4 DEF ReleasesPruned
<1>5. CASE q = p /\ pc'[p] \in Expiring /\ ~ Survey(p)
  BY <1>1, <1>5, OnlySurveyExpires
<1> QED BY <1>1, <1>2, <1>3, <1>4, <1>5, OthersStay DEF Survey

LEMMA LiveRefsStep ==
  ASSUME BytesApart, TypeOK, ProcInv, ContentInv, NEW p \in Procs, Step(p)
  PROVE  LiveVersionsHaveRefs'
<1> SUFFICES ASSUME NEW v \in Versions, v \in Immutable, row'[v].state = "live"
             PROVE  [version |-> v, digest |-> row'[v].digest] \in refs'
  BY DEF LiveVersionsHaveRefs, LiveVersions, Immutable
<1> DEFINE r == [version |-> v, digest |-> row'[v].digest]
<1>0. /\ job[p] \in Job /\ JobIsUpload(p) /\ GuardsRef(p) /\ ReleasesPruned(p)
      /\ row[v].state # "none" => ContentOf(v, row[v].digest)
      /\ row[v].state = "live" => [version |-> v, digest |-> row[v].digest] \in refs
  BY DEF TypeOK, ContentInv, RowsAreUploads, LiveVersionsHaveRefs, LiveVersions
<1>1. CASE row'[v] = row[v]
  <2>1. r \in refs /\ r \in Ref /\ r.version \in Immutable
    BY <1>0, <1>1 DEF TypeOK
  <2>2. ~ (ReleaseRef(p) /\ r = RefOf(p))
    BY <1>0, <1>1 DEF ReleaseRef, GuardsRef, RefOf, Holds
  <2>3. ~ (CommitRetention(p) /\ r.digest \in job[p].released)
    <3> SUFFICES ASSUME CommitRetention(p), row[v].digest \in job[p].released
                 PROVE  FALSE
      BY <1>1
    <3>1. PICK u \in job[p].pruned : ContentOf(u, row[v].digest)
      BY <1>0 DEF CommitRetention, ReleasesPruned, Expiring
    <3>2. u = v
      BY <1>0, <1>1, <3>1, OneVersion
    <3>3. row'[v].state = "deleted"
      BY <3>2 DEF CommitRetention, TypeOK, Row
    <3> QED BY <3>3
  <2> QED BY <2>1, <2>2, <2>3, PublishedRefStep
<1>2. CASE CreateVersion(p) /\ v = job[p].version /\ row[v].state = "none"
           /\ row'[v] = [state |-> "live", digest |-> job[p].digest]
  <2>1. r = RefOf(p) /\ RefOf(p) \in refs /\ refs' = refs
    BY <1>0, <1>2 DEF CreateVersion, GuardsRef, RefOf
  <2> QED BY <2>1
<1> QED BY <1>1, <1>2, PublishedRowStep

LEMMA OthersGuardsRefStep ==
  ASSUME BytesApart, TypeOK, ProcInv, ContentInv, NEW p \in Procs, Step(p),
         NEW q \in Procs, q # p
  PROVE  GuardsRef(q)'
<1> DEFINE v == job[q].version
           d == job[q].digest
<1>0. /\ pc'[q] = pc[q] /\ job'[q] = job[q] /\ job[q] \in Job /\ v \in Versions /\ d \in Digests
      /\ JobIsUpload(p) /\ JobIsUpload(q) /\ GuardsRef(q) /\ ReleasesPruned(p)
  BY OthersStay DEF TypeOK, Job, ContentInv
<1> SUFFICES ASSUME v \in Immutable, pc[q] \in {"create", "release"}
             PROVE  GuardsRef(q)'
  BY <1>0 DEF GuardsRef
<1>1. Uploads(q, v, d)
  BY <1>0 DEF JobIsUpload
<1>2. ASSUME pc[p] \in {"store", "create", "release"}
      PROVE  job[p].digest # d
  BY <1>0, <1>1, <1>2, OneUploader DEF JobIsUpload
<1>3. RefOf(q)' = RefOf(q) /\ RefOf(q) \in Ref /\ RefOf(q).version = v /\ RefOf(q).digest = d
  BY <1>0 DEF RefOf, Ref
<1>4. ASSUME pc[q] = "create", row'[v].state = "none"
      PROVE  RefOf(q) \in refs'
  <2>1. row[v].state = "none"
    BY <1>0, <1>4, PublishedRowStep
  <2>2. RefOf(q) \in refs
    BY <1>0, <1>4, <2>1 DEF GuardsRef
  <2>3. ~ (ReleaseRef(p) /\ RefOf(q) = RefOf(p))
    BY <1>2, <1>3 DEF ReleaseRef, RefOf
  <2>4. ~ (CommitRetention(p) /\ d \in job[p].released)
    <3> SUFFICES ASSUME CommitRetention(p), d \in job[p].released
                 PROVE  FALSE
      OBVIOUS
    <3>1. PICK u \in job[p].pruned : ContentOf(u, d)
      BY <1>0 DEF CommitRetention, ReleasesPruned, Expiring
    <3>2. u = v
      BY <1>1, <3>1, OneVersion DEF ContentOf
    <3>3. row[v].state # "none"
      BY <3>2 DEF CommitRetention, ProcInv, RetainsNewest, Retaining, Surplus
    <3> QED BY <2>1, <3>3
  <2> QED BY <1>3, <2>2, <2>3, <2>4, PublishedRefStep
<1>5. ASSUME (pc[q] = "create" /\ job[q].refCreated) \/ pc[q] = "release"
      PROVE  ~ (row'[v].state = "live" /\ row'[v].digest = d)
  <2>1. ~ Holds(v, d)
    BY <1>0, <1>5 DEF GuardsRef
  <2>2. CASE CreateVersion(p) /\ row'[v] = [state |-> "live", digest |-> job[p].digest]
    BY <1>2, <2>2 DEF CreateVersion
  <2> QED BY <1>0, <2>1, <2>2, PublishedRowStep DEF Holds
<1> QED BY <1>0, <1>3, <1>4, <1>5 DEF GuardsRef, Holds

LEMMA OwnGuardsRefStep ==
  ASSUME TypeOK, ProcInv, ContentInv, NEW p \in Procs, Step(p)
  PROVE  GuardsRef(p)'
<1>0. job \in [Procs -> Job] /\ pc \in [Procs -> PCs] /\ job[p] \in Job /\ GuardsRef(p)
  BY DEF TypeOK, ContentInv
<1>1. ASSUME pc'[p] \notin {"create", "release"}
      PROVE  GuardsRef(p)'
  BY <1>1 DEF GuardsRef
<1>2. CASE StartRequest(p)
  BY <1>0, <1>1, <1>2 DEF StartRequest, StartStore, StartReplace, StartTouch, Goto
<1>3. CASE \E d \in Digests : LockDigest(p, d)
  <2>1. UNCHANGED <<row, refs, pc, job>>
    BY <1>3 DEF LockDigest
  <2> QED BY <1>0, <2>1 DEF GuardsRef, Holds, RefOf
<1>4. CASE StoreRef(p)
  <2>1. /\ job'[p].version = job[p].version /\ job'[p].digest = job[p].digest
        /\ job'[p].refCreated = (RefOf(p) \notin refs) /\ row' = row
        /\ pc'[p] # "release" /\ RefOf(p) \in refs' /\ job[p].version \in Versions
    BY <1>0, <1>4 DEF StoreRef, Goto, Job
  <2>2. job[p].version \in Immutable /\ RefOf(p) \notin refs =>
          ~ Holds(job[p].version, job[p].digest)
    BY <2>1 DEF ContentInv, LiveVersionsHaveRefs, LiveVersions, Holds, RefOf
  <2>3. RefOf(p)' = RefOf(p)
    BY <2>1 DEF RefOf
  <2> QED BY <2>1, <2>2, <2>3 DEF GuardsRef, Holds
<1>5. CASE Conflict(p)
  <2>1. CASE job[p].refCreated
    <3>1. UNCHANGED <<row, refs, job>> /\ pc[p] = "create" /\ pc'[p] = "release"
      BY <1>0, <1>5, <2>1 DEF Conflict, Goto
    <3> QED BY <1>0, <2>1, <3>1 DEF GuardsRef, Holds
  <2>2. CASE ~ job[p].refCreated
    BY <1>0, <1>1, <1>5, <2>2 DEF Conflict, Finish, Goto
  <2> QED BY <2>1, <2>2
<1>6. CASE CreateVersion(p) \/ CreateOverQuota(p) \/ ReleaseRef(p) \/ DropOldAsset(p)
           \/ UpsertAsset(p)
  BY <1>0, <1>1, <1>6 DEF CreateVersion, CreateOverQuota, ReleaseRef, DropOldAsset, UpsertAsset,
     Finish, Goto
<1>7. CASE UpsertStep(p)
  BY <1>0, <1>1, <1>7 DEF UpsertStep, ReplaceLockQuota, CommitReplace, ReplaceOverQuota,
     LockVersionRow, UpsertVersion, UpsertOverQuota, Abandon, Finish, Goto
<1>8. CASE RetentionStep(p)
  <2>1. pc'[p] \in {"idle", "prune", "charge", "expireAssets", "readAssets", "readVersions",
      "expire"}
    BY <1>0, <1>8 DEF RetentionStep, RankVersions, LockPrunedRow, RetentionLockQuota, Survey,
        ExpireAssets, ReadLiveAssets, ReadLiveVersions,
       CommitRetention, Finish, Goto
  <2> QED BY <1>1, <2>1
<1>9. CASE QuotaStep(p) \/ DeadlockVictim(p) \/ Crash(p)
  <2>1. pc'[p] \in {"idle", "countStorage", "countArtifacts", "setQuota"}
    BY <1>0, <1>9 DEF QuotaStep, BeginRecount, CountStorage, CountArtifacts, SetQuota,
       DeadlockVictim, Crash, Abandon, Finish, Goto
  <2> QED BY <1>1, <2>1
<1> QED BY <1>2, <1>3, <1>4, <1>5, <1>6, <1>7, <1>8, <1>9 DEF Step, PublishStep

LEMMA ContentInvStep ==
  ASSUME BytesApart, TypeOK, ProcInv, ContentInv, NEW p \in Procs, Step(p)
  PROVE  ContentInv'
<1>1. ASSUME NEW q \in Procs
      PROVE  JobIsUpload(q)' /\ GuardsRef(q)' /\ ReleasesPruned(q)'
  <2>1. CASE q = p
    BY <2>1, JobIsUploadStep, OwnGuardsRefStep, ReleasesPrunedStep DEF ContentInv
  <2>2. CASE q # p
    <3>1. pc'[q] = pc[q] /\ job'[q] = job[q]
      BY <2>2, OthersStay
    <3>2. JobIsUpload(q)'
      BY <3>1 DEF ContentInv, JobIsUpload, ContentOf, Uploads
    <3> QED BY <2>2, <3>2, OthersGuardsRefStep, ReleasesPrunedStep
  <2> QED BY <2>1, <2>2
<1> QED
  BY <1>1, RowsAreUploadsStep, AssetsAreUploadsStep, LiveRefsStep DEF ContentInv

LEMMA ContentInvAlways ==
  ASSUME BytesApart
  PROVE  Spec => []ContentInv
<1>1. Init => ContentInv
  BY DEF Init, ContentInv, RowsAreUploads, AssetsAreUploads, LiveVersionsHaveRefs, LiveVersions,
     JobIsUpload, Uploading, GuardsRef, ReleasesPruned, Expiring
<1>2. IInv /\ ContentInv /\ [Next]_vars => ContentInv'
  <2> SUFFICES ASSUME IInv, ContentInv, [Next]_vars PROVE ContentInv'
    OBVIOUS
  <2>1. CASE Next
    BY <2>1, ContentInvStep DEF Next, IInv, TypeInv
  <2>2. CASE UNCHANGED vars
    BY <2>2 DEF vars, ContentInv, RowsAreUploads, AssetsAreUploads, LiveVersionsHaveRefs,
       LiveVersions, JobIsUpload, GuardsRef, Holds, RefOf, ReleasesPruned, ContentOf, Uploads,
       Immutable
  <2> QED BY <2>1, <2>2
<1> QED BY <1>1, <1>2, IInvAlways, PTL DEF Spec

(* Every live version of an adapter that only publishes has its reference, *)
(* whatever conflicting publishes, sweeps, recounts, aborts and crashes    *)
(* interleave.                                                             *)
THEOREM LiveVersionsAreReferenced ==
  ASSUME BytesApart
  PROVE  Spec => []LiveVersionsHaveRefs
<1>1. ContentInv => LiveVersionsHaveRefs
  BY DEF ContentInv
<1> QED BY <1>1, ContentInvAlways, PTL

(* The asset rows of such a version repeat its content.                    *)
AssetsMatch ==
  \A a \in assets :
    a.version \in Immutable =>
      a.linked /\ row[a.version].state # "none" /\ row[a.version].digest = a.digest

WritesAsset(p) ==
  /\ pc[p] = "create" => job[p].op = "publish"
  /\ pc[p] = "unasset" => job[p].version \notin Immutable
  /\ pc[p] = "asset" /\ job[p].version \in Immutable =>
       /\ job[p].op = "publish"
       /\ row[job[p].version].state # "none" /\ row[job[p].version].digest = job[p].digest

(* A publish that found its reference there leaves it to the row it        *)
(* belongs to.                                                             *)
SharesRef(p) ==
  /\ crashes = 0 /\ pc[p] = "create" /\ job[p].version \in Immutable
  /\ ~ job[p].refCreated /\ RefOf(p) \in refs
  => RefOf(p) \in stranded \/ Holds(job[p].version, job[p].digest)

(* A sweep releases the content of the versions it prunes, all of it but   *)
(* what it has overlooked, and nothing else of theirs.                     *)
ContentRef(v) == [version |-> v, digest |-> row[v].digest]

ReleasesContent(p) ==
  pc[p] \in Expiring =>
    \A u \in job[p].pruned \cap Immutable :
      /\ row[u].digest \in job[p].released \/ ContentRef(u) \in stranded
      /\ \A e \in job[p].released : ContentOf(u, e) => e = row[u].digest
      /\ pc[p] = "readAssets" =>
           \A a \in assets : a.version = u => a \in job[p].expired \/ ContentRef(u) \in stranded

AssetInv == AssetsMatch /\ \A p \in Procs : WritesAsset(p)
OwnerInv == RefsAreOwned /\ \A p \in Procs : SharesRef(p) /\ ReleasesContent(p)

LEMMA ContentStays ==
  ASSUME TypeOK, ProcInv, NEW p \in Procs, Step(p), NEW v \in Versions, v \in Immutable,
         row[v].state # "none"
  PROVE  row'[v].state # "none" /\ row'[v].digest = row[v].digest
BY PublishedRowStep

LEMMA WritesAssetStep ==
  ASSUME TypeOK, ProcInv, NEW p \in Procs, WritesAsset(p), Step(p)
  PROVE  WritesAsset(p)'
<1>0. /\ job \in [Procs -> Job] /\ pc \in [Procs -> PCs] /\ job[p] \in Job /\ row \in [Versions -> Row]
      /\ job[p].version \in Versions /\ UpsertsMutable(p)
  BY DEF TypeOK, Job, ProcInv
<1>1. ASSUME pc'[p] \notin {"create", "unasset", "asset"}
      PROVE  WritesAsset(p)'
  BY <1>1 DEF WritesAsset
<1>2. CASE StartRequest(p)
  BY <1>0, <1>1, <1>2 DEF StartRequest, StartStore, StartReplace, StartTouch, Goto
<1>3. CASE \E d \in Digests : LockDigest(p, d)
  <2>1. UNCHANGED <<row, pc, job>>
    BY <1>3 DEF LockDigest
  <2> QED BY <2>1 DEF WritesAsset
<1>4. CASE StoreRef(p)
  <2>1. job'[p].op = job[p].op /\ pc'[p] = (IF job[p].op = "publish" THEN "create" ELSE "lockRow")
    BY <1>0, <1>4 DEF StoreRef, Goto, Job
  <2> QED BY <2>1 DEF WritesAsset
<1>5. CASE CreateVersion(p)
  <2>1. /\ pc[p] = "create" /\ pc'[p] = "asset" /\ job' = job /\ row'[job[p].version].state = "live"
        /\ row'[job[p].version].digest = job[p].digest
    BY <1>0, <1>5 DEF CreateVersion, Goto, WriteRow
  <2> QED BY <2>1 DEF WritesAsset
<1>6. CASE Conflict(p) \/ CreateOverQuota(p) \/ ReleaseRef(p) \/ UpsertAsset(p)
  BY <1>0, <1>1, <1>6 DEF Conflict, CreateOverQuota, ReleaseRef, UpsertAsset, Finish, Goto
<1>7. CASE DropOldAsset(p)
  <2>1. pc[p] = "unasset" /\ pc'[p] = "asset" /\ job' = job
    BY <1>0, <1>7 DEF DropOldAsset, Goto
  <2> QED BY <2>1 DEF WritesAsset, Immutable
<1>8. CASE CommitReplace(p) \/ UpsertVersion(p)
  <2>1. job[p].version \notin Immutable /\ (job' = job \/ pc'[p] = "idle")
        /\ pc'[p] \in {"unasset", "asset", "idle"}
    BY <1>0, <1>8 DEF CommitReplace, UpsertVersion, UpsertsMutable, Finish, Goto
  <2> QED BY <2>1 DEF WritesAsset, Immutable
<1>9. CASE ReplaceLockQuota(p) \/ ReplaceOverQuota(p) \/ LockVersionRow(p) \/ UpsertOverQuota(p)
  BY <1>0, <1>1, <1>9 DEF ReplaceLockQuota, ReplaceOverQuota, LockVersionRow, UpsertOverQuota,
     Abandon, Finish, Goto
<1>10. CASE RetentionStep(p)
  <2>1. pc'[p] \in {"idle", "prune", "charge", "expireAssets", "readAssets", "readVersions",
      "expire"}
    BY <1>0, <1>10 DEF RetentionStep, RankVersions, LockPrunedRow, RetentionLockQuota, Survey,
        ExpireAssets, ReadLiveAssets, ReadLiveVersions,
       CommitRetention, Finish, Goto
  <2> QED BY <1>1, <2>1
<1>11. CASE QuotaStep(p) \/ DeadlockVictim(p) \/ Crash(p)
  <2>1. pc'[p] \in {"idle", "countStorage", "countArtifacts", "setQuota"}
    BY <1>0, <1>11 DEF QuotaStep, BeginRecount, CountStorage, CountArtifacts, SetQuota,
       DeadlockVictim, Crash, Abandon, Finish, Goto
  <2> QED BY <1>1, <2>1
<1> QED
  BY <1>2, <1>3, <1>4, <1>5, <1>6, <1>7, <1>8, <1>9, <1>10, <1>11
    DEF Step, PublishStep, UpsertStep

LEMMA AssetInvStep ==
  ASSUME TypeOK, ProcInv, AssetInv, NEW p \in Procs, Step(p)
  PROVE  AssetInv'
<1>1. ASSUME NEW a \in assets', a.version \in Immutable
      PROVE  a.linked /\ row'[a.version].state # "none" /\ row'[a.version].digest = a.digest
  <2>0. a.version \in Versions
    BY <1>1 DEF Immutable
  <2>1. CASE a \in assets
    BY <1>1, <2>0, <2>1, ContentStays DEF AssetInv, AssetsMatch
  <2>2. CASE a \notin assets
    <3>1. UpsertAsset(p)
      BY <1>1, <2>2, AssetWriters DEF DropOldAsset, CommitRetention
    <3>2. /\ pc[p] = "asset" /\ row' = row /\ a.version = job[p].version
          /\ a.digest = job[p].digest /\ a.linked = (job[p].op # "upsert")
      BY <1>1, <2>2, <3>1 DEF UpsertAsset
    <3> QED BY <1>1, <3>2 DEF AssetInv, WritesAsset
  <2> QED BY <2>1, <2>2
<1>2. ASSUME NEW q \in Procs
      PROVE  WritesAsset(q)'
  <2>1. CASE q = p
    BY <2>1, WritesAssetStep DEF AssetInv
  <2>2. CASE q # p
    <3>1. pc'[q] = pc[q] /\ job'[q] = job[q] /\ job[q].version \in Versions /\ WritesAsset(q)
      BY <2>2, OthersStay DEF AssetInv, TypeOK, Job
    <3> QED BY <3>1, ContentStays DEF WritesAsset, Immutable
  <2> QED BY <2>1, <2>2
<1> QED BY <1>1, <1>2 DEF AssetInv, AssetsMatch, Immutable

LEMMA HistoryStep ==
  ASSUME TypeOK, NEW p \in Procs, Step(p)
  PROVE  /\ stranded \subseteq stranded'
         /\ IF Crash(p) THEN crashes' # 0 ELSE crashes' = crashes
<1>0. CASE Crash(p)
  BY <1>0, PublishingAssumption DEF PublishingAssumption, Crash, TypeOK
<1>1. CASE StartRequest(p) \/ (\E d \in Digests : LockDigest(p, d))
  BY <1>0, <1>1 DEF StartRequest, StartStore, StartReplace, StartTouch, LockDigest, history
<1>2. CASE PublishStep(p)
  BY <1>0, <1>2 DEF PublishStep, StoreRef, CreateVersion, Conflict, CreateOverQuota, ReleaseRef,
     DropOldAsset, UpsertAsset, history
<1>3. CASE UpsertStep(p)
  BY <1>0, <1>3 DEF UpsertStep, ReplaceLockQuota, CommitReplace, ReplaceOverQuota,
     LockVersionRow, UpsertVersion, UpsertOverQuota, history
<1>4. CASE RetentionStep(p)
  BY <1>0, <1>4 DEF RetentionStep, RankVersions, LockPrunedRow, RetentionLockQuota, Survey,
      ExpireAssets, ReadLiveAssets, ReadLiveVersions,
     CommitRetention, history
<1>5. CASE QuotaStep(p)
  BY <1>0, <1>5 DEF QuotaStep, BeginRecount, CountStorage, CountArtifacts, SetQuota, history
<1>6. CASE DeadlockVictim(p)
  BY <1>0, <1>6 DEF DeadlockVictim, history
<1> QED BY <1>0, <1>1, <1>2, <1>3, <1>4, <1>5, <1>6 DEF Step

(* An asset of a pruned version that comes after retention's UPDATE is     *)
(* noted as overlooked.                                                    *)
LEMMA LateAssetIsNoted ==
  ASSUME TypeOK, AssetInv, NEW p \in Procs, Step(p), NEW q \in Procs, pc[q] = "readAssets",
         NEW u \in job[q].pruned, u \in Immutable, NEW a \in assets', a \notin assets,
         a.version = u
  PROVE  ContentRef(u) \in stranded'
<1>1. UpsertAsset(p)
  BY AssetWriters DEF DropOldAsset, CommitRetention
<1>2. /\ pc[p] = "asset" /\ u = job[p].version /\ Overlooked(u)
      /\ stranded' = stranded \union {RefOf(p)}
  BY <1>1 DEF UpsertAsset, Overlooked
<1>3. row[u].digest = job[p].digest
  BY <1>2 DEF AssetInv, WritesAsset
<1> QED BY <1>2, <1>3 DEF RefOf, ContentRef

LEMMA ReleasesContentStep ==
  ASSUME BytesApart, TypeOK, ProcInv, ContentInv, AssetInv, NEW p \in Procs, Step(p),
         NEW q \in Procs, ReleasesContent(q)
  PROVE  ReleasesContent(q)'
<1>0. /\ job \in [Procs -> Job] /\ pc \in [Procs -> PCs] /\ job[p] \in Job /\ job[q] \in Job
      /\ stranded \subseteq stranded'
  BY HistoryStep DEF TypeOK
(* What a sweep prunes are rows, whose content nobody changes.             *)
<1>1. ASSUME pc[q] \in Retaining, NEW u \in job[q].pruned, u \in Immutable
      PROVE  /\ u \in Versions /\ row[u].state # "none" /\ ContentOf(u, row[u].digest)
             /\ row'[u].digest = row[u].digest /\ ContentRef(u)' = ContentRef(u)
  <2>1. u \in Versions /\ row[u].state # "none"
    BY <1>0, <1>1 DEF ProcInv, RetainsNewest, Surplus, Job
  <2>2. row'[u].digest = row[u].digest
    BY <1>1, <2>1, ContentStays
  <2> QED BY <2>1, <2>2 DEF ContentInv, RowsAreUploads, ContentRef
<1>2. ASSUME NEW u \in Immutable, NEW a \in assets, ContentOf(u, a.digest)
      PROVE  a.version = u /\ a.linked /\ a.digest = row[u].digest
  <2>1. a.version = u
    BY <1>2, OneVersion DEF ContentInv, AssetsAreUploads
  <2> QED BY <1>2, <2>1 DEF AssetInv, AssetsMatch
<1>3. ASSUME pc'[q] = pc[q], job'[q] = job[q], pc[q] \in Expiring
      PROVE  ReleasesContent(q)'
  <2>1. ASSUME NEW u \in job[q].pruned, u \in Immutable, pc[q] = "readAssets",
               NEW a \in assets', a.version = u
        PROVE  a \in job[q].expired \/ ContentRef(u) \in stranded'
    <3>1. CASE a \in assets
      BY <1>0, <1>3, <2>1, <3>1 DEF ReleasesContent
    <3>2. CASE a \notin assets
      BY <2>1, <3>2, LateAssetIsNoted
    <3> QED BY <3>1, <3>2
  <2> QED BY <1>0, <1>1, <1>3, <2>1 DEF ReleasesContent, Immutable, Expiring, Retaining,
      ContentOf,
          Uploads
<1>4. CASE ExpireAssets(p) /\ q = p
  <2>1. /\ pc[q] \in Retaining /\ row' = row /\ assets' = assets
        /\ job'[q].pruned = job[q].pruned /\ job'[q].expired = PrunedAssets(q)
        /\ job'[q].released = PrunedDigests(q)
    BY <1>0, <1>4 DEF ExpireAssets, Job, Retaining
  <2>2. ASSUME NEW u \in job[q].pruned, u \in Immutable
        PROVE  /\ row[u].digest \in PrunedDigests(q)
               /\ \A e \in PrunedDigests(q) : ContentOf(u, e) => e = row[u].digest
               /\ \A a \in assets : a.version = u => a \in PrunedAssets(q)
    <3>1. ASSUME NEW e \in PrunedDigests(q), ContentOf(u, e)
          PROVE  e = row[u].digest
      <4>1. CASE \E w \in job[q].pruned : e = row[w].digest
        <5>1. PICK w \in job[q].pruned : e = row[w].digest
          BY <4>1
        <5>2. ContentOf(w, row[w].digest)
          <6>1. w \in Versions /\ row[w].state # "none"
            BY <1>0, <2>1 DEF ProcInv, RetainsNewest, Surplus, Job
          <6> QED BY <6>1 DEF ContentInv, RowsAreUploads
        <5>3. w = u
          BY <2>2, <3>1, <5>1, <5>2, OneVersion
        <5> QED BY <5>1, <5>3
      <4>2. CASE \E a \in assets : e = a.digest
        BY <1>2, <2>2, <3>1, <4>2
      <4> QED BY <4>1, <4>2 DEF PrunedDigests, PrunedAssets
    <3>2. \A a \in assets : a.version = u => a.linked
      BY <2>2 DEF AssetInv, AssetsMatch
    <3> QED BY <2>2, <3>1, <3>2 DEF PrunedDigests, PrunedAssets
  <2> QED BY <1>4, <2>1, <2>2 DEF ReleasesContent, Immutable, ContentOf, Uploads
<1>5. CASE ReadLiveAssets(p) /\ q = p
  <2>1. /\ pc[q] = "readAssets" /\ pc'[q] = "readVersions" /\ row' = row
        /\ job'[q].pruned = job[q].pruned
        /\ job'[q].released = job[q].released \ LiveAssetDigests(q)
    BY <1>0, <1>5 DEF ReadLiveAssets, Goto, Job
  <2>2. ASSUME NEW u \in job[q].pruned, u \in Immutable, ContentRef(u) \notin stranded
        PROVE  row[u].digest \notin LiveAssetDigests(q)
    BY <1>1, <1>2, <2>1, <2>2 DEF LiveAssetDigests, ReleasesContent, Expiring, Retaining
  <2> QED BY <1>0, <1>1, <1>5, <2>1, <2>2
          DEF ReleasesContent, Immutable, ContentOf, Uploads, Expiring, Retaining
<1>6. CASE ReadLiveVersions(p) /\ q = p
  <2>1. /\ pc[q] = "readVersions" /\ pc'[q] = "expire" /\ row' = row
        /\ job'[q].pruned = job[q].pruned
        /\ job'[q].released = job[q].released \ LiveVersionDigests(q)
    BY <1>0, <1>6 DEF ReadLiveVersions, Goto, Job
  <2>2. ASSUME NEW u \in job[q].pruned, u \in Immutable, row[u].digest \in LiveVersionDigests(q)
        PROVE  FALSE
    <3>1. PICK w \in LiveVersions \ job[q].pruned : row[w].digest = row[u].digest
      BY <2>2 DEF LiveVersionDigests
    <3>2. ContentOf(w, row[w].digest)
      BY DEF ContentInv, RowsAreUploads, LiveVersions
    <3> QED BY <1>1, <2>1, <2>2, <3>1, <3>2, OneVersion DEF Retaining
  <2> QED BY <1>0, <1>1, <1>6, <2>1, <2>2
          DEF ReleasesContent, Immutable, ContentOf, Uploads, Expiring, Retaining
<1>7. CASE pc'[q] \notin Expiring
  BY <1>7 DEF ReleasesContent
<1>8. CASE q = p /\ pc'[p] \in Expiring /\ ~ Survey(p)
  BY <1>3, <1>8, OnlySurveyExpires
<1>9. CASE q # p /\ pc'[q] \in Expiring
  BY <1>3, <1>9, OthersStay
<1> QED BY <1>4, <1>5, <1>6, <1>7, <1>8, <1>9 DEF Survey

(* In a cycle of waits everybody is waited for: the others would be        *)
(* deadlocked without one who is not.                                      *)
LEMMA CycleWaitsForAll ==
  ASSUME NEW S, WaitCycle(S), NEW p \in S
  PROVE  \E q \in S : p \in WaitsFor(q)
<1> SUFFICES ASSUME \A q \in S : p \notin WaitsFor(q)
             PROVE  FALSE
  OBVIOUS
<1>1. PICK q \in S : q \in WaitsFor(p)
  BY DEF WaitCycle, Deadlocked
<1>2. q # p
  BY <1>1
<1>3. Deadlocked(S \ {p})
  BY <1>2 DEF WaitCycle, Deadlocked
<1> QED BY <1>3 DEF WaitCycle

(* Nobody waits for a process about to create its version, and whoever     *)
(* waits for one about to release its reference has that reference too.    *)
LEMMA VictimHoldsNoRef ==
  ASSUME BytesApart, IInv, ContentInv, PruneInv, NEW p \in Procs, DeadlockVictim(p),
         \A q \in Procs : ReleasesContent(q)
  PROVE  ~ (pc[p] \in {"create", "release"} /\ job[p].version \in Immutable)
<1> SUFFICES ASSUME pc[p] \in {"create", "release"}, job[p].version \in Immutable
             PROVE  FALSE
  OBVIOUS
<1> DEFINE v == job[p].version
           d == job[p].digest
<1>0. /\ TypeOK /\ job[p] \in Job /\ HoldsInOrder(p) /\ Uploads(p, v, d) /\ ContentOf(v, d)
      /\ v \in Versions
  BY DEF IInv, TypeInv, TypeOK, LockInv, ContentInv, JobIsUpload, ContentOf, Job
<1>1. PICK S \in SUBSET Waiting : p \in S /\ WaitCycle(S)
  BY DEF DeadlockVictim
<1>2. PICK q \in S : p \in WaitsFor(q)
  BY <1>1, CycleWaitsForAll
<1>3. /\ q \in Procs /\ q # p /\ job[q] \in Job /\ JobIsUpload(q) /\ UpsertsMutable(q)
      /\ ReleasesPruned(q) /\ ReleasesContent(q) /\ PrunesLive(q)
  BY <1>0, <1>2 DEF Waiting, WaitsFor, Others, IInv, ProcInv, ContentInv, PruneInv, TypeOK
<1>4. quotaLock # p /\ RowsHeld(p) = {} /\ \A e \in DigestsHeld(p) : pc[p] = "release" /\ e = d
  BY <1>0 DEF HoldsInOrder, Retaining, DigestsWanted
<1>5. \A w \in Versions : rowLock[w] # p
  BY <1>4 DEF RowsHeld
<1>6. job[q].version \in Versions /\ job[q].pruned \subseteq Versions
  BY <1>3 DEF Job
<1>7. \E e \in Digests : NextDigest(q, e) /\ digestLock[e] = p
  BY <1>2, <1>4, <1>5, <1>6 DEF WaitsFor, Others
<1>8. pc[p] = "release" /\ d \in DigestsWanted(q)
  BY <1>4, <1>7 DEF NextDigest, DigestsHeld
<1>9. CASE pc[q] \in {"store", "release"}
  <2>1. Uploads(q, job[q].version, d)
    BY <1>3, <1>8, <1>9 DEF DigestsWanted, JobIsUpload
  <2> QED BY <1>0, <1>3, <2>1, OneUploader
<1>10. CASE pc[q] = "replace"
  <2>1. ContentOf(job[q].version, d) /\ job[q].version \notin Immutable
    BY <1>3, <1>8, <1>10 DEF DigestsWanted, JobIsUpload, Uploading, UpsertsMutable
  <2> QED BY <1>0, <2>1, OneVersion
<1>11. CASE pc[q] = "expire"
  <2>1. d \in job[q].released
    BY <1>8, <1>11 DEF DigestsWanted
  <2>2. PICK u \in job[q].pruned : ContentOf(u, d)
    BY <1>3, <1>11, <2>1 DEF ReleasesPruned, Expiring
  <2>3. u = v
    BY <1>0, <2>2, OneVersion
  <2>4. row[v].digest = d
    BY <1>0, <1>3, <1>11, <2>1, <2>2, <2>3 DEF ReleasesContent, Expiring
  <2>5. row[v].state = "live"
    BY <1>3, <1>11, <2>2, <2>3 DEF PrunesLive, Retaining, LiveVersions
  <2> QED BY <1>8, <2>4, <2>5 DEF ContentInv, GuardsRef, Holds
<1> QED BY <1>8, <1>9, <1>10, <1>11 DEF DigestsWanted

(* A version that loses its content loses the reference with it, unless    *)
(* its asset was overlooked.                                               *)
LEMMA HoldsStays ==
  ASSUME TypeOK, ProcInv, NEW p \in Procs, Step(p), ReleasesContent(p),
         NEW r \in Ref, r.version \in Immutable, Holds(r.version, r.digest), r \in refs'
  PROVE  r \in stranded' \/ Holds(r.version, r.digest)'
<1>0. r.version \in Versions /\ row[r.version].state = "live" /\ row[r.version].digest = r.digest
  BY DEF Ref, Holds
<1>1. CASE row'[r.version] = row[r.version]
  BY <1>0, <1>1 DEF Holds
<1>2. CASE CommitRetention(p) /\ r.version \in job[p].pruned
  <2>1. r.digest \in job[p].released \/ r \in stranded
    BY <1>0, <1>2 DEF CommitRetention, ReleasesContent, ContentRef, Expiring, Ref
  <2> QED BY <1>2, <2>1 DEF CommitRetention, history
<1> QED BY <1>0, <1>1, <1>2, PublishedRowStep

Owned(r) ==
  \/ r \in stranded \/ Holds(r.version, r.digest)
  \/ \E q \in Procs : pc[q] \in {"create", "release"} /\ RefOf(q) = r

(* A publish that leaves its last step without the row has released its    *)
(* reference, left it to the row that holds it, or was refused.             *)
LEMMA OwnerLeaves ==
  ASSUME BytesApart, IInv, ContentInv, PruneInv, OwnerInv, NEW p \in Procs, Step(p), ~ Crash(p),
         crashes = 0, pc[p] \in {"create", "release"}, NEW r, r = RefOf(p),
         r.version \in Immutable, r \in refs, r \in refs',
         pc'[p] \notin {"create", "release"} \/ job'[p] # job[p]
  PROVE  r \in stranded' \/ Holds(r.version, r.digest)'
<1>0. /\ TypeOK /\ job \in [Procs -> Job] /\ pc \in [Procs -> PCs] /\ UpsertsMutable(p)
      /\ r.version = job[p].version /\ r.digest = job[p].digest /\ r.version \in Versions
  BY DEF IInv, TypeInv, TypeOK, ProcInv, Job, RefOf
<1>1. CASE CreateVersion(p)
  <2>1. row'[r.version] = [state |-> "live", digest |-> r.digest]
    BY <1>0, <1>1 DEF CreateVersion, WriteRow, TypeOK
  <2> QED BY <2>1 DEF Holds
<1>2. CASE Conflict(p)
  <2>1. ~ job[p].refCreated /\ row' = row /\ stranded' = stranded
    BY <1>0, <1>2 DEF Conflict, Goto, history
  <2>2. r \in stranded \/ Holds(r.version, r.digest)
    BY <1>0, <1>2, <2>1 DEF Conflict, OwnerInv, SharesRef
  <2> QED BY <2>1, <2>2 DEF Holds
<1>3. CASE CreateOverQuota(p)
  BY <1>3 DEF CreateOverQuota
<1>4. CASE ReleaseRef(p)
  BY <1>4 DEF ReleaseRef
<1>5. CASE \E e \in Digests : LockDigest(p, e)
  BY <1>5 DEF LockDigest
<1>6. CASE DeadlockVictim(p)
  BY <1>0, <1>6, VictimHoldsNoRef DEF OwnerInv
<1>7. CASE StartRequest(p) \/ UpsertStep(p) \/ RetentionStep(p) \/ QuotaStep(p)
  BY <1>7 DEF StartRequest, StartStore, StartReplace, StartTouch, Serves,
     UpsertStep, ReplaceLockQuota, CommitReplace, ReplaceOverQuota,
     LockVersionRow, UpsertVersion, UpsertOverQuota,
     RetentionStep, RankVersions, LockPrunedRow, RetentionLockQuota, Survey, ExpireAssets,
     ReadLiveAssets, ReadLiveVersions, CommitRetention,
     QuotaStep, BeginRecount, CountStorage, CountArtifacts, SetQuota
<1>8. CASE StoreRef(p) \/ DropOldAsset(p) \/ UpsertAsset(p)
  BY <1>8 DEF StoreRef, DropOldAsset, UpsertAsset
<1> QED BY <1>1, <1>2, <1>3, <1>4, <1>5, <1>6, <1>7, <1>8 DEF Step, PublishStep

LEMMA RefsAreOwnedStep ==
  ASSUME BytesApart, IInv, ContentInv, PruneInv, OwnerInv, NEW p \in Procs, Step(p)
  PROVE  RefsAreOwned'
<1>0. /\ TypeOK /\ ProcInv /\ job \in [Procs -> Job] /\ pc \in [Procs -> PCs] /\ UpsertsMutable(p)
      /\ ReleasesContent(p) /\ refs \subseteq Ref
  BY DEF IInv, TypeInv, TypeOK, ProcInv, OwnerInv
<1> SUFFICES ASSUME crashes' = 0, NEW r \in refs', r.version \in Immutable
             PROVE  Owned(r)'
  BY DEF RefsAreOwned, Owned, Holds, Immutable
<1>1. /\ crashes = 0 /\ ~ Crash(p) /\ stranded \subseteq stranded'
      /\ \A q \in Procs : q # p => pc'[q] = pc[q] /\ job'[q] = job[q]
  BY <1>0, HistoryStep, OthersStay
<1>2. r \in Ref
  <2>1. TypeOK'
    BY IInvStep DEF IInv, TypeInv, Next
  <2> QED BY <2>1 DEF TypeOK
<1>3. CASE r \notin refs
  <2>1. StoreRef(p) /\ r = RefOf(p)
    BY <1>0, <1>2, <1>3, PublishedRefStep
  <2>2. job[p].op = "publish"
    BY <1>0, <2>1 DEF StoreRef, UpsertsMutable, RefOf
  <2>3. pc'[p] = "create" /\ job'[p].version = job[p].version /\ job'[p].digest = job[p].digest
    BY <1>0, <2>1, <2>2 DEF StoreRef, Goto, Job
  <2>4. RefOf(p)' = r
    BY <2>1, <2>3 DEF RefOf
  <2> QED BY <2>3, <2>4 DEF Owned
<1>4. CASE r \in refs
  <2>1. Owned(r)
    BY <1>1, <1>4 DEF OwnerInv, RefsAreOwned, Owned, Holds
  <2>2. CASE r \in stranded
    BY <1>1, <2>2 DEF Owned
  <2>3. CASE Holds(r.version, r.digest)
    <3>1. r \in stranded' \/ Holds(r.version, r.digest)'
      BY <1>0, <1>2, <2>3, HoldsStays
    <3> QED BY <3>1 DEF Owned
  <2>4. ASSUME NEW q \in Procs, pc[q] \in {"create", "release"}, RefOf(q) = r
        PROVE  Owned(r)'
    <3>1. job[q].version = r.version /\ job[q].digest = r.digest
      BY <2>4 DEF RefOf
    <3>2. CASE pc'[q] \in {"create", "release"} /\ job'[q] = job[q]
      <4>1. RefOf(q)' = r
        BY <2>4, <3>2 DEF RefOf
      <4> QED BY <3>2, <4>1 DEF Owned
    <3>3. CASE q = p /\ (pc'[p] \notin {"create", "release"} \/ job'[p] # job[p])
      <4>1. r \in stranded' \/ Holds(r.version, r.digest)'
        BY <1>1, <1>4, <2>4, <3>3, OwnerLeaves
      <4> QED BY <4>1 DEF Owned
    <3> QED BY <1>1, <2>4, <3>2, <3>3
  <2> QED BY <2>1, <2>2, <2>3, <2>4 DEF Owned
<1> QED BY <1>3, <1>4

LEMMA OnlyStoreCreates ==
  ASSUME TypeOK, NEW p \in Procs, Step(p), pc'[p] = "create"
  PROVE  StoreRef(p)
<1>0. pc \in [Procs -> PCs]
  BY DEF TypeOK
<1>1. CASE StartRequest(p) \/ (\E d \in Digests : LockDigest(p, d))
  BY <1>0, <1>1 DEF StartRequest, StartStore, StartReplace, StartTouch, Goto, LockDigest,
     NextDigest, DigestsWanted
<1>2. CASE PublishStep(p)
  BY <1>0, <1>2 DEF PublishStep, CreateVersion, Conflict, CreateOverQuota, ReleaseRef,
     DropOldAsset, UpsertAsset, Finish, Goto
<1>3. CASE UpsertStep(p)
  BY <1>0, <1>3 DEF UpsertStep, ReplaceLockQuota, CommitReplace, ReplaceOverQuota,
     LockVersionRow, UpsertVersion, UpsertOverQuota, Abandon, Finish, Goto
<1>4. CASE RetentionStep(p)
  BY <1>0, <1>4 DEF RetentionStep, RankVersions, LockPrunedRow, RetentionLockQuota, Survey,
      ExpireAssets, ReadLiveAssets, ReadLiveVersions,
     CommitRetention, Finish, Goto
<1>5. CASE QuotaStep(p) \/ DeadlockVictim(p) \/ Crash(p)
  BY <1>0, <1>5 DEF QuotaStep, BeginRecount, CountStorage, CountArtifacts, SetQuota,
     DeadlockVictim, Crash, Abandon, Finish, Goto
<1> QED BY <1>1, <1>2, <1>3, <1>4, <1>5 DEF Step

LEMMA SharesRefStep ==
  ASSUME BytesApart, TypeOK, ProcInv, ContentInv, OwnerInv, NEW p \in Procs, Step(p),
         NEW q \in Procs
  PROVE  SharesRef(q)'
<1>0. /\ job \in [Procs -> Job] /\ pc \in [Procs -> PCs] /\ job[q] \in Job
      /\ JobIsUpload(p) /\ JobIsUpload(q) /\ ReleasesContent(p) /\ SharesRef(q)
      /\ stranded \subseteq stranded'
      /\ crashes' = 0 => crashes = 0
  BY HistoryStep DEF TypeOK, ContentInv, OwnerInv
<1> SUFFICES ASSUME crashes' = 0, pc'[q] = "create", job'[q].version \in Immutable,
                    ~ job'[q].refCreated, NEW r, r = RefOf(q)', r \in refs'
             PROVE  r \in stranded' \/ Holds(r.version, r.digest)'
  BY DEF SharesRef, RefOf, Immutable
<1>1. CASE q = p
  <2>1. StoreRef(p) /\ pc[p] = "store"
    BY <1>1, OnlyStoreCreates DEF StoreRef
  <2>2. /\ job'[p].version = job[p].version /\ job'[p].digest = job[p].digest
        /\ job'[p].refCreated = (RefOf(p) \notin refs) /\ row' = row
    BY <1>0, <1>1, <2>1 DEF StoreRef, Job
  <2>3. /\ r = RefOf(p) /\ r \in refs /\ r.version = job[p].version /\ r.digest = job[p].digest
        /\ r.version \in Immutable
    BY <1>1, <2>2 DEF RefOf
  <2>4. ASSUME NEW o \in Procs, pc[o] \in {"create", "release"}, RefOf(o) = r
        PROVE  FALSE
    <3>1. Uploads(o, r.version, r.digest) /\ Uploads(p, r.version, r.digest)
      BY <1>0, <2>1, <2>3, <2>4 DEF ContentInv, JobIsUpload, RefOf
    <3>2. o = p
      BY <2>3, <3>1, OneUploader
    <3> QED BY <2>1, <2>4, <3>2
  <2>5. r \in stranded \/ Holds(r.version, r.digest)
    BY <1>0, <2>3, <2>4 DEF OwnerInv, RefsAreOwned, Holds
  <2> QED BY <1>0, <2>2, <2>5 DEF Holds
<1>2. CASE q # p
  <2>1. pc'[q] = pc[q] /\ job'[q] = job[q]
    BY <1>2, OthersStay
  <2>2. /\ r = RefOf(q) /\ r.version = job[q].version /\ r.digest = job[q].digest
        /\ r.version \in Immutable /\ r \in Ref /\ Uploads(q, r.version, r.digest)
    BY <1>0, <2>1 DEF RefOf, Ref, Job, JobIsUpload
  <2>3. r \in refs
    <3>1. ASSUME StoreRef(p), r = RefOf(p)
          PROVE  FALSE
      <4>1. Uploads(p, r.version, r.digest)
        BY <1>0, <3>1 DEF StoreRef, RefOf, JobIsUpload
      <4> QED BY <1>2, <2>2, <4>1, OneUploader
    <3> QED BY <2>2, <3>1, PublishedRefStep
  <2>4. r \in stranded \/ Holds(r.version, r.digest)
    BY <1>0, <2>1, <2>2, <2>3 DEF SharesRef
  <2> QED BY <1>0, <2>2, <2>4, HoldsStays
<1> QED BY <1>1, <1>2

LEMMA OwnerInvAlways ==
  ASSUME BytesApart, OneSweeper
  PROVE  Spec => [](ContentInv /\ OwnerInv)
<1> DEFINE Inv == ContentInv /\ PruneInv /\ AssetInv /\ OwnerInv
<1>1. Init => Inv
  <2> SUFFICES ASSUME Init PROVE Inv
    OBVIOUS
  <2>1. PruneInv
    BY DEF Init, PruneInv, PrunesLive, Retaining
  <2>2. AssetInv
    BY DEF Init, AssetInv, AssetsMatch, WritesAsset
  <2>3. OwnerInv
    BY DEF Init, OwnerInv, RefsAreOwned, SharesRef, ReleasesContent, Expiring
  <2>4. ContentInv
    BY DEF Init, ContentInv, RowsAreUploads, AssetsAreUploads, LiveVersionsHaveRefs, LiveVersions,
       JobIsUpload, Uploading, GuardsRef, ReleasesPruned, Expiring
  <2> QED BY <2>1, <2>2, <2>3, <2>4
<1>2. IInv /\ Inv /\ [Next]_vars => Inv'
  <2> SUFFICES ASSUME IInv, Inv, [Next]_vars PROVE Inv'
    OBVIOUS
  <2>1. CASE Next
    <3>1. PICK p \in Procs : Step(p)
      BY <2>1 DEF Next
    <3>2. TypeOK /\ OrderInv /\ ProcInv
      BY DEF IInv, TypeInv
    <3>3. ContentInv' /\ PruneInv' /\ AssetInv'
      BY <3>1, <3>2, ContentInvStep, PruneInvStep, AssetInvStep
    <3>4. ASSUME NEW q \in Procs
          PROVE  SharesRef(q)' /\ ReleasesContent(q)'
      BY <3>1, <3>2, SharesRefStep, ReleasesContentStep DEF OwnerInv
    <3> QED BY <3>1, <3>3, <3>4, RefsAreOwnedStep DEF OwnerInv
  <2>2. CASE UNCHANGED vars
    <3> USE <2>2 DEF vars, history, usage, locks
    <3>1. PruneInv'
      BY DEF PruneInv, PrunesLive, LiveVersions, RowsHeld
    <3>2. AssetInv'
      BY DEF AssetInv, AssetsMatch, WritesAsset, Immutable
    <3>3. OwnerInv'
      BY DEF OwnerInv, RefsAreOwned, SharesRef, ReleasesContent, ContentRef, RefOf, Holds,
         Immutable, ContentOf, Uploads
    <3>4. ContentInv'
      BY DEF ContentInv, RowsAreUploads, AssetsAreUploads, LiveVersionsHaveRefs,
         LiveVersions, JobIsUpload, GuardsRef, Holds, RefOf, ReleasesPruned, ContentOf, Uploads,
         Immutable
    <3> QED BY <3>1, <3>2, <3>3, <3>4
  <2> QED BY <2>1, <2>2
<1> QED BY <1>1, <1>2, IInvAlways, PTL DEF Spec

(* And with one sweep at a time no reference is stranded: it is some live  *)
(* version's, or that of a publish which has yet to take or release it, or *)
(* the artifact quota refused it, or retention overlooked its asset.       *)
THEOREM ReferencesAreOwned ==
  ASSUME BytesApart, OneSweeper
  PROVE  Spec => []RefsMatchVersions
<1>1. ContentInv /\ OwnerInv => RefsMatchVersions
  BY DEF ContentInv, OwnerInv, RefsMatchVersions
<1> QED BY <1>1, OwnerInvAlways, PTL
-----------------------------------------------------------------------------
(* What clients see.                                                       *)

(* A retention leaves those newer than the newest version it prunes.       *)
LEMMA PruningLeavesEnough ==
  ASSUME TypeOK, OrderInv, NEW S \in SUBSET LiveVersions, S # {}, \A u \in S : Surplus(u)
  PROVE  Cardinality(LiveVersions \ S) >= KeepLastN
<1>1. PICK v \in S : Surplus(v)
  OBVIOUS
<1>2. S \in SUBSET Versions /\ v \in Versions
  BY DEF LiveVersions
<1>3. IsFiniteSet(NewerThan(v) \ S) /\ Cardinality(NewerThan(v) \ S) >= KeepLastN
  BY <1>1, <1>2, PruningLeavesNewest
<1>4. IsFiniteSet(LiveVersions \ S) /\ NewerThan(v) \ S \in SUBSET (LiveVersions \ S)
  BY LiveAreFinite, FS_Difference DEF NewerThan
<1>5. /\ Cardinality(NewerThan(v) \ S) \in Nat /\ Cardinality(LiveVersions \ S) \in Nat
      /\ Cardinality(NewerThan(v) \ S) <= Cardinality(LiveVersions \ S)
  BY <1>3, <1>4, FS_Subset, FS_CardinalityType
<1>6. KeepLastN \in Nat
  BY PublishingAssumption DEF PublishingAssumption
<1> QED BY <1>3, <1>5, <1>6

LEMMA ServedAreLive ==
  ASSUME LiveVersionsHaveRefs
  PROVE  Downloadable = LiveVersions \cap Immutable
BY DEF LiveVersionsHaveRefs, Downloadable

(* A row that is written shows as a publish or a rewrite.                  *)
LEMMA WriteRefines ==
  ASSUME TypeOK, OrderInv, NEW p \in Procs, WriteRow(p),
         LiveVersionsHaveRefs, LiveVersionsHaveRefs',
         job[p].version \notin Immutable \/ row[job[p].version].state = "none"
  PROVE  Abstract!Next
<1> DEFINE v == job[p].version
           d == job[p].digest
<1>1. /\ v \in Versions /\ d \in Digests
      /\ row' = [row EXCEPT ![v] = [state |-> "live", digest |-> d]]
  BY DEF TypeOK, Job, WriteRow
<1>2. /\ Downloadable = LiveVersions \cap Immutable
      /\ Downloadable' = LiveVersions' \cap Immutable
  BY ServedAreLive DEF LiveVersionsHaveRefs, Downloadable, Immutable
<1>3. LiveVersions' = LiveVersions \union {v}
  BY <1>1 DEF LiveVersions, TypeOK
<1>4. CASE v \in Immutable
  BY <1>1, <1>2, <1>3, <1>4 DEF Abstract!Publish, Abstract!Next
<1>5. CASE v \notin Immutable
  BY <1>1, <1>2, <1>3, <1>5 DEF Abstract!Write, Abstract!Next
<1> QED BY <1>4, <1>5

LEMMA RetentionRefines ==
  ASSUME TypeOK, OrderInv, ProcInv, NEW p \in Procs, CommitRetention(p),
         LiveVersionsHaveRefs, LiveVersionsHaveRefs'
  PROVE  [Abstract!Next]_Abstract!vars
<1> DEFINE S == LiveVersions \cap job[p].pruned
<1>1. /\ \A u \in job[p].pruned : u \in Versions /\ Surplus(u)
      /\ row' = [v \in Versions |->
                   IF v \in job[p].pruned THEN [row[v] EXCEPT !.state = "deleted"] ELSE row[v]]
  BY DEF CommitRetention, ProcInv, RetainsNewest, Retaining, TypeOK, Job
<1>2. /\ Downloadable = LiveVersions \cap Immutable
      /\ Downloadable' = LiveVersions' \cap Immutable
  BY ServedAreLive DEF LiveVersionsHaveRefs, Downloadable, Immutable
(* What another retention has pruned meanwhile stays as it is.             *)
<1>3. \A v \in Versions : row[v].state \in {"none", "live", "deleted"}
                           /\ (v \in job[p].pruned => row[v].state # "none")
  BY <1>1 DEF TypeOK, Row, Surplus
<1>4. row' = [v \in Versions |-> IF v \in S THEN [row[v] EXCEPT !.state = "deleted"] ELSE row[v]]
  BY <1>1, <1>3 DEF LiveVersions, TypeOK, Row
<1>5. LiveVersions' = LiveVersions \ S
  BY <1>4 DEF LiveVersions, TypeOK, Row
<1>6. CASE S = {}
  <2>1. row' = row
    BY <1>4, <1>6 DEF TypeOK
  <2> QED BY <1>2, <1>5, <1>6, <2>1 DEF Abstract!vars
<1>7. CASE S # {}
  <2>1. Cardinality(LiveVersions \ S) >= KeepLastN
    BY <1>1, <1>7, PruningLeavesEnough
  <2>2. Abstract!Live = LiveVersions
    BY DEF Abstract!Live, LiveVersions
  <2>3. Downloadable' = Downloadable \ S
    <3>1. LiveVersions' \cap Immutable = (LiveVersions \ S) \cap Immutable
      BY <1>5
    <3>2. (LiveVersions \ S) \cap Immutable = (LiveVersions \cap Immutable) \ S
      OBVIOUS
    <3>3. Downloadable' = (LiveVersions \cap Immutable) \ S
      BY <1>2, <3>1, <3>2
    <3> QED BY <1>2, <3>3
  <2>4. Abstract!Retire(S)
    BY <1>4, <2>1, <2>2, <2>3 DEF Abstract!Retire, Abstract!Cardinality, Cardinality
  <2>5. S \in SUBSET Abstract!Live
    BY <2>2
  <2> QED BY <2>4, <2>5 DEF Abstract!Next
<1> QED BY <1>6, <1>7

LEMMA StepRefines ==
  ASSUME IInv, LiveVersionsHaveRefs, LiveVersionsHaveRefs', [Next]_vars
  PROVE  [Abstract!Next]_Abstract!vars
<1>0. TypeOK /\ OrderInv /\ ProcInv
  BY DEF IInv, TypeInv
<1>1. ASSUME row' = row
      PROVE  [Abstract!Next]_Abstract!vars
  <2>1. /\ Downloadable = LiveVersions \cap Immutable
        /\ Downloadable' = LiveVersions' \cap Immutable
    BY ServedAreLive DEF LiveVersionsHaveRefs, Downloadable, Immutable
  <2> QED BY <1>1, <2>1 DEF LiveVersions, Abstract!vars
<1>2. CASE UNCHANGED vars
  BY <1>1, <1>2 DEF vars
<1>3. CASE Next
  <2>1. PICK p \in Procs : Step(p)
    BY <1>3 DEF Next
  <2>2. CASE CreateVersion(p)
    <3>1. WriteRow(p) /\ row[job[p].version].state = "none"
      BY <2>2 DEF CreateVersion
    <3> QED BY <1>0, <3>1, WriteRefines
  <2>3. CASE CommitReplace(p) \/ UpsertVersion(p)
    <3>1. WriteRow(p) /\ pc[p] \in {"replaceRow", "upsert"}
      BY <2>3 DEF CommitReplace, UpsertVersion
    <3>2. job[p].version \notin Immutable
      BY <1>0, <3>1 DEF ProcInv, UpsertsMutable
    <3> QED BY <1>0, <3>1, <3>2, WriteRefines
  <2>4. CASE CommitRetention(p)
    BY <1>0, <2>4, RetentionRefines
  <2>5. CASE SetQuota(p)
    BY <1>1, <2>5 DEF SetQuota
  <2> QED BY <1>0, <1>1, <2>1, <2>2, <2>3, <2>4, <2>5, Writers
<1> QED BY <1>2, <1>3

(* Publishing implements VersionIndex: to its clients a version that is    *)
(* only published appears with its content, keeps it, and is retired for   *)
(* ever, with the newest left (README.md:99, versions.ts:241,              *)
(* retention.ts:94).                                                       *)
THEOREM ImplementsIndex ==
  ASSUME BytesApart
  PROVE  Spec => IndexSpec
<1>1. Init => Abstract!Init
  BY DEF Init, Abstract!Init, Downloadable, LiveVersions
<1>2. ContentInv => LiveVersionsHaveRefs
  BY DEF ContentInv
<1>3. IInv /\ LiveVersionsHaveRefs /\ LiveVersionsHaveRefs' /\ [Next]_vars =>
        [Abstract!Next]_Abstract!vars
  BY StepRefines
<1> QED
  BY <1>1, <1>2, <1>3, IInvAlways, ContentInvAlways, PTL DEF Spec, IndexSpec, Abstract!Spec
=============================================================================
