----------------------------- MODULE Publishing -----------------------------
(***************************************************************************)
(* Publishing, replacing and retiring the versions of one package:         *)
(* packages/registry-platform/src/packages/versions.ts, the publish tail   *)
(* of packages/registry, repositories/retention.ts and the artifact side   *)
(* of governance/quota.ts.                                                 *)
(*                                                                         *)
(* A process is a request or the retention sweep.  A database transaction  *)
(* is the sequence of its lock waits (digest advisory locks, the org's     *)
(* quota row, version rows) and of the reads it makes in between; its      *)
(* writes become visible in one step, its commit.  What BlobStore models,  *)
(* bytes and reference counts, is left out: every blob has size one.       *)
(***************************************************************************)
EXTENDS Integers, Sequences, FiniteSets

CONSTANTS
  Versions,      (* the version names of the package                        *)
  Digests,       (* numbered in the sort order the digests are locked in    *)
  Procs, NoProc,
  Requests,      (* Requests[p]: the requests a process serves              *)
  Sweepers,      (* the processes that apply retention                      *)
  Administrators,(* the processes that set the quota                        *)
  Elsewhere,     (* digests another repository of the org references        *)
  Metered,       (* the org has a quota row from the start                  *)
  MaxArtifacts,
  KeepLastN,
  MaxCrashes     (* bound: crashes in a behaviour                           *)

OperationKinds == {"publish", "replace", "upsert", "touch", "retain"}

PublishRequest == [op : OperationKinds, version : Versions, digest : Digests]

ASSUME PublishingAssumption ==
  /\ Digests \subseteq Nat \ {0}
  /\ NoProc \notin Procs
  /\ Requests \in [Procs -> SUBSET PublishRequest]
  /\ Sweepers \subseteq Procs /\ Administrators \subseteq Procs
  /\ Elsewhere \subseteq Digests /\ IsFiniteSet(Elsewhere)
  /\ Metered \in BOOLEAN
  /\ MaxArtifacts \in Nat /\ KeepLastN \in Nat \ {0} /\ MaxCrashes \in Nat
  /\ Versions # {} /\ Digests # {} /\ Versions \cap Procs = {}

VARIABLES
  row,           (* the package_versions rows                               *)
  created,       (* the rows in the order of created_at.  A transaction     *)
                 (* takes its timestamp when it begins: a process stands    *)
                 (* for the row it may insert                               *)
  refs,          (* blob_refs of the repository, scope = version            *)
  assets,        (* live registry_assets rows                               *)
  metered, usedArtifacts, usedStorage,  (* the quota row, when there is one *)
  digestLock, rowLock, quotaLock,   (* holders                              *)
  pc, job,
  crashes,
  stranded       (* history: references that a publish which was refused,   *)
                 (* or a retention that overlooked its asset, has left      *)

locks == <<digestLock, rowLock, quotaLock>>
usage == <<metered, usedArtifacts, usedStorage>>
history == <<crashes, stranded>>
vars == <<row, created, refs, assets, usage, locks, pc, job, history>>

NoDigest == 0
Row == [state : {"none", "live", "deleted"}, digest : Digests \union {NoDigest}]
Ref == [version : Versions, digest : Digests]

(* linked: the asset carries its package_version_id.                       *)
Asset == [version : Versions, digest : Digests, linked : BOOLEAN]

Job ==
  [version : Versions, digest : Digests, old : Digests, op : OperationKinds,
   refCreated : BOOLEAN, charge : BOOLEAN,
   pruned : SUBSET Versions, expired : SUBSET Asset, released : SUBSET Digests,
   storage : Nat, artifacts : Nat]

JobFor(kind, v, d, previous) ==
  [version |-> v, digest |-> d, old |-> previous, op |-> kind,
   refCreated |-> FALSE, charge |-> FALSE,
   pruned |-> {}, expired |-> {}, released |-> {}, storage |-> 0, artifacts |-> 0]

Blank ==
  JobFor("retain", CHOOSE v \in Versions : TRUE, CHOOSE d \in Digests : TRUE,
         CHOOSE d \in Digests : TRUE)

PCs == {"idle", "store", "create", "release", "unasset", "asset", "replace",
        "replaceRow", "lockRow", "upsert", "prune", "charge", "expireAssets",
        "readAssets", "readVersions", "expire", "countStorage", "countArtifacts", "setQuota"}

(* A retention that has updated the assets, and keeps them locked.         *)
Expiring == {"readAssets", "readVersions", "expire"}

(***************************************************************************)
(* Rows, locks and counters.                                               *)
(***************************************************************************)

LiveVersions == {v \in Versions : row[v].state = "live"}
RefOf(p) == [version |-> job[p].version, digest |-> job[p].digest]
Referenced(d, rs) == d \in Elsewhere \/ \E r \in rs : r.digest = d

Position(x) == CHOOSE i \in DOMAIN created : created[i] = x
NewerThan(v) == {w \in LiveVersions : Position(w) > Position(v)}

(* The versions ranked beyond the newest n.                                *)
BeyondNewest(n) == {v \in LiveVersions : Cardinality(NewerThan(v)) >= n}

Without(p) ==
  IF \E i \in DOMAIN created : created[i] = p
  THEN [i \in 1..(Len(created) - 1) |-> created[IF i < Position(p) THEN i ELSE i + 1]]
  ELSE created
Inserted(p) ==
  IF row[job[p].version].state = "none"
  THEN [i \in DOMAIN created |-> IF created[i] = p THEN job[p].version ELSE created[i]]
  ELSE Without(p)

DigestsHeld(p) == {d \in Digests : digestLock[d] = p}
DigestsWanted(p) ==
  CASE pc[p] \in {"store", "release"} -> {job[p].digest}
    [] pc[p] = "replace" -> {job[p].digest, job[p].old}
    [] pc[p] = "expire" -> job[p].released
    [] OTHER -> {}
HasDigestLocks(p) == DigestsWanted(p) \subseteq DigestsHeld(p)
QuotaFree(p) == quotaLock \in {NoProc, p}
RowFree(p, v) == rowLock[v] \in {NoProc, p}
LockedQuota(p) == IF metered THEN p ELSE NoProc

EndTransaction(p) ==
  /\ digestLock' = [d \in Digests |-> IF digestLock[d] = p THEN NoProc ELSE digestLock[d]]
  /\ rowLock' = [v \in Versions |-> IF rowLock[v] = p THEN NoProc ELSE rowLock[v]]
  /\ quotaLock' = IF quotaLock = p THEN NoProc ELSE quotaLock

AtLeastZero(n) == IF n < 0 THEN 0 ELSE n

(* adjustArtifactsUsedTx and adjustStorageUsedTx: UPDATEs clamped at zero  *)
(* of a row that may not exist.                                            *)
AdjustArtifacts(n) ==
  /\ usedArtifacts' = IF metered THEN AtLeastZero(usedArtifacts + n) ELSE usedArtifacts
  /\ UNCHANGED metered

AdjustStorage(n) ==
  /\ usedStorage' = IF metered THEN AtLeastZero(usedStorage + n) ELSE usedStorage
  /\ UNCHANGED metered

(* assertArtifactQuotaRowAllows                                            *)
ArtifactQuotaAllows(n) == metered => usedArtifacts + n <= MaxArtifacts

Goto(p, label) == pc' = [pc EXCEPT ![p] = label]
Finish(p) == Goto(p, "idle") /\ job' = [job EXCEPT ![p] = Blank]

Init ==
  /\ row = [v \in Versions |-> [state |-> "none", digest |-> NoDigest]]
  /\ created = <<>>
  /\ refs = {} /\ assets = {}
  /\ metered = Metered /\ usedArtifacts = 0
  /\ usedStorage = IF Metered THEN Cardinality(Elsewhere) ELSE 0
  /\ digestLock = [d \in Digests |-> NoProc]
  /\ rowLock = [v \in Versions |-> NoProc]
  /\ quotaLock = NoProc
  /\ pc = [p \in Procs |-> "idle"]
  /\ job = [p \in Procs |-> Blank]
  /\ crashes = 0 /\ stranded = {}

Serves(p, kind, v, d) ==
  pc[p] = "idle" /\ [op |-> kind, version |-> v, digest |-> d] \in Requests[p]

(* Mutant: every digest is locked as it comes.                             *)
NextDigestUnsorted(p, d) == d \in DigestsWanted(p) \ DigestsHeld(p)

(* lockDigestsTx and retention's "order by digest".                        *)
NextDigest(p, d) ==
  /\ d \in DigestsWanted(p) \ DigestsHeld(p)
  /\ \A e \in DigestsWanted(p) \ DigestsHeld(p) : d <= e

LockDigest(p, d) ==
  /\ NextDigest(p, d)
  /\ digestLock[d] = NoProc
  /\ digestLock' = [digestLock EXCEPT ![d] = p]
  /\ UNCHANGED <<row, created, refs, assets, usage, rowLock, quotaLock, pc, job, history>>

(***************************************************************************)
(* publishImmutableVersionBlob: store, create, release on conflict.        *)
(***************************************************************************)

StartStore(p, kind, v, d) ==
  /\ Serves(p, kind, v, d)
  /\ job' = [job EXCEPT ![p] = JobFor(kind, v, d, d)]
  /\ Goto(p, "store")
  /\ UNCHANGED <<row, created, refs, assets, usage, locks, history>>

(* The next transaction begins as this one commits.                        *)
StoreRef(p) ==
  /\ pc[p] = "store" /\ HasDigestLocks(p) /\ QuotaFree(p)
  /\ refs' = refs \union {RefOf(p)}
  /\ AdjustStorage(IF Referenced(job[p].digest, refs) THEN 0 ELSE 1)
  /\ EndTransaction(p)
  /\ job' = [job EXCEPT ![p].refCreated = RefOf(p) \notin refs]
  /\ Goto(p, IF job[p].op = "publish" THEN "create" ELSE "lockRow")
  /\ created' = Append(created, p)
  /\ UNCHANGED <<row, assets, usedArtifacts, history>>

WriteRow(p) ==
  /\ row' = [row EXCEPT ![job[p].version] = [state |-> "live", digest |-> job[p].digest]]
  /\ created' = Inserted(p)

(* Mutant: INSERT ... ON CONFLICT DO UPDATE.                               *)
CreateVersionOverwrites(p) ==
  /\ pc[p] = "create" /\ QuotaFree(p)
  /\ ArtifactQuotaAllows(1)
  /\ WriteRow(p)
  /\ AdjustArtifacts(IF row[job[p].version].state = "live" THEN 0 ELSE 1)
  /\ Goto(p, "asset")
  /\ UNCHANGED <<refs, assets, usedStorage, locks, job, history>>

(* createPackageVersion: the row is new.                                   *)
CreateVersion(p) ==
  /\ pc[p] = "create" /\ QuotaFree(p)
  /\ row[job[p].version].state = "none"
  /\ ArtifactQuotaAllows(1)
  /\ WriteRow(p)
  /\ AdjustArtifacts(1)
  /\ Goto(p, "asset")
  /\ UNCHANGED <<refs, assets, usedStorage, locks, job, history>>

(* Mutant: the reference is released whoever created it.                   *)
ConflictAlwaysReleases(p) ==
  /\ pc[p] = "create" /\ QuotaFree(p)
  /\ row[job[p].version].state # "none"
  /\ created' = Without(p)
  /\ Goto(p, "release")
  /\ UNCHANGED <<row, refs, assets, usage, locks, job, history>>

(* Any row, a retention tombstone included, is a conflict.                 *)
Conflict(p) ==
  /\ pc[p] = "create" /\ QuotaFree(p)
  /\ row[job[p].version].state # "none"
  /\ created' = Without(p)
  /\ IF job[p].refCreated THEN Goto(p, "release") /\ UNCHANGED job ELSE Finish(p)
  /\ UNCHANGED <<row, refs, assets, usage, locks, history>>

(* The assertion throws out of the handler; the reference stays.           *)
CreateOverQuota(p) ==
  /\ pc[p] = "create" /\ QuotaFree(p)
  /\ row[job[p].version].state = "none"
  /\ ~ ArtifactQuotaAllows(1)
  /\ created' = Without(p)
  /\ Finish(p)
  /\ stranded' = stranded \union {RefOf(p)}
  /\ UNCHANGED <<row, refs, assets, usage, locks, crashes>>

(* releaseBlobRef: the UPDATE of a refund waits for the quota row.         *)
ReleaseRef(p) ==
  LET rest == refs \ {RefOf(p)}
      refund == RefOf(p) \in refs /\ ~ Referenced(job[p].digest, rest)
  IN  /\ pc[p] = "release" /\ HasDigestLocks(p)
      /\ refund => QuotaFree(p)
      /\ refs' = rest
      /\ AdjustStorage(IF refund THEN -1 ELSE 0)
      /\ EndTransaction(p)
      /\ Finish(p)
      /\ UNCHANGED <<row, created, assets, usedArtifacts, history>>

(***************************************************************************)
(* The asset row is written after the version has been committed.          *)
(***************************************************************************)

AssetsOf(v, d) == {a \in assets : a.version = v /\ a.digest = d}

AssetUnlocked(v, d) ==
  ~ \E q \in Procs, a \in AssetsOf(v, d) : pc[q] \in Expiring /\ a \in job[q].expired

DropOldAsset(p) ==
  /\ pc[p] = "unasset"
  /\ AssetUnlocked(job[p].version, job[p].old)
  /\ assets' = assets \ AssetsOf(job[p].version, job[p].old)
  /\ Goto(p, "asset")
  /\ UNCHANGED <<row, created, refs, usage, locks, job, history>>

(* Retention has passed this version's assets over and is about to see     *)
(* this one as live.                                                       *)
Overlooked(v) == \E q \in Procs : pc[q] = "readAssets" /\ v \in job[q].pruned

(* An adapter that upserts passes no packageVersion.                       *)
UpsertAsset(p) ==
  LET v == job[p].version
      d == job[p].digest
  IN  /\ pc[p] = "asset"
      /\ AssetUnlocked(v, d)
      /\ assets' = (assets \ AssetsOf(v, d))
                     \union {[version |-> v, digest |-> d, linked |-> job[p].op # "upsert"]}
      /\ stranded' = IF Overlooked(v) THEN stranded \union {RefOf(p)} ELSE stranded
      /\ Finish(p)
      /\ UNCHANGED <<row, created, refs, usage, locks, crashes>>

(***************************************************************************)
(* upsertPackageVersionWithBlobRef: a mutable version changes its content. *)
(***************************************************************************)

(* The caller's read of the previous digest precedes the transaction.      *)
StartReplace(p, v, d) ==
  /\ Serves(p, "replace", v, d)
  /\ job' = [job EXCEPT ![p] =
               JobFor("replace", v, d, IF row[v].state = "live" THEN row[v].digest ELSE d)]
  /\ created' = Append(created, p)
  /\ Goto(p, "replace")
  /\ UNCHANGED <<row, refs, assets, usage, locks, history>>

ReplaceLockQuota(p) ==
  /\ pc[p] = "replace" /\ HasDigestLocks(p) /\ QuotaFree(p)
  /\ quotaLock' = LockedQuota(p)
  /\ Goto(p, "replaceRow")
  /\ UNCHANGED <<row, created, refs, assets, usage, digestLock, rowLock, job, history>>

(* chargeArtifact                                                          *)
Revives(v) == row[v].state # "live"

ArtifactsAdded(v) == IF Revives(v) THEN 1 ELSE 0
OldRef(p) == [version |-> job[p].version, digest |-> job[p].old]
Changes(p) == job[p].old # job[p].digest
RefsLessOld(p) == IF Changes(p) THEN refs \ {OldRef(p)} ELSE refs

NetDelta(p) ==
  LET charge == IF Referenced(job[p].digest, RefsLessOld(p)) THEN 0 ELSE 1
      refund == IF /\ OldRef(p) \in refs /\ Changes(p)
                   /\ ~ Referenced(job[p].old, RefsLessOld(p)) THEN 1 ELSE 0
  IN  charge - refund

RefsAfterReplace(p) == RefsLessOld(p) \union {RefOf(p)}

CommitReplace(p) ==
  LET v == job[p].version
  IN  /\ pc[p] = "replaceRow" /\ RowFree(p, v)
      /\ Revives(v) => ArtifactQuotaAllows(1)
      /\ refs' = RefsAfterReplace(p)
      /\ AdjustStorage(NetDelta(p))
      /\ WriteRow(p)
      /\ AdjustArtifacts(ArtifactsAdded(v))
      /\ EndTransaction(p)
      /\ Goto(p, IF Changes(p) THEN "unasset" ELSE "asset")
      /\ UNCHANGED <<assets, job, history>>

Abandon(p) ==
  /\ EndTransaction(p)
  /\ created' = Without(p)
  /\ Finish(p)
  /\ UNCHANGED <<row, refs, assets, usage>>

ReplaceOverQuota(p) ==
  /\ pc[p] = "replaceRow" /\ RowFree(p, job[p].version)
  /\ Revives(job[p].version) /\ ~ ArtifactQuotaAllows(1)
  /\ Abandon(p)
  /\ UNCHANGED history

(***************************************************************************)
(* upsertPackageVersion: the metadata of a version, without its blob.      *)
(***************************************************************************)

(* updateNpmMetadataOnly: the version was live when the caller listed it,  *)
(* and its digest is written back.                                         *)
StartTouch(p, v) ==
  /\ \E d \in Digests : Serves(p, "touch", v, d)
  /\ row[v].state = "live"
  /\ job' = [job EXCEPT ![p] = JobFor("touch", v, row[v].digest, row[v].digest)]
  /\ created' = Append(created, p)
  /\ Goto(p, "lockRow")
  /\ UNCHANGED <<row, refs, assets, usage, locks, history>>

(* SELECT ... FOR UPDATE locks nothing when there is no row yet.           *)
LockVersionRow(p) ==
  LET v == job[p].version
  IN  /\ pc[p] = "lockRow" /\ RowFree(p, v)
      /\ rowLock' = IF row[v].state = "none" THEN rowLock ELSE [rowLock EXCEPT ![v] = p]
      /\ job' = [job EXCEPT ![p].charge = Revives(v)]
      /\ Goto(p, "upsert")
      /\ UNCHANGED <<row, created, refs, assets, usage, digestLock, quotaLock, history>>

UpsertVersion(p) ==
  /\ pc[p] = "upsert" /\ QuotaFree(p) /\ RowFree(p, job[p].version)
  /\ job[p].charge => ArtifactQuotaAllows(1)
  /\ WriteRow(p)
  /\ AdjustArtifacts(IF job[p].charge THEN 1 ELSE 0)
  /\ EndTransaction(p)
  /\ IF job[p].op = "upsert" THEN Goto(p, "asset") /\ UNCHANGED job ELSE Finish(p)
  /\ UNCHANGED <<refs, assets, usedStorage, history>>

UpsertOverQuota(p) ==
  /\ pc[p] = "upsert" /\ QuotaFree(p) /\ RowFree(p, job[p].version)
  /\ job[p].charge /\ ~ ArtifactQuotaAllows(1)
  /\ Abandon(p)
  /\ UNCHANGED history

(***************************************************************************)
(* applyRetention.                                                         *)
(***************************************************************************)

(* The UPDATE ranks the versions of its snapshot ...                       *)
RankVersions(p) ==
  /\ pc[p] = "idle" /\ p \in Sweepers
  /\ BeyondNewest(KeepLastN) # {}
  /\ job' = [job EXCEPT ![p].pruned = BeyondNewest(KeepLastN)]
  /\ Goto(p, "prune")
  /\ UNCHANGED <<row, created, refs, assets, usage, locks, history>>

RowsHeld(p) == {v \in Versions : rowLock[v] = p}

(* ... and locks them one by one; a row another transaction changed in the *)
(* meantime is updated all the same.                                       *)
LockPrunedRow(p, v) ==
  /\ pc[p] = "prune" /\ v \in job[p].pruned \ RowsHeld(p)
  /\ rowLock[v] = NoProc
  /\ rowLock' = [rowLock EXCEPT ![v] = p]
  /\ IF job[p].pruned = RowsHeld(p) \union {v} THEN Goto(p, "charge") ELSE UNCHANGED pc
  /\ UNCHANGED <<row, created, refs, assets, usage, digestLock, quotaLock, job, history>>

(* adjustArtifactsUsedTx takes the quota row's lock as it updates it.      *)
RetentionLockQuota(p) ==
  /\ pc[p] = "charge" /\ QuotaFree(p)
  /\ quotaLock' = LockedQuota(p)
  /\ Goto(p, "expireAssets")
  /\ UNCHANGED <<row, created, refs, assets, usage, digestLock, rowLock, job, history>>

PrunedAssets(p) == {a \in assets : a.linked /\ a.version \in job[p].pruned}
PrunedDigests(p) ==
  {row[v].digest : v \in job[p].pruned} \union {a.digest : a \in PrunedAssets(p)}

(* The UPDATE of the assets that are linked to a pruned version by now.    *)
ExpireAssets(p) ==
  /\ pc[p] = "expireAssets"
  /\ job' = [job EXCEPT ![p].expired = PrunedAssets(p), ![p].released = PrunedDigests(p)]
  /\ Goto(p, "readAssets")
  /\ UNCHANGED <<row, created, refs, assets, usage, locks, history>>

LiveAssetDigests(p) == {a.digest : a \in assets \ job[p].expired}
LiveVersionDigests(p) == {row[v].digest : v \in LiveVersions \ job[p].pruned}

(* Each SELECT of a READ COMMITTED transaction sees what others have       *)
(* committed by then.                                                      *)
ReadLiveAssets(p) ==
  /\ pc[p] = "readAssets"
  /\ job' = [job EXCEPT ![p].released = @ \ LiveAssetDigests(p)]
  /\ Goto(p, "readVersions")
  /\ UNCHANGED <<row, created, refs, assets, usage, locks, history>>

ReadLiveVersions(p) ==
  /\ pc[p] = "readVersions"
  /\ job' = [job EXCEPT ![p].released = @ \ LiveVersionDigests(p)]
  /\ Goto(p, "expire")
  /\ UNCHANGED <<row, created, refs, assets, usage, locks, history>>

(* What to release is decided before the digests are locked.               *)
Survey(p) == ExpireAssets(p) \/ ReadLiveAssets(p) \/ ReadLiveVersions(p)

RefundedByRetention(p) ==
  {d \in job[p].released \ Elsewhere : \E r \in refs : r.digest = d}

(* Every reference of the repository to a released digest goes.            *)
CommitRetention(p) ==
  /\ pc[p] = "expire" /\ HasDigestLocks(p)
  /\ row' = [v \in Versions |->
               IF v \in job[p].pruned THEN [row[v] EXCEPT !.state = "deleted"] ELSE row[v]]
  /\ assets' = assets \ job[p].expired
  /\ refs' = {r \in refs : r.digest \notin job[p].released}
  /\ AdjustArtifacts(- Cardinality(job[p].pruned))
  /\ AdjustStorage(- Cardinality(RefundedByRetention(p)))
  /\ EndTransaction(p)
  /\ Finish(p)
  /\ UNCHANGED <<created, history>>

(***************************************************************************)
(* setOrgQuota: usage is counted again, under the lock of the quota row.   *)
(* The limit it sets is taken to be the one there is.                      *)
(***************************************************************************)

(* Mutant: the recount begins without the lock.                            *)
BeginRecountUnlocked(p) ==
  /\ pc[p] = "idle" /\ p \in Administrators
  /\ Goto(p, "countStorage")
  /\ UNCHANGED <<row, created, refs, assets, usage, locks, job, history>>

(* SELECT ... FOR UPDATE, of a row that may not exist.                     *)
BeginRecount(p) ==
  /\ pc[p] = "idle" /\ p \in Administrators /\ QuotaFree(p)
  /\ quotaLock' = LockedQuota(p)
  /\ Goto(p, "countStorage")
  /\ UNCHANGED <<row, created, refs, assets, usage, digestLock, rowLock, job, history>>

(* calculateOrgQuotaUsage is two statements.                               *)
CountStorage(p) ==
  /\ pc[p] = "countStorage"
  /\ job' = [job EXCEPT ![p].storage = Cardinality({r.digest : r \in refs} \union Elsewhere)]
  /\ Goto(p, "countArtifacts")
  /\ UNCHANGED <<row, created, refs, assets, usage, locks, history>>

CountArtifacts(p) ==
  /\ pc[p] = "countArtifacts"
  /\ job' = [job EXCEPT ![p].artifacts = Cardinality(LiveVersions)]
  /\ Goto(p, "setQuota")
  /\ UNCHANGED <<row, created, refs, assets, usage, locks, history>>

(* upsertOrgQuota writes absolute values.                                  *)
SetQuota(p) ==
  /\ pc[p] = "setQuota" /\ QuotaFree(p)
  /\ metered' = TRUE
  /\ usedStorage' = job[p].storage /\ usedArtifacts' = job[p].artifacts
  /\ EndTransaction(p)
  /\ Finish(p)
  /\ UNCHANGED <<row, created, refs, assets, history>>

(***************************************************************************)
(* Deadlocks and crashes.                                                  *)
(***************************************************************************)

Others(p, holders) == holders \ {p, NoProc}

(* The processes whose locks p waits for.                                  *)
WaitsFor(p) ==
  LET v == job[p].version
  IN  Others(p,
        {digestLock[d] : d \in {e \in Digests : NextDigest(p, e)}}
          \union (IF \/ pc[p] \in {"create", "charge", "upsert", "setQuota"}
                     \/ pc[p] \in {"store", "replace"} /\ HasDigestLocks(p)
                     \/ /\ pc[p] = "release" /\ HasDigestLocks(p) /\ RefOf(p) \in refs
                        /\ ~ Referenced(job[p].digest, refs \ {RefOf(p)})
                  THEN {quotaLock} ELSE {})
          \union (IF pc[p] \in {"lockRow", "upsert", "replaceRow"} THEN {rowLock[v]} ELSE {})
          \union (IF pc[p] = "prune" THEN {rowLock[w] : w \in job[p].pruned} ELSE {}))

Waiting == {p \in Procs : WaitsFor(p) # {}}
Deadlocked(S) == S # {} /\ \A p \in S : WaitsFor(p) \cap S # {}

WaitCycle(S) == Deadlocked(S) /\ \A T \in SUBSET S : Deadlocked(T) => T = S

(* PostgreSQL aborts one of the transactions that wait for each other.     *)
DeadlockVictim(p) ==
  /\ \E S \in SUBSET Waiting : p \in S /\ WaitCycle(S)
  /\ Abandon(p)
  /\ UNCHANGED history

Crash(p) ==
  /\ pc[p] # "idle"
  /\ crashes < MaxCrashes
  /\ crashes' = crashes + 1
  /\ Abandon(p)
  /\ UNCHANGED stranded

PublishStep(p) ==
  \/ StoreRef(p) \/ CreateVersion(p) \/ Conflict(p) \/ CreateOverQuota(p) \/ ReleaseRef(p)
  \/ DropOldAsset(p) \/ UpsertAsset(p)

UpsertStep(p) ==
  \/ ReplaceLockQuota(p) \/ CommitReplace(p) \/ ReplaceOverQuota(p)
  \/ LockVersionRow(p) \/ UpsertVersion(p) \/ UpsertOverQuota(p)

RetentionStep(p) ==
  \/ RankVersions(p) \/ (\E v \in Versions : LockPrunedRow(p, v))
  \/ RetentionLockQuota(p) \/ Survey(p) \/ CommitRetention(p)

QuotaStep(p) == BeginRecount(p) \/ CountStorage(p) \/ CountArtifacts(p) \/ SetQuota(p)

StartRequest(p) ==
  \E v \in Versions :
    \/ \E d \in Digests, kind \in {"publish", "upsert"} : StartStore(p, kind, v, d)
    \/ \E d \in Digests : StartReplace(p, v, d)
    \/ StartTouch(p, v)

Step(p) ==
  \/ StartRequest(p) \/ (\E d \in Digests : LockDigest(p, d))
  \/ PublishStep(p) \/ UpsertStep(p) \/ RetentionStep(p)
  \/ QuotaStep(p) \/ DeadlockVictim(p) \/ Crash(p)

Next == \E p \in Procs : Step(p)

Spec == Init /\ [][Next]_vars

(***************************************************************************)
(* Properties.                                                             *)
(***************************************************************************)

(* The types of the variables.  The runs check properties that say more. *)
TypeOK ==
  /\ row \in [Versions -> Row]
  /\ created \in Seq(Versions \union Procs)
  /\ refs \in SUBSET Ref /\ assets \in SUBSET Asset
  /\ metered \in BOOLEAN /\ usedArtifacts \in Nat /\ usedStorage \in Nat
  /\ digestLock \in [Digests -> Procs \union {NoProc}]
  /\ rowLock \in [Versions -> Procs \union {NoProc}]
  /\ quotaLock \in Procs \union {NoProc}
  /\ pc \in [Procs -> PCs]
  /\ job \in [Procs -> Job]
  /\ crashes \in 0..MaxCrashes /\ stranded \in SUBSET Ref

(* The quota row counts the live versions and stays within the limit, and  *)
(* storage is charged once for every digest the org references, whatever   *)
(* publishes, upserts, retentions and recounts interleave (quota.ts:11,    *)
(* governance.ts:77).                                                      *)
ArtifactsMatchVersions == metered => usedArtifacts = Cardinality(LiveVersions)

StorageMatchesRefs ==
  metered => usedStorage = Cardinality({r.digest : r \in refs} \union Elsewhere)

UsageIsExact ==
  /\ ArtifactsMatchVersions /\ StorageMatchesRefs
  /\ metered => Cardinality(LiveVersions) <= MaxArtifacts

(* Versions of adapters that only publish.                                 *)
Immutable ==
  {v \in Versions : \A p \in Procs : \A q \in Requests[p] : q.version = v => q.op = "publish"}

(* A live version can be downloaded: its repository holds a reference to   *)
(* its content, so that the blob is not reclaimed.                         *)
LiveVersionsHaveRefs ==
  \A v \in LiveVersions \cap Immutable : [version |-> v, digest |-> row[v].digest] \in refs

(* And the other way round: a reference belongs to a row's content or to a *)
(* publish on its way.  Two cases strand a charged blob for ever: a        *)
(* publish that the artifact quota refuses, and an asset inserted between  *)
(* retention's UPDATE of the assets and its SELECT of the live ones.       *)
RefsAreOwned ==
  crashes = 0 =>
    \A r \in refs :
      \/ r.version \notin Immutable \/ r \in stranded
      \/ row[r.version].state = "live" /\ row[r.version].digest = r.digest
      \/ \E p \in Procs : pc[p] \in {"create", "release"} /\ RefOf(p) = r

RefsMatchVersions == LiveVersionsHaveRefs /\ RefsAreOwned

(* A replacement locks the quota row before the version's row              *)
(* (versions.ts:146), an upsert of metadata after it (versions.ts:81).     *)
MixedUpserts(S) ==
  \E p, q \in S :
    /\ job[p].op = "replace" /\ job[q].op \in {"upsert", "touch"}
    /\ job[p].version = job[q].version

(* Without a retention, and without both kinds of upsert of one version,   *)
(* no transactions wait for each other: digests, the quota row and a       *)
(* version's row are locked in an order that never turns round.            *)
NoDeadlock ==
  \A S \in SUBSET Waiting :
    WaitCycle(S) => S \cap Sweepers # {} \/ MixedUpserts(S)

(* Once published a version keeps its content for ever, and a pruned one   *)
(* never comes back: its row reserves the version (README.md:99).          *)
KeepsContent(v) ==
  /\ row'[v].digest = row[v].digest
  /\ row[v].state = "deleted" => row'[v].state = "deleted"

(* Retention never takes one of the newest KeepLastN live versions, and so *)
(* never empties a package, whatever is published while it waits.          *)
PrunedAsSurplus(v) ==
  row[v].state = "live" /\ row'[v].state = "deleted" => Cardinality(NewerThan(v)) >= KeepLastN

(* A published version is immutable, and stays as long as it is one of the *)
(* newest.                                                                 *)
PublishedIsKept ==
  [][\A v \in Versions :
       /\ row[v].state # "none" /\ v \in Immutable => KeepsContent(v)
       /\ PrunedAsSurplus(v)]_vars

(* The live versions of Immutable whose content can be downloaded.         *)
Downloadable ==
  {v \in LiveVersions \cap Immutable : [version |-> v, digest |-> row[v].digest] \in refs}

(* What clients see of all this: versions appear with their content and    *)
(* keep it until they are retired for ever, with the newest left.          *)
Abstract ==
  INSTANCE VersionIndex WITH Fixed <- Immutable, entry <- row, served <- Downloadable,
                             Absent <- [state |-> "none", digest |-> NoDigest]
IndexSpec == Abstract!Spec
=============================================================================
