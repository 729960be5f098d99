------------------------------ MODULE BlobStore ------------------------------
(***************************************************************************)
(* The content-addressed blob store shared by every registry format:       *)
(* packages/registry-platform/src/content/blobs.ts, the storage side of    *)
(* governance/quota.ts, the blob_refs trigger of packages/db, and the      *)
(* put/stat/delete calls of packages/storage.                              *)
(*                                                                         *)
(* A request or a worker is a process p with a program counter.  Every     *)
(* await on object storage is a step of its own, so S3 calls interleave    *)
(* with the transactions of the other processes.  The statements of one    *)
(* database transaction that lie between two such awaits are one step:     *)
(* all of them touch rows guarded by the digest's advisory lock and the    *)
(* org's quota row lock, both held until commit.                           *)
(***************************************************************************)
EXTENDS Integers, FiniteSets

CONSTANTS
  Digests,        (* numbered in the sort order lockDigestsTx uses          *)
  Repos, Orgs,
  OrgOf,          (* the organisation that owns a repository                *)
  Slots,          (* the (kind, scope) pairs a reference is stored under    *)
  Size,           (* bytes of a blob                                        *)
  Metered,        (* orgs with a quota row                                  *)
  Limited,        (* orgs whose quota row has a max_storage_bytes           *)
  MaxStorage,
  Procs, NoProc,
  Faults,         (* the kinds of fault this instance suffers               *)
  MaxFaults,      (* bound: faults in a behaviour                           *)
  GraceOutlastsRequests  (* BLOB_GC_GRACE_SECONDS exceeds a request's life  *)

FaultKinds == {"crash", "s3", "session"}

ASSUME ConstantsAssumption ==
  /\ Digests \subseteq Nat /\ Digests # {} /\ Repos # {} /\ Slots # {}
  /\ OrgOf \in [Repos -> Orgs]
  /\ Size \in [Digests -> Nat]
  /\ Limited \subseteq Metered /\ Metered \subseteq Orgs
  /\ MaxStorage \in [Orgs -> Nat]
  /\ NoProc \notin Procs
  /\ Faults \subseteq FaultKinds
  /\ MaxFaults \in Nat
  /\ GraceOutlastsRequests \in BOOLEAN

VARIABLES
  cas,         (* digests whose bytes are in object storage                 *)
  blobs,       (* the blobs table                                           *)
  blobRefs,    (* the blob_refs table                                       *)
  used,        (* quotas.used_storage_bytes                                 *)
  digestLock,  (* holder of the advisory transaction lock of a digest       *)
  pc, req,     (* where a process is, and the request it works on           *)
  todo,        (* digests a process still has to try to reclaim             *)
  faults       (* faults so far                                             *)

vars == <<cas, blobs, blobRefs, used, digestLock, pc, req, todo, faults>>

(***************************************************************************)
(* Rows.                                                                   *)
(***************************************************************************)

BlobRef == [repo : Repos, slot : Slots, digest : Digests]

(* State "none" is the absence of a row.  ripe: pending_since is older     *)
(* than the grace period.                                                  *)
BlobRow ==
  [refCount : Nat, state : {"none", "active", "pending_delete"}, ripe : BOOLEAN]

NoRow == [refCount |-> 0, state |-> "none", ripe |-> FALSE]

(* A put, mount, read or reclaim in progress.  old = digest when the put   *)
(* replaces nothing (previousDigestInput is null).                         *)
Request ==
  [repo : Repos, slot : Slots, digest : Digests, old : Digests, deduped : BOOLEAN]

RequestFor(r, s, d) ==
  [repo |-> r, slot |-> s, digest |-> d, old |-> d, deduped |-> FALSE]

Blank == CHOOSE q \in Request : TRUE

PCs == {"idle", "head", "write", "lock", "stat", "commit", "discard", "unput",
        "mount", "read", "reclaim", "gcdelete", "gccommit", "lateDelete"}

RefsTo(d) == {x \in blobRefs : x.digest = d}

(* orgAlreadyReferencesDigestTx, over the reference set as the transaction *)
(* sees it.                                                                *)
OrgReferences(o, d, refs) == \E x \in refs : x.digest = d /\ OrgOf[x.repo] = o

(* assertStorageQuotaRowAllows: no row or no maximum admits anything.      *)
StorageQuotaAllows(o, bytes) ==
  o \in Limited => used[o] + bytes <= MaxStorage[o]

(* adjustStorageUsedTx: an UPDATE, clamped at zero, of a row that may not  *)
(* exist.                                                                  *)
AdjustStorageUsed(o, delta) ==
  IF o \in Metered
  THEN [used EXCEPT ![o] = IF @ + delta < 0 THEN 0 ELSE @ + delta]
  ELSE used

(* Mutant: the row's clock is not set.                                     *)
AfterRefDeleteNoClock(row) ==
  IF row.refCount <= 1
  THEN [refCount |-> row.refCount - 1, state |-> "pending_delete", ripe |-> TRUE]
  ELSE [row EXCEPT !.refCount = @ - 1]

(* The AFTER DELETE trigger on blob_refs.                                  *)
AfterRefDelete(row) ==
  IF row.refCount <= 1
  THEN [refCount |-> row.refCount - 1, state |-> "pending_delete", ripe |-> FALSE]
  ELSE [row EXCEPT !.refCount = @ - 1]

(* ensureActiveBlobTx: insert the row, or bring a pending one back.        *)
EnsureActive(row) ==
  IF row.state = "active" THEN row
  ELSE [refCount |-> row.refCount, state |-> "active", ripe |-> FALSE]

IncrementRefCount(row) == [row EXCEPT !.refCount = @ + 1]

(* Mutant: an off-by-one in the reference count the reclaim looks for.     *)
ReclaimableBelowZero(d) ==
  blobs[d].refCount < 0 /\ blobs[d].state = "pending_delete" /\ blobs[d].ripe

(* The WHERE clause of the reclaim DELETE.                                 *)
Reclaimable(d) ==
  blobs[d].refCount = 0 /\ blobs[d].state = "pending_delete" /\ blobs[d].ripe

HeldBy(p) == {d \in Digests : digestLock[d] = p}
Free(d) == digestLock[d] = NoProc
Unlocked(p) == [d \in Digests |-> IF digestLock[d] = p THEN NoProc ELSE digestLock[d]]
LocksOf(p) == {req[p].digest, req[p].old}

Goto(p, label) == pc' = [pc EXCEPT ![p] = label]
Finish(p) == Goto(p, "idle") /\ req' = [req EXCEPT ![p] = Blank]

Init ==
  /\ cas = {}
  /\ blobs = [d \in Digests |-> NoRow]
  /\ blobRefs = {}
  /\ used = [o \in Orgs |-> 0]
  /\ digestLock = [d \in Digests |-> NoProc]
  /\ pc = [p \in Procs |-> "idle"]
  /\ req = [p \in Procs |-> Blank]
  /\ todo = [p \in Procs |-> {}]
  /\ faults = 0

(***************************************************************************)
(* Putting bytes, then committing a reference to them.                     *)
(***************************************************************************)

BeginPut(p, q) ==
  /\ pc[p] = "idle"
  /\ req' = [req EXCEPT ![p] = q]
  /\ Goto(p, "head")
  /\ UNCHANGED <<cas, blobs, blobRefs, used, digestLock, todo, faults>>

(* storeBlobWithRef: an unlocked quota check first.                        *)
StartStore(p, r, s, d) ==
  /\ OrgReferences(OrgOf[r], d, blobRefs) \/ StorageQuotaAllows(OrgOf[r], Size[d])
  /\ BeginPut(p, RequestFor(r, s, d))

(* storeBlobStreamWithRef: the size is unknown until spooled, no check.    *)
StartStoreStream(p, r, s, d) ==
  BeginPut(p, RequestFor(r, s, d))

(* upsertPackageVersionWithBlobRef over a version stored as digest old.    *)
StartReplace(p, r, s, d, old) ==
  /\ old # d
  /\ [repo |-> r, slot |-> s, digest |-> old] \in blobRefs
  /\ BeginPut(p, [repo |-> r, slot |-> s, digest |-> d, old |-> old, deduped |-> FALSE])

(* blobStore.put asks whether the object exists ...                        *)
HeadObject(p) ==
  /\ pc[p] = "head"
  /\ IF req[p].digest \in cas
     THEN Goto(p, "lock") /\ req' = [req EXCEPT ![p].deduped = TRUE]
     ELSE Goto(p, "write") /\ UNCHANGED req
  /\ UNCHANGED <<cas, blobs, blobRefs, used, digestLock, todo, faults>>

(* ... and writes it when it did not.                                      *)
WriteObject(p) ==
  /\ pc[p] = "write"
  /\ cas' = cas \union {req[p].digest}
  /\ Goto(p, "lock")
  /\ UNCHANGED <<blobs, blobRefs, used, digestLock, req, todo, faults>>

(* Mutant: the digests are locked as they come.                            *)
NextLockUnsorted(p, d) == d \in LocksOf(p) \ HeldBy(p)

(* lockDigestsTx: one advisory lock after the other, in sorted order.      *)
NextLock(p, d) ==
  /\ d \in LocksOf(p) \ HeldBy(p)
  /\ \A e \in LocksOf(p) \ HeldBy(p) : d <= e

AcquireDigestLock(p, d) ==
  /\ pc[p] = "lock"
  /\ NextLock(p, d)
  /\ Free(d)
  /\ digestLock' = [digestLock EXCEPT ![d] = p]
  /\ IF LocksOf(p) \subseteq HeldBy(p) \union {d} THEN Goto(p, "stat") ELSE UNCHANGED pc
  /\ UNCHANGED <<cas, blobs, blobRefs, used, req, todo, faults>>

(* Mutant: the error path forgets the discard.                             *)
RollbackPutKeepsBytes(p) ==
  /\ digestLock' = Unlocked(p)
  /\ Finish(p)
  /\ UNCHANGED <<cas, blobs, blobRefs, used, todo>>

(* The transaction rolls back; discardUncommittedBlobPut ignores a put     *)
(* that wrote nothing.                                                     *)
RollbackPut(p) ==
  /\ digestLock' = Unlocked(p)
  /\ IF req[p].deduped THEN Finish(p) ELSE Goto(p, "discard") /\ UNCHANGED req
  /\ UNCHANGED <<cas, blobs, blobRefs, used, todo>>

(* Mutant: the put's own answer is trusted, no stat under the lock.        *)
StatFoundBlind(p) ==
  /\ pc[p] = "stat"
  /\ Goto(p, "commit")
  /\ UNCHANGED <<cas, blobs, blobRefs, used, digestLock, req, todo, faults>>

StatFound(p) ==
  /\ pc[p] = "stat"
  /\ req[p].digest \in cas
  /\ Goto(p, "commit")
  /\ UNCHANGED <<cas, blobs, blobRefs, used, digestLock, req, todo, faults>>

StatMissing(p) ==
  /\ pc[p] = "stat"
  /\ req[p].digest \notin cas
  /\ RollbackPut(p)
  /\ UNCHANGED faults

NewRef(p) == [repo |-> req[p].repo, slot |-> req[p].slot, digest |-> req[p].digest]
OldRef(p) == [repo |-> req[p].repo, slot |-> req[p].slot, digest |-> req[p].old]

Replaces(p) == req[p].old # req[p].digest
DropsOldRef(p) == Replaces(p) /\ OldRef(p) \in blobRefs
RefsLessOld(p) == IF Replaces(p) THEN blobRefs \ {OldRef(p)} ELSE blobRefs

(* The bytes the org is charged for the new reference, less those it gets  *)
(* back for the old one.                                                   *)
NetDelta(p) ==
  LET o      == OrgOf[req[p].repo]
      charge == IF OrgReferences(o, req[p].digest, RefsLessOld(p))
                THEN 0 ELSE Size[req[p].digest]
      refund == IF DropsOldRef(p) /\ ~ OrgReferences(o, req[p].old, RefsLessOld(p))
                THEN Size[req[p].old] ELSE 0
  IN  charge - refund

PutAllowed(p) ==
  NetDelta(p) > 0 => StorageQuotaAllows(OrgOf[req[p].repo], NetDelta(p))

(* Mutant: the count is bumped when the reference already existed.         *)
RowAfterPutAlways(p, d) ==
  IF d = req[p].digest THEN IncrementRefCount(EnsureActive(blobs[d]))
  ELSE IF d = req[p].old /\ DropsOldRef(p) THEN AfterRefDelete(blobs[d])
  ELSE blobs[d]

(* The row of d after the commit of p's put.                               *)
RowAfterPut(p, d) ==
  IF d = req[p].digest
  THEN IF NewRef(p) \in blobRefs THEN EnsureActive(blobs[d])
       ELSE IncrementRefCount(EnsureActive(blobs[d]))
  ELSE IF d = req[p].old /\ DropsOldRef(p) THEN AfterRefDelete(blobs[d])
  ELSE blobs[d]

(* commitBlobPutTx and the storage part of upsertPackageVersionWithBlobRef.*)
CommitPut(p) ==
  /\ pc[p] = "commit"
  /\ PutAllowed(p)
  /\ blobRefs' = RefsLessOld(p) \union {NewRef(p)}
  /\ blobs' = [d \in Digests |-> RowAfterPut(p, d)]
  /\ used' = AdjustStorageUsed(OrgOf[req[p].repo], NetDelta(p))
  /\ digestLock' = Unlocked(p)
  /\ IF Replaces(p)
     THEN Goto(p, "reclaim") /\ todo' = [todo EXCEPT ![p] = {req[p].old}] /\ UNCHANGED req
     ELSE Finish(p) /\ UNCHANGED todo
  /\ UNCHANGED <<cas, faults>>

QuotaExceeded(p) ==
  /\ pc[p] = "commit"
  /\ ~ PutAllowed(p)
  /\ RollbackPut(p)
  /\ UNCHANGED faults

(* deleteUnrecordedCasBlob: under the lock, leave recorded bytes alone.    *)
DiscardCheck(p) ==
  /\ pc[p] = "discard"
  /\ Free(req[p].digest)
  /\ IF blobs[req[p].digest].state # "none"
     THEN Finish(p) /\ UNCHANGED digestLock
     ELSE /\ Goto(p, "unput")
          /\ digestLock' = [digestLock EXCEPT ![req[p].digest] = p]
          /\ UNCHANGED req
  /\ UNCHANGED <<cas, blobs, blobRefs, used, todo, faults>>

DiscardDelete(p) ==
  /\ pc[p] = "unput"
  /\ cas' = cas \ {req[p].digest}
  /\ digestLock' = Unlocked(p)
  /\ Finish(p)
  /\ UNCHANGED <<blobs, blobRefs, used, todo, faults>>

(***************************************************************************)
(* Mounting a known digest, reading one, releasing one.                    *)
(***************************************************************************)

BeginAccess(p, label, x) ==
  /\ pc[p] = "idle"
  /\ req' = [req EXCEPT ![p] = RequestFor(x.repo, x.slot, x.digest)]
  /\ Goto(p, label)
  /\ UNCHANGED <<cas, blobs, blobRefs, used, digestLock, todo, faults>>

(* tryCrossRepositoryMount found a source repository that references d.    *)
StartMount(p, r, s, d) ==
  /\ RefsTo(d) # {}
  /\ BeginAccess(p, "mount", [repo |-> r, slot |-> s, digest |-> d])

(* ensureBlobRef asks the blobs table, never object storage, for d.        *)
MountAllowed(p) ==
  LET d == req[p].digest
      o == OrgOf[req[p].repo]
  IN  /\ blobs[d].state # "none"
      /\ ~ OrgReferences(o, d, blobRefs) => StorageQuotaAllows(o, Size[d])

RefuseMount(p) ==
  /\ pc[p] = "mount"
  /\ Free(req[p].digest)
  /\ ~ MountAllowed(p) \/ NewRef(p) \in blobRefs
  /\ Finish(p)
  /\ UNCHANGED <<cas, blobs, blobRefs, used, digestLock, todo, faults>>

MountRef(p) ==
  LET d == req[p].digest
      o == OrgOf[req[p].repo]
  IN  /\ pc[p] = "mount"
      /\ Free(d)
      /\ MountAllowed(p)
      /\ NewRef(p) \notin blobRefs
      /\ blobRefs' = blobRefs \union {NewRef(p)}
      /\ blobs' = [blobs EXCEPT ![d] = IncrementRefCount(EnsureActive(@))]
      /\ used' = IF OrgReferences(o, d, blobRefs) THEN used ELSE AdjustStorageUsed(o, Size[d])
      /\ Finish(p)
      /\ UNCHANGED <<cas, digestLock, todo, faults>>

(* getBlobRef resolves the reference; the caller streams the bytes later.  *)
OpenBlob(p, x) == x \in blobRefs /\ BeginAccess(p, "read", x)

ReadBytes(p) ==
  /\ pc[p] = "read"
  /\ Finish(p)
  /\ UNCHANGED <<cas, blobs, blobRefs, used, digestLock, todo, faults>>

(* Mutant: refund although another repository of the org keeps the digest. *)
ReleaseRefAlwaysRefunds(p, x) ==
  /\ pc[p] = "idle"
  /\ x \in blobRefs
  /\ Free(x.digest)
  /\ blobRefs' = blobRefs \ {x}
  /\ blobs' = [blobs EXCEPT ![x.digest] = AfterRefDelete(@)]
  /\ used' = AdjustStorageUsed(OrgOf[x.repo], - Size[x.digest])
  /\ todo' = [todo EXCEPT ![p] = {x.digest}]
  /\ Goto(p, "reclaim")
  /\ UNCHANGED <<cas, digestLock, req, faults>>

(* releaseBlobRef, whose transaction is followed by a best-effort reclaim. *)
ReleaseRef(p, x) ==
  LET o    == OrgOf[x.repo]
      rest == blobRefs \ {x}
  IN  /\ pc[p] = "idle"
      /\ x \in blobRefs
      /\ Free(x.digest)
      /\ blobRefs' = rest
      /\ blobs' = [blobs EXCEPT ![x.digest] = AfterRefDelete(@)]
      /\ used' = IF OrgReferences(o, x.digest, rest) THEN used
                 ELSE AdjustStorageUsed(o, - Size[x.digest])
      /\ todo' = [todo EXCEPT ![p] = {x.digest}]
      /\ Goto(p, "reclaim")
      /\ UNCHANGED <<cas, digestLock, req, faults>>

(***************************************************************************)
(* Reclaiming unreferenced blobs.                                          *)
(***************************************************************************)

GraceElapses(d) ==
  /\ blobs[d].state = "pending_delete" /\ ~ blobs[d].ripe
  /\ GraceOutlastsRequests =>
       ~ \E p \in Procs : pc[p] \in {"mount", "read"} /\ req[p].digest = d
  /\ blobs' = [blobs EXCEPT ![d].ripe = TRUE]
  /\ UNCHANGED <<cas, blobRefs, used, digestLock, pc, req, todo, faults>>

(* sweepUnreferencedCasBlobs: the candidates are a snapshot.               *)
SelectCandidates(p, batch) ==
  /\ pc[p] = "idle"
  /\ batch # {}
  /\ \A d \in batch : Reclaimable(d)
  /\ todo' = [todo EXCEPT ![p] = batch]
  /\ Goto(p, "reclaim")
  /\ UNCHANGED <<cas, blobs, blobRefs, used, digestLock, req, faults>>

(* On to the next candidate after d.                                       *)
NextCandidate(p, d) ==
  /\ todo' = [todo EXCEPT ![p] = @ \ {d}]
  /\ IF todo[p] \subseteq {d} THEN Finish(p) ELSE Goto(p, "reclaim") /\ UNCHANGED req

(* Mutant: the reclaim takes no digest lock.                               *)
ReclaimDeleteRowUnlocked(p, d) ==
  /\ pc[p] = "reclaim" /\ d \in todo[p]
  /\ IF Reclaimable(d)
     THEN /\ req' = [req EXCEPT ![p] = RequestFor(@.repo, @.slot, d)]
          /\ Goto(p, "gcdelete")
          /\ UNCHANGED todo
     ELSE NextCandidate(p, d)
  /\ UNCHANGED <<cas, blobs, blobRefs, used, digestLock, faults>>

(* reclaimUnreferencedCasBlob takes the lock and deletes the row,          *)
(* uncommitted, when it is still reclaimable ...                           *)
ReclaimDeleteRow(p, d) ==
  /\ pc[p] = "reclaim" /\ d \in todo[p]
  /\ Free(d)
  /\ IF Reclaimable(d)
     THEN /\ digestLock' = [digestLock EXCEPT ![d] = p]
          /\ req' = [req EXCEPT ![p] = RequestFor(@.repo, @.slot, d)]
          /\ Goto(p, "gcdelete")
          /\ UNCHANGED todo
     ELSE NextCandidate(p, d) /\ UNCHANGED digestLock
  /\ UNCHANGED <<cas, blobs, blobRefs, used, faults>>

(* ... deletes the object while the transaction is open ...                *)
ReclaimDeleteObject(p) ==
  /\ pc[p] = "gcdelete"
  /\ cas' = cas \ {req[p].digest}
  /\ Goto(p, "gccommit")
  /\ UNCHANGED <<blobs, blobRefs, used, digestLock, req, todo, faults>>

(* ... and commits.                                                        *)
ReclaimCommit(p) ==
  /\ pc[p] = "gccommit"
  /\ blobs' = [blobs EXCEPT ![req[p].digest] = NoRow]
  /\ digestLock' = Unlocked(p)
  /\ NextCandidate(p, req[p].digest)
  /\ UNCHANGED <<cas, blobRefs, used, faults>>

(***************************************************************************)
(* Faults.  A failed or interrupted S3 call may have taken effect.         *)
(***************************************************************************)

Fault(kind) ==
  kind \in Faults /\ faults < MaxFaults /\ faults' = faults + 1

MaybeDeleted(d) == cas' \in {cas, cas \ {d}}
MaybeWritten(d) == cas' \in {cas, cas \union {d}}

(* blobStore.put throws before the try block: nothing is discarded.        *)
WriteFails(p) ==
  /\ pc[p] = "write"
  /\ Fault("s3")
  /\ MaybeWritten(req[p].digest)
  /\ Finish(p)
  /\ UNCHANGED <<blobs, blobRefs, used, digestLock, todo>>

StatFails(p) == pc[p] = "stat" /\ Fault("s3") /\ RollbackPut(p)

(* The reclaim transaction rolls back, the loop goes on.                   *)
ReclaimDeleteFails(p) ==
  /\ pc[p] = "gcdelete"
  /\ Fault("s3")
  /\ MaybeDeleted(req[p].digest)
  /\ digestLock' = Unlocked(p)
  /\ NextCandidate(p, req[p].digest)
  /\ UNCHANGED <<blobs, blobRefs, used>>

DiscardDeleteFails(p) ==
  /\ pc[p] = "unput"
  /\ Fault("s3")
  /\ MaybeDeleted(req[p].digest)
  /\ digestLock' = Unlocked(p)
  /\ Finish(p)
  /\ UNCHANGED <<blobs, blobRefs, used, todo>>

(* The process dies; its open transaction is rolled back.                  *)
Crash(p) ==
  /\ pc[p] # "idle"
  /\ Fault("crash")
  /\ CASE pc[p] = "write" -> MaybeWritten(req[p].digest)
       [] pc[p] \in {"gcdelete", "unput", "lateDelete"} -> MaybeDeleted(req[p].digest)
       [] OTHER -> UNCHANGED cas
  /\ digestLock' = Unlocked(p)
  /\ todo' = [todo EXCEPT ![p] = {}]
  /\ Finish(p)
  /\ UNCHANGED <<blobs, blobRefs, used>>

(* The database ends the session (idle_in_transaction_session_timeout, a   *)
(* dropped connection): rollback and lock release, while the process still *)
(* waits for its S3 call.                                                  *)
SessionLost(p) ==
  /\ HeldBy(p) # {}
  /\ Fault("session")
  /\ \/ pc[p] \in {"lock", "stat", "commit"} /\ RollbackPut(p)
     \/ /\ pc[p] \in {"gcdelete", "unput"}
        /\ digestLock' = Unlocked(p)
        /\ Goto(p, "lateDelete")
        /\ UNCHANGED <<cas, blobs, blobRefs, used, req, todo>>
     \/ /\ pc[p] = "gccommit"
        /\ digestLock' = Unlocked(p)
        /\ NextCandidate(p, req[p].digest)
        /\ UNCHANGED <<cas, blobs, blobRefs, used>>

(* The S3 delete lands after the transaction that asked for it is gone.    *)
LateDelete(p) ==
  /\ pc[p] = "lateDelete"
  /\ cas' = cas \ {req[p].digest}
  /\ NextCandidate(p, req[p].digest)
  /\ UNCHANGED <<blobs, blobRefs, used, digestLock, faults>>

(***************************************************************************)
(* The specification.                                                      *)
(***************************************************************************)

Start(p) ==
  \/ \E r \in Repos, s \in Slots, d \in Digests :
       \/ StartStore(p, r, s, d)
       \/ StartStoreStream(p, r, s, d)
       \/ \E old \in Digests : StartReplace(p, r, s, d, old)
       \/ StartMount(p, r, s, d)
  \/ \E x \in blobRefs : OpenBlob(p, x) \/ ReleaseRef(p, x)

PutStep(p) ==
  \/ HeadObject(p) \/ WriteObject(p)
  \/ \E d \in Digests : AcquireDigestLock(p, d)
  \/ StatFound(p) \/ StatMissing(p)
  \/ CommitPut(p) \/ QuotaExceeded(p)
  \/ DiscardCheck(p) \/ DiscardDelete(p)

AccessStep(p) == RefuseMount(p) \/ MountRef(p) \/ ReadBytes(p)

ReclaimStep(p) ==
  \/ \E d \in Digests : ReclaimDeleteRow(p, d)
  \/ ReclaimDeleteObject(p) \/ ReclaimCommit(p) \/ LateDelete(p)

FaultStep(p) ==
  \/ WriteFails(p) \/ StatFails(p) \/ ReclaimDeleteFails(p) \/ DiscardDeleteFails(p)
  \/ Crash(p) \/ SessionLost(p)

Sweep(p) == \E batch \in SUBSET Digests : SelectCandidates(p, batch)

Next ==
  \/ \E p \in Procs :
       Start(p) \/ Sweep(p) \/ PutStep(p) \/ AccessStep(p) \/ ReclaimStep(p) \/ FaultStep(p)
  \/ \E d \in Digests : GraceElapses(d)

Spec == Init /\ [][Next]_vars

(***************************************************************************)
(* Properties.                                                             *)
(***************************************************************************)

TypeOK ==
  /\ cas \in SUBSET Digests
  /\ blobs \in [Digests -> BlobRow]
  /\ blobRefs \in SUBSET BlobRef
  /\ used \in [Orgs -> Nat]
  /\ digestLock \in [Digests -> Procs \union {NoProc}]
  /\ pc \in [Procs -> PCs]
  /\ req \in [Procs -> Request]
  /\ todo \in [Procs -> SUBSET Digests]
  /\ faults \in 0..MaxFaults

(* blobs.ref_count is the number of blob_refs rows of the digest, and the  *)
(* row is pending_delete exactly when there is none: a referenced digest   *)
(* is never up for reclaim and an unreferenced one never escapes the       *)
(* sweeper (packages/db/src/schema/storage.ts, the trigger's migration).   *)
RefCountMatchesRefs ==
  \A d \in Digests :
    /\ blobs[d].refCount = Cardinality(RefsTo(d))
    /\ RefsTo(d) # {} => blobs[d].state = "active"
    /\ RefsTo(d) = {} => blobs[d].state # "active"

(* The bytes of every referenced digest are in object storage, whatever    *)
(* uploads, discards, reclaims and crashes interleave.                     *)
ReferencedBytesExist == \A x \in blobRefs : x.digest \in cas

(* A request that resolved a reference finds the bytes when it reads them, *)
(* even if the reference is released in between: the grace period.         *)
ResolvedBytesExist ==
  \A p \in Procs : pc[p] \in {"mount", "read"} => req[p].digest \in cas

(* The stat under the digest lock still holds when the put commits (the    *)
(* comment in storeBlobWithRef, blobs.ts:294).                             *)
BytesExistAtCommit == \A p \in Procs : pc[p] = "commit" => req[p].digest \in cas

OrgDigests(o, refs) == {x.digest : x \in {y \in refs : OrgOf[y.repo] = o}}

(* The bytes of a set of digests, those of each digest once: the sum of    *)
(* their sizes is the number of them.                                      *)
Bytes(digests) == UNION {{d} \X (1..Size[d]) : d \in digests}

(* An org is charged once per digest it references, no more and no less,   *)
(* and never beyond its maximum (README.md:567).                           *)
QuotaMatchesRefs ==
  \A o \in Metered : used[o] = Cardinality(Bytes(OrgDigests(o, blobRefs)))

QuotaRespected == \A o \in Limited : used[o] <= MaxStorage[o]

UsageIsExact == QuotaMatchesRefs /\ QuotaRespected

(* Without faults no bytes are stranded in object storage without a row:   *)
(* a process that wrote them itself is still on its way to record or to    *)
(* discard them.                                                           *)
NoOrphanBytes ==
  faults = 0 =>
    \A d \in cas : blobs[d].state = "none" =>
      \E p \in Procs : /\ pc[p] \in {"lock", "stat", "commit", "discard", "unput"}
                       /\ req[p].digest = d /\ ~ req[p].deduped

(* Two transactions never wait for each other's digest lock.               *)
NoLockCycle ==
  \A p, q \in Procs :
    p # q => ~ \E d, e \in Digests :
      /\ pc[p] = "lock" /\ NextLock(p, d) /\ digestLock[d] = q
      /\ pc[q] = "lock" /\ NextLock(q, e) /\ digestLock[e] = p

(***************************************************************************)
(* Liveness.  A request runs until it ends, the sweeper's loop comes back  *)
(* (maintenance.ts), PostgreSQL grants advisory locks in queue order.      *)
(***************************************************************************)

Fairness ==
  /\ \A p \in Procs :
       /\ WF_vars(PutStep(p)) /\ WF_vars(AccessStep(p))
       /\ SF_vars(ReclaimStep(p))
       /\ \A d \in Digests : SF_vars(AcquireDigestLock(p, d))
       /\ SF_vars(DiscardCheck(p))
  /\ \A d \in Digests : WF_vars(GraceElapses(d))
  /\ SF_vars(\E p \in Procs : Sweep(p))

FairSpec == Spec /\ Fairness

(* An unreferenced blob is reclaimed unless it is referenced again.        *)
GarbageIsReclaimed ==
  \A d \in Digests :
    blobs[d].state = "pending_delete" ~> blobs[d].state # "pending_delete"

(* The blob store implements the contract of ContentStore: a reference is  *)
(* only ever made to bytes that are there, and no step erases bytes while  *)
(* a reference to them is left.                                            *)
Contract == INSTANCE ContentStore WITH Ref <- BlobRef, refs <- blobRefs, readable <- cas
ContractSpec == Contract!Spec
=============================================================================
