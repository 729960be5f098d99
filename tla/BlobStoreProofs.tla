--------------------------- MODULE BlobStoreProofs ---------------------------
(***************************************************************************)
(* For every set of digests, repositories and processes, and any number of *)
(* crashes, failed S3 calls and sessions that the database ends: reference *)
(* counts are exact, an organisation is charged what it references and     *)
(* never beyond its maximum, and locks form no cycle.  That bytes without  *)
(* a row have a writer who answers for them needs a grace period that      *)
(* outlasts a request; that referenced bytes exist, and that the blob      *)
(* store implements ContentStore, needs also that the database ends no     *)
(* session whose process still runs.                                       *)
(***************************************************************************)
EXTENDS BlobStore, FiniteSetTheorems, TLAPS

(* Someone between resolving a digest and using it can rely on it.         *)
Pinned(d) ==
  /\ d \in cas
  /\ RefsTo(d) # {} \/ (blobs[d].state = "pending_delete" /\ ~ blobs[d].ripe)

(* What bytes rest on: until the database ends a session whose process     *)
(* still runs, and while the grace period outlasts a request.  Rows and    *)
(* counts do without.                                                      *)
Reliable == GraceOutlastsRequests /\ ("session" \in Faults => faults = 0)

(* What a process relies on at each of its control points.                 *)
ProcOK(p) ==
  /\ pc[p] \in {"stat", "commit"} => \A d \in LocksOf(p) : digestLock[d] = p
  /\ pc[p] \in {"unput", "gcdelete", "gccommit"} => digestLock[req[p].digest] = p
  /\ pc[p] = "unput" => blobs[req[p].digest].state = "none"
  /\ pc[p] \in {"gcdelete", "gccommit"} => Reclaimable(req[p].digest)
  /\ Reliable => /\ pc[p] = "commit" => req[p].digest \in cas
                 /\ pc[p] \in {"mount", "read"} => Pinned(req[p].digest)
                 /\ pc[p] # "lateDelete"

ProcInv == \A p \in Procs : ProcOK(p)

Ledger ==
  /\ IsFiniteSet(blobRefs)
  /\ RefCountMatchesRefs
  /\ Reliable => ReferencedBytesExist

IInv == TypeOK /\ Ledger /\ ProcInv

-----------------------------------------------------------------------------

LEMMA BlankType == Blank \in Request
<1>1. \E q : q \in Request
  <2>1. PICK r \in Repos, s \in Slots, d \in Digests : TRUE
    BY ConstantsAssumption
  <2>2. [repo |-> r, slot |-> s, digest |-> d, old |-> d, deduped |-> FALSE] \in Request
    BY DEF Request
  <2> QED BY <2>2
<1> QED BY <1>1 DEF Blank

LEMMA RequestForType ==
  ASSUME NEW q \in Request, NEW d \in Digests
  PROVE  RequestFor(q.repo, q.slot, d) \in Request /\ RequestFor(q.repo, q.slot, d).digest = d
BY DEF Request, RequestFor

LEMMA InitIInv == Init => IInv
<1> SUFFICES ASSUME Init PROVE IInv
  OBVIOUS
<1>1. TypeOK
  BY BlankType, ConstantsAssumption DEF Init, TypeOK, BlobRow, NoRow, PCs
<1>2. \A d \in Digests : RefsTo(d) = {}
  BY DEF Init, RefsTo
<1>3. Ledger
  BY <1>2, FS_EmptySet DEF Init, Ledger, RefCountMatchesRefs, ReferencedBytesExist, NoRow
<1>4. ProcInv
  BY DEF Init, ProcInv, ProcOK
<1> QED BY <1>1, <1>3, <1>4 DEF IInv

(* What a step of p leaves to the other processes: their control state and *)
(* locks, the rows and bytes under their locks, and whatever is pinned.    *)
LEMMA Frame ==
  ASSUME NEW p \in Procs, IInv,
         \A q \in Procs \ {p} : /\ pc'[q] = pc[q] /\ req'[q] = req[q]
                               /\ \A d \in Digests : digestLock[d] = q => digestLock'[d] = q,
         \A d \in Digests : digestLock[d] \notin {p, NoProc} =>
            blobs'[d] = blobs[d] /\ (Reliable /\ d \in cas => d \in cas'),
         Reliable => \A d \in Digests : Pinned(d) => Pinned(d)',
         Reliable' => Reliable,
         ProcOK(p)'
  PROVE  ProcInv'
<1> SUFFICES ASSUME NEW q \in Procs \ {p} PROVE ProcOK(q)'
  BY DEF ProcInv
<1>1. ProcOK(q) /\ req[q] \in Request
  BY DEF IInv, ProcInv, TypeOK
<1>2. req[q].digest \in Digests /\ req[q].old \in Digests
  BY <1>1 DEF Request
<1>3. pc'[q] = pc[q] /\ req'[q] = req[q]
  OBVIOUS
<1>4. \A d \in Digests : digestLock[d] = q =>
        digestLock'[d] = q /\ blobs'[d] = blobs[d] /\ (Reliable /\ d \in cas => d \in cas')
  BY ConstantsAssumption
<1>5. pc[q] = "commit" => digestLock[req[q].digest] = q
  BY <1>1 DEF ProcOK, LocksOf
<1> QED BY <1>1, <1>2, <1>3, <1>4, <1>5 DEF ProcOK, LocksOf, Reclaimable

LEMMA Quiet ==
  ASSUME IInv, UNCHANGED <<cas, blobs, blobRefs>>, Reliable' => Reliable
  PROVE  Ledger' /\ \A d \in Digests : Pinned(d) <=> Pinned(d)'
BY DEF IInv, Ledger, RefCountMatchesRefs, ReferencedBytesExist, RefsTo, Pinned

(* Steps of p that touch only its own control state and locks.             *)
LEMMA ControlStep ==
  ASSUME NEW p \in Procs, IInv, UNCHANGED <<cas, blobs, blobRefs>>, TypeOK', Reliable' => Reliable,
         \A q \in Procs \ {p} : /\ pc'[q] = pc[q] /\ req'[q] = req[q]
                               /\ \A d \in Digests : digestLock[d] = q => digestLock'[d] = q,
         ProcOK(p)'
  PROVE  IInv'
<1>1. Ledger' /\ \A d \in Digests : Pinned(d) => Pinned(d)'
  BY Quiet
<1>2. ProcInv'
  BY <1>1, Frame
<1> QED BY <1>1, <1>2 DEF IInv

LEMMA FinishOK ==
  ASSUME NEW p \in Procs, TypeOK, Finish(p)
  PROVE  /\ ProcOK(p)'
         /\ pc' \in [Procs -> PCs] /\ req' \in [Procs -> Request]
         /\ \A q \in Procs \ {p} : pc'[q] = pc[q] /\ req'[q] = req[q]
BY BlankType DEF Finish, Goto, ProcOK, TypeOK, PCs

LEMMA UnlockedOK ==
  ASSUME NEW p \in Procs, TypeOK, digestLock' = Unlocked(p)
  PROVE  /\ digestLock' \in [Digests -> Procs \union {NoProc}]
         /\ \A q \in Procs \ {p} : \A d \in Digests : digestLock[d] = q => digestLock'[d] = q
BY DEF Unlocked, TypeOK

LEMMA BeginPutStep ==
  ASSUME NEW p \in Procs, IInv, Reliable' => Reliable, NEW q \in Request, BeginPut(p, q)
  PROVE  IInv'
<1>1. TypeOK'
  BY DEF IInv, TypeOK, BeginPut, Goto, PCs
<1>2. ProcOK(p)'
  BY DEF IInv, TypeOK, BeginPut, Goto, ProcOK
<1> QED BY <1>1, <1>2, ControlStep DEF IInv, TypeOK, BeginPut, Goto

LEMMA StartPutStep ==
  ASSUME NEW p \in Procs, NEW r \in Repos, NEW s \in Slots, NEW d \in Digests, IInv, Reliable' => Reliable,
         \/ StartStore(p, r, s, d)
         \/ StartStoreStream(p, r, s, d)
         \/ \E old \in Digests : StartReplace(p, r, s, d, old)
  PROVE  IInv'
<1>1. PICK old \in Digests :
        BeginPut(p, [repo |-> r, slot |-> s, digest |-> d, old |-> old, deduped |-> FALSE])
  BY DEF StartStore, StartStoreStream, StartReplace, RequestFor
<1> QED BY <1>1, BeginPutStep DEF Request

LEMMA BeginAccessStep ==
  ASSUME NEW p \in Procs, NEW x \in BlobRef, NEW label \in {"mount", "read"}, IInv, Reliable' => Reliable,
         RefsTo(x.digest) # {}, BeginAccess(p, label, x)
  PROVE  IInv'
<1>1. x.repo \in Repos /\ x.slot \in Slots /\ x.digest \in Digests
  BY DEF BlobRef
<1>2. TypeOK'
  BY <1>1 DEF IInv, TypeOK, BeginAccess, Goto, PCs, Request, RequestFor
<1>3. Reliable => Pinned(x.digest)'
  <2>1. Reliable => Pinned(x.digest)
    BY DEF Pinned, RefsTo, IInv, Ledger, ReferencedBytesExist
  <2> QED BY <1>1, <2>1, Quiet DEF BeginAccess
<1>4. pc'[p] = label /\ req'[p].digest = x.digest
  BY DEF IInv, TypeOK, BeginAccess, Goto, RequestFor
<1>5. ProcOK(p)'
  BY <1>3, <1>4 DEF ProcOK
<1> QED BY <1>2, <1>5, ControlStep DEF IInv, TypeOK, BeginAccess, Goto

LEMMA StartStep ==
  ASSUME NEW p \in Procs, IInv, Reliable' => Reliable,
         Start(p), ~ (\E x \in blobRefs : ReleaseRef(p, x))
  PROVE  IInv'
<1>1. ASSUME NEW r \in Repos, NEW s \in Slots, NEW d \in Digests, StartMount(p, r, s, d)
      PROVE  IInv'
  <2>1. [repo |-> r, slot |-> s, digest |-> d] \in BlobRef
    BY DEF BlobRef
  <2> QED BY <1>1, <2>1, BeginAccessStep DEF StartMount
<1>2. ASSUME NEW x \in blobRefs, OpenBlob(p, x) PROVE IInv'
  <2>1. x \in BlobRef /\ RefsTo(x.digest) # {}
    BY DEF IInv, TypeOK, RefsTo
  <2> QED BY <1>2, <2>1, BeginAccessStep DEF OpenBlob
<1> QED BY <1>1, <1>2, StartPutStep DEF Start

LEMMA PutControlStep ==
  ASSUME NEW p \in Procs, IInv, Reliable' => Reliable,
         \/ HeadObject(p) \/ StatFound(p) \/ StatMissing(p) \/ StatFails(p) \/ QuotaExceeded(p)
         \/ DiscardCheck(p) \/ RefuseMount(p) \/ ReadBytes(p) \/ Sweep(p)
         \/ \E d \in Digests : AcquireDigestLock(p, d) \/ ReclaimDeleteRow(p, d)
  PROVE  IInv'
<1> USE DEF IInv
<1>0. req[p] \in Request /\ req[p].digest \in Digests /\ req[p].old \in Digests /\ pc[p] \in PCs /\ ProcOK(p)
  BY DEF TypeOK, Request, ProcInv
<1>1. CASE HeadObject(p)
  <2>1. pc'[p] \in {"lock", "write"} /\ pc' = [pc EXCEPT ![p] = pc'[p]]
    BY <1>1 DEF TypeOK, HeadObject, Goto
  <2>2. req' \in [Procs -> Request] /\ \A q \in Procs \ {p} : req'[q] = req[q]
    <3>1. [req[p] EXCEPT !.deduped = TRUE] \in Request
      BY <1>0 DEF Request
    <3> QED BY <1>1, <3>1 DEF TypeOK, HeadObject
  <2>3. TypeOK' /\ ProcOK(p)'
    BY <1>1, <2>1, <2>2 DEF TypeOK, HeadObject, PCs, ProcOK
  <2> QED BY <1>1, <2>1, <2>2, <2>3, ControlStep DEF TypeOK, HeadObject
<1>2. CASE StatFound(p)
  <2>1. TypeOK' /\ ProcOK(p)'
    BY <1>0, <1>2 DEF TypeOK, StatFound, Goto, PCs, ProcOK, LocksOf
  <2> QED BY <1>2, <2>1, ControlStep DEF TypeOK, StatFound, Goto
<1>3. CASE RollbackPut(p) /\ faults' \in 0..MaxFaults
  <2>1. TypeOK' /\ ProcOK(p)' /\ \A q \in Procs \ {p} : pc'[q] = pc[q] /\ req'[q] = req[q]
    BY <1>0, <1>3, FinishOK, UnlockedOK DEF TypeOK, RollbackPut, Goto, PCs, ProcOK
  <2> QED BY <1>3, <2>1, ControlStep, UnlockedOK DEF RollbackPut
<1>4. CASE StatMissing(p) \/ StatFails(p) \/ QuotaExceeded(p)
  BY <1>3, <1>4, ConstantsAssumption DEF StatMissing, StatFails, QuotaExceeded, Fault, TypeOK
<1>5. CASE DiscardCheck(p)
  <2>1. TypeOK' /\ ProcOK(p)' /\ \A q \in Procs \ {p} : pc'[q] = pc[q] /\ req'[q] = req[q]
    BY <1>0, <1>5, FinishOK DEF TypeOK, DiscardCheck, Goto, PCs, ProcOK
  <2> QED BY <1>5, <2>1, ControlStep, ConstantsAssumption DEF DiscardCheck, Free, TypeOK
<1>6. CASE RefuseMount(p) \/ ReadBytes(p)
  <2>1. TypeOK' /\ ProcOK(p)' /\ \A q \in Procs \ {p} : pc'[q] = pc[q] /\ req'[q] = req[q]
    BY <1>6, FinishOK DEF TypeOK, RefuseMount, ReadBytes
  <2> QED BY <1>6, <2>1, ControlStep DEF RefuseMount, ReadBytes
<1>7. CASE Sweep(p)
  <2>1. TypeOK' /\ ProcOK(p)'
    BY <1>7 DEF TypeOK, Sweep, SelectCandidates, Goto, PCs, ProcOK
  <2> QED BY <1>7, <2>1, ControlStep DEF TypeOK, Sweep, SelectCandidates, Goto
<1>8. ASSUME NEW d \in Digests, AcquireDigestLock(p, d) PROVE IInv'
  <2>1. TypeOK'
    BY <1>0, <1>8 DEF TypeOK, AcquireDigestLock, Goto, PCs
  <2>2. ProcOK(p)'
    BY <1>0, <1>8 DEF TypeOK, AcquireDigestLock, Goto, ProcOK, LocksOf, HeldBy
  <2> QED BY <1>8, <2>1, <2>2, ControlStep, ConstantsAssumption DEF TypeOK, AcquireDigestLock, Goto, Free
<1>9. ASSUME NEW d \in Digests, ReclaimDeleteRow(p, d) PROVE IInv'
  <2>1. CASE Reclaimable(d)
    <3>0. /\ req' \in [Procs -> Request] /\ req'[p].digest = d
          /\ \A q \in Procs \ {p} : req'[q] = req[q]
      <4>1. req' = [req EXCEPT ![p] = RequestFor(req[p].repo, req[p].slot, d)]
        BY <1>9, <2>1 DEF ReclaimDeleteRow
      <4>2. RequestFor(req[p].repo, req[p].slot, d) \in Request
        BY <1>0, RequestForType
      <4>3. RequestFor(req[p].repo, req[p].slot, d).digest = d
        BY DEF RequestFor
      <4>4. req \in [Procs -> Request]
        BY DEF TypeOK
      <4> QED BY <4>1, <4>2, <4>3, <4>4
    <3>1. TypeOK'
      BY <1>9, <2>1, <3>0 DEF TypeOK, ReclaimDeleteRow, Goto, PCs
    <3>2. ProcOK(p)'
      BY <1>9, <2>1, <3>0 DEF TypeOK, ReclaimDeleteRow, Goto, ProcOK, Reclaimable
    <3>3. \A q \in Procs \ {p} : /\ pc'[q] = pc[q]
                                 /\ \A e \in Digests : digestLock[e] = q => digestLock'[e] = q
      BY <1>9, <2>1, ConstantsAssumption DEF TypeOK, ReclaimDeleteRow, Goto, Free
    <3> QED BY <1>9, <3>0, <3>1, <3>2, <3>3, ControlStep DEF ReclaimDeleteRow
  <2>2. CASE ~ Reclaimable(d)
    <3>1. TypeOK' /\ ProcOK(p)' /\ \A q \in Procs \ {p} : pc'[q] = pc[q] /\ req'[q] = req[q]
      BY <1>9, <2>2, FinishOK DEF TypeOK, ReclaimDeleteRow, NextCandidate, Goto, PCs, ProcOK
    <3> QED BY <1>9, <2>2, <3>1, ControlStep DEF ReclaimDeleteRow
  <2> QED BY <2>1, <2>2
<1> QED BY <1>1, <1>2, <1>4, <1>5, <1>6, <1>7, <1>8, <1>9

-----------------------------------------------------------------------------
(* Steps that write or erase bytes, and those that change a row.           *)

LEMMA Unreferenced ==
  ASSUME IInv, NEW d \in Digests, blobs[d].refCount = 0 \/ blobs[d].state # "active"
  PROVE  RefsTo(d) = {}
<1>1. IsFiniteSet(RefsTo(d))
  BY FS_Subset DEF IInv, Ledger, RefsTo
<1>2. Cardinality(RefsTo(d)) = 0 => RefsTo(d) = {}
  BY <1>1, FS_EmptySet
<1> QED BY <1>2 DEF IInv, Ledger, RefCountMatchesRefs

(* The bytes a process is about to erase are its own to erase.             *)
LEMMA Erasable ==
  ASSUME NEW p \in Procs, IInv, pc[p] \in {"unput", "gcdelete", "gccommit"}
  PROVE  /\ req[p].digest \in Digests
         /\ digestLock[req[p].digest] = p
         /\ RefsTo(req[p].digest) = {}
         /\ ~ Pinned(req[p].digest)
<1>1. req[p].digest \in Digests /\ ProcOK(p)
  BY DEF IInv, TypeOK, ProcInv, Request
<1>2. \/ blobs[req[p].digest].state = "none"
      \/ Reclaimable(req[p].digest)
  BY <1>1 DEF ProcOK
<1>3. RefsTo(req[p].digest) = {}
  BY <1>1, <1>2, Unreferenced DEF Reclaimable
<1> QED BY <1>1, <1>2, <1>3 DEF ProcOK, Pinned, Reclaimable

LEMMA CasStep ==
  ASSUME NEW p \in Procs, IInv, UNCHANGED <<blobs, blobRefs>>, TypeOK', Reliable' => Reliable,
         Reliable => \A d \in Digests : d \in cas /\ d \notin cas' =>
                       digestLock[d] = p /\ RefsTo(d) = {} /\ ~ Pinned(d),
         \A q \in Procs \ {p} : /\ pc'[q] = pc[q] /\ req'[q] = req[q]
                               /\ \A d \in Digests : digestLock[d] = q => digestLock'[d] = q,
         ProcOK(p)'
  PROVE  IInv'
<1>1. Ledger'
  <2>1. Reliable => ReferencedBytesExist'
    BY DEF IInv, TypeOK, BlobRef, Ledger, ReferencedBytesExist, RefsTo
  <2> QED BY <2>1 DEF IInv, Ledger, RefCountMatchesRefs, RefsTo
<1>2. Reliable => \A d \in Digests : Pinned(d) => Pinned(d)'
  BY DEF Pinned, RefsTo
<1>3. ProcInv'
  BY <1>2, Frame
<1> QED BY <1>1, <1>3 DEF IInv

LEMMA WriteStep ==
  ASSUME NEW p \in Procs, IInv, Reliable' => Reliable, WriteObject(p) \/ WriteFails(p)
  PROVE  IInv'
<1> USE DEF IInv
<1>0. req[p].digest \in Digests /\ pc[p] \in PCs
  BY DEF TypeOK, Request
<1>1. CASE WriteObject(p)
  <2>1. TypeOK' /\ ProcOK(p)'
    BY <1>0, <1>1 DEF TypeOK, WriteObject, Goto, PCs, ProcOK
  <2> QED BY <1>1, <2>1, CasStep DEF TypeOK, WriteObject, Goto
<1>2. CASE WriteFails(p)
  <2>1. TypeOK' /\ ProcOK(p)' /\ \A q \in Procs \ {p} : pc'[q] = pc[q] /\ req'[q] = req[q]
    BY <1>0, <1>2, FinishOK, ConstantsAssumption DEF TypeOK, WriteFails, MaybeWritten, Fault
  <2> QED BY <1>2, <2>1, CasStep DEF WriteFails, MaybeWritten
<1> QED BY <1>1, <1>2

(* NextCandidate ends at a control point that relies on nothing.           *)
LEMMA NextCandidateOK ==
  ASSUME NEW p \in Procs, NEW d \in Digests, TypeOK, NextCandidate(p, d)
  PROVE  /\ ProcOK(p)'
         /\ pc' \in [Procs -> PCs] /\ req' \in [Procs -> Request]
         /\ todo' \in [Procs -> SUBSET Digests]
         /\ \A q \in Procs \ {p} : pc'[q] = pc[q] /\ req'[q] = req[q]
<1>1. todo' \in [Procs -> SUBSET Digests]
  BY DEF NextCandidate, TypeOK
<1>2. CASE todo[p] \subseteq {d}
  BY <1>1, <1>2, FinishOK DEF NextCandidate
<1>3. CASE ~ (todo[p] \subseteq {d})
  BY <1>1, <1>3 DEF NextCandidate, Goto, ProcOK, TypeOK, PCs
<1> QED BY <1>2, <1>3

LEMMA EraseStep ==
  ASSUME NEW p \in Procs, IInv, Reliable' => Reliable,
         ReclaimDeleteObject(p) \/ DiscardDelete(p) \/ ReclaimDeleteFails(p) \/ DiscardDeleteFails(p)
  PROVE  IInv'
<1> USE DEF IInv
<1>0. pc[p] \in {"unput", "gcdelete"} /\ ProcOK(p)
  BY DEF ReclaimDeleteObject, DiscardDelete, ReclaimDeleteFails, DiscardDeleteFails, ProcInv
<1>1. /\ req[p].digest \in Digests /\ digestLock[req[p].digest] = p
      /\ RefsTo(req[p].digest) = {} /\ ~ Pinned(req[p].digest)
  BY <1>0, Erasable
<1>2. CASE ReclaimDeleteObject(p)
  <2>1. TypeOK' /\ ProcOK(p)'
    BY <1>0, <1>2 DEF TypeOK, ReclaimDeleteObject, Goto, PCs, ProcOK, Reclaimable
  <2> QED BY <1>1, <1>2, <2>1, CasStep DEF TypeOK, ReclaimDeleteObject, Goto
<1>3. CASE DiscardDelete(p) \/ DiscardDeleteFails(p)
  <2>0. /\ digestLock' = Unlocked(p) /\ Finish(p)
        /\ cas' \in SUBSET Digests /\ faults' \in 0..MaxFaults
        /\ UNCHANGED <<blobs, blobRefs, used, todo>>
    <3>1. faults' \in 0..MaxFaults
      BY <1>3, ConstantsAssumption DEF TypeOK, DiscardDelete, DiscardDeleteFails, Fault
    <3>2. cas' \in SUBSET Digests
      BY <1>3 DEF TypeOK, DiscardDelete, DiscardDeleteFails, MaybeDeleted
    <3> QED BY <1>3, <3>1, <3>2 DEF DiscardDelete, DiscardDeleteFails
  <2>1. TypeOK' /\ ProcOK(p)' /\ \A q \in Procs \ {p} : pc'[q] = pc[q] /\ req'[q] = req[q]
    BY <2>0, FinishOK, UnlockedOK DEF TypeOK
  <2> QED BY <1>1, <1>3, <2>1, CasStep, UnlockedOK DEF DiscardDelete, DiscardDeleteFails, MaybeDeleted
<1>4. CASE ReclaimDeleteFails(p)
  <2>0. /\ digestLock' = Unlocked(p) /\ NextCandidate(p, req[p].digest)
        /\ cas' \in SUBSET Digests /\ faults' \in 0..MaxFaults
        /\ UNCHANGED <<blobs, blobRefs, used>>
    BY <1>4, ConstantsAssumption DEF TypeOK, ReclaimDeleteFails, MaybeDeleted, Fault
  <2>1. TypeOK' /\ ProcOK(p)' /\ \A q \in Procs \ {p} : pc'[q] = pc[q] /\ req'[q] = req[q]
    <3>1. /\ ProcOK(p)' /\ pc' \in [Procs -> PCs] /\ req' \in [Procs -> Request]
          /\ todo' \in [Procs -> SUBSET Digests]
          /\ \A q \in Procs \ {p} : pc'[q] = pc[q] /\ req'[q] = req[q]
      BY <1>1, <2>0, NextCandidateOK
    <3>2. digestLock' \in [Digests -> Procs \union {NoProc}]
      BY <2>0, UnlockedOK
    <3> QED BY <2>0, <3>1, <3>2 DEF TypeOK
  <2> QED BY <1>1, <1>4, <2>1, CasStep, UnlockedOK DEF ReclaimDeleteFails, MaybeDeleted
<1> QED BY <1>2, <1>3, <1>4

LEMMA CrashStep ==
  ASSUME NEW p \in Procs, IInv, Reliable' => Reliable, Crash(p)
  PROVE  IInv'
<1> USE DEF IInv
<1>0. ProcOK(p) /\ req[p].digest \in Digests
  BY DEF ProcInv, TypeOK, Request
<1>1. \/ cas' = cas
      \/ cas' = cas \union {req[p].digest}
      \/ cas' = cas \ {req[p].digest} /\ (Reliable => pc[p] \in {"unput", "gcdelete"})
  BY <1>0 DEF Crash, MaybeDeleted, MaybeWritten, ProcOK
<1>2. TypeOK' /\ ProcOK(p)' /\ \A q \in Procs \ {p} : pc'[q] = pc[q] /\ req'[q] = req[q]
  BY <1>0, <1>1, FinishOK, UnlockedOK, ConstantsAssumption DEF TypeOK, Crash, Fault
<1>3. Reliable => \A d \in Digests : d \in cas /\ d \notin cas' =>
        digestLock[d] = p /\ RefsTo(d) = {} /\ ~ Pinned(d)
  BY <1>1, Erasable
<1> QED BY <1>2, <1>3, CasStep, UnlockedOK DEF Crash

-----------------------------------------------------------------------------
(* Steps that change rows and references.                                  *)

LEMMA GraceStep ==
  ASSUME NEW d \in Digests, IInv, Reliable' => Reliable, GraceElapses(d)
  PROVE  IInv'
<1> USE DEF IInv
<1>0. blobs[d] \in BlobRow
  BY DEF TypeOK
<1> DEFINE row == [blobs[d] EXCEPT !.ripe = TRUE]
<1>a. row \in BlobRow /\ row.refCount = blobs[d].refCount /\ row.state = blobs[d].state /\ row.ripe
  BY <1>0 DEF BlobRow
<1>b. blobs' = [blobs EXCEPT ![d] = row]
  BY DEF GraceElapses
<1> HIDE DEF row
<1>1. TypeOK'
  BY <1>a, <1>b DEF TypeOK, GraceElapses
<1>2. \A e \in Digests : /\ blobs'[e].refCount = blobs[e].refCount
                         /\ blobs'[e].state = blobs[e].state
                         /\ e # d => blobs'[e] = blobs[e]
                         /\ e = d => blobs'[e].ripe
  BY <1>a, <1>b DEF TypeOK
<1>3. Ledger'
  BY <1>2 DEF Ledger, RefCountMatchesRefs, ReferencedBytesExist, RefsTo, GraceElapses
<1>4. ASSUME NEW q \in Procs PROVE ProcOK(q)'
  <2>1. ProcOK(q) /\ req[q].digest \in Digests
    BY DEF ProcInv, TypeOK, Request
  <2>2. req[q].digest = d => pc[q] # "unput"
                          /\ (Reliable => pc[q] \notin {"mount", "read"})
                          /\ (pc[q] \in {"gcdelete", "gccommit"} => Reclaimable(d)')
    BY <1>2, <2>1 DEF GraceElapses, ProcOK, Reclaimable, Reliable
  <2>3. Reliable /\ pc[q] \in {"mount", "read"} => Pinned(req[q].digest)'
    BY <1>2, <2>1, <2>2 DEF ProcOK, Pinned, RefsTo, GraceElapses
  <2> QED BY <1>2, <2>1, <2>2, <2>3 DEF GraceElapses, ProcOK, Reclaimable, LocksOf
<1> QED BY <1>1, <1>3, <1>4 DEF ProcInv

LEMMA ReclaimCommitStep ==
  ASSUME NEW p \in Procs, IInv, Reliable' => Reliable, ReclaimCommit(p)
  PROVE  IInv'
<1> USE DEF IInv
<1> DEFINE d == req[p].digest
<1>1. d \in Digests /\ digestLock[d] = p /\ RefsTo(d) = {} /\ ~ Pinned(d)
  BY Erasable DEF ReclaimCommit
<1>2. blobs' = [blobs EXCEPT ![d] = NoRow] /\ NextCandidate(p, d) /\ digestLock' = Unlocked(p)
      /\ UNCHANGED <<cas, blobRefs, used, faults>>
  BY DEF ReclaimCommit
<1> HIDE DEF d
<1>3. TypeOK' /\ ProcOK(p)' /\ \A q \in Procs \ {p} : pc'[q] = pc[q] /\ req'[q] = req[q]
  BY <1>1, <1>2, NextCandidateOK, UnlockedOK DEF TypeOK, NoRow, BlobRow
<1>4. \A e \in Digests : IF e = d THEN blobs'[e] = NoRow ELSE blobs'[e] = blobs[e]
  BY <1>2 DEF TypeOK
<1>5. Ledger'
  <2>1. Cardinality({}) = 0
    BY FS_EmptySet
  <2> QED BY <1>1, <1>2, <1>4, <2>1 DEF Ledger, RefCountMatchesRefs, ReferencedBytesExist, RefsTo, NoRow
<1>6. \A e \in Digests : Pinned(e) => Pinned(e)'
  BY <1>1, <1>2, <1>4 DEF Pinned, RefsTo
<1>7. ProcInv'
  BY <1>1, <1>2, <1>3, <1>4, <1>6, Frame, UnlockedOK
<1> QED BY <1>3, <1>5, <1>7

(* What adding or dropping one reference does to the references of a digest.*)
LEMMA AddRef ==
  ASSUME NEW S, IsFiniteSet(S), NEW x, x \notin S
  PROVE  /\ IsFiniteSet(S \union {x})
         /\ Cardinality({y \in S \union {x} : y.digest = x.digest})
              = Cardinality({y \in S : y.digest = x.digest}) + 1
         /\ Cardinality({y \in S : y.digest = x.digest}) \in Nat
<1> DEFINE T == {y \in S : y.digest = x.digest}
<1>1. IsFiniteSet(T) /\ Cardinality(T) \in Nat
  BY FS_Subset, FS_CardinalityType
<1>2. Cardinality(T \union {x}) = Cardinality(T) + 1
  BY <1>1, FS_AddElement
<1>3. {y \in S \union {x} : y.digest = x.digest} = T \union {x}
  OBVIOUS
<1>4. IsFiniteSet(S \union {x})
  BY FS_AddElement
<1> QED BY <1>1, <1>2, <1>3, <1>4

LEMMA DropRef ==
  ASSUME NEW S, IsFiniteSet(S), NEW x \in S
  PROVE  /\ IsFiniteSet(S \ {x})
         /\ Cardinality({y \in S \ {x} : y.digest = x.digest})
              = Cardinality({y \in S : y.digest = x.digest}) - 1
         /\ Cardinality({y \in S : y.digest = x.digest}) \in Nat \ {0}
         /\ Cardinality({y \in S : y.digest = x.digest}) = 1
              <=> {y \in S \ {x} : y.digest = x.digest} = {}
<1> DEFINE T == {y \in S : y.digest = x.digest}
<1>1. IsFiniteSet(T) /\ Cardinality(T) \in Nat /\ x \in T
  BY FS_Subset, FS_CardinalityType
<1>2. Cardinality(T \ {x}) = Cardinality(T) - 1 /\ IsFiniteSet(T \ {x})
  BY <1>1, FS_RemoveElement
<1>3. {y \in S \ {x} : y.digest = x.digest} = T \ {x}
  OBVIOUS
<1>4. IsFiniteSet(S \ {x})
  BY FS_RemoveElement
<1>5. Cardinality(T) # 0
  BY <1>1, FS_EmptySet
<1>6. Cardinality(T \ {x}) = 0 <=> T \ {x} = {}
  BY <1>2, FS_EmptySet
<1>8. Cardinality(T) = 1 <=> T \ {x} = {}
  BY <1>1, <1>2, <1>6
<1> HIDE DEF T
<1>9. /\ IsFiniteSet(S \ {x}) /\ Cardinality(T \ {x}) = Cardinality(T) - 1
      /\ Cardinality(T) \in Nat \ {0}
  BY <1>1, <1>2, <1>4, <1>5
<1> QED BY <1>3, <1>8, <1>9 DEF T

(* The row functions, on a row whose count is exact.                       *)
LEMMA RowFacts ==
  ASSUME NEW row \in BlobRow
  PROVE  /\ EnsureActive(row) \in BlobRow
         /\ EnsureActive(row).refCount = row.refCount
         /\ EnsureActive(row).state = "active"
         /\ IncrementRefCount(EnsureActive(row)) \in BlobRow
         /\ IncrementRefCount(EnsureActive(row)).refCount = row.refCount + 1
         /\ IncrementRefCount(EnsureActive(row)).state = "active"
<1> DEFINE r == EnsureActive(row)
<1>1. r \in BlobRow /\ r.refCount = row.refCount /\ r.state = "active"
  BY DEF EnsureActive, BlobRow
<1>2. ASSUME NEW s \in BlobRow
      PROVE  /\ [s EXCEPT !.refCount = s.refCount + 1] \in BlobRow
             /\ [s EXCEPT !.refCount = s.refCount + 1].refCount = s.refCount + 1
             /\ [s EXCEPT !.refCount = s.refCount + 1].state = s.state
  BY DEF BlobRow
<1> QED BY <1>1, <1>2 DEF IncrementRefCount

LEMMA TriggerFacts ==
  ASSUME NEW row \in BlobRow, row.refCount # 0
  PROVE  /\ AfterRefDelete(row) \in BlobRow
         /\ AfterRefDelete(row).refCount = row.refCount - 1
         /\ row.refCount = 1 => AfterRefDelete(row).state = "pending_delete"
                                 /\ ~ AfterRefDelete(row).ripe
         /\ row.refCount # 1 => AfterRefDelete(row).state = row.state
<1>1. row.refCount \in Nat /\ row.state \in {"none", "active", "pending_delete"} /\ row.ripe \in BOOLEAN
  BY DEF BlobRow
<1>2. CASE row.refCount = 1
  BY <1>1, <1>2 DEF AfterRefDelete, BlobRow
<1>3. CASE row.refCount # 1
  <2>1. AfterRefDelete(row) = [row EXCEPT !.refCount = row.refCount - 1]
    BY <1>1, <1>3 DEF AfterRefDelete
  <2>2. row.refCount - 1 \in Nat
    BY <1>1
  <2>3. ASSUME NEW n \in Nat
        PROVE  /\ [row EXCEPT !.refCount = n] \in BlobRow
               /\ [row EXCEPT !.refCount = n].refCount = n
               /\ [row EXCEPT !.refCount = n].state = row.state
    BY DEF BlobRow
  <2> QED BY <1>3, <2>1, <2>2, <2>3
<1> QED BY <1>2, <1>3

LEMMA AdjustType ==
  ASSUME TypeOK, NEW o \in Orgs, NEW delta \in Int
  PROVE  AdjustStorageUsed(o, delta) \in [Orgs -> Nat]
BY DEF TypeOK, AdjustStorageUsed

LEMMA RequestRefs ==
  ASSUME NEW p \in Procs, TypeOK
  PROVE  /\ req[p].digest \in Digests /\ req[p].old \in Digests
         /\ NewRef(p) \in BlobRef /\ NewRef(p).digest = req[p].digest
         /\ OldRef(p) \in BlobRef /\ OldRef(p).digest = req[p].old
         /\ OrgOf[req[p].repo] \in Orgs
BY ConstantsAssumption DEF TypeOK, Request, NewRef, OldRef, BlobRef

LEMMA MountStep ==
  ASSUME NEW p \in Procs, IInv, Reliable' => Reliable, MountRef(p)
  PROVE  IInv'
<1> USE DEF IInv
<1>0. PICK d, x, row : /\ d = req[p].digest /\ x = NewRef(p)
                       /\ row = IncrementRefCount(EnsureActive(blobs[d]))
  OBVIOUS
<1>1. d \in Digests /\ x \in BlobRef /\ x.digest = d /\ OrgOf[req[p].repo] \in Orgs
  BY <1>0, RequestRefs
<1>2. /\ digestLock[d] = NoProc /\ x \notin blobRefs
      /\ blobRefs' = blobRefs \union {x} /\ blobs' = [blobs EXCEPT ![d] = row]
      /\ Finish(p) /\ UNCHANGED <<cas, digestLock, todo, faults>>
  BY <1>0 DEF MountRef, Free
<1>3. row \in BlobRow /\ row.refCount = blobs[d].refCount + 1 /\ row.state = "active"
  BY <1>0, <1>1, RowFacts DEF TypeOK
<1>4. Reliable => d \in cas
  BY <1>0 DEF ProcInv, ProcOK, Pinned, MountRef
<1>5. used' \in [Orgs -> Nat]
  <2>1. Size[d] \in Int
    BY <1>1, ConstantsAssumption
  <2>2. AdjustStorageUsed(OrgOf[req[p].repo], Size[d]) \in [Orgs -> Nat]
    BY <1>1, <2>1, AdjustType
  <2> QED BY <1>0, <2>2 DEF MountRef, TypeOK
<1>6. TypeOK' /\ ProcOK(p)' /\ \A q \in Procs \ {p} : pc'[q] = pc[q] /\ req'[q] = req[q]
  BY <1>1, <1>2, <1>3, <1>5, FinishOK DEF TypeOK
<1>7. \A c \in Digests : /\ c # d => blobs'[c] = blobs[c] /\ RefsTo(c)' = RefsTo(c)
                         /\ c = d => blobs'[c] = row
  BY <1>1, <1>2 DEF TypeOK, RefsTo
<1>8. x \in RefsTo(d)'
  BY <1>1, <1>2 DEF RefsTo
<1>9. IsFiniteSet(blobRefs') /\ Cardinality(RefsTo(d)') = Cardinality(RefsTo(d)) + 1
  <2>1. /\ RefsTo(d) = {y \in blobRefs : y.digest = x.digest}
        /\ RefsTo(d)' = {y \in blobRefs \union {x} : y.digest = x.digest}
    BY <1>1, <1>2 DEF RefsTo
  <2>2. IsFiniteSet(blobRefs) /\ x \notin blobRefs /\ blobRefs' = blobRefs \union {x}
    BY <1>2 DEF Ledger
  <2>3. /\ IsFiniteSet(blobRefs \union {x})
        /\ Cardinality({y \in blobRefs \union {x} : y.digest = x.digest})
             = Cardinality({y \in blobRefs : y.digest = x.digest}) + 1
    BY <2>2, AddRef
  <2> QED BY <2>1, <2>2, <2>3
<1>10. Ledger'
  <2>1. RefCountMatchesRefs'
    BY <1>1, <1>3, <1>7, <1>8, <1>9 DEF Ledger, RefCountMatchesRefs
  <2>2. Reliable => ReferencedBytesExist'
    BY <1>1, <1>2, <1>4 DEF Ledger, ReferencedBytesExist
  <2> QED BY <1>9, <2>1, <2>2 DEF Ledger
<1>11. Reliable => \A c \in Digests : Pinned(c) => Pinned(c)'
  BY <1>2, <1>7, <1>8 DEF Pinned
<1>12. ProcInv'
  BY <1>1, <1>2, <1>6, <1>7, <1>11, Frame
<1> QED BY <1>6, <1>10, <1>12

LEMMA ReleaseStep ==
  ASSUME NEW p \in Procs, NEW x \in blobRefs, IInv, Reliable' => Reliable, ReleaseRef(p, x)
  PROVE  IInv'
<1> USE DEF IInv
<1>0. PICK d, row : d = x.digest /\ row = AfterRefDelete(blobs[d])
  OBVIOUS
<1>1. x \in BlobRef /\ d \in Digests /\ OrgOf[x.repo] \in Orgs /\ blobs[d] \in BlobRow
  BY <1>0, ConstantsAssumption DEF TypeOK, BlobRef
<1>2. /\ digestLock[d] = NoProc
      /\ blobRefs' = blobRefs \ {x} /\ blobs' = [blobs EXCEPT ![d] = row]
      /\ todo' = [todo EXCEPT ![p] = {d}] /\ pc' = [pc EXCEPT ![p] = "reclaim"]
      /\ UNCHANGED <<cas, digestLock, req, faults>>
  BY <1>0 DEF ReleaseRef, Free, Goto
<1>3. /\ blobs[d].refCount = Cardinality(RefsTo(d)) /\ blobs[d].state = "active"
  BY <1>0, <1>1 DEF Ledger, RefCountMatchesRefs, RefsTo
<1>4. /\ IsFiniteSet(blobRefs') /\ Cardinality(RefsTo(d)') = blobs[d].refCount - 1
      /\ blobs[d].refCount \in Nat \ {0}
      /\ blobs[d].refCount = 1 <=> RefsTo(d)' = {}
  <2>1. /\ RefsTo(d) = {y \in blobRefs : y.digest = x.digest}
        /\ RefsTo(d)' = {y \in blobRefs \ {x} : y.digest = x.digest}
    BY <1>0, <1>2 DEF RefsTo
  <2>2. IsFiniteSet(blobRefs) /\ x \in blobRefs /\ blobRefs' = blobRefs \ {x}
    BY <1>2 DEF Ledger
  <2>3. /\ IsFiniteSet(blobRefs \ {x})
        /\ Cardinality({y \in blobRefs \ {x} : y.digest = x.digest})
             = Cardinality({y \in blobRefs : y.digest = x.digest}) - 1
        /\ Cardinality({y \in blobRefs : y.digest = x.digest}) \in Nat \ {0}
        /\ Cardinality({y \in blobRefs : y.digest = x.digest}) = 1
             <=> {y \in blobRefs \ {x} : y.digest = x.digest} = {}
    BY <2>2, DropRef
  <2> QED BY <1>3, <2>1, <2>2, <2>3
<1>5. /\ row \in BlobRow /\ row.refCount = blobs[d].refCount - 1
      /\ RefsTo(d)' = {} => row.state = "pending_delete" /\ ~ row.ripe
      /\ RefsTo(d)' # {} => row.state = "active"
  BY <1>0, <1>1, <1>3, <1>4, TriggerFacts
<1>6. used' \in [Orgs -> Nat]
  <2>1. - Size[d] \in Int
    BY <1>1, ConstantsAssumption
  <2>2. AdjustStorageUsed(OrgOf[x.repo], - Size[d]) \in [Orgs -> Nat]
    BY <1>1, <2>1, AdjustType
  <2> QED BY <1>0, <2>2 DEF ReleaseRef, TypeOK
<1>7. TypeOK' /\ ProcOK(p)' /\ \A q \in Procs \ {p} : pc'[q] = pc[q] /\ req'[q] = req[q]
  BY <1>1, <1>2, <1>5, <1>6 DEF TypeOK, PCs, ProcOK
<1>8. \A c \in Digests : /\ c # d => blobs'[c] = blobs[c] /\ RefsTo(c)' = RefsTo(c)
                         /\ c = d => blobs'[c] = row
  BY <1>0, <1>1, <1>2 DEF TypeOK, RefsTo
<1>9. Ledger'
  <2>1. RefCountMatchesRefs'
    BY <1>1, <1>4, <1>5, <1>8 DEF Ledger, RefCountMatchesRefs
  <2> QED BY <1>2, <1>4, <2>1 DEF Ledger, ReferencedBytesExist
<1>10. \A c \in Digests : Pinned(c) => Pinned(c)'
  BY <1>2, <1>5, <1>8 DEF Pinned
<1>11. ProcInv'
  BY <1>1, <1>2, <1>7, <1>8, <1>10, Frame
<1> QED BY <1>7, <1>9, <1>11

(* The references T to c after p's put, given those before.                *)
PutRefsOf(p, c, T) ==
  /\ c = req[p].digest => NewRef(p) \in T
  /\ c = req[p].digest /\ NewRef(p) \notin blobRefs => Cardinality(T) = Cardinality(RefsTo(c)) + 1
  /\ c = req[p].digest /\ NewRef(p) \in blobRefs => T = RefsTo(c)
  /\ c # req[p].digest /\ c = req[p].old /\ DropsOldRef(p) =>
       /\ Cardinality(RefsTo(c)) \in Nat \ {0}
       /\ Cardinality(T) = Cardinality(RefsTo(c)) - 1
       /\ Cardinality(RefsTo(c)) = 1 <=> T = {}
  /\ c # req[p].digest /\ ~ (c = req[p].old /\ DropsOldRef(p)) => T = RefsTo(c)

LEMMA PutRefs ==
  ASSUME NEW p \in Procs, IInv, NEW c \in Digests, NEW T,
         T = {y \in RefsLessOld(p) \union {NewRef(p)} : y.digest = c}
  PROVE  IsFiniteSet(RefsLessOld(p) \union {NewRef(p)}) /\ PutRefsOf(p, c, T)
<1>0. PICK x, z, S, after : /\ x = NewRef(p) /\ z = OldRef(p) /\ S = RefsLessOld(p)
                            /\ after = RefsLessOld(p) \union {NewRef(p)}
  OBVIOUS
<1>t. T = {y \in after : y.digest = c}
  BY <1>0
<1>1. /\ x.digest = req[p].digest /\ z.digest = req[p].old /\ after = S \union {x}
      /\ IsFiniteSet(blobRefs)
  BY <1>0, RequestRefs DEF IInv, Ledger
<1>2. /\ DropsOldRef(p) => z \in blobRefs /\ S = blobRefs \ {z} /\ z.digest # x.digest
      /\ ~ DropsOldRef(p) => S = blobRefs
  <2>1. CASE Replaces(p)
    <3>1. S = blobRefs \ {z} /\ z.digest # x.digest
      BY <1>0, <1>1, <2>1 DEF RefsLessOld, Replaces
    <3>2. DropsOldRef(p) <=> z \in blobRefs
      BY <1>0, <2>1 DEF DropsOldRef
    <3>3. z \notin blobRefs => blobRefs \ {z} = blobRefs
      OBVIOUS
    <3> QED BY <3>1, <3>2, <3>3
  <2>2. CASE ~ Replaces(p)
    BY <1>0, <2>2 DEF RefsLessOld, DropsOldRef
  <2> QED BY <2>1, <2>2
<1>3. {y \in S : y.digest = x.digest} = {y \in blobRefs : y.digest = x.digest}
      /\ (x \in S <=> x \in blobRefs) /\ IsFiniteSet(S)
  BY <1>1, <1>2, FS_Subset
<1>4. ASSUME x \notin S
      PROVE  Cardinality({y \in S \union {x} : y.digest = x.digest})
               = Cardinality({y \in S : y.digest = x.digest}) + 1
  <2>1. IsFiniteSet(S)
    BY <1>3
  <2> QED BY <1>4, <2>1, AddRef
<1>5. IsFiniteSet(after)
  BY <1>1, <1>3, FS_AddElement
<1>6. CASE c = req[p].digest
  <2>1. CASE x \in blobRefs
    <3>1. after = S
      BY <1>1, <1>3, <2>1
    <3>2. T = RefsTo(c) /\ x \in T
      BY <1>1, <1>3, <1>6, <1>t, <2>1, <3>1 DEF RefsTo
    <3> QED BY <1>0, <1>5, <1>6, <2>1, <3>2 DEF PutRefsOf
  <2>2. CASE x \notin blobRefs
    <3>1. RefsTo(c) = {y \in S : y.digest = x.digest}
          /\ T = {y \in S \union {x} : y.digest = x.digest} /\ x \in T
      BY <1>1, <1>3, <1>6, <1>t DEF RefsTo
    <3> QED BY <1>0, <1>3, <1>4, <1>5, <1>6, <2>2, <3>1 DEF PutRefsOf
  <2> QED BY <2>1, <2>2
<1>7. CASE c # req[p].digest
  <2>1. T = {y \in S : y.digest = c}
    BY <1>1, <1>7, <1>t
  <2>2. CASE c = req[p].old /\ DropsOldRef(p)
    <3>1. /\ Cardinality({y \in blobRefs \ {z} : y.digest = z.digest})
               = Cardinality({y \in blobRefs : y.digest = z.digest}) - 1
          /\ Cardinality({y \in blobRefs : y.digest = z.digest}) \in Nat \ {0}
          /\ Cardinality({y \in blobRefs : y.digest = z.digest}) = 1
               <=> {y \in blobRefs \ {z} : y.digest = z.digest} = {}
      BY <1>1, <1>2, <2>2, DropRef
    <3>2. RefsTo(c) = {y \in blobRefs : y.digest = z.digest}
          /\ T = {y \in blobRefs \ {z} : y.digest = z.digest}
      BY <1>1, <1>2, <2>1, <2>2 DEF RefsTo
    <3> QED BY <1>0, <1>5, <1>7, <2>2, <3>1, <3>2 DEF PutRefsOf
  <2>3. CASE ~ (c = req[p].old /\ DropsOldRef(p))
    <3>1. {y \in S : y.digest = c} = RefsTo(c)
      BY <1>1, <1>2, <2>3 DEF RefsTo
    <3> QED BY <1>0, <1>5, <1>7, <2>1, <2>3, <3>1 DEF PutRefsOf
  <2> QED BY <2>2, <2>3
<1> QED BY <1>6, <1>7

(* What p's put does to the row and the references of c.                   *)
LEMMA PutRow ==
  ASSUME NEW p \in Procs, IInv, CommitPut(p), NEW c \in Digests
  PROVE  /\ blobs'[c] \in BlobRow
         /\ blobs'[c].refCount = Cardinality(RefsTo(c)')
         /\ RefsTo(c)' # {} => blobs'[c].state = "active"
         /\ RefsTo(c)' = {} => blobs'[c].state # "active"
         /\ c \notin LocksOf(p) => blobs'[c] = blobs[c] /\ RefsTo(c)' = RefsTo(c)
         /\ Reliable /\ Pinned(c) => Pinned(c)'
<1> USE DEF IInv
<1>0. PICK row : row = blobs[c]
  OBVIOUS
<1>1. /\ RefsTo(c)' = {y \in RefsLessOld(p) \union {NewRef(p)} : y.digest = c}
      /\ blobs'[c] = RowAfterPut(p, c) /\ cas' = cas
  BY DEF CommitPut, RefsTo
<1>p. PutRefsOf(p, c, RefsTo(c)')
  BY <1>1, PutRefs, Zenon
<1>2. /\ row \in BlobRow /\ row.refCount = Cardinality(RefsTo(c)) /\ row.refCount \in Nat
      /\ RefsTo(c) # {} => row.state = "active"
      /\ RefsTo(c) = {} => row.state # "active"
  BY <1>0 DEF TypeOK, Ledger, RefCountMatchesRefs, BlobRow
<1>3. Reliable /\ c = req[p].digest => c \in cas
  BY DEF ProcInv, ProcOK, CommitPut
<1>4. CASE c = req[p].digest
  <2>1. RefsTo(c)' # {} /\ c \in LocksOf(p)
    BY <1>1, <1>4, <1>p DEF PutRefsOf, LocksOf
  <2>2. CASE NewRef(p) \in blobRefs
    <3>1. RefsTo(c)' = RefsTo(c) /\ blobs'[c] = EnsureActive(row)
      BY <1>0, <1>1, <1>4, <2>2, <1>p DEF PutRefsOf, RowAfterPut
    <3> QED BY <1>1, <1>2, <1>3, <1>4, <2>1, <3>1, RowFacts DEF Pinned
  <2>3. CASE NewRef(p) \notin blobRefs
    <3>1. Cardinality(RefsTo(c)') = Cardinality(RefsTo(c)) + 1
      BY <1>1, <1>4, <2>3, <1>p DEF PutRefsOf
    <3>2. blobs'[c] = IncrementRefCount(EnsureActive(row))
      BY <1>0, <1>1, <1>4, <2>3 DEF RowAfterPut
    <3> QED BY <1>1, <1>2, <1>3, <1>4, <2>1, <3>1, <3>2, RowFacts DEF Pinned
  <2> QED BY <2>2, <2>3
<1>5. CASE c # req[p].digest /\ c = req[p].old /\ DropsOldRef(p)
  <2>1. /\ Cardinality(RefsTo(c)) \in Nat \ {0}
        /\ Cardinality(RefsTo(c)') = Cardinality(RefsTo(c)) - 1
        /\ Cardinality(RefsTo(c)) = 1 <=> RefsTo(c)' = {}
    BY <1>1, <1>5, <1>p DEF PutRefsOf
  <2>2. row.refCount # 0 /\ RefsTo(c) # {} /\ c \in LocksOf(p)
    BY <1>2, <1>5, <2>1, FS_EmptySet DEF LocksOf
  <2>3. blobs'[c] = AfterRefDelete(row)
    BY <1>0, <1>1, <1>5 DEF RowAfterPut
  <2> QED BY <1>1, <1>2, <2>1, <2>2, <2>3, TriggerFacts DEF Pinned
<1>6. CASE c # req[p].digest /\ ~ (c = req[p].old /\ DropsOldRef(p))
  <2>1. RefsTo(c)' = RefsTo(c)
    BY <1>1, <1>6, <1>p DEF PutRefsOf
  <2>2. blobs'[c] = blobs[c]
    BY <1>1, <1>6 DEF RowAfterPut
  <2> QED BY <1>0, <1>1, <1>2, <2>1, <2>2 DEF Pinned
<1> QED BY <1>4, <1>5, <1>6

LEMMA CommitPutStep ==
  ASSUME NEW p \in Procs, IInv, Reliable' => Reliable, CommitPut(p)
  PROVE  IInv'
<1> USE DEF IInv
<1>0. /\ digestLock' = Unlocked(p) /\ UNCHANGED <<cas, faults>>
      /\ blobs' = [d \in Digests |-> RowAfterPut(p, d)]
      /\ blobRefs' = RefsLessOld(p) \union {NewRef(p)}
      /\ used' = AdjustStorageUsed(OrgOf[req[p].repo], NetDelta(p))
  BY DEF CommitPut
<1>1. \A d \in Digests : /\ blobs'[d] \in BlobRow
                         /\ blobs'[d].refCount = Cardinality(RefsTo(d)')
                         /\ RefsTo(d)' # {} => blobs'[d].state = "active"
                         /\ RefsTo(d)' = {} => blobs'[d].state # "active"
                         /\ d \notin LocksOf(p) => blobs'[d] = blobs[d]
                         /\ Reliable /\ Pinned(d) => Pinned(d)'
  BY PutRow
<1>2. /\ ProcOK(p)'
      /\ pc' \in [Procs -> PCs] /\ req' \in [Procs -> Request]
      /\ todo' \in [Procs -> SUBSET Digests]
      /\ \A q \in Procs \ {p} : pc'[q] = pc[q] /\ req'[q] = req[q]
  <2>1. CASE Replaces(p)
    <3>1. req[p].old \in Digests
      BY RequestRefs
    <3> QED BY <2>1, <3>1 DEF CommitPut, Goto, TypeOK, PCs, ProcOK
  <2>2. CASE ~ Replaces(p)
    BY <2>2, FinishOK DEF CommitPut, TypeOK
  <2> QED BY <2>1, <2>2
<1>3. used' \in [Orgs -> Nat]
  <2>1. Size[req[p].digest] \in Nat /\ Size[req[p].old] \in Nat /\ OrgOf[req[p].repo] \in Orgs
    BY RequestRefs, ConstantsAssumption
  <2>2. NetDelta(p) \in Int
    BY <2>1 DEF NetDelta
  <2> QED BY <1>0, <2>1, <2>2, AdjustType
<1>4. blobRefs' \in SUBSET BlobRef
  BY <1>0, RequestRefs DEF TypeOK, RefsLessOld
<1>5. TypeOK'
  <2>1. blobs' \in [Digests -> BlobRow]
    BY <1>0, <1>1
  <2> QED BY <1>0, <1>2, <1>3, <1>4, <2>1, UnlockedOK DEF TypeOK
<1>6. Ledger'
  <2>1. IsFiniteSet(blobRefs')
    <3>1. RefsLessOld(p) \subseteq blobRefs
      BY DEF RefsLessOld
    <3>2. IsFiniteSet(RefsLessOld(p))
      BY <3>1, FS_Subset DEF Ledger
    <3> QED BY <1>0, <3>2, FS_AddElement
  <2>2. RefCountMatchesRefs'
    BY <1>1 DEF RefCountMatchesRefs
  <2>3. Reliable => ReferencedBytesExist'
    <3>1. Reliable => req[p].digest \in cas
      BY DEF ProcInv, ProcOK, CommitPut
    <3> QED BY <1>0, <3>1, RequestRefs DEF Ledger, ReferencedBytesExist, RefsLessOld
  <2> QED BY <2>1, <2>2, <2>3 DEF Ledger
<1>7. ProcInv'
  <2>1. \A d \in LocksOf(p) : digestLock[d] = p
    BY DEF ProcInv, ProcOK, CommitPut
  <2>2. \A d \in Digests : digestLock[d] \notin {p, NoProc} =>
          blobs'[d] = blobs[d] /\ (d \in cas => d \in cas')
    BY <1>0, <1>1, <2>1
  <2> QED BY <1>0, <1>1, <1>2, <2>2, Frame, UnlockedOK
<1> QED BY <1>5, <1>6, <1>7

-----------------------------------------------------------------------------
(* The invariant is inductive.                                             *)

LEMMA FaultsCount ==
  ASSUME [Next]_vars
  PROVE  faults' \in {faults, faults + 1}
<1>1. ASSUME NEW p \in Procs, Start(p) \/ Sweep(p) PROVE faults' = faults
  BY <1>1 DEF Start, StartStore, StartStoreStream, StartReplace, StartMount, OpenBlob,
              BeginPut, BeginAccess, ReleaseRef, Sweep, SelectCandidates
<1>2. ASSUME NEW p \in Procs, PutStep(p) PROVE faults' = faults
  BY <1>2 DEF PutStep, HeadObject, WriteObject, AcquireDigestLock, StatFound, StatMissing,
              CommitPut, QuotaExceeded, DiscardCheck, DiscardDelete
<1>3. ASSUME NEW p \in Procs, AccessStep(p) \/ ReclaimStep(p) PROVE faults' = faults
  BY <1>3 DEF AccessStep, RefuseMount, MountRef, ReadBytes, ReclaimStep, ReclaimDeleteRow,
              ReclaimDeleteObject, ReclaimCommit, LateDelete
<1>4. ASSUME NEW p \in Procs, FaultStep(p) PROVE faults' = faults + 1
  BY <1>4 DEF FaultStep, WriteFails, StatFails, ReclaimDeleteFails, DiscardDeleteFails,
              Crash, SessionLost, Fault
<1> QED BY <1>1, <1>2, <1>3, <1>4 DEF Next, vars, GraceElapses

(* The session ends under a process that holds locks: its transaction      *)
(* changed nothing, and what its S3 call still does costs bytes, not rows. *)
LEMMA SessionStep ==
  ASSUME NEW p \in Procs, IInv, Reliable' => Reliable, SessionLost(p)
  PROVE  IInv'
<1> USE DEF IInv
<1>0. req[p].digest \in Digests /\ faults' \in 0..MaxFaults
  BY ConstantsAssumption DEF TypeOK, Request, SessionLost, Fault
<1>1. ~ Reliable'
  BY DEF SessionLost, Fault, TypeOK, Reliable
<1>2. UNCHANGED <<cas, blobs, blobRefs, used>> /\ digestLock' = Unlocked(p)
  BY DEF SessionLost, RollbackPut
<1>3. /\ ProcOK(p)' /\ pc' \in [Procs -> PCs] /\ req' \in [Procs -> Request]
      /\ todo' \in [Procs -> SUBSET Digests]
      /\ \A q \in Procs \ {p} : pc'[q] = pc[q] /\ req'[q] = req[q]
  <2>1. CASE RollbackPut(p)
    <3>1. CASE req[p].deduped
      BY <2>1, <3>1, FinishOK DEF RollbackPut, TypeOK
    <3>2. CASE ~ req[p].deduped
      BY <1>1, <2>1, <3>2 DEF RollbackPut, Goto, TypeOK, PCs, ProcOK
    <3> QED BY <3>1, <3>2
  <2>2. CASE Goto(p, "lateDelete") /\ UNCHANGED <<req, todo>>
    BY <1>1, <2>2 DEF Goto, TypeOK, PCs, ProcOK
  <2>3. CASE NextCandidate(p, req[p].digest)
    BY <1>0, <2>3, NextCandidateOK
  <2> QED BY <2>1, <2>2, <2>3 DEF SessionLost
<1>4. TypeOK'
  BY <1>0, <1>2, <1>3, UnlockedOK DEF TypeOK
<1> QED BY <1>2, <1>3, <1>4, ControlStep, UnlockedOK

LEMMA LateStep ==
  ASSUME NEW p \in Procs, IInv, Reliable' => Reliable, LateDelete(p)
  PROVE  IInv'
<1> USE DEF IInv
<1>0. req[p].digest \in Digests /\ ProcOK(p)
  BY DEF TypeOK, Request, ProcInv
<1>1. ~ Reliable
  BY <1>0 DEF LateDelete, ProcOK
<1>2. /\ cas' = cas \ {req[p].digest} /\ NextCandidate(p, req[p].digest)
      /\ UNCHANGED <<blobs, blobRefs, used, digestLock, faults>>
  BY DEF LateDelete
<1>3. /\ ProcOK(p)' /\ pc' \in [Procs -> PCs] /\ req' \in [Procs -> Request]
      /\ todo' \in [Procs -> SUBSET Digests]
      /\ \A q \in Procs \ {p} : pc'[q] = pc[q] /\ req'[q] = req[q]
  BY <1>0, <1>2, NextCandidateOK
<1>4. TypeOK'
  BY <1>2, <1>3 DEF TypeOK
<1> QED BY <1>1, <1>2, <1>3, <1>4, CasStep

LEMMA NextIInv ==
  ASSUME IInv, [Next]_vars
  PROVE  IInv'
<1>0. Reliable' => Reliable
  BY FaultsCount DEF Reliable, IInv, TypeOK
<1>1. CASE UNCHANGED vars
  <2>1. UNCHANGED <<cas, blobs, blobRefs>>
    BY <1>1 DEF vars
  <2>2. Ledger' /\ \A d \in Digests : Pinned(d) => Pinned(d)'
    BY <1>0, <2>1, Quiet
  <2>3. TypeOK'
    BY <1>1 DEF vars, IInv, TypeOK
  <2>4. ASSUME NEW p \in Procs PROVE ProcOK(p)'
    <3>1. ProcOK(p) /\ req[p].digest \in Digests
      BY DEF IInv, ProcInv, TypeOK, Request
    <3> QED BY <1>0, <1>1, <2>2, <3>1 DEF vars, ProcOK, Reclaimable, LocksOf
  <2> QED BY <2>2, <2>3, <2>4 DEF IInv, ProcInv
<1>2. ASSUME NEW d \in Digests, GraceElapses(d) PROVE IInv'
  BY <1>0, <1>2, GraceStep
<1>3. ASSUME NEW p \in Procs,
             Start(p) \/ Sweep(p) \/ PutStep(p) \/ AccessStep(p) \/ ReclaimStep(p) \/ FaultStep(p)
      PROVE  IInv'
  <2>2. ASSUME NEW x \in blobRefs, ReleaseRef(p, x) PROVE IInv'
    BY <1>0, <2>2, ReleaseStep
  <2>3. CASE Start(p)
    BY <1>0, <2>2, <2>3, StartStep
  <2>4. CASE Sweep(p)
    BY <1>0, <2>4, PutControlStep
  <2>5. CASE PutStep(p)
    <3>1. CASE CommitPut(p)
      BY <1>0, <3>1, CommitPutStep
    <3>2. CASE WriteObject(p)
      BY <1>0, <3>2, WriteStep
    <3>3. CASE DiscardDelete(p)
      BY <1>0, <3>3, EraseStep
    <3> QED BY <1>0, <2>5, <3>1, <3>2, <3>3, PutControlStep DEF PutStep
  <2>6. CASE AccessStep(p)
    BY <1>0, <2>6, MountStep, PutControlStep DEF AccessStep
  <2>7. CASE ReclaimStep(p)
    BY <1>0, <2>7, LateStep, ReclaimCommitStep, EraseStep, PutControlStep DEF ReclaimStep
  <2>8. CASE FaultStep(p)
    <3>1. CASE StatFails(p)
      BY <1>0, <3>1, PutControlStep
    <3>2. CASE WriteFails(p)
      BY <1>0, <3>2, WriteStep
    <3>3. CASE ReclaimDeleteFails(p) \/ DiscardDeleteFails(p)
      BY <1>0, <3>3, EraseStep
    <3> QED BY <1>0, <2>8, <3>1, <3>2, <3>3, CrashStep, SessionStep DEF FaultStep
  <2> QED BY <1>3, <2>3, <2>4, <2>5, <2>6, <2>7, <2>8
<1> QED BY <1>1, <1>2, <1>3 DEF Next

LEMMA InductiveInvariant == Spec => []IInv
<1>1. IInv /\ [Next]_vars => IInv'
  BY NextIInv
<1> QED BY <1>1, InitIInv, PTL DEF Spec

(* Every table, lock and request keeps its shape in every behaviour: a     *)
(* count or a quota never goes below zero (blobs.ts, quota.ts).            *)
THEOREM TypeCorrect == Spec => []TypeOK
<1>1. IInv => TypeOK
  BY DEF IInv
<1> QED BY <1>1, InductiveInvariant, PTL

(* The trigger, the upserts and the reclaim keep blobs.ref_count equal to  *)
(* the number of blob_refs rows, and pending_delete to its absence, even   *)
(* when sessions end under a running reclaim or the grace period is short: *)
(* those cost bytes, never counts.                                         *)
THEOREM RefCountExact == Spec => []RefCountMatchesRefs
<1>1. IInv => RefCountMatchesRefs
  BY DEF IInv, Ledger
<1> QED BY <1>1, InductiveInvariant, PTL

(* No interleaving of puts, discards, mounts, releases, reclaims, crashes  *)
(* and failed S3 calls loses the bytes of a referenced digest (blobs.ts).  *)
THEOREM ReferencedBytesSafe ==
  ASSUME GraceOutlastsRequests, "session" \notin Faults
  PROVE  Spec => []ReferencedBytesExist
<1>1. IInv => ReferencedBytesExist
  BY DEF IInv, Ledger, Reliable
<1> QED BY <1>1, InductiveInvariant, PTL

(* The grace period covers whoever resolved a digest before its last       *)
(* reference was released (schema.ts, BLOB_GC_GRACE_SECONDS).              *)
THEOREM ResolvedBytesSafe ==
  ASSUME GraceOutlastsRequests, "session" \notin Faults
  PROVE  Spec => []ResolvedBytesExist
<1>1. IInv => ResolvedBytesExist
  BY DEF IInv, Reliable, ProcInv, ProcOK, Pinned, ResolvedBytesExist
<1> QED BY <1>1, InductiveInvariant, PTL

(* The stat under the digest lock holds until the commit (blobs.ts:294).   *)
THEOREM CommitFindsBytes ==
  ASSUME GraceOutlastsRequests, "session" \notin Faults
  PROVE  Spec => []BytesExistAtCommit
<1>1. IInv => BytesExistAtCommit
  BY DEF IInv, Reliable, ProcInv, ProcOK, BytesExistAtCommit
<1> QED BY <1>1, InductiveInvariant, PTL

-----------------------------------------------------------------------------
(* Refinement: every step of the blob store is a step of ContentStore or   *)
(* leaves its variables alone.                                             *)

LEMMA ReferencedIsRefsTo ==
  ASSUME NEW d, RefsTo(d) = {} PROVE d \notin Contract!Referenced
BY DEF RefsTo, Contract!Referenced

LEMMA PutRefines ==
  ASSUME NEW p \in Procs, IInv, Reliable, CommitPut(p)
  PROVE  Contract!Next
<1>1. NewRef(p) \in BlobRef /\ OldRef(p) \in BlobRef /\ NewRef(p).digest \in cas
  BY RequestRefs DEF IInv, ProcInv, ProcOK, CommitPut
<1>2. PICK replaced \in SUBSET BlobRef :
        /\ RefsLessOld(p) = blobRefs \ replaced
        /\ \A y, z \in replaced : y = z
  <2>1. CASE Replaces(p)
    <3>1. /\ {OldRef(p)} \in SUBSET BlobRef
          /\ RefsLessOld(p) = blobRefs \ {OldRef(p)}
          /\ \A y, z \in {OldRef(p)} : y = z
      BY <1>1, <2>1 DEF RefsLessOld
    <3> QED BY <3>1
  <2>2. CASE ~ Replaces(p)
    <3>1. /\ {} \in SUBSET BlobRef
          /\ RefsLessOld(p) = blobRefs \ {}
          /\ \A y, z \in {} : y = z
      BY <2>2 DEF RefsLessOld
    <3> QED BY <3>1
  <2> QED BY <2>1, <2>2
<1>3. Contract!Reference(NewRef(p), replaced)
  BY <1>1, <1>2 DEF CommitPut, Contract!Reference
<1> QED BY <1>1, <1>2, <1>3 DEF Contract!Next

LEMMA StepRefines ==
  ASSUME GraceOutlastsRequests, "session" \notin Faults, IInv, [Next]_vars
  PROVE  [Contract!Next]_Contract!vars
<1> SUFFICES ASSUME ~ UNCHANGED <<cas, blobRefs>> PROVE Contract!Next
  BY DEF Contract!vars
<1>0. Reliable
  BY DEF Reliable
<1>1. PICK p \in Procs :
        \/ \E x \in blobRefs : ReleaseRef(p, x)
        \/ WriteObject(p) \/ CommitPut(p) \/ DiscardDelete(p) \/ MountRef(p)
        \/ ReclaimDeleteObject(p) \/ LateDelete(p) \/ FaultStep(p)
  <2>1. PICK p \in Procs :
          Start(p) \/ Sweep(p) \/ PutStep(p) \/ AccessStep(p) \/ ReclaimStep(p) \/ FaultStep(p)
    BY DEF Next, vars, GraceElapses
  <2>2. Start(p) => \E x \in blobRefs : ReleaseRef(p, x)
    BY DEF Start, StartStore, StartStoreStream, StartReplace, BeginPut, StartMount, OpenBlob, BeginAccess
  <2>3. ~ Sweep(p)
    BY DEF Sweep, SelectCandidates
  <2>4. PutStep(p) => WriteObject(p) \/ CommitPut(p) \/ DiscardDelete(p)
    BY DEF PutStep, HeadObject, AcquireDigestLock, StatFound, StatMissing, QuotaExceeded, RollbackPut, DiscardCheck
  <2>5. AccessStep(p) => MountRef(p)
    BY DEF AccessStep, RefuseMount, ReadBytes
  <2>6. ReclaimStep(p) => ReclaimDeleteObject(p) \/ LateDelete(p)
    BY DEF ReclaimStep, ReclaimDeleteRow, ReclaimCommit
  <2> QED BY <2>1, <2>2, <2>3, <2>4, <2>5, <2>6
<1>2. req[p].digest \in Digests /\ ProcOK(p)
  BY DEF IInv, TypeOK, ProcInv, Request
<1>3. ASSUME NEW x \in blobRefs, ReleaseRef(p, x) PROVE Contract!Next
  <2>1. x \in BlobRef /\ Contract!Release(x)
    BY <1>3 DEF ReleaseRef, Contract!Release, IInv, TypeOK
  <2> QED BY <2>1 DEF Contract!Next
<1>4. CASE cas' = cas \union {req[p].digest} /\ UNCHANGED blobRefs
  BY <1>2, <1>4 DEF Contract!Write, Contract!Next
<1>5. CASE /\ cas' = cas \ {req[p].digest} /\ UNCHANGED blobRefs
           /\ pc[p] \in {"unput", "gcdelete"}
  <2>1. req[p].digest \notin Contract!Referenced
    BY <1>5, Erasable, ReferencedIsRefsTo
  <2> QED BY <1>2, <1>5, <2>1 DEF Contract!Erase, Contract!Next
<1>6. CASE MountRef(p)
  <2>1. NewRef(p) \in BlobRef /\ NewRef(p).digest \in cas
    BY <1>0, <1>2, <1>6, RequestRefs DEF MountRef, ProcOK, Pinned, IInv
  <2>2. /\ {} \in SUBSET BlobRef /\ Contract!Reference(NewRef(p), {})
        /\ \A y, z \in {} : y = z
    BY <1>6, <2>1 DEF MountRef, Contract!Reference
  <2> QED BY <2>1, <2>2 DEF Contract!Next
<1>7. CASE WriteObject(p) \/ DiscardDelete(p) \/ ReclaimDeleteObject(p)
  BY <1>4, <1>5, <1>7 DEF WriteObject, DiscardDelete, ReclaimDeleteObject
<1>8. CASE FaultStep(p)
  <2>1. /\ UNCHANGED blobRefs
        /\ \/ cas' = cas \union {req[p].digest}
           \/ cas' = cas \ {req[p].digest} /\ pc[p] \in {"unput", "gcdelete"}
    BY <1>0, <1>2, <1>8 DEF FaultStep, WriteFails, StatFails, RollbackPut, ReclaimDeleteFails, DiscardDeleteFails,
         Crash, SessionLost, Fault, MaybeWritten, MaybeDeleted, ProcOK
  <2> QED BY <1>4, <1>5, <2>1
<1> QED BY <1>0, <1>1, <1>2, <1>3, <1>6, <1>7, <1>8, PutRefines DEF LateDelete, ProcOK

(* The blob store implements ContentStore: bytes are only ever referenced  *)
(* when present, and only erased when unreferenced (blobs.ts).             *)
THEOREM ImplementsContract ==
  ASSUME GraceOutlastsRequests, "session" \notin Faults
  PROVE  Spec => ContractSpec
<1>1. Init => Contract!Init
  BY DEF Init, Contract!Init
<1>2. IInv /\ [Next]_vars => [Contract!Next]_Contract!vars
  BY StepRefines
<1> QED BY <1>1, <1>2, InductiveInvariant, PTL DEF Spec, ContractSpec, Contract!Spec

-----------------------------------------------------------------------------
(* Digest locks are taken in order, whatever fails: no session, crash or   *)
(* grace assumption is needed for this.                                    *)

(* Where a process holds no digest lock.                                   *)
Lockless == {"idle", "head", "write", "discard", "mount", "read", "reclaim", "lateDelete"}

(* What it holds while it takes its locks comes before what it still needs.*)
LockOK(p) ==
  /\ pc[p] \in Lockless => HeldBy(p) = {}
  /\ pc[p] = "lock" => /\ HeldBy(p) \subseteq LocksOf(p)
                       /\ \A d \in HeldBy(p), e \in LocksOf(p) \ HeldBy(p) : d < e

LockTypes ==
  /\ blobRefs \subseteq BlobRef
  /\ digestLock \in [Digests -> Procs \union {NoProc}]
  /\ pc \in [Procs -> PCs]
  /\ req \in [Procs -> Request]

LockInv == LockTypes /\ \A p \in Procs : LockOK(p)

(* A step of p that hands its request over, keeps it or ends it.           *)
Moves(p) ==
  /\ pc' \in [Procs -> PCs] /\ req' \in [Procs -> Request]
  /\ \A q \in Procs \ {p} : pc'[q] = pc[q] /\ req'[q] = req[q]

LEMMA FinishMoves ==
  ASSUME NEW p \in Procs, LockTypes, Finish(p)
  PROVE  Moves(p) /\ pc'[p] = "idle"
BY BlankType DEF Finish, Goto, LockTypes, Moves, PCs

LEMMA GotoMoves ==
  ASSUME NEW p \in Procs, LockTypes, NEW label \in PCs, Goto(p, label), req' = req
  PROVE  Moves(p) /\ pc'[p] = label
BY DEF Goto, LockTypes, Moves

LEMMA NextCandidateMoves ==
  ASSUME NEW p \in Procs, NEW d, LockTypes, NextCandidate(p, d)
  PROVE  Moves(p) /\ pc'[p] \in Lockless
<1>1. CASE Finish(p)
  BY <1>1, FinishMoves DEF Lockless
<1>2. CASE Goto(p, "reclaim") /\ req' = req
  <2>1. "reclaim" \in PCs
    BY DEF PCs
  <2> QED BY <1>2, <2>1, GotoMoves DEF Lockless
<1> QED BY <1>1, <1>2 DEF NextCandidate

LEMMA OthersLocks ==
  ASSUME NEW p \in Procs, LockInv, Moves(p), blobRefs' \subseteq BlobRef,
         digestLock' \in [Digests -> Procs \union {NoProc}],
         \A q \in Procs \ {p} : HeldBy(q)' = HeldBy(q),
         LockOK(p)'
  PROVE  LockInv'
<1>1. ASSUME NEW q \in Procs \ {p} PROVE LockOK(q)'
  <2>1. pc'[q] = pc[q] /\ LocksOf(q)' = LocksOf(q) /\ HeldBy(q)' = HeldBy(q) /\ LockOK(q)
    BY DEF Moves, LocksOf, LockInv
  <2> QED BY <2>1 DEF LockOK
<1> QED BY <1>1 DEF LockInv, LockTypes, Moves

(* No lock changes hands, and p is where it needs none, or at its first.   *)
LEMMA KeepsLocks ==
  ASSUME NEW p \in Procs, LockInv, Moves(p), blobRefs' \subseteq BlobRef, digestLock' = digestLock,
         \/ pc[p] \in Lockless /\ pc'[p] \in Lockless \union {"lock"}
         \/ pc'[p] \notin Lockless \union {"lock"}
  PROVE  LockInv'
<1>1. \A q \in Procs : HeldBy(q)' = HeldBy(q)
  BY DEF HeldBy
<1>2. LockOK(p)'
  BY <1>1 DEF LockOK, LockInv
<1> QED BY <1>1, <1>2, OthersLocks DEF LockInv, LockTypes

(* The transaction ends, and its locks with it.                            *)
LEMMA DropsLocks ==
  ASSUME NEW p \in Procs, LockInv, Moves(p), blobRefs' \subseteq BlobRef, digestLock' = Unlocked(p),
         pc'[p] \in Lockless
  PROVE  LockInv'
<1>1. digestLock' \in [Digests -> Procs \union {NoProc}]
  BY DEF Unlocked, LockInv, LockTypes
<1>2. \A q \in Procs \ {p} : HeldBy(q)' = HeldBy(q)
  BY ConstantsAssumption DEF Unlocked, HeldBy
<1>3. HeldBy(p)' = {}
  BY ConstantsAssumption DEF Unlocked, HeldBy
<1>4. LockOK(p)'
  BY <1>3 DEF LockOK, Lockless
<1> QED BY <1>1, <1>2, <1>4, OthersLocks

(* A free digest is locked.                                                *)
LEMMA TakesLock ==
  ASSUME NEW p \in Procs, LockInv, Moves(p), blobRefs' \subseteq BlobRef, NEW d \in Digests, Free(d),
         digestLock' = [digestLock EXCEPT ![d] = p], LockOK(p)'
  PROVE  LockInv' /\ HeldBy(p)' = HeldBy(p) \union {d}
<1>1. digestLock' \in [Digests -> Procs \union {NoProc}]
  BY DEF LockInv, LockTypes
<1>2. \A q \in Procs \ {p} : HeldBy(q)' = HeldBy(q)
  BY ConstantsAssumption DEF HeldBy, Free, LockInv, LockTypes
<1>3. HeldBy(p)' = HeldBy(p) \union {d}
  BY DEF HeldBy, LockInv, LockTypes
<1> QED BY <1>1, <1>2, <1>3, OthersLocks

LEMMA AcquireLocks ==
  ASSUME NEW p \in Procs, LockInv, NEW d \in Digests, AcquireDigestLock(p, d)
  PROVE  LockInv'
<1>1. /\ pc[p] = "lock" /\ NextLock(p, d) /\ Free(d)
      /\ digestLock' = [digestLock EXCEPT ![d] = p] /\ UNCHANGED <<blobRefs, req>>
  BY DEF AcquireDigestLock
<1>2. HeldBy(p)' = HeldBy(p) \union {d} /\ LocksOf(p)' = LocksOf(p)
  BY <1>1 DEF HeldBy, LocksOf, LockInv, LockTypes
<1>3. CASE LocksOf(p) \subseteq HeldBy(p) \union {d}
  <2>1. Moves(p) /\ pc'[p] = "stat"
    BY <1>1, <1>3, GotoMoves DEF AcquireDigestLock, LockInv, PCs
  <2>2. LockOK(p)'
    BY <2>1 DEF LockOK, Lockless
  <2> QED BY <1>1, <2>1, <2>2, TakesLock DEF LockInv, LockTypes
<1>4. CASE ~ (LocksOf(p) \subseteq HeldBy(p) \union {d})
  <2>1. pc' = pc /\ Moves(p)
    BY <1>1, <1>4 DEF AcquireDigestLock, Moves, LockInv, LockTypes
  <2>2. /\ LocksOf(p) \subseteq Digests /\ Digests \subseteq Nat
        /\ d \in LocksOf(p) \ HeldBy(p) /\ \A e \in LocksOf(p) \ HeldBy(p) : d <= e
        /\ HeldBy(p) \subseteq LocksOf(p)
        /\ \A c \in HeldBy(p), e \in LocksOf(p) \ HeldBy(p) : c < e
    BY <1>1, ConstantsAssumption DEF LocksOf, NextLock, LockInv, LockTypes, LockOK, Request
  <2>3. LockOK(p)'
    <3>1. ASSUME NEW c \in HeldBy(p) \union {d}, NEW e \in LocksOf(p) \ (HeldBy(p) \union {d})
          PROVE  c < e
      <4>1. e \in Nat /\ d \in Nat /\ d <= e /\ d # e
        BY <2>2, <3>1
      <4> QED BY <2>2, <3>1, <4>1
    <3> QED BY <1>1, <1>2, <2>1, <2>2, <3>1 DEF LockOK, Lockless
  <2> QED BY <1>1, <2>1, <2>3, TakesLock DEF LockInv, LockTypes
<1> QED BY <1>3, <1>4

LEMMA RollbackLocks ==
  ASSUME NEW p \in Procs, LockInv, RollbackPut(p) PROVE LockInv'
<1>1. Moves(p) /\ pc'[p] \in {"idle", "discard"}
  <2>1. CASE req[p].deduped
    BY <2>1, FinishMoves DEF RollbackPut, LockInv
  <2>2. CASE ~ req[p].deduped
    BY <2>2, GotoMoves DEF RollbackPut, LockInv, PCs
  <2> QED BY <2>1, <2>2
<1> QED BY <1>1, DropsLocks DEF RollbackPut, LockInv, LockTypes, Lockless

LEMMA StartLocks ==
  ASSUME NEW p \in Procs, LockInv, Start(p) PROVE LockInv'
<1>1. ASSUME NEW r \in Request, NEW label \in {"head", "mount", "read"}, pc[p] = "idle",
             req' = [req EXCEPT ![p] = r], Goto(p, label), UNCHANGED <<blobRefs, digestLock>>
      PROVE  LockInv'
  <2>1. Moves(p) /\ pc'[p] = label
    BY <1>1 DEF Goto, Moves, LockInv, LockTypes, PCs
  <2> QED BY <1>1, <2>1, KeepsLocks DEF LockInv, LockTypes, Lockless
<1>2. ASSUME NEW r \in Repos, NEW s \in Slots, NEW d \in Digests,
             \/ StartStore(p, r, s, d) \/ StartStoreStream(p, r, s, d)
             \/ \E old \in Digests : StartReplace(p, r, s, d, old)
      PROVE  LockInv'
  <2>1. PICK old \in Digests :
          BeginPut(p, [repo |-> r, slot |-> s, digest |-> d, old |-> old, deduped |-> FALSE])
    BY <1>2 DEF StartStore, StartStoreStream, StartReplace, RequestFor
  <2>2. [repo |-> r, slot |-> s, digest |-> d, old |-> old, deduped |-> FALSE] \in Request
    BY DEF Request
  <2> QED BY <1>1, <2>1, <2>2 DEF BeginPut
<1>3. ASSUME NEW x \in BlobRef, NEW label \in {"mount", "read"}, BeginAccess(p, label, x)
      PROVE  LockInv'
  <2>1. RequestFor(x.repo, x.slot, x.digest) \in Request
    BY DEF RequestFor, Request, BlobRef
  <2> QED BY <1>1, <1>3, <2>1 DEF BeginAccess
<1>4. ASSUME NEW r \in Repos, NEW s \in Slots, NEW d \in Digests, StartMount(p, r, s, d)
      PROVE  LockInv'
  <2>1. [repo |-> r, slot |-> s, digest |-> d] \in BlobRef
    BY DEF BlobRef
  <2> QED BY <1>3, <1>4, <2>1 DEF StartMount
<1>5. ASSUME NEW x \in blobRefs, OpenBlob(p, x) PROVE LockInv'
  BY <1>3, <1>5 DEF OpenBlob, LockInv, LockTypes
<1>6. ASSUME NEW x \in blobRefs, ReleaseRef(p, x) PROVE LockInv'
  <2>1. /\ pc[p] = "idle" /\ Goto(p, "reclaim") /\ UNCHANGED <<digestLock, req>>
        /\ blobRefs' \subseteq blobRefs
    BY <1>6 DEF ReleaseRef
  <2>2. Moves(p) /\ pc'[p] = "reclaim"
    BY <2>1, GotoMoves DEF LockInv, PCs
  <2> QED BY <2>1, <2>2, KeepsLocks DEF LockInv, LockTypes, Lockless
<1> QED BY <1>2, <1>4, <1>5, <1>6 DEF Start

LEMMA PutLocks ==
  ASSUME NEW p \in Procs, LockInv, PutStep(p) PROVE LockInv'
<1>1. req[p] \in Request /\ req[p].repo \in Repos /\ req[p].slot \in Slots
      /\ req[p].digest \in Digests
  BY DEF LockInv, LockTypes, Request
<1>2. CASE HeadObject(p)
  <2>1. [req[p] EXCEPT !.deduped = TRUE] \in Request
    BY <1>1 DEF Request
  <2>2. Moves(p) /\ pc'[p] \in {"lock", "write"}
    BY <1>2, <2>1 DEF HeadObject, Goto, Moves, LockInv, LockTypes, PCs
  <2> QED BY <1>2, <2>2, KeepsLocks DEF HeadObject, LockInv, LockTypes, Lockless
<1>3. CASE WriteObject(p)
  <2>1. Moves(p) /\ pc'[p] = "lock"
    BY <1>3, GotoMoves DEF WriteObject, LockInv, PCs
  <2> QED BY <1>3, <2>1, KeepsLocks DEF WriteObject, LockInv, LockTypes, Lockless
<1>4. CASE StatFound(p)
  <2>1. Moves(p) /\ pc'[p] = "commit"
    BY <1>4, GotoMoves DEF StatFound, LockInv, PCs
  <2> QED BY <1>4, <2>1, KeepsLocks DEF StatFound, LockInv, LockTypes, Lockless
<1>5. CASE StatMissing(p) \/ QuotaExceeded(p)
  BY <1>5, RollbackLocks DEF StatMissing, QuotaExceeded
<1>6. CASE CommitPut(p)
  <2>1. blobRefs' \subseteq BlobRef
    BY <1>1, <1>6 DEF CommitPut, NewRef, RefsLessOld, BlobRef, LockInv, LockTypes
  <2>2. Moves(p) /\ pc'[p] \in {"idle", "reclaim"}
    <3>1. CASE Finish(p)
      BY <3>1, FinishMoves DEF LockInv
    <3>2. CASE Goto(p, "reclaim") /\ req' = req
      BY <3>2, GotoMoves DEF LockInv, PCs
    <3> QED BY <1>6, <3>1, <3>2 DEF CommitPut
  <2> QED BY <1>6, <2>1, <2>2, DropsLocks DEF CommitPut, Lockless
<1>7. CASE DiscardCheck(p)
  <2>1. CASE blobs[req[p].digest].state # "none"
    <3>1. Moves(p) /\ pc'[p] = "idle"
      BY <1>7, <2>1, FinishMoves DEF DiscardCheck, LockInv
    <3> QED BY <1>7, <2>1, <3>1, KeepsLocks DEF DiscardCheck, LockInv, LockTypes, Lockless
  <2>2. CASE ~ (blobs[req[p].digest].state # "none")
    <3>1. Moves(p) /\ pc'[p] = "unput"
      BY <1>7, <2>2, GotoMoves DEF DiscardCheck, LockInv, PCs
    <3>2. LockOK(p)'
      BY <3>1 DEF LockOK, Lockless
    <3> QED BY <1>1, <1>7, <2>2, <3>1, <3>2, TakesLock DEF DiscardCheck, LockInv, LockTypes
  <2> QED BY <2>1, <2>2
<1>8. CASE DiscardDelete(p)
  <2>1. Moves(p) /\ pc'[p] = "idle"
    BY <1>8, FinishMoves DEF DiscardDelete, LockInv
  <2> QED BY <1>8, <2>1, DropsLocks DEF DiscardDelete, LockInv, LockTypes, Lockless
<1> QED BY <1>2, <1>3, <1>4, <1>5, <1>6, <1>7, <1>8, AcquireLocks DEF PutStep

LEMMA AccessLocks ==
  ASSUME NEW p \in Procs, LockInv, AccessStep(p) PROVE LockInv'
<1>1. /\ pc[p] \in {"mount", "read"} /\ Finish(p) /\ digestLock' = digestLock
  BY DEF AccessStep, RefuseMount, MountRef, ReadBytes
<1>2. blobRefs' \subseteq BlobRef
  <2>1. NewRef(p) \in BlobRef
    BY DEF NewRef, BlobRef, LockInv, LockTypes, Request
  <2> QED BY <2>1 DEF AccessStep, RefuseMount, MountRef, ReadBytes, LockInv, LockTypes
<1>3. Moves(p) /\ pc'[p] = "idle"
  BY <1>1, FinishMoves DEF LockInv
<1> QED BY <1>1, <1>2, <1>3, KeepsLocks DEF Lockless

LEMMA ReclaimLocks ==
  ASSUME NEW p \in Procs, LockInv, ReclaimStep(p) \/ Sweep(p) PROVE LockInv'
<1>1. ASSUME NEW d \in Digests, ReclaimDeleteRow(p, d) PROVE LockInv'
  <2>1. CASE Reclaimable(d)
    <3>1. /\ Free(d) /\ digestLock' = [digestLock EXCEPT ![d] = p] /\ blobRefs' = blobRefs
          /\ req' = [req EXCEPT ![p] = RequestFor(req[p].repo, req[p].slot, d)]
          /\ Goto(p, "gcdelete")
      BY <1>1, <2>1 DEF ReclaimDeleteRow
    <3>2. RequestFor(req[p].repo, req[p].slot, d) \in Request
      BY RequestForType DEF LockInv, LockTypes
    <3>3. Moves(p) /\ pc'[p] = "gcdelete"
      BY <3>1, <3>2 DEF Goto, Moves, LockInv, LockTypes, PCs
    <3>4. LockOK(p)'
      BY <3>3 DEF LockOK, Lockless
    <3> QED BY <3>1, <3>3, <3>4, TakesLock DEF LockInv, LockTypes
  <2>2. CASE ~ Reclaimable(d)
    <3>1. NextCandidate(p, d) /\ UNCHANGED <<digestLock, blobRefs>> /\ pc[p] = "reclaim"
      BY <1>1, <2>2 DEF ReclaimDeleteRow
    <3>2. Moves(p) /\ pc'[p] \in Lockless
      BY <3>1, NextCandidateMoves DEF LockInv
    <3> QED BY <3>1, <3>2, KeepsLocks DEF LockInv, LockTypes, Lockless
  <2> QED BY <2>1, <2>2
<1>2. CASE ReclaimDeleteObject(p)
  <2>1. Moves(p) /\ pc'[p] = "gccommit"
    BY <1>2, GotoMoves DEF ReclaimDeleteObject, LockInv, PCs
  <2> QED BY <1>2, <2>1, KeepsLocks DEF ReclaimDeleteObject, LockInv, LockTypes, Lockless
<1>3. CASE ReclaimCommit(p)
  <2>1. Moves(p) /\ pc'[p] \in Lockless
    BY <1>3, NextCandidateMoves DEF ReclaimCommit, LockInv
  <2> QED BY <1>3, <2>1, DropsLocks DEF ReclaimCommit, LockInv, LockTypes
<1>4. CASE LateDelete(p)
  <2>1. Moves(p) /\ pc'[p] \in Lockless
    BY <1>4, NextCandidateMoves DEF LateDelete, LockInv
  <2> QED BY <1>4, <2>1, KeepsLocks DEF LateDelete, LockInv, LockTypes, Lockless
<1>5. CASE Sweep(p)
  <2>1. pc[p] = "idle" /\ Goto(p, "reclaim") /\ UNCHANGED <<blobRefs, digestLock, req>>
    BY <1>5 DEF Sweep, SelectCandidates
  <2>2. Moves(p) /\ pc'[p] = "reclaim"
    BY <2>1, GotoMoves DEF LockInv, PCs
  <2> QED BY <2>1, <2>2, KeepsLocks DEF LockInv, LockTypes, Lockless
<1> QED BY <1>1, <1>2, <1>3, <1>4, <1>5 DEF ReclaimStep

LEMMA FaultLocks ==
  ASSUME NEW p \in Procs, LockInv, FaultStep(p) PROVE LockInv'
<1>1. CASE WriteFails(p)
  <2>1. Moves(p) /\ pc'[p] = "idle"
    BY <1>1, FinishMoves DEF WriteFails, LockInv
  <2> QED BY <1>1, <2>1, KeepsLocks DEF WriteFails, LockInv, LockTypes, Lockless
<1>2. CASE ReclaimDeleteFails(p)
  <2>1. Moves(p) /\ pc'[p] \in Lockless
    BY <1>2, NextCandidateMoves DEF ReclaimDeleteFails, LockInv
  <2> QED BY <1>2, <2>1, DropsLocks DEF ReclaimDeleteFails, LockInv, LockTypes
<1>3. CASE DiscardDeleteFails(p) \/ Crash(p)
  <2>1. Moves(p) /\ pc'[p] = "idle"
    BY <1>3, FinishMoves DEF DiscardDeleteFails, Crash, LockInv
  <2> QED BY <1>3, <2>1, DropsLocks DEF DiscardDeleteFails, Crash, LockInv, LockTypes, Lockless
<1>4. CASE SessionLost(p)
  <2>1. CASE RollbackPut(p)
    BY <2>1, RollbackLocks
  <2>2. CASE digestLock' = Unlocked(p) /\ Goto(p, "lateDelete") /\ UNCHANGED <<blobRefs, req>>
    <3>1. Moves(p) /\ pc'[p] = "lateDelete"
      BY <2>2, GotoMoves DEF LockInv, PCs
    <3> QED BY <2>2, <3>1, DropsLocks DEF LockInv, LockTypes, Lockless
  <2>3. CASE digestLock' = Unlocked(p) /\ NextCandidate(p, req[p].digest) /\ blobRefs' = blobRefs
    <3>1. Moves(p) /\ pc'[p] \in Lockless
      BY <2>3, NextCandidateMoves DEF LockInv
    <3> QED BY <2>3, <3>1, DropsLocks DEF LockInv, LockTypes
  <2> QED BY <1>4, <2>1, <2>2, <2>3 DEF SessionLost
<1> QED BY <1>1, <1>2, <1>3, <1>4, RollbackLocks DEF FaultStep, StatFails

LEMMA LockInvInductive ==
  /\ Init => LockInv
  /\ LockInv /\ [Next]_vars => LockInv'
<1>1. ASSUME Init PROVE LockInv
  <2>1. LockTypes
    BY <1>1, BlankType DEF Init, LockTypes, PCs
  <2>2. \A p \in Procs : LockOK(p)
    BY <1>1, ConstantsAssumption DEF Init, LockOK, HeldBy
  <2> QED BY <2>1, <2>2 DEF LockInv
<1>2. ASSUME LockInv, UNCHANGED <<blobRefs, digestLock, pc, req>> PROVE LockInv'
  BY <1>2 DEF LockInv, LockTypes, LockOK, HeldBy, LocksOf
<1>3. ASSUME LockInv, [Next]_vars PROVE LockInv'
  <2>1. CASE UNCHANGED vars
    BY <1>2, <1>3, <2>1 DEF vars
  <2>2. ASSUME NEW d \in Digests, GraceElapses(d) PROVE LockInv'
    BY <1>2, <1>3, <2>2 DEF GraceElapses
  <2> QED BY <1>3, <2>1, <2>2, StartLocks, PutLocks, AccessLocks, ReclaimLocks, FaultLocks DEF Next
<1> QED BY <1>1, <1>3

(* Two transactions never wait for each other's digest lock, sessions that *)
(* end and crashes included: lockDigestsTx sorts, and a transaction holds  *)
(* no digest lock when it starts to take its own (blobs.ts).               *)
THEOREM LocksAreOrdered == Spec => []NoLockCycle
<1>1. LockInv => NoLockCycle
  <2>1. SUFFICES ASSUME LockInv, NEW p \in Procs, NEW q \in Procs,
                        NEW d \in Digests, NEW e \in Digests,
                        pc[p] = "lock", NextLock(p, d), digestLock[d] = q,
                        pc[q] = "lock", NextLock(q, e), digestLock[e] = p
                 PROVE  FALSE
    BY DEF NoLockCycle
  <2>2. d \in HeldBy(q) /\ e \in LocksOf(q) \ HeldBy(q)
    BY <2>1 DEF HeldBy, NextLock
  <2>3. e \in HeldBy(p) /\ d \in LocksOf(p) \ HeldBy(p)
    BY <2>1 DEF HeldBy, NextLock
  <2>4. d < e /\ e < d /\ d \in Nat /\ e \in Nat
    BY <2>1, <2>2, <2>3, ConstantsAssumption DEF LockInv, LockOK
  <2> QED BY <2>4
<1> QED BY <1>1, LockInvInductive, PTL DEF Spec

-----------------------------------------------------------------------------
(* Bytes without a row.  A digest is doomed when it has no row, or when a  *)
(* reclaim has erased its bytes and is about to commit: until then the row *)
(* is still there for the others, and a put may write the bytes again.     *)

Doomed(d) ==
  \/ blobs[d].state = "none"
  \/ \E p \in Procs : pc[p] = "gccommit" /\ req[p].digest = d

(* p wrote the bytes of d and has neither recorded nor discarded them.     *)
Writer(p, d) ==
  /\ pc[p] \in {"lock", "stat", "commit", "discard", "unput"}
  /\ req[p].digest = d /\ ~ req[p].deduped

(* What a put found when it asked for the object is not known before.      *)
NotAsked(p) == pc[p] \in {"head", "write"} => ~ req[p].deduped

OrphanOK ==
  /\ \A p \in Procs : NotAsked(p)
  /\ \A d \in cas : Doomed(d) => \E p \in Procs : Writer(p, d)

(* No session ends and no call fails before the first fault, so the other  *)
(* invariants hold until then whatever the faults of the instance are.     *)
OrphanInv == faults \in Nat /\ (faults = 0 => IInv /\ OrphanOK)

Others(p) == \A q \in Procs \ {p} : pc'[q] = pc[q] /\ req'[q] = req[q]

LEMMA OrphanStep ==
  ASSUME NEW p \in Procs, OrphanOK, Others(p), NotAsked(p)',
         \A d \in cas' : Doomed(d)' =>
            Writer(p, d)' \/ (d \in cas /\ Doomed(d) /\ ~ Writer(p, d))
  PROVE  OrphanOK'
<1>1. ASSUME NEW q \in Procs PROVE NotAsked(q)'
  BY DEF OrphanOK, Others, NotAsked
<1>2. ASSUME NEW d \in cas', Doomed(d)' PROVE \E q \in Procs : Writer(q, d)'
  <2>1. CASE d \in cas /\ Doomed(d) /\ ~ Writer(p, d)
    <3>1. PICK q \in Procs : Writer(q, d)
      BY <2>1 DEF OrphanOK
    <3>2. Writer(q, d)'
      BY <2>1, <3>1 DEF Others, Writer
    <3> QED BY <3>2
  <2> QED BY <1>2, <2>1
<1> QED BY <1>1, <1>2 DEF OrphanOK

(* Steps that write no bytes, delete no row and end no reclaim.            *)
LEMMA OrphanQuiet ==
  ASSUME NEW p \in Procs, OrphanOK, Others(p), NotAsked(p)', cas \subseteq Digests, cas' \subseteq cas,
         \A d \in Digests : blobs'[d].state = "none" => blobs[d].state = "none",
         pc'[p] # "gccommit",
         \A d \in cas' : Doomed(d)' /\ Writer(p, d) => Writer(p, d)'
  PROVE  OrphanOK'
<1>1. ASSUME NEW d \in cas', Doomed(d)' PROVE d \in cas /\ Doomed(d)
  BY <1>1 DEF Doomed, Others
<1> QED BY <1>1, OrphanStep

LEMMA GotoOthers ==
  ASSUME NEW p \in Procs, NEW label \in PCs, TypeOK, Goto(p, label), req' = req
  PROVE  Others(p) /\ pc'[p] = label /\ req'[p] = req[p]
BY DEF Goto, TypeOK, Others

LEMMA FinishOthers ==
  ASSUME NEW p \in Procs, TypeOK, Finish(p)
  PROVE  Others(p) /\ pc'[p] = "idle"
BY DEF Finish, Goto, TypeOK, Others

LEMMA NextCandidateOthers ==
  ASSUME NEW p \in Procs, NEW d, TypeOK, NextCandidate(p, d)
  PROVE  Others(p) /\ pc'[p] \in {"idle", "reclaim"}
<1>1. CASE Finish(p)
  BY <1>1, FinishOthers
<1>2. CASE Goto(p, "reclaim") /\ req' = req
  BY <1>2, GotoOthers DEF PCs
<1> QED BY <1>1, <1>2 DEF NextCandidate

LEMMA OrphanStart ==
  ASSUME NEW p \in Procs, IInv, OrphanOK, Start(p) \/ Sweep(p)
  PROVE  OrphanOK'
<1> USE DEF IInv
<1>0. pc[p] = "idle" /\ cas' = cas
  BY DEF Start, Sweep, StartStore, StartStoreStream, StartReplace, StartMount, OpenBlob,
         BeginPut, BeginAccess, ReleaseRef, SelectCandidates
<1>1. ~ \E d \in cas : Writer(p, d)
  BY <1>0 DEF Writer
<1>2. ASSUME NEW q, BeginPut(p, q), ~ q.deduped PROVE OrphanOK'
  <2>1. Others(p) /\ NotAsked(p)' /\ pc'[p] = "head" /\ blobs' = blobs
    BY <1>2 DEF BeginPut, Goto, TypeOK, Others, NotAsked
  <2> QED BY <1>0, <1>1, <2>1, OrphanQuiet DEF TypeOK
<1>3. ASSUME NEW x, NEW label \in {"mount", "read"}, BeginAccess(p, label, x) PROVE OrphanOK'
  <2>1. Others(p) /\ NotAsked(p)' /\ pc'[p] = label /\ blobs' = blobs
    BY <1>3 DEF BeginAccess, Goto, TypeOK, Others, NotAsked
  <2> QED BY <1>0, <1>1, <2>1, OrphanQuiet DEF TypeOK
<1>4. ASSUME NEW x \in blobRefs, ReleaseRef(p, x) PROVE OrphanOK'
  <2>1. pc' = [pc EXCEPT ![p] = "reclaim"] /\ req' = req
        /\ blobs' = [blobs EXCEPT ![x.digest] = AfterRefDelete(blobs[x.digest])]
    BY <1>4 DEF ReleaseRef, Goto
  <2>2. Others(p) /\ NotAsked(p)' /\ pc'[p] = "reclaim"
    BY <2>1 DEF TypeOK, Others, NotAsked
  <2>3. blobs[x.digest].state = "active"
    BY DEF Ledger, RefCountMatchesRefs, RefsTo, TypeOK, BlobRef
  <2>4. AfterRefDelete(blobs[x.digest]).state # "none"
    <3>1. x.digest \in Digests /\ blobs[x.digest] \in BlobRow
      BY DEF TypeOK, BlobRef
    <3> QED BY <2>3, <3>1 DEF AfterRefDelete, BlobRow
  <2>5. \A d \in Digests : blobs'[d].state = "none" => blobs[d].state = "none"
    BY <2>1, <2>4 DEF TypeOK
  <2> QED BY <1>0, <1>1, <2>2, <2>5, OrphanQuiet DEF TypeOK
<1>5. CASE Sweep(p)
  <2>1. Goto(p, "reclaim") /\ UNCHANGED <<req, blobs>>
    BY <1>5 DEF Sweep, SelectCandidates
  <2>2. Others(p) /\ pc'[p] = "reclaim"
    BY <2>1, GotoOthers DEF PCs
  <2> QED BY <1>0, <1>1, <2>1, <2>2, OrphanQuiet DEF TypeOK, NotAsked
<1>6. ASSUME NEW r \in Repos, NEW s \in Slots, NEW d \in Digests, NEW old \in Digests
      PROVE  /\ StartStore(p, r, s, d) \/ StartStoreStream(p, r, s, d) => OrphanOK'
             /\ StartReplace(p, r, s, d, old) => OrphanOK'
             /\ StartMount(p, r, s, d) => OrphanOK'
  BY <1>2, <1>3 DEF StartStore, StartStoreStream, StartReplace, StartMount, RequestFor
<1>7. \A x \in blobRefs : OpenBlob(p, x) => OrphanOK'
  BY <1>3 DEF OpenBlob
<1> QED BY <1>4, <1>5, <1>6, <1>7 DEF Start

LEMMA OrphanAccess ==
  ASSUME NEW p \in Procs, IInv, OrphanOK, AccessStep(p)
  PROVE  OrphanOK'
<1> USE DEF IInv
<1>1. /\ pc[p] \in {"mount", "read"} /\ Finish(p) /\ cas' = cas
  BY DEF AccessStep, RefuseMount, MountRef, ReadBytes
<1>2. Others(p) /\ pc'[p] = "idle"
  BY <1>1, FinishOthers
<1>3. \A d \in Digests : blobs'[d].state = "none" => blobs[d].state = "none"
  <2>1. CASE MountRef(p)
    <3>1. PICK c, row : /\ c = req[p].digest /\ row = IncrementRefCount(EnsureActive(blobs[c]))
      OBVIOUS
    <3>2. c \in Digests /\ blobs[c] \in BlobRow /\ blobs' = [blobs EXCEPT ![c] = row]
      BY <2>1, <3>1, RequestRefs DEF MountRef, TypeOK
    <3>3. row.state = "active"
      BY <3>1, <3>2, RowFacts
    <3> QED BY <3>2, <3>3 DEF TypeOK
  <2> QED BY <2>1 DEF AccessStep, RefuseMount, ReadBytes
<1> QED BY <1>1, <1>2, <1>3, OrphanQuiet DEF TypeOK, NotAsked, Writer

LEMMA OrphanReclaim ==
  ASSUME NEW p \in Procs, IInv, Reliable, OrphanOK, ReclaimStep(p)
  PROVE  OrphanOK'
<1> USE DEF IInv
<1>0. cas \subseteq Digests /\ ~ LateDelete(p)
  BY DEF TypeOK, LateDelete, ProcInv, ProcOK
<1>1. ASSUME NEW d \in Digests, ReclaimDeleteRow(p, d) PROVE OrphanOK'
  <2>1. pc[p] = "reclaim" /\ UNCHANGED <<cas, blobs>>
    BY <1>1 DEF ReclaimDeleteRow
  <2>2. Others(p) /\ pc'[p] \in {"gcdelete", "idle", "reclaim"}
    <3>1. CASE Reclaimable(d)
      BY <1>1, <3>1 DEF ReclaimDeleteRow, Goto, TypeOK, Others
    <3>2. CASE ~ Reclaimable(d)
      BY <1>1, <3>2, NextCandidateOthers DEF ReclaimDeleteRow
    <3> QED BY <3>1, <3>2
  <2> QED BY <1>0, <2>1, <2>2, OrphanQuiet DEF NotAsked, Writer
<1>2. CASE ReclaimDeleteObject(p)
  <2>1. /\ pc[p] = "gcdelete" /\ cas' = cas \ {req[p].digest} /\ Goto(p, "gccommit")
        /\ UNCHANGED <<blobs, req>>
    BY <1>2 DEF ReclaimDeleteObject
  <2>2. Others(p) /\ pc'[p] = "gccommit" /\ req'[p] = req[p]
    BY <2>1, GotoOthers DEF PCs
  <2>3. ASSUME NEW d \in cas', Doomed(d)' PROVE d \in cas /\ Doomed(d) /\ ~ Writer(p, d)
    BY <2>1, <2>2, <2>3 DEF Doomed, Others, Writer
  <2> QED BY <2>2, <2>3, OrphanStep DEF NotAsked
<1>3. CASE ReclaimCommit(p)
  <2>1. /\ pc[p] = "gccommit" /\ cas' = cas /\ NextCandidate(p, req[p].digest)
        /\ blobs' = [blobs EXCEPT ![req[p].digest] = NoRow]
    BY <1>3 DEF ReclaimCommit
  <2>2. Others(p) /\ pc'[p] \in {"idle", "reclaim"}
    BY <2>1, NextCandidateOthers
  <2>3. ASSUME NEW d \in cas', Doomed(d)' PROVE d \in cas /\ Doomed(d) /\ ~ Writer(p, d)
    <3>1. CASE d = req[p].digest
      BY <2>1, <3>1 DEF Doomed, Writer
    <3>2. CASE d # req[p].digest
      BY <1>0, <2>1, <2>2, <2>3, <3>2 DEF Doomed, Others, Writer, TypeOK
    <3> QED BY <3>1, <3>2
  <2> QED BY <2>2, <2>3, OrphanStep DEF NotAsked
<1> QED BY <1>0, <1>1, <1>2, <1>3 DEF ReclaimStep

(* A put that does not write or record its bytes: it keeps them on its     *)
(* hands, or discards them when no row claims them.                        *)
LEMMA OrphanPut ==
  ASSUME NEW p \in Procs, IInv, OrphanOK, PutStep(p), ~ WriteObject(p), ~ CommitPut(p)
  PROVE  OrphanOK'
<1> USE DEF IInv
<1>0. cas \subseteq Digests /\ req[p].digest \in Digests /\ ProcOK(p)
  BY RequestRefs DEF TypeOK, ProcInv
<1>1. blobs' = blobs
  BY DEF PutStep, HeadObject, AcquireDigestLock, StatFound, StatMissing, QuotaExceeded,
         RollbackPut, DiscardCheck, DiscardDelete
<1>2. CASE HeadObject(p)
  <2>1. pc[p] = "head" /\ cas' = cas
    BY <1>2 DEF HeadObject
  <2>2. Others(p) /\ NotAsked(p)' /\ pc'[p] \in {"lock", "write"}
    <3>1. CASE Goto(p, "lock") /\ req' = [req EXCEPT ![p].deduped = TRUE]
      BY <3>1 DEF Goto, TypeOK, Others, NotAsked
    <3>2. CASE Goto(p, "write") /\ req' = req
      BY <2>1, <3>2 DEF Goto, TypeOK, Others, NotAsked, OrphanOK
    <3> QED BY <1>2, <3>1, <3>2 DEF HeadObject
  <2> QED BY <1>0, <1>1, <2>1, <2>2, OrphanQuiet DEF Writer
<1>3. CASE StatFound(p) \/ \E d \in Digests : AcquireDigestLock(p, d)
  <2>1. /\ pc[p] \in {"lock", "stat"} /\ UNCHANGED <<cas, req>>
        /\ Goto(p, "commit") \/ Goto(p, "stat") \/ pc' = pc
    BY <1>3 DEF StatFound, AcquireDigestLock
  <2>2. Others(p) /\ pc'[p] \in {"lock", "stat", "commit"} /\ req'[p] = req[p]
    BY <2>1 DEF Goto, TypeOK, Others
  <2> QED BY <1>0, <1>1, <2>1, <2>2, OrphanQuiet DEF NotAsked, Writer
<1>4. CASE StatMissing(p) \/ QuotaExceeded(p)
  <2>1. pc[p] \in {"stat", "commit"} /\ cas' = cas /\ RollbackPut(p)
    BY <1>4 DEF StatMissing, QuotaExceeded, RollbackPut
  <2>2. CASE req[p].deduped
    BY <1>0, <1>1, <2>1, <2>2, FinishOthers, OrphanQuiet DEF RollbackPut, NotAsked, Writer
  <2>3. CASE ~ req[p].deduped
    <3>1. Others(p) /\ pc'[p] = "discard" /\ req'[p] = req[p]
      BY <2>1, <2>3, GotoOthers DEF RollbackPut, PCs
    <3> QED BY <1>0, <1>1, <2>1, <3>1, OrphanQuiet DEF NotAsked, Writer
  <2> QED BY <2>2, <2>3
<1>5. CASE DiscardCheck(p)
  <2>1. pc[p] = "discard" /\ cas' = cas /\ Free(req[p].digest)
    BY <1>5 DEF DiscardCheck
  <2>2. CASE blobs[req[p].digest].state # "none"
    <3>1. Others(p) /\ pc'[p] = "idle"
      BY <1>5, <2>2, FinishOthers DEF DiscardCheck
    <3>2. ~ Doomed(req[p].digest)
      BY <2>1, <2>2, ConstantsAssumption DEF Doomed, ProcInv, ProcOK, Free
    <3>3. \A d : Doomed(d)' => Doomed(d)
      BY <1>1, <3>1 DEF Doomed, Others
    <3>4. \A d \in cas' : Writer(p, d) => ~ Doomed(d)'
      BY <3>2, <3>3 DEF Writer
    <3> QED BY <1>0, <1>1, <2>1, <3>1, <3>4, OrphanQuiet DEF NotAsked
  <2>3. CASE blobs[req[p].digest].state = "none"
    <3>1. Others(p) /\ pc'[p] = "unput" /\ req'[p] = req[p]
      BY <1>5, <2>3, GotoOthers DEF DiscardCheck, PCs
    <3> QED BY <1>0, <1>1, <2>1, <3>1, OrphanQuiet DEF NotAsked, Writer
  <2> QED BY <2>2, <2>3
<1>6. CASE DiscardDelete(p)
  <2>1. cas' = cas \ {req[p].digest} /\ Others(p) /\ pc'[p] = "idle"
    BY <1>6, FinishOthers DEF DiscardDelete
  <2> QED BY <1>0, <1>1, <2>1, OrphanQuiet DEF NotAsked, Writer
<1> QED BY <1>2, <1>3, <1>4, <1>5, <1>6 DEF PutStep

LEMMA OrphanWrite ==
  ASSUME NEW p \in Procs, IInv, OrphanOK, WriteObject(p)
  PROVE  OrphanOK'
<1> USE DEF IInv
<1>0. PICK c : c = req[p].digest
  OBVIOUS
<1>1. /\ pc[p] = "write" /\ cas' = cas \union {c} /\ Goto(p, "lock")
      /\ UNCHANGED <<blobs, req>>
  BY <1>0 DEF WriteObject
<1>2. Others(p) /\ pc'[p] = "lock" /\ req'[p] = req[p] /\ ~ req[p].deduped
  BY <1>1, GotoOthers DEF PCs, OrphanOK, NotAsked
<1>3. Writer(p, c)'
  BY <1>0, <1>2 DEF Writer
<1>4. ASSUME NEW d \in cas', Doomed(d)', d # c
      PROVE  d \in cas /\ Doomed(d) /\ ~ Writer(p, d)
  BY <1>1, <1>2, <1>4 DEF Doomed, Others, Writer
<1>5. \A d \in cas' : Doomed(d)' => Writer(p, d)' \/ (d \in cas /\ Doomed(d) /\ ~ Writer(p, d))
  BY <1>3, <1>4
<1> QED BY <1>2, <1>5, OrphanStep DEF NotAsked

LEMMA OrphanCommit ==
  ASSUME NEW p \in Procs, IInv, OrphanOK, CommitPut(p)
  PROVE  OrphanOK'
<1> USE DEF IInv
<1>0. PICK c : c = req[p].digest
  OBVIOUS
<1>a. cas \subseteq Digests /\ cas' = cas /\ c \in Digests /\ pc[p] = "commit"
  BY <1>0, RequestRefs DEF TypeOK, CommitPut
<1>1. digestLock[c] = p
  BY <1>0, <1>a DEF ProcInv, ProcOK, LocksOf
<1>2. Others(p) /\ pc'[p] \in {"idle", "reclaim"}
  BY FinishOthers, GotoOthers DEF CommitPut, PCs
<1>3. blobs' = [d \in Digests |-> RowAfterPut(p, d)]
  BY DEF CommitPut
<1>4. ASSUME NEW d \in Digests, blobs'[d].state = "none" PROVE blobs[d].state = "none" /\ d # c
  <2>1. blobs'[d] = RowAfterPut(p, d) /\ blobs[d] \in BlobRow
    BY <1>3 DEF TypeOK
  <2>2. CASE d = c
    BY <1>0, <1>4, <2>1, <2>2, RowFacts DEF RowAfterPut
  <2>3. CASE d # c /\ d = req[p].old /\ DropsOldRef(p)
    <3>1. blobs[d].state = "active"
      BY <2>3, RequestRefs DEF DropsOldRef, Ledger, RefCountMatchesRefs, RefsTo
    <3>2. blobs'[d] = AfterRefDelete(blobs[d])
      BY <1>0, <2>1, <2>3 DEF RowAfterPut
    <3> QED BY <1>4, <2>1, <3>1, <3>2 DEF AfterRefDelete, BlobRow
  <2>4. CASE d # c /\ ~ (d = req[p].old /\ DropsOldRef(p))
    BY <1>0, <1>4, <2>1, <2>4 DEF RowAfterPut
  <2> QED BY <2>2, <2>3, <2>4
<1>5. ~ Doomed(c)'
  <2>1. ASSUME NEW q \in Procs, pc'[q] = "gccommit", req'[q].digest = c PROVE FALSE
    <3>1. q # p /\ pc[q] = "gccommit" /\ req[q].digest = c
      BY <1>2, <2>1 DEF Others
    <3> QED BY <1>1, <3>1 DEF ProcInv, ProcOK
  <2>2. blobs'[c].state # "none"
    BY <1>a, <1>4
  <2> QED BY <2>1, <2>2 DEF Doomed
<1>6. \A d \in cas' : Writer(p, d) => ~ Doomed(d)'
  BY <1>0, <1>5 DEF Writer
<1> QED BY <1>a, <1>2, <1>4, <1>6, OrphanQuiet DEF NotAsked

LEMMA OrphanNext ==
  ASSUME GraceOutlastsRequests, OrphanInv, [Next]_vars
  PROVE  OrphanInv'
<1>1. faults' \in {faults, faults + 1}
  BY FaultsCount
<1>2. SUFFICES ASSUME faults' = 0 PROVE IInv' /\ OrphanOK'
  BY <1>1 DEF OrphanInv
<1>3. faults = 0 /\ IInv /\ OrphanOK
  BY <1>1, <1>2 DEF OrphanInv
<1>4. IInv' /\ Reliable
  BY <1>3, NextIInv DEF Reliable
<1>5. ASSUME UNCHANGED <<cas, pc, req>>,
             \A d \in Digests : blobs'[d].state = "none" => blobs[d].state = "none"
      PROVE  OrphanOK'
  BY <1>3, <1>5 DEF OrphanOK, NotAsked, Doomed, Writer, IInv, TypeOK
<1>6. ASSUME NEW d \in Digests, GraceElapses(d) PROVE OrphanOK'
  <2>1. UNCHANGED <<cas, pc, req>> /\ blobs' = [blobs EXCEPT ![d].ripe = TRUE]
    BY <1>6 DEF GraceElapses
  <2>2. \A c \in Digests : blobs'[c].state = blobs[c].state
    BY <1>3, <2>1 DEF IInv, TypeOK, BlobRow
  <2> QED BY <1>5, <2>1, <2>2
<1>7. ASSUME NEW p \in Procs PROVE ~ FaultStep(p)
  BY <1>2, <1>3 DEF FaultStep, WriteFails, StatFails, ReclaimDeleteFails, DiscardDeleteFails,
                    Crash, SessionLost, Fault
<1>8. CASE UNCHANGED vars
  <2>1. UNCHANGED <<cas, pc, req>>
    BY <1>8 DEF vars
  <2>2. \A d \in Digests : blobs'[d].state = blobs[d].state
    BY <1>8 DEF vars
  <2> QED BY <1>4, <1>5, <2>1, <2>2
<1> QED BY <1>3, <1>4, <1>6, <1>7, <1>8, OrphanStart, OrphanAccess, OrphanReclaim, OrphanPut,
           OrphanWrite, OrphanCommit DEF Next

(* Until a first fault, no bytes are stranded without a row: whoever wrote *)
(* them is still on the way to record them, or to discard them under the   *)
(* digest's lock (discardUncommittedBlobPut, blobs.ts).                    *)
THEOREM BytesAreClaimed ==
  ASSUME GraceOutlastsRequests
  PROVE  Spec => []NoOrphanBytes
<1>1. Init => OrphanInv
  BY InitIInv DEF Init, OrphanInv, OrphanOK, NotAsked
<1>2. OrphanInv => NoOrphanBytes
  BY DEF OrphanInv, OrphanOK, NoOrphanBytes, Doomed, Writer
<1>3. OrphanInv /\ [Next]_vars => OrphanInv'
  BY OrphanNext
<1> QED BY <1>1, <1>2, <1>3, PTL DEF Spec

-----------------------------------------------------------------------------
(* The maximum of an organisation.                                         *)

QuotaInv == used \in [Orgs -> Nat] /\ QuotaRespected

(* adjustStorageUsedTx keeps the maximum when what raises the usage was    *)
(* admitted by the quota row it updates.                                   *)
LEMMA ChargeKept ==
  ASSUME QuotaInv, NEW o \in Orgs, NEW delta \in Int,
         delta > 0 => StorageQuotaAllows(o, delta),
         used' = AdjustStorageUsed(o, delta)
  PROVE  QuotaInv'
<1>1. PICK after : after = (IF used[o] + delta < 0 THEN 0 ELSE used[o] + delta)
  OBVIOUS
<1>2. used' = IF o \in Metered THEN [used EXCEPT ![o] = after] ELSE used
  BY <1>1 DEF AdjustStorageUsed
<1>3. after \in Nat /\ (o \in Limited => after <= MaxStorage[o])
  BY <1>1, ConstantsAssumption DEF QuotaInv, QuotaRespected, StorageQuotaAllows
<1>4. used' \in [Orgs -> Nat]
  BY <1>2, <1>3 DEF QuotaInv
<1>5. ASSUME NEW c \in Limited PROVE used'[c] <= MaxStorage[c]
  <2>1. c \in Orgs /\ used[c] <= MaxStorage[c]
    BY ConstantsAssumption DEF QuotaInv, QuotaRespected
  <2> QED BY <1>2, <1>3, <2>1 DEF QuotaInv
<1> QED BY <1>4, <1>5 DEF QuotaInv, QuotaRespected

LEMMA QuotaNext ==
  ASSUME LockInv, QuotaInv, [Next]_vars
  PROVE  QuotaInv'
<1>1. ASSUME used' = used PROVE QuotaInv'
  BY <1>1 DEF QuotaInv, QuotaRespected
<1>2. \A p \in Procs : /\ req[p].digest \in Digests /\ req[p].old \in Digests
                       /\ OrgOf[req[p].repo] \in Orgs
  BY ConstantsAssumption DEF LockInv, LockTypes, Request
<1>3. ASSUME NEW p \in Procs, CommitPut(p) PROVE QuotaInv'
  <2>1. Size[req[p].digest] \in Nat /\ Size[req[p].old] \in Nat
    BY <1>2, ConstantsAssumption
  <2>2. NetDelta(p) \in Int
    BY <2>1 DEF NetDelta
  <2> QED BY <1>2, <1>3, <2>2, ChargeKept DEF CommitPut, PutAllowed
<1>4. ASSUME NEW p \in Procs, MountRef(p) PROVE QuotaInv'
  <2>1. PICK o, delta : o = OrgOf[req[p].repo] /\ delta = Size[req[p].digest]
    OBVIOUS
  <2>2. o \in Orgs /\ delta \in Int
    BY <1>2, <2>1, ConstantsAssumption
  <2>3. \/ used' = used
        \/ used' = AdjustStorageUsed(o, delta) /\ StorageQuotaAllows(o, delta)
    BY <1>4, <2>1 DEF MountRef, MountAllowed
  <2> QED BY <1>1, <2>2, <2>3, ChargeKept
<1>5. ASSUME NEW p \in Procs, NEW x \in blobRefs, ReleaseRef(p, x) PROVE QuotaInv'
  <2>1. PICK o, delta : o = OrgOf[x.repo] /\ delta = - Size[x.digest]
    OBVIOUS
  <2>2. o \in Orgs /\ delta \in Int /\ ~ (delta > 0)
    <3>1. x \in BlobRef
      BY DEF LockInv, LockTypes
    <3>2. x.repo \in Repos /\ Size[x.digest] \in Nat
      BY <3>1, ConstantsAssumption DEF BlobRef
    <3> QED BY <2>1, <3>2, ConstantsAssumption
  <2>3. used' = used \/ used' = AdjustStorageUsed(o, delta)
    BY <1>5, <2>1 DEF ReleaseRef
  <2> QED BY <1>1, <2>2, <2>3, ChargeKept
<1>6. ASSUME NEW p \in Procs, Start(p) \/ Sweep(p), ~ \E x \in blobRefs : ReleaseRef(p, x)
      PROVE  used' = used
  BY <1>6 DEF Start, StartStore, StartStoreStream, StartReplace, StartMount, OpenBlob,
              BeginPut, BeginAccess, Sweep, SelectCandidates
<1>7. ASSUME NEW p \in Procs, PutStep(p), ~ CommitPut(p) PROVE used' = used
  BY <1>7 DEF PutStep, HeadObject, WriteObject, AcquireDigestLock, StatFound, StatMissing,
              QuotaExceeded, RollbackPut, DiscardCheck, DiscardDelete
<1>8. ASSUME NEW p \in Procs, AccessStep(p) \/ ReclaimStep(p), ~ MountRef(p) PROVE used' = used
  BY <1>8 DEF AccessStep, RefuseMount, ReadBytes, ReclaimStep, ReclaimDeleteRow,
              ReclaimDeleteObject, ReclaimCommit, LateDelete
<1>9. ASSUME NEW p \in Procs, FaultStep(p) PROVE used' = used
  BY <1>9 DEF FaultStep, WriteFails, StatFails, ReclaimDeleteFails, DiscardDeleteFails,
              Crash, SessionLost, RollbackPut
<1>10. CASE UNCHANGED vars
  BY <1>1, <1>10 DEF vars
<1>11. ASSUME NEW d \in Digests, GraceElapses(d) PROVE used' = used
  BY <1>11 DEF GraceElapses
<1> QED BY <1>1, <1>3, <1>4, <1>5, <1>6, <1>7, <1>8, <1>9, <1>10, <1>11 DEF Next

(* No organisation's recorded usage ever exceeds its maximum, whatever     *)
(* puts, mounts and releases commit between a check and the charge it      *)
(* admits (quota.ts; the second half of UsageIsExact).                     *)
THEOREM QuotaNeverExceeded == Spec => []QuotaRespected
<1>1. Init => QuotaInv
  BY ConstantsAssumption DEF Init, QuotaInv, QuotaRespected
<1>2. QuotaInv => QuotaRespected
  BY DEF QuotaInv
<1>3. LockInv /\ QuotaInv /\ [Next]_vars => QuotaInv'
  BY QuotaNext
<1> QED BY <1>1, <1>2, <1>3, LockInvInductive, PTL DEF Spec

-----------------------------------------------------------------------------
(* The usage of an organisation is the bytes it references.                *)

LEMMA ImageFinite ==
  ASSUME NEW D \in SUBSET Digests, IsFiniteSet(D)
  PROVE  IsFiniteSet({{d} \X (1..Size[d]) : d \in D})
<1>1. PICK T, f : /\ T = {{d} \X (1..Size[d]) : d \in D}
                  /\ f = [d \in D |-> {d} \X (1..Size[d])]
  OBVIOUS
<1>2. f \in Surjection(D, T)
  <2>1. f \in [D -> T] /\ \A t \in T : \E d \in D : f[d] = t
    BY <1>1
  <2> QED BY <2>1 DEF Surjection
<1> QED BY <1>1, <1>2, FS_Surjection

(* What the digests of a finite set weigh is a number, and one digest more *)
(* weighs its size more.                                                   *)
LEMMA BytesFinite ==
  ASSUME NEW D \in SUBSET Digests, IsFiniteSet(D)
  PROVE  IsFiniteSet(Bytes(D)) /\ Cardinality(Bytes(D)) \in Nat
<1>1. PICK T : T = {{d} \X (1..Size[d]) : d \in D}
  OBVIOUS
<1>2. IsFiniteSet(T)
  BY <1>1, ImageFinite
<1>3. ASSUME NEW t \in T PROVE IsFiniteSet(t)
  <2>1. PICK d \in D : t = {d} \X (1..Size[d])
    BY <1>1, <1>3
  <2>2. Size[d] \in Int
    BY ConstantsAssumption
  <2>3. IsFiniteSet(1..Size[d])
    BY <2>2, FS_Interval
  <2>4. IsFiniteSet({d})
    BY FS_Singleton
  <2> QED BY <2>1, <2>3, <2>4, FS_Product
<1>4. IsFiniteSet(UNION T)
  BY <1>2, <1>3, FS_UNION
<1> QED BY <1>1, <1>4, FS_CardinalityType DEF Bytes

LEMMA BytesAdded ==
  ASSUME NEW D \in SUBSET Digests, IsFiniteSet(D), NEW d \in Digests, d \notin D
  PROVE  Cardinality(Bytes(D \union {d})) = Cardinality(Bytes(D)) + Size[d]
<1>1. PICK B, A : B = Bytes(D) /\ A = {d} \X (1..Size[d])
  OBVIOUS
<1>2. Size[d] \in Nat
  BY ConstantsAssumption
<1>3. IsFiniteSet(A) /\ Cardinality(A) = Size[d]
  <2>1. IsFiniteSet({d}) /\ Cardinality({d}) = 1
    BY FS_Singleton
  <2>2. IsFiniteSet(1..Size[d]) /\ Cardinality(1..Size[d]) = Size[d]
    BY <1>2, FS_Interval
  <2>3. IsFiniteSet(A) /\ Cardinality(A) = Cardinality({d}) * Cardinality(1..Size[d])
    BY <1>1, <2>1, <2>2, FS_Product
  <2> QED BY <1>2, <2>1, <2>2, <2>3
<1>4. B \intersect A = {}
  BY <1>1 DEF Bytes
<1>5. Bytes(D \union {d}) = B \union A
  BY <1>1 DEF Bytes
<1>6. IsFiniteSet(B) /\ Cardinality(B) \in Nat
  BY <1>1, BytesFinite
<1>7. Cardinality(B \union A) = Cardinality(B) + Cardinality(A) - Cardinality(B \intersect A)
  BY <1>3, <1>6, FS_Union
<1>8. Cardinality(B \intersect A) = 0
  BY <1>4, FS_EmptySet
<1>9. Cardinality(B \union A) = Cardinality(B) + Size[d]
  BY <1>2, <1>3, <1>6, <1>7, <1>8
<1> QED BY <1>1, <1>5, <1>9

(* What an org is to be charged for a set of references.                   *)
Charged(o, refs) == Cardinality(Bytes(OrgDigests(o, refs)))

LEMMA OrgDigestsFinite ==
  ASSUME NEW o \in Orgs, NEW refs \in SUBSET BlobRef, IsFiniteSet(refs)
  PROVE  /\ OrgDigests(o, refs) \in SUBSET Digests /\ IsFiniteSet(OrgDigests(o, refs))
         /\ Charged(o, refs) \in Nat
<1>1. PICK S, D, f : /\ S = {y \in refs : OrgOf[y.repo] = o}
                     /\ D = OrgDigests(o, refs) /\ f = [x \in S |-> x.digest]
  OBVIOUS
<1>2. IsFiniteSet(S)
  BY <1>1, FS_Subset
<1>3. D = {x.digest : x \in S}
  BY <1>1 DEF OrgDigests
<1>4. f \in Surjection(S, D)
  <2>1. f \in [S -> D] /\ \A d \in D : \E x \in S : f[x] = d
    BY <1>1, <1>3
  <2> QED BY <2>1 DEF Surjection
<1>5. IsFiniteSet(D)
  BY <1>2, <1>4, FS_Surjection
<1>6. D \in SUBSET Digests
  BY <1>1, <1>3 DEF BlobRef
<1> QED BY <1>1, <1>5, <1>6, BytesFinite DEF Charged

(* A reference more costs the org its bytes, unless it has them already.   *)
LEMMA RefCharged ==
  ASSUME NEW o \in Orgs, NEW refs \in SUBSET BlobRef, IsFiniteSet(refs), NEW x \in BlobRef
  PROVE  Charged(o, refs \union {x})
           = Charged(o, refs) + (IF OrgOf[x.repo] # o \/ OrgReferences(o, x.digest, refs)
                                 THEN 0 ELSE Size[x.digest])
<1>1. PICK D, E : D = OrgDigests(o, refs) /\ E = OrgDigests(o, refs \union {x})
  OBVIOUS
<1>2. D \in SUBSET Digests /\ IsFiniteSet(D) /\ Charged(o, refs) \in Nat
  BY <1>1, OrgDigestsFinite
<1>3. CASE OrgOf[x.repo] # o \/ OrgReferences(o, x.digest, refs)
  <2>1. E = D
    <3>1. ASSUME NEW d \in E PROVE d \in D
      BY <1>1, <1>3, <3>1 DEF OrgDigests, OrgReferences
    <3>2. ASSUME NEW d \in D PROVE d \in E
      BY <1>1, <3>2 DEF OrgDigests
    <3> QED BY <3>1, <3>2
  <2> QED BY <1>1, <1>2, <1>3, <2>1 DEF Charged
<1>4. CASE OrgOf[x.repo] = o /\ ~ OrgReferences(o, x.digest, refs)
  <2>1. E = D \union {x.digest} /\ x.digest \notin D /\ x.digest \in Digests
    <3>1. \A d : d \in E <=> \E y \in refs \union {x} : OrgOf[y.repo] = o /\ y.digest = d
      BY <1>1 DEF OrgDigests
    <3>2. \A d : d \in D <=> \E y \in refs : OrgOf[y.repo] = o /\ y.digest = d
      BY <1>1 DEF OrgDigests
    <3>3. x.digest \notin D
      BY <1>4, <3>2 DEF OrgReferences
    <3>4. \A d : d \in E <=> d \in D \union {x.digest}
      BY <1>4, <3>1, <3>2
    <3> QED BY <3>3, <3>4 DEF BlobRef
  <2>2. Cardinality(Bytes(E)) = Cardinality(Bytes(D)) + Size[x.digest]
    BY <1>2, <2>1, BytesAdded
  <2> QED BY <1>1, <1>4, <2>2 DEF Charged
<1> QED BY <1>3, <1>4

UsageInv ==
  /\ blobRefs \in SUBSET BlobRef /\ IsFiniteSet(blobRefs)
  /\ used \in [Orgs -> Nat]
  /\ QuotaMatchesRefs

(* The charge of one org for what its references became leaves every       *)
(* usage exact: the clamp at zero of adjustStorageUsedTx never bites.      *)
LEMMA UsageCharged ==
  ASSUME UsageInv, blobRefs' \in SUBSET BlobRef, IsFiniteSet(blobRefs'),
         NEW o \in Orgs, NEW delta \in Int,
         used' = AdjustStorageUsed(o, delta),
         Charged(o, blobRefs') = Charged(o, blobRefs) + delta,
         \A c \in Orgs \ {o} : Charged(c, blobRefs') = Charged(c, blobRefs)
  PROVE  UsageInv'
<1>1. /\ Charged(o, blobRefs) \in Nat /\ Charged(o, blobRefs') \in Nat
      /\ \A c \in Metered : c \in Orgs /\ used[c] = Charged(c, blobRefs)
  BY OrgDigestsFinite, ConstantsAssumption DEF UsageInv, QuotaMatchesRefs, Charged
<1>2. CASE o \in Metered
  <2>1. used[o] = Charged(o, blobRefs) /\ ~ (used[o] + delta < 0)
    BY <1>1, <1>2
  <2>2. used' = [used EXCEPT ![o] = Charged(o, blobRefs')]
    BY <1>1, <1>2, <2>1 DEF AdjustStorageUsed
  <2>3. used' \in [Orgs -> Nat] /\ \A c \in Metered : used'[c] = Charged(c, blobRefs')
    BY <1>1, <2>2 DEF UsageInv
  <2> QED BY <2>3 DEF UsageInv, QuotaMatchesRefs, Charged
<1>3. CASE o \notin Metered
  <2>1. used' = used /\ \A c \in Metered : used'[c] = Charged(c, blobRefs')
    BY <1>1, <1>3 DEF AdjustStorageUsed
  <2> QED BY <2>1 DEF UsageInv, QuotaMatchesRefs, Charged
<1> QED BY <1>2, <1>3

(* A step that adds one reference and charges it.                          *)
LEMMA UsageOfMount ==
  ASSUME LockInv, UsageInv, NEW p \in Procs, MountRef(p)
  PROVE  UsageInv'
<1>1. PICK o, x, d : o = OrgOf[req[p].repo] /\ x = NewRef(p) /\ d = req[p].digest
  OBVIOUS
<1>2. /\ o \in Orgs /\ x \in BlobRef /\ d \in Digests /\ Size[d] \in Int
      /\ x.digest = d /\ OrgOf[x.repo] = o
  BY <1>1, ConstantsAssumption DEF LockInv, LockTypes, Request, BlobRef, NewRef
<1>3. /\ blobRefs' = blobRefs \union {x}
      /\ used' = IF OrgReferences(o, d, blobRefs) THEN used ELSE AdjustStorageUsed(o, Size[d])
  BY <1>1 DEF MountRef
<1>4. blobRefs' \in SUBSET BlobRef /\ IsFiniteSet(blobRefs')
  BY <1>2, <1>3, FS_AddElement DEF UsageInv
<1>5. \A c \in Orgs : Charged(c, blobRefs) \in Nat
  BY OrgDigestsFinite DEF UsageInv
<1>6. \A c \in Orgs \ {o} : Charged(c, blobRefs') = Charged(c, blobRefs)
  BY <1>2, <1>3, <1>5, RefCharged DEF UsageInv
<1>7. CASE OrgReferences(o, d, blobRefs)
  <2>1. Charged(o, blobRefs') = Charged(o, blobRefs) /\ used' = used
    BY <1>2, <1>3, <1>5, <1>7, RefCharged DEF UsageInv
  <2>2. \A c \in Metered : used'[c] = Charged(c, blobRefs')
    BY <1>6, <2>1, ConstantsAssumption DEF UsageInv, QuotaMatchesRefs, Charged
  <2> QED BY <1>4, <2>1, <2>2 DEF UsageInv, QuotaMatchesRefs, Charged
<1>8. CASE ~ OrgReferences(o, d, blobRefs)
  <2>1. Charged(o, blobRefs') = Charged(o, blobRefs) + Size[d] /\ used' = AdjustStorageUsed(o, Size[d])
    BY <1>2, <1>3, <1>8, RefCharged DEF UsageInv
  <2> QED BY <1>2, <1>4, <1>6, <2>1, UsageCharged
<1> QED BY <1>7, <1>8

(* A step that takes one reference away and refunds it.                    *)
LEMMA UsageOfRelease ==
  ASSUME UsageInv, NEW p \in Procs, NEW x \in blobRefs, ReleaseRef(p, x)
  PROVE  UsageInv'
<1>1. PICK o, d, rest : o = OrgOf[x.repo] /\ d = x.digest /\ rest = blobRefs \ {x}
  OBVIOUS
<1>2. /\ x \in BlobRef /\ o \in Orgs /\ d \in Digests /\ Size[d] \in Int
      /\ blobRefs = rest \union {x}
  BY <1>1, ConstantsAssumption DEF UsageInv, BlobRef
<1>3. /\ blobRefs' = rest
      /\ used' = IF OrgReferences(o, d, rest) THEN used ELSE AdjustStorageUsed(o, - Size[d])
  BY <1>1 DEF ReleaseRef
<1>4. blobRefs' \in SUBSET BlobRef /\ IsFiniteSet(blobRefs') /\ rest \in SUBSET BlobRef /\ IsFiniteSet(rest)
  BY <1>1, <1>3, FS_Subset DEF UsageInv
<1>5. \A c \in Orgs : Charged(c, rest) \in Nat
  BY <1>4, OrgDigestsFinite
<1>r. ASSUME NEW c \in Orgs
      PROVE  Charged(c, blobRefs)
               = Charged(c, rest) + (IF o # c \/ OrgReferences(c, d, rest) THEN 0 ELSE Size[d])
  <2>1. Charged(c, rest \union {x})
          = Charged(c, rest) + (IF OrgOf[x.repo] # c \/ OrgReferences(c, x.digest, rest)
                                THEN 0 ELSE Size[x.digest])
    BY <1>2, <1>4, RefCharged
  <2> QED BY <1>1, <1>2, <2>1
<1>6. \A c \in Orgs \ {o} : Charged(c, blobRefs') = Charged(c, blobRefs)
  BY <1>3, <1>5, <1>r
<1>7. CASE OrgReferences(o, d, rest)
  <2>1. Charged(o, blobRefs') = Charged(o, blobRefs) /\ used' = used
    BY <1>2, <1>3, <1>5, <1>7, <1>r
  <2>2. \A c \in Metered : used'[c] = Charged(c, blobRefs')
    BY <1>6, <2>1, ConstantsAssumption DEF UsageInv, QuotaMatchesRefs, Charged
  <2> QED BY <1>4, <2>1, <2>2 DEF UsageInv, QuotaMatchesRefs, Charged
<1>8. CASE ~ OrgReferences(o, d, rest)
  <2>1. Charged(o, blobRefs) = Charged(o, rest) + Size[d]
    BY <1>2, <1>8, <1>r
  <2>2. Charged(o, blobRefs') = Charged(o, blobRefs) + (- Size[d])
    BY <1>2, <1>3, <1>5, <2>1
  <2>3. used' = AdjustStorageUsed(o, - Size[d]) /\ - Size[d] \in Int
    BY <1>2, <1>3, <1>8
  <2> QED BY <1>2, <1>4, <1>6, <2>2, <2>3, UsageCharged
<1> QED BY <1>7, <1>8

(* A put charges the new reference and refunds the old one at once.        *)
LEMMA UsageOfPut ==
  ASSUME LockInv, UsageInv, NEW p \in Procs, CommitPut(p)
  PROVE  UsageInv'
<1>1. PICK o, x, z, rest : /\ o = OrgOf[req[p].repo] /\ x = NewRef(p) /\ z = OldRef(p)
                           /\ rest = RefsLessOld(p)
  OBVIOUS
<1>2. /\ o \in Orgs /\ x \in BlobRef /\ z \in BlobRef
      /\ x.digest = req[p].digest /\ z.digest = req[p].old
      /\ OrgOf[x.repo] = o /\ OrgOf[z.repo] = o
      /\ Size[x.digest] \in Nat /\ Size[z.digest] \in Nat
  BY <1>1, ConstantsAssumption DEF LockInv, LockTypes, Request, BlobRef, NewRef, OldRef
<1>3. PICK charge, refund :
         /\ charge = (IF OrgReferences(o, x.digest, rest) THEN 0 ELSE Size[x.digest])
         /\ refund = (IF DropsOldRef(p) /\ ~ OrgReferences(o, z.digest, rest)
                      THEN Size[z.digest] ELSE 0)
  OBVIOUS
<1>4. charge \in Nat /\ refund \in Nat
  BY <1>2, <1>3
<1>5. blobRefs' = rest \union {x} /\ used' = AdjustStorageUsed(o, charge - refund)
  BY <1>1, <1>2, <1>3 DEF CommitPut, NetDelta
<1>6. /\ DropsOldRef(p) => blobRefs = rest \union {z}
      /\ ~ DropsOldRef(p) => blobRefs = rest
      /\ rest \in SUBSET blobRefs
  BY <1>1 DEF RefsLessOld, DropsOldRef
<1>7. rest \in SUBSET BlobRef /\ IsFiniteSet(rest)
  BY <1>6, FS_Subset DEF UsageInv
<1>8. blobRefs' \in SUBSET BlobRef /\ IsFiniteSet(blobRefs')
  BY <1>2, <1>5, <1>7, FS_AddElement
<1>9. \A c \in Orgs : Charged(c, rest) \in Nat
  BY <1>7, OrgDigestsFinite
<1>10. /\ Charged(o, blobRefs) = Charged(o, rest) + refund
       /\ \A c \in Orgs \ {o} : Charged(c, blobRefs) = Charged(c, rest)
  <2>1. CASE DropsOldRef(p)
    BY <1>2, <1>3, <1>6, <1>7, <1>9, <2>1, RefCharged
  <2>2. CASE ~ DropsOldRef(p)
    BY <1>2, <1>3, <1>6, <1>9, <2>2
  <2> QED BY <2>1, <2>2
<1>11. /\ Charged(o, blobRefs') = Charged(o, rest) + charge
       /\ \A c \in Orgs \ {o} : Charged(c, blobRefs') = Charged(c, rest)
  BY <1>2, <1>3, <1>5, <1>7, <1>9, RefCharged
<1>12. Charged(o, blobRefs') = Charged(o, blobRefs) + (charge - refund) /\ charge - refund \in Int
  BY <1>2, <1>4, <1>9, <1>10, <1>11
<1> QED BY <1>2, <1>5, <1>8, <1>10, <1>11, <1>12, UsageCharged

LEMMA UsageNext ==
  ASSUME LockInv, UsageInv, [Next]_vars
  PROVE  UsageInv'
<1>1. ASSUME UNCHANGED <<blobRefs, used>> PROVE UsageInv'
  BY <1>1 DEF UsageInv, QuotaMatchesRefs
<1>2. ASSUME NEW p \in Procs, Start(p) \/ Sweep(p), ~ \E x \in blobRefs : ReleaseRef(p, x)
      PROVE  UNCHANGED <<blobRefs, used>>
  BY <1>2 DEF Start, StartStore, StartStoreStream, StartReplace, StartMount, OpenBlob,
              BeginPut, BeginAccess, Sweep, SelectCandidates
<1>3. ASSUME NEW p \in Procs, PutStep(p), ~ CommitPut(p) PROVE UNCHANGED <<blobRefs, used>>
  BY <1>3 DEF PutStep, HeadObject, WriteObject, AcquireDigestLock, StatFound, StatMissing,
              QuotaExceeded, RollbackPut, DiscardCheck, DiscardDelete
<1>4. ASSUME NEW p \in Procs, AccessStep(p) \/ ReclaimStep(p), ~ MountRef(p)
      PROVE  UNCHANGED <<blobRefs, used>>
  BY <1>4 DEF AccessStep, RefuseMount, ReadBytes, ReclaimStep, ReclaimDeleteRow,
              ReclaimDeleteObject, ReclaimCommit, LateDelete
<1>5. ASSUME NEW p \in Procs, FaultStep(p) PROVE UNCHANGED <<blobRefs, used>>
  BY <1>5 DEF FaultStep, WriteFails, StatFails, ReclaimDeleteFails, DiscardDeleteFails,
              Crash, SessionLost, RollbackPut
<1>6. ASSUME NEW d \in Digests, GraceElapses(d) PROVE UNCHANGED <<blobRefs, used>>
  BY <1>6 DEF GraceElapses
<1>7. CASE UNCHANGED vars
  BY <1>1, <1>7 DEF vars
<1> QED BY <1>1, <1>2, <1>3, <1>4, <1>5, <1>6, <1>7, UsageOfMount, UsageOfRelease, UsageOfPut
        DEF Next

(* An organisation with a quota row is charged exactly the bytes of the    *)
(* digests its repositories reference, each once, and within its maximum,  *)
(* whatever puts, replacements, mounts, releases and rollbacks interleave  *)
(* (quota.ts, commitBlobPutTx, ensureBlobRef and releaseBlobRef).          *)
THEOREM UsageAccounted == Spec => []UsageIsExact
<1>1. Init => UsageInv
  <2>1. SUFFICES ASSUME Init PROVE UsageInv
    OBVIOUS
  <2>2. ASSUME NEW o \in Metered PROVE used[o] = Cardinality(Bytes(OrgDigests(o, blobRefs)))
    <3>1. used[o] = 0
      BY <2>1, ConstantsAssumption DEF Init
    <3>2. Bytes(OrgDigests(o, blobRefs)) = {}
      BY <2>1 DEF Init, OrgDigests, Bytes
    <3> QED BY <3>1, <3>2, FS_EmptySet
  <2> QED BY <2>1, <2>2, FS_EmptySet DEF Init, UsageInv, QuotaMatchesRefs
<1>2. UsageInv => QuotaMatchesRefs
  BY DEF UsageInv
<1>3. LockInv /\ UsageInv /\ [Next]_vars => UsageInv'
  BY UsageNext
<1>4. QuotaMatchesRefs /\ QuotaRespected => UsageIsExact
  BY DEF UsageIsExact
<1> QED BY <1>1, <1>2, <1>3, <1>4, LockInvInductive, QuotaNeverExceeded, PTL DEF Spec
=============================================================================
