---------------------------- MODULE ScanPipeline ----------------------------
(***************************************************************************)
(* processScan of apps/scan-worker: what a claimed scan of one artifact    *)
(* reads, in which order it merges what the scanners report, and what it   *)
(* writes.  ScanOutbox has the queue around it for many artifacts with the *)
(* scan as one outcome; here the queue is the row of this artifact, which  *)
(* a reclaim may give to a second worker while the first still scans.      *)
(*                                                                         *)
(* The artifact is a file, its digest one of Blobs, or an OCI manifest,    *)
(* whose layers and child manifests are scanned in its place.  A manifest  *)
(* is a row of content_manifests and not an object of the store.  What a   *)
(* digest refers to never changes; whether it is there does.               *)
(*                                                                         *)
(* Abstracted: scanners report any of the sets they may report, or fail;   *)
(* denied licences and the CVSS limit of a policy, which no route sets.    *)
(***************************************************************************)
EXTENDS Integers, Sequences, FiniteSets, SequencesExt

CONSTANTS
  Workers,      (* scan-worker processes                                    *)
  Nobody,       (* no worker                                                *)
  Clients,      (* requests that may push a manifest at the same time       *)
  Blobs,        (* digests of files and layers                              *)
  Manifests,    (* digests of OCI manifests                                 *)
  Layers,       (* Layers[m]: the set references(raw).blobs                 *)
  Children,     (* Children[m]: the sequence references(raw).manifests      *)
  Graph,        (* Graph[m]: m and all manifests below it                   *)
  Settings,     (* [root, runtime] of the behaviours                        *)
  Declares,     (* Declares[s]: the finding types of content scanner s      *)
  Policies,     (* [mode, threshold] that an administrator may set          *)
  BlobLimit,    (* MANIFEST_REFERENCE_SCAN_CONCURRENCY                      *)
  MaxRuns,      (* bound: scans begun                                       *)
  MaxChanges    (* bound: pushes, deletions, losses, policies, crashes     *)

ASSUME PipelineAssumption ==
  /\ Nobody \notin Workers
  /\ Blobs \intersect Manifests = {}
  /\ \A m \in Manifests : m \in Graph[m] /\ Graph[m] \subseteq Manifests
       /\ Layers[m] \subseteq Blobs /\ Children[m] \in Seq(Manifests)
       /\ \A k \in Graph[m] : ToSet(Children[k]) \subseteq Graph[m]
  /\ \A s \in Settings : s.root \in Blobs \union Manifests /\ s.runtime.workers \subseteq Workers
       /\ \A F \in s.runtime.stream \union s.runtime.reports \union s.runtime.dependencies :
            IsFiniteSet(F)
  /\ BlobLimit \in Nat \ {0} /\ MaxRuns \in Nat \ {0} /\ MaxChanges \in Nat

VARIABLES
  root,      (* the digest of the artifact                                  *)
  runtime,   (* what is deployed: workers; the content scanners available   *)
             (* and whether any were asked for; the sets of findings that   *)
             (* stream, content and dependency scanners may report          *)
  bytes,     (* objects of the store                                        *)
  manifests, (* rows of content_manifests                                   *)
  live,      (* the package version of the artifact is not deleted          *)
  push,      (* how far each client's request is, and with which manifest   *)
  policy,    (* [now, cached]: the row, and what a process may still hold   *)
  state,     (* artifacts.state                                             *)
  outbox,    (* [status, owner] of the artifact's scan_outbox row           *)
  scan,      (* status of its scans row                                     *)
  lock,      (* the worker whose transaction holds the scans row            *)
  findings,  (* its findings rows, each with the run that wrote it          *)
  run,       (* what a worker has of its scan                               *)
  judged,    (* history: what state was last decided from                   *)
  ever,      (* history: blobs that some run scanned                        *)
  mixed,     (* history: the last runs overlapped                           *)
  runs, changes

rigid == <<root, runtime>>
stored == <<bytes, manifests, live, push>>
reported == <<scan, lock, findings>>
history == <<judged, ever, mixed>>
vars == <<rigid, stored, policy, state, outbox, reported, run, history, runs, changes>>

Gating == {"malware", "vuln"}
Possible == UNION (runtime.stream \union runtime.reports \union runtime.dependencies)

Keys(F) == {f.key : f \in F}

IsGraph == root \in Manifests

(* The manifests of the artifact, and the blobs that some of them name.    *)
Parts == IF IsGraph THEN Graph[root] ELSE {}
Payload(parts) == IF IsGraph THEN UNION {Layers[m] : m \in parts} ELSE {root}

(***************************************************************************)
(* A run: manifests queued, seen, walked and found missing; blobs waiting, *)
(* being scanned and begun; the gating types covered of each blob; and the *)
(* local found, as dedupeFindings leaves it.                               *)
(***************************************************************************)

Stages == {"idle", "walk", "skipDeleted", "skipEmpty", "dependencies", "persist",
           "replace", "judge", "done", "failed"}

NoRun == [at |-> "idle", id |-> 0, queue |-> <<>>, seen |-> {}, walked |-> {},
          missing |-> {}, waiting |-> {}, busy |-> {}, scanned |-> {}, covered |-> {},
          found |-> {}, doomed |-> {}]

Unjudged == [from |-> "nothing", id |-> 0, walked |-> {}, missing |-> {}, covered |-> {},
             policy |-> CHOOSE p \in Policies : TRUE]

NoPush == [at |-> "idle", of |-> root]

(* The types of the variables.  The runs check properties that say more.   *)
TypeOK ==
  (* Rows and locals keep their shape, and a run scans at most BlobLimit   *)
  (* blobs at a time, each of them once.                                   *)
  /\ bytes \subseteq Payload(Parts) /\ manifests \subseteq Parts /\ live \in BOOLEAN
  /\ push \in [Clients -> [at : {"idle", "checked", "committed", "versioned"},
                            of : {root} \union Parts]]
  /\ policy \in [now : Policies, cached : Policies]
  /\ state \in {"pending", "clean", "quarantined", "blocked"}
  /\ outbox \in [status : {"pending", "processing", "succeeded"},
                 owner : Workers \union {Nobody}]
  /\ scan \in {"none", "succeeded", "failed"} /\ lock \in Workers \union {Nobody}
  /\ findings \subseteq [by : 1..MaxRuns, finding : Possible]
  /\ \A w \in Workers :
       LET r == run[w] IN
       /\ r.at \in Stages /\ r.id \in 0..MaxRuns
       /\ Cardinality(r.busy) <= BlobLimit
       /\ r.waiting \intersect r.busy = {} /\ r.busy \subseteq r.scanned
       /\ r.scanned \subseteq Blobs /\ r.walked \union r.missing \subseteq r.seen
       /\ r.found \subseteq Possible /\ Cardinality(Keys(r.found)) = Cardinality(r.found)
  /\ mixed \in BOOLEAN /\ runs \in 0..MaxRuns /\ changes \in 0..MaxChanges

Init ==
  /\ \E s \in Settings : root = s.root /\ runtime = s.runtime
  /\ bytes = Payload(Parts) /\ manifests = Parts /\ live = TRUE
  /\ push = [c \in Clients |-> NoPush]
  /\ \E p \in Policies : policy = [now |-> p, cached |-> p]
  /\ state = "pending" /\ outbox = [status |-> "pending", owner |-> Nobody]
  /\ scan = "none" /\ lock = Nobody /\ findings = {}
  /\ run = [w \in Workers |-> NoRun]
  /\ judged = Unjudged /\ ever = {} /\ mixed = FALSE
  /\ runs = 0 /\ changes = 0

At(w, stage) == run[w].at = stage
Goto(w, stage) == run' = [run EXCEPT ![w].at = stage]

(***************************************************************************)
(* The graph and the bytes.                                                *)
(***************************************************************************)

(* A worker claims the row and loads the artifact.  The digest of a file   *)
(* is scanned; that of a manifest is not in the store, and starts a walk.  *)
Begin(w) ==
  /\ At(w, "idle") /\ outbox.status = "pending" /\ runs < MaxRuns
  /\ outbox' = [status |-> "processing", owner |-> w]
  /\ run' = [run EXCEPT ![w] = [NoRun EXCEPT
               !.at = "walk", !.id = runs + 1,
               !.queue = IF IsGraph THEN <<root>> ELSE <<>>,
               !.waiting = IF IsGraph THEN {} ELSE {root}]]
  /\ mixed' = \E v \in Workers \ {w} : ~ At(v, "idle")
  /\ runs' = runs + 1
  /\ UNCHANGED <<rigid, stored, policy, state, reported, judged, ever, changes>>

BlobsDone(w) == run[w].waiting = {} /\ run[w].busy = {}

(* scanQueuedManifest: of the three loops over the queue one survives the  *)
(* first await, for the queue holds one digest when they start.  A child   *)
(* that was seen is not queued in the code, here it is passed over.        *)
LoadManifest(w) ==
  LET r == run[w]
      m == Head(r.queue)
      next == [r EXCEPT !.queue = Tail(@), !.seen = @ \union {m}]
  IN  /\ At(w, "walk") /\ BlobsDone(w) /\ r.queue # <<>>
      /\ run' = [run EXCEPT ![w] =
           CASE m \in r.seen -> [r EXCEPT !.queue = Tail(@)]
             [] m \notin r.seen /\ m \notin manifests -> [next EXCEPT !.missing = @ \union {m}]
             [] OTHER -> [next EXCEPT
                  !.walked = @ \union {m}, !.waiting = Layers[m],
                  !.queue = @ \o Children[m]]]
      /\ UNCHANGED <<rigid, stored, policy, state, outbox, reported, history, runs, changes>>

(* createAsyncLimiter, and mapWithBoundedConcurrency with the same limit.  *)
MayStart(w) == Cardinality(run[w].busy) < BlobLimit

(* scanStoredBytes up to its first read: a digest begun before is skipped, *)
(* a missing object or a missing external scanner fails the run.           *)
StartBlob(w, b) ==
  LET taken == [run[w] EXCEPT !.waiting = @ \ {b}]
  IN  /\ At(w, "walk") /\ b \in run[w].waiting /\ MayStart(w)
      /\ run' = [run EXCEPT ![w] =
           IF b \in run[w].scanned THEN taken
           ELSE IF b \notin bytes \/ (runtime.requested /\ runtime.content = {})
             THEN [taken EXCEPT !.at = "failed"]
             ELSE [taken EXCEPT !.busy = @ \union {b}, !.scanned = @ \union {b}]]
      /\ UNCHANGED <<rigid, stored, policy, state, outbox, reported, history, runs, changes>>

Types(scanners) == UNION {Declares[s] : s \in scanners}

(* Mutant: only a failure of every scanner counts.                         *)
UncoveredIfAllFail(ok) == IF ok = {} THEN Types(runtime.content) \intersect Gating ELSE {}

(* uncoveredGatingFindingTypes: what a failed scanner declares and no      *)
(* scanner that succeeded does.                                            *)
Uncovered(ok) == (Types(runtime.content \ ok) \ Types(ok)) \intersect Gating

(* found with more pushed after it, in any order: dedupeFindings keeps the *)
(* first finding of a key.                                                 *)
Merges(found, more) ==
  {G \in SUBSET (found \union more) :
     /\ found \subseteq G /\ Keys(G) = Keys(found \union more)
     /\ \A f, g \in G : f.key = g.key => f = g}

(* The rest of scanStoredBytes: the object is read once, then the content  *)
(* scanners run, and those in ok succeed.                                  *)
FinishBlob(w, b) ==
  /\ At(w, "walk") /\ b \in run[w].busy
  /\ \E ok \in SUBSET runtime.content, early \in runtime.stream, late \in runtime.reports :
       LET refused == \/ b \notin bytes
                      \/ Uncovered(ok) # {}
                      \/ ok = {} /\ runtime.content # {}
       IN  /\ ok = {} => late = {}
           /\ IF refused THEN Goto(w, "failed") /\ UNCHANGED ever
              ELSE /\ ever' = ever \union {b}
                   /\ \E first \in Merges(run[w].found, early) :
                      \E found \in Merges(first, late) :
                        run' = [run EXCEPT ![w].busy = @ \ {b}, ![w].found = found,
                                  ![w].covered = @ \union ({b} \X Types(ok))]
  /\ UNCHANGED <<rigid, stored, policy, state, outbox, reported, judged, mixed, runs, changes>>

(* No digest is left.  Without a payload the run ends here: a graph that   *)
(* refers to nothing is clean, and so is an artifact whose version was     *)
(* deleted.                                                                *)
Examine(w) ==
  LET r == run[w]
      empty == root \in r.walked /\ Payload({root}) = {} /\ Children[root] = <<>>
  IN  /\ At(w, "walk") /\ BlobsDone(w) /\ r.queue = <<>>
      /\ Goto(w, CASE r.scanned # {} -> "dependencies"
                   [] r.scanned = {} /\ ~ live -> "skipDeleted"
                   [] r.scanned = {} /\ live /\ empty -> "skipEmpty"
                   [] OTHER -> "failed")
      /\ UNCHANGED <<rigid, stored, policy, state, outbox, reported, history, runs, changes>>

(* runDependencyScanners: a scanner that fails reports nothing.            *)
ScanDependencies(w) ==
  /\ At(w, "dependencies")
  /\ \E more \in runtime.dependencies : \E found \in Merges(run[w].found, more) :
       run' = [run EXCEPT ![w].at = "persist", ![w].found = found]
  /\ UNCHANGED <<rigid, stored, policy, state, outbox, reported, history, runs, changes>>

(***************************************************************************)
(* The results.                                                            *)
(***************************************************************************)

(* Mutant: the scans row is read and not upserted.                         *)
ScanRowRead(w) == TRUE

ScanRowFree(w) == lock = Nobody

(* persistScanResult: the upsert locks the scans row, then the findings    *)
(* visible to the DELETE go, and the new ones come with the commit.        *)
PersistDelete(w) ==
  /\ At(w, "persist") /\ ScanRowFree(w)
  /\ lock' = w
  /\ run' = [run EXCEPT ![w].at = "replace", ![w].doomed = findings]
  /\ UNCHANGED <<rigid, stored, policy, state, outbox, scan, findings, history, runs, changes>>

PersistInsert(w) ==
  /\ At(w, "replace")
  /\ findings' = (findings \ run[w].doomed)
                   \union [by : {run[w].id}, finding : run[w].found]
  /\ scan' = "succeeded" /\ lock' = Nobody
  /\ run' = [run EXCEPT ![w].at = "judge", ![w].doomed = {}]
  /\ UNCHANGED <<rigid, stored, policy, state, outbox, history, runs, changes>>

Violates(F, p) == \E f \in F : f.severity >= p.threshold \/ f.type = "malware"

(* evaluateScanPolicy                                                      *)
Verdict(F, p) ==
  IF ~ Violates(F, p) THEN "clean" ELSE IF p.mode = "enforce" THEN "blocked" ELSE "quarantined"

Remember(w, from, p) ==
  judged' = [from |-> from, id |-> run[w].id, walked |-> run[w].walked,
             missing |-> run[w].missing, covered |-> run[w].covered, policy |-> p]

(* applyPolicyDecision, with the policy its process holds.                 *)
Judge(w) ==
  /\ At(w, "judge")
  /\ \E p \in {policy.now, policy.cached} :
       state' = Verdict(run[w].found, p) /\ Remember(w, "scan", p)
  /\ Goto(w, "done")
  /\ UNCHANGED <<rigid, stored, policy, outbox, reported, ever, mixed, runs, changes>>

(* markSkippedClean                                                        *)
MarkSkipped(w) ==
  /\ At(w, "skipDeleted") \/ At(w, "skipEmpty")
  /\ state' = "clean" /\ Remember(w, run[w].at, judged.policy)
  /\ Goto(w, "done")
  /\ UNCHANGED <<rigid, stored, policy, outbox, reported, ever, mixed, runs, changes>>

(* The terminal write, for the attempt that holds the row.                 *)
Settled(w, status) ==
  IF outbox.owner = w THEN [status |-> status, owner |-> Nobody] ELSE outbox

Succeed(w) ==
  /\ At(w, "done")
  /\ outbox' = Settled(w, "succeeded")
  /\ run' = [run EXCEPT ![w] = NoRun]
  /\ UNCHANGED <<rigid, stored, policy, state, reported, history, runs, changes>>

(* recordScanFailure and the row's return to the queue: the state and the  *)
(* findings of an earlier scan stay.                                       *)
RecordFailure(w) ==
  /\ At(w, "failed") /\ lock = Nobody
  /\ scan' = "failed"
  /\ outbox' = Settled(w, "pending")
  /\ run' = [run EXCEPT ![w] = NoRun]
  /\ UNCHANGED <<rigid, stored, policy, state, lock, findings, history, runs, changes>>

(* The process dies; an open transaction rolls back.                       *)
Crash(w) ==
  /\ ~ At(w, "idle") /\ changes < MaxChanges
  /\ run' = [run EXCEPT ![w] = NoRun]
  /\ lock' = IF lock = w THEN Nobody ELSE lock
  /\ changes' = changes + 1
  /\ UNCHANGED <<rigid, stored, policy, state, outbox, scan, findings, history, runs>>

(* reclaimStuckScans, after a crash or in the middle of a long scan.       *)
Reclaim ==
  /\ outbox.status = "processing" /\ changes < MaxChanges
  /\ outbox' = [status |-> "pending", owner |-> Nobody]
  /\ changes' = changes + 1
  /\ UNCHANGED <<rigid, stored, policy, state, reported, run, history, runs>>

(***************************************************************************)
(* What happens meanwhile.                                                 *)
(***************************************************************************)

(* Mutant: the insert leaves a row that is there.                          *)
RenewedNot == state

(* The state of an artifact that is published.                             *)
Renewed == "pending"

(* recordArtifactScanOutbox, in the transaction of the asset or the file:  *)
(* the verdict is withdrawn; a row that is being processed is left alone.  *)
RequestScan ==
  /\ state' = Renewed /\ judged' = Unjudged
  /\ outbox' = IF outbox.status = "processing" THEN outbox
               ELSE [status |-> "pending", owner |-> Nobody]

(* A file or a layer is stored.                                            *)
Upload(b) ==
  /\ b \in Payload(Parts) \ bytes
  /\ bytes' = bytes \union {b}
  /\ UNCHANGED <<rigid, manifests, live, push, policy, state, outbox, reported, run, history,
                 runs, changes>>

(* A file is published: its version and its scan are one transaction.      *)
PublishFile ==
  /\ ~ IsGraph /\ root \in bytes /\ changes < MaxChanges
  /\ live' = TRUE /\ RequestScan
  /\ changes' = changes + 1
  /\ UNCHANGED <<rigid, bytes, manifests, push, policy, reported, run, ever, mixed, runs>>

(* putOciManifest pushes one manifest (a child that is there, in vain).    *)
(* It looks for layers and children before anything is written, ...        *)
CheckManifest(c, m) ==
  /\ IsGraph /\ push[c].at = "idle" /\ changes < MaxChanges
  /\ m = root \/ m \in Parts \ manifests
  /\ Layers[m] \subseteq bytes /\ ToSet(Children[m]) \subseteq manifests
  /\ push' = [push EXCEPT ![c] = [at |-> "checked", of |-> m]]
  /\ changes' = changes + 1
  /\ UNCHANGED <<rigid, bytes, manifests, live, policy, state, outbox, reported, run, history,
                 runs>>

(* ... commits the row, when the layers are there still, ...  What a       *)
(* request does after that for a child is about an artifact of its own.    *)
CommitManifest(c) ==
  LET m == push[c].of
  IN  /\ push[c].at = "checked" /\ Layers[m] \subseteq bytes
      /\ manifests' = manifests \union {m}
      /\ push' = [push EXCEPT ![c] = IF m = root THEN [@ EXCEPT !.at = "committed"] ELSE NoPush]
      /\ UNCHANGED <<rigid, bytes, live, policy, state, outbox, reported, run, history,
                     runs, changes>>

(* ... records the version, ...                                            *)
UpsertVersion(c) ==
  /\ push[c].at = "committed"
  /\ live' = TRUE
  /\ push' = [push EXCEPT ![c].at = "versioned"]
  /\ UNCHANGED <<rigid, bytes, manifests, policy, state, outbox, reported, run, history,
                 runs, changes>>

(* ... and at last the asset, with the scan.  A request that dies takes no *)
(* further step.                                                           *)
UpsertAsset(c) ==
  /\ push[c].at = "versioned"
  /\ RequestScan
  /\ push' = [push EXCEPT ![c] = NoPush]
  /\ UNCHANGED <<rigid, bytes, manifests, live, policy, reported, run, ever, mixed,
                 runs, changes>>

(* A delete marks the version; ...                                         *)
DeleteVersion ==
  /\ live /\ changes < MaxChanges
  /\ live' = FALSE
  /\ changes' = changes + 1
  /\ UNCHANGED <<rigid, bytes, manifests, push, policy, state, outbox, reported, run, history,
                 runs>>

(* ... then the row of the manifest, which no live version keeps, goes.    *)
DeleteManifest ==
  /\ root \in manifests /\ ~ live
  /\ manifests' = manifests \ {root}
  /\ UNCHANGED <<rigid, bytes, live, push, policy, state, outbox, reported, run, history,
                 runs, changes>>

(* A child manifest is deleted: nothing holds it for its parent.           *)
DeleteChild(m) ==
  /\ m \in manifests \ {root} /\ changes < MaxChanges
  /\ manifests' = manifests \ {m}
  /\ changes' = changes + 1
  /\ UNCHANGED <<rigid, bytes, live, push, policy, state, outbox, reported, run, history, runs>>

(* Bytes that nothing refers to any more are reclaimed.                    *)
Lose(b) ==
  /\ b \in bytes /\ changes < MaxChanges
  /\ IF IsGraph THEN b \notin Payload(manifests) ELSE ~ live
  /\ bytes' = bytes \ {b}
  /\ changes' = changes + 1
  /\ UNCHANGED <<rigid, manifests, live, push, policy, state, outbox, reported, run, history, runs>>

(* upsertScanPolicy; the caches of other processes follow within the TTL.  *)
SetPolicy(p) ==
  /\ p # policy.now /\ changes < MaxChanges
  /\ policy' = [now |-> p, cached |-> policy.now]
  /\ changes' = changes + 1
  /\ UNCHANGED <<rigid, stored, state, outbox, reported, run, history, runs>>

ExpireCache ==
  /\ policy.cached # policy.now
  /\ policy' = [policy EXCEPT !.cached = policy.now]
  /\ UNCHANGED <<rigid, stored, state, outbox, reported, run, history, runs, changes>>

Next ==
  \/ \E w \in runtime.workers :
       \/ Begin(w) \/ LoadManifest(w) \/ Examine(w) \/ ScanDependencies(w)
       \/ PersistDelete(w) \/ PersistInsert(w) \/ Judge(w) \/ MarkSkipped(w)
       \/ Succeed(w) \/ RecordFailure(w) \/ Crash(w)
       \/ \E b \in Blobs : StartBlob(w, b) \/ FinishBlob(w, b)
  \/ Reclaim \/ PublishFile \/ DeleteVersion \/ DeleteManifest \/ ExpireCache
  \/ \E c \in Clients : CommitManifest(c) \/ UpsertVersion(c) \/ UpsertAsset(c)
  \/ \E m \in Manifests : DeleteChild(m) \/ \E c \in Clients : CheckManifest(c, m)
  \/ \E b \in Blobs : Lose(b) \/ Upload(b)
  \/ \E p \in Policies : SetPolicy(p)

Spec == Init /\ [][Next]_vars

(***************************************************************************)
(* Properties.                                                             *)
(***************************************************************************)

(* A verdict rests on the whole payload: every manifest the run reached    *)
(* was walked or was not there, and each of their blobs was scanned, for   *)
(* every gating type that an available scanner declares, by a scanner that *)
(* succeeded (pipeline.ts, scan-bytes.ts).                                 *)
VerdictIsCovered ==
  judged.from = "scan" =>
    /\ Payload(judged.walked) \X (Types(runtime.content) \intersect Gating)
         \subseteq judged.covered
    /\ IsGraph => root \in judged.walked
    /\ \A m \in judged.walked :
         ToSet(Children[m]) \subseteq judged.walked \union judged.missing

(* The findings of an artifact are those of one run, however its scans     *)
(* overlap ("can't observe the intermediate state", scan-results.ts:58),   *)
(* and once a scan has settled, unless it overlapped another one, they     *)
(* explain the state that it decided.                                      *)
FindingsExplainState ==
  /\ \A x, y \in findings : x.by = y.by
  /\ (judged.from = "scan" /\ ~ mixed /\ state # "pending" /\ outbox.status = "succeeded"
        /\ \A w \in Workers : At(w, "idle"))
       => /\ \A x \in findings : x.by = judged.id
          /\ state = Verdict({x.finding : x \in findings}, judged.policy)

(* The manifests that one gets to from the artifact through those of M.    *)
Reached(M) ==
  {m \in M : \A S \in SUBSET M :
     (/\ {root} \intersect M \subseteq S
      /\ \A k \in S : ToSet(Children[k]) \intersect M \subseteq S) => m \in S}

(* What is clean was scanned, every blob of the manifests that are there   *)
(* and that it reaches: "bytes stay unavailable until a scanner positively *)
(* marks the artifact clean" (README.md:593).  Not those that the run      *)
(* behind the verdict did not find and that are pushed again: the verdict  *)
(* is written by the artifact's id alone (scan-results.ts:151, 180), a     *)
(* push commits the row before it withdraws a verdict, and the push of a   *)
(* child withdraws none of its parent (oci-manifest-lifecycle.ts:55-99).   *)
CleanWasScanned ==
  state = "clean" => Payload(Reached(manifests \ judged.missing)) \subseteq ever
=============================================================================
