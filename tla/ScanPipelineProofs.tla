------------------------- MODULE ScanPipelineProofs -------------------------
(***************************************************************************)
(* The scan of one artifact for any graph of manifests, any scanners and   *)
(* findings, any number of workers whose scans overlap, and any pushes,    *)
(* deletions, losses, policies and crashes meanwhile.                      *)
(*                                                                         *)
(* A run keeps account of what it has to visit: a manifest that is walked  *)
(* has its blobs waiting or scanned and its children seen or queued, and a *)
(* blob that is scanned and not busy is covered.  With nothing queued,     *)
(* waiting or busy, that is the whole payload.  Findings are one run's     *)
(* because the lock is held from the delete to the insert, and they are    *)
(* those of the verdict while no two runs overlap.  What was walked before *)
(* a verdict is closed under children but for what was missing, whichever  *)
(* manifests come and go after it.                                         *)
(***************************************************************************)
EXTENDS ScanPipeline, SequenceTheorems, FiniteSetTheorems, TLAPS

FindingRow == [by : 1..MaxRuns, finding : Possible]

Run == [at : Stages, id : 0..MaxRuns, queue : Seq(Manifests),
        seen : SUBSET Manifests, walked : SUBSET Manifests, missing : SUBSET Manifests,
        waiting : SUBSET Blobs, busy : SUBSET Blobs, scanned : SUBSET Blobs,
        covered : SUBSET (Blobs \X Types(runtime.content)),
        found : SUBSET Possible, doomed : SUBSET FindingRow]

Deployed == \E s \in Settings : root = s.root /\ runtime = s.runtime

(* The shape of a run: what TypeOK says of it.                             *)
ShapeOK(r) ==
  /\ r \in Run /\ (r.at # "idle" => r.id \in 1..runs)
  /\ IsFiniteSet(r.busy) /\ Cardinality(r.busy) <= BlobLimit
  /\ r.waiting \intersect r.busy = {} /\ r.busy \subseteq r.scanned
  /\ r.walked \union r.missing = r.seen
  /\ IsFiniteSet(r.found) /\ \A f, g \in r.found : f.key = g.key => f = g

(* A run that has not failed has lost nothing it is to visit.              *)
WalkOK(r) ==
  r.at \notin {"idle", "failed"} =>
    /\ (r.scanned \ r.busy) \X (Types(runtime.content) \intersect Gating) \subseteq r.covered
    /\ r.scanned \ r.busy \subseteq ever
    /\ Payload(r.walked) \subseteq r.waiting \union r.scanned
    /\ IsGraph => root \in r.seen \union ToSet(r.queue)
    /\ \A m \in r.walked : ToSet(Children[m]) \subseteq r.seen \union ToSet(r.queue)
    /\ IsGraph /\ root \notin r.walked =>
         /\ r.walked = {} /\ r.waiting = {} /\ r.scanned = {}
         /\ ToSet(r.queue) \subseteq {root}
    /\ r.at # "walk" => r.waiting = {} /\ r.busy = {} /\ r.queue = <<>>
    /\ r.at \in {"dependencies", "persist", "replace", "judge"} => r.scanned # {}

RunInv == \A w \in Workers : ShapeOK(run[w]) /\ WalkOK(run[w])

LockInv ==
  /\ \A w \in Workers : At(w, "replace") => lock = w /\ run[w].doomed = findings
  /\ \A x, y \in findings : x.by = y.by

Explained ==
  /\ \A x \in findings : x.by = judged.id
  /\ state = Verdict({x.finding : x \in findings}, judged.policy)

(* While no two runs overlap, what one wrote stays until it has ended.     *)
AloneInv ==
  ~ mixed =>
    /\ \A v, w \in Workers : ~ At(v, "idle") /\ ~ At(w, "idle") => v = w
    /\ outbox.status = "succeeded" => \A w \in Workers : At(w, "idle")
    /\ \A w \in Workers : At(w, "judge") =>
         findings = [by : {run[w].id}, finding : run[w].found]
    /\ judged.from = "scan" /\ state # "pending"
         /\ (outbox.status = "succeeded" \/ \E w \in Workers : At(w, "done")) => Explained

(* A verdict that is clean: the manifests walked for it are closed under   *)
(* children, but for those that were missing, and were scanned.            *)
JudgedAll ==
  state = "clean" =>
    /\ judged.walked \subseteq Manifests /\ Payload(judged.walked) \subseteq ever
    /\ IsGraph => root \in judged.walked \union judged.missing
    /\ \A m \in judged.walked :
         ToSet(Children[m]) \subseteq judged.walked \union judged.missing

(* A request on its way pushes a manifest of the artifact.                 *)
PushOK ==
  /\ push \in [Clients -> [at : {"idle", "checked", "committed", "versioned"},
                            of : {root} \union Parts]]
  /\ \A c \in Clients : push[c].at # "idle" => push[c].of \in Parts

Tables ==
  /\ bytes \subseteq Payload(Parts) /\ manifests \subseteq Parts /\ live \in BOOLEAN
  /\ PushOK
  /\ policy \in [now : Policies, cached : Policies]
  /\ state \in {"pending", "clean", "quarantined", "blocked"}
  /\ outbox \in [status : {"pending", "processing", "succeeded"},
                 owner : Workers \union {Nobody}]
  /\ scan \in {"none", "succeeded", "failed"} /\ lock \in Workers \union {Nobody}
  /\ findings \subseteq FindingRow
  /\ run \in [Workers -> Run]
  /\ mixed \in BOOLEAN /\ runs \in 0..MaxRuns /\ changes \in 0..MaxChanges

IInv ==
  /\ Deployed /\ Tables /\ RunInv /\ LockInv /\ AloneInv
  /\ VerdictIsCovered /\ JudgedAll

-----------------------------------------------------------------------------
(* The artifact, its parts and its payload.                                *)

LEMMA Rigid ==
  ASSUME UNCHANGED rigid
  PROVE  /\ root' = root /\ runtime' = runtime /\ Possible' = Possible
         /\ FindingRow' = FindingRow /\ Run' = Run /\ (IsGraph' <=> IsGraph) /\ Parts' = Parts
         /\ Deployed => Deployed'
BY DEF rigid, Possible, FindingRow, Run, IsGraph, Parts, Deployed

LEMMA DeployedFacts ==
  ASSUME Deployed
  PROVE  /\ root \in Blobs \union Manifests /\ runtime.workers \subseteq Workers
         /\ (IsGraph <=> root \notin Blobs) /\ Parts \subseteq Manifests
         /\ \A F \in runtime.stream \union runtime.reports \union runtime.dependencies :
              IsFiniteSet(F) /\ F \subseteq Possible
BY PipelineAssumption DEF Deployed, IsGraph, Parts, Possible

LEMMA PayloadFacts ==
  ASSUME Deployed, NEW P \in SUBSET Manifests
  PROVE  /\ Payload(P) \subseteq Blobs
         /\ \A Q \in SUBSET P : Payload(Q) \subseteq Payload(P)
         /\ IsGraph => Payload(P) = UNION {Layers[m] : m \in P}
         /\ ~ IsGraph => Payload(P) = {root}
BY PipelineAssumption, DeployedFacts DEF Payload

LEMMA QueueHead ==
  ASSUME NEW q \in Seq(Manifests), q # <<>>
  PROVE  /\ Head(q) \in Manifests /\ Tail(q) \in Seq(Manifests)
         /\ ToSet(q) = {Head(q)} \union ToSet(Tail(q))
<1>1. /\ Head(q) \in Manifests /\ Tail(q) \in Seq(Manifests)
      /\ DOMAIN q = 1..Len(q) /\ Len(q) \in Nat /\ Len(q) >= 1
      /\ DOMAIN Tail(q) = 1..(Len(q) - 1)
      /\ \A i \in 1..(Len(q) - 1) : Tail(q)[i] = q[i + 1]
      /\ Head(q) = q[1]
  BY HeadTailProperties
<1>2. \A x \in ToSet(q) : x \in {Head(q)} \union ToSet(Tail(q))
  <2>1. ASSUME NEW i \in DOMAIN q, i # 1 PROVE q[i] \in ToSet(Tail(q))
    <3>1. i - 1 \in DOMAIN Tail(q) /\ Tail(q)[i - 1] = q[i]
      BY <1>1, <2>1
    <3> QED BY <3>1 DEF ToSet
  <2> QED BY <1>1, <2>1 DEF ToSet
<1>3. \A x \in ToSet(Tail(q)) : x \in ToSet(q)
  BY <1>1 DEF ToSet
<1>4. Head(q) \in ToSet(q)
  BY <1>1 DEF ToSet
<1> QED BY <1>1, <1>2, <1>3, <1>4

LEMMA QueueConcat ==
  ASSUME NEW p \in Seq(Manifests), NEW q \in Seq(Manifests)
  PROVE  p \o q \in Seq(Manifests) /\ ToSet(p \o q) = ToSet(p) \union ToSet(q)
<1>1. /\ p \o q \in Seq(Manifests) /\ Len(p \o q) = Len(p) + Len(q)
      /\ \A i \in 1..Len(p) : (p \o q)[i] = p[i]
      /\ \A i \in 1..Len(q) : (p \o q)[Len(p) + i] = q[i]
      /\ Len(p) \in Nat /\ Len(q) \in Nat
      /\ DOMAIN p = 1..Len(p) /\ DOMAIN q = 1..Len(q) /\ DOMAIN (p \o q) = 1..(Len(p) + Len(q))
  OBVIOUS
<1>2. \A x \in ToSet(p \o q) : x \in ToSet(p) \union ToSet(q)
  <2>1. ASSUME NEW i \in 1..(Len(p) + Len(q)), i > Len(p) PROVE (p \o q)[i] \in ToSet(q)
    <3>1. i - Len(p) \in 1..Len(q) /\ (p \o q)[Len(p) + (i - Len(p))] = q[i - Len(p)]
      BY <1>1, <2>1
    <3>2. Len(p) + (i - Len(p)) = i
      BY <1>1
    <3> QED BY <1>1, <3>1, <3>2 DEF ToSet
  <2>2. ASSUME NEW i \in 1..(Len(p) + Len(q)), ~ i > Len(p) PROVE (p \o q)[i] \in ToSet(p)
    <3>1. i \in 1..Len(p) /\ (p \o q)[i] = p[i]
      BY <1>1, <2>2
    <3> QED BY <1>1, <3>1 DEF ToSet
  <2> QED BY <1>1, <2>1, <2>2 DEF ToSet
<1>3. \A x \in ToSet(p) : x \in ToSet(p \o q)
  BY <1>1 DEF ToSet
<1>4. ASSUME NEW i \in DOMAIN q PROVE q[i] \in ToSet(p \o q)
  <2>1. Len(p) + i \in DOMAIN (p \o q) /\ (p \o q)[Len(p) + i] = q[i]
    BY <1>1
  <2> QED BY <2>1 DEF ToSet
<1> QED BY <1>1, <1>2, <1>3, <1>4 DEF ToSet

LEMMA EmptyQueue == <<>> \in Seq(Manifests) /\ ToSet(<<>>) = {}
BY DEF ToSet

(* Findings with distinct keys are as many as their keys.                  *)
LEMMA KeysCount ==
  ASSUME NEW F, IsFiniteSet(F), \A f, g \in F : f.key = g.key => f = g
  PROVE  Cardinality(Keys(F)) = Cardinality(F)
<1> DEFINE h == [f \in F |-> f.key]
<1>1. h \in Bijection(F, Keys(F))
  BY DEF Bijection, Injection, Surjection, IsInjective, Keys
<1>2. ExistsBijection(F, Keys(F))
  BY <1>1 DEF ExistsBijection
<1> QED BY <1>2, FS_Bijection

LEMMA MergedFindings ==
  ASSUME Deployed, NEW F \in SUBSET Possible, IsFiniteSet(F),
         NEW more \in runtime.stream \union runtime.reports \union runtime.dependencies,
         NEW G \in Merges(F, more)
  PROVE  /\ G \in SUBSET Possible /\ IsFiniteSet(G)
         /\ \A f, g \in G : f.key = g.key => f = g
<1>1. IsFiniteSet(more) /\ more \subseteq Possible
  BY DeployedFacts
<1>2. IsFiniteSet(F \union more)
  BY <1>1, FS_Union
<1>3. /\ G \in SUBSET (F \union more)
      /\ \A f, g \in G : f.key = g.key => f = g
  BY DEF Merges
<1> QED BY <1>1, <1>2, <1>3, FS_Subset

-----------------------------------------------------------------------------
(* Runs.                                                                   *)

LEMMA RunOf ==
  ASSUME IInv, NEW w \in Workers
  PROVE  /\ ShapeOK(run[w]) /\ WalkOK(run[w]) /\ run[w] \in Run
         /\ run[w].found \in SUBSET Possible
BY DEF IInv, RunInv, ShapeOK, Run

LEMMA OneRuns ==
  ASSUME IInv, UNCHANGED rigid, NEW w \in Workers, NEW r \in Run,
         run' = [run EXCEPT ![w] = r]
  PROVE  /\ run' \in [Workers -> Run] /\ run' \in [Workers -> Run'] /\ run'[w] = r
         /\ \A v \in Workers : v # w => run'[v] = run[v]
BY Rigid DEF IInv, Tables

(* What a run has done stays done.                                         *)
LEMMA RunKept ==
  ASSUME UNCHANGED rigid, runs \in Nat, runs' \in Nat, runs <= runs', ever \subseteq ever',
         NEW r, ShapeOK(r), WalkOK(r)
  PROVE  ShapeOK(r)' /\ WalkOK(r)'
<1>1. ShapeOK(r)'
  <2>1. r \in Run' /\ (r.at # "idle" => r.id \in 1..runs')
    BY Rigid DEF ShapeOK, Run
  <2> QED BY <2>1 DEF ShapeOK
<1>2. WalkOK(r)'
  BY Rigid DEF WalkOK, Payload
<1> QED BY <1>1, <1>2

LEMMA RunInvKept ==
  ASSUME IInv, UNCHANGED rigid, runs' \in Nat, runs <= runs', ever \subseteq ever',
         NEW W \in SUBSET Workers, \A w \in W : run'[w] = run[w]
  PROVE  \A w \in W : ShapeOK(run[w])' /\ WalkOK(run[w])'
<1>1. ASSUME NEW w \in W PROVE ShapeOK(run[w])' /\ WalkOK(run[w])'
  <2>1. PICK r : r = run[w]
    OBVIOUS
  <2>2. ShapeOK(r) /\ WalkOK(r) /\ runs \in Nat
    BY <2>1 DEF IInv, RunInv, Tables
  <2>3. ShapeOK(r)' /\ WalkOK(r)'
    BY <2>2, RunKept
  <2> QED BY <2>1, <2>3
<1> QED BY <1>1

(* A step of a run that scans: it touches nothing that is stored.          *)
LEMMA ScanStep ==
  ASSUME IInv, NEW w \in Workers, NEW r,
         UNCHANGED <<rigid, stored, policy, state, outbox, reported, judged, mixed,
                     runs, changes>>,
         ever \subseteq ever', run' = [run EXCEPT ![w] = r],
         run[w].at \in {"walk", "dependencies"},
         r.at \in {"walk", "skipDeleted", "skipEmpty", "dependencies", "persist", "failed"},
         ShapeOK(r), WalkOK(r)'
  PROVE  IInv'
<1>1. UNCHANGED <<root, runtime, bytes, manifests, live, push, policy, state, outbox, scan, lock,
                  findings, judged, mixed, runs, changes>>
  BY DEF rigid, stored, reported
<1>2. r \in Run
  BY DEF ShapeOK
<1>3. /\ run' \in [Workers -> Run'] /\ run'[w] = r
      /\ \A v \in Workers : v # w => run'[v] = run[v]
  BY <1>2, OneRuns
<1>4. Tables' /\ Deployed'
  BY <1>1, <1>3, Rigid DEF IInv, Tables, PushOK, Payload
<1>5. RunInv'
  <2>1. runs' \in Nat /\ runs <= runs' /\ Workers \ {w} \in SUBSET Workers
    BY <1>1 DEF IInv, Tables
  <2>2. ShapeOK(r)' /\ WalkOK(r)'
    <3>1. ShapeOK(r)'
      BY <1>1, Rigid DEF ShapeOK
    <3> QED BY <3>1
  <2>3. ShapeOK(run[w])' /\ WalkOK(run[w])'
    BY <1>3, <2>2
  <2>4. \A v \in Workers \ {w} : ShapeOK(run[v])' /\ WalkOK(run[v])'
    BY <1>3, <2>1, RunInvKept
  <2> QED BY <2>3, <2>4 DEF RunInv
<1>6. LockInv'
  BY <1>1, <1>3 DEF IInv, LockInv, At
<1>7. AloneInv'
  <2>1. \A v \in Workers : /\ At(v, "idle")' <=> At(v, "idle")
                           /\ At(v, "judge")' => At(v, "judge") /\ run'[v] = run[v]
                           /\ At(v, "done")' => At(v, "done")
    BY <1>3 DEF At
  <2>2. Explained => Explained'
    BY <1>1 DEF Explained, Verdict, Violates
  <2> QED BY <1>1, <2>1, <2>2 DEF IInv, AloneInv
<1>8. VerdictIsCovered' /\ JudgedAll'
  BY <1>1, Rigid DEF IInv, VerdictIsCovered, JudgedAll, Payload
<1> QED BY <1>4, <1>5, <1>6, <1>7, <1>8 DEF IInv

(* A run that fails is no longer accountable.                              *)
LEMMA FailStep ==
  ASSUME IInv, NEW w \in Workers, NEW r,
         UNCHANGED <<rigid, stored, policy, state, outbox, reported, history, runs, changes>>,
         run' = [run EXCEPT ![w] = r],
         run[w].at \in {"walk", "dependencies"}, r.at = "failed", ShapeOK(r)
  PROVE  IInv'
<1>1. WalkOK(r)'
  BY DEF WalkOK
<1>2. UNCHANGED <<judged, mixed, ever>>
  BY DEF history
<1> QED BY <1>1, <1>2, ScanStep

(* The next digest of the queue: what it names becomes what is to do.      *)
LEMMA LoadManifestIInv ==
  ASSUME IInv, NEW w \in Workers, LoadManifest(w) PROVE IInv'
<1>1. /\ run[w].at = "walk" /\ BlobsDone(w) /\ run[w].queue # <<>>
      /\ UNCHANGED <<rigid, stored, policy, state, outbox, reported, judged, ever, mixed,
                     runs, changes>>
  BY DEF LoadManifest, At, history
<1>2. PICK r : r = run[w]
  OBVIOUS
<1>3. PICK m : m = Head(r.queue)
  OBVIOUS
<1>4. /\ ShapeOK(r) /\ WalkOK(r) /\ r \in Run /\ r.at = "walk"
      /\ r.waiting = {} /\ r.busy = {} /\ r.queue # <<>> /\ Deployed
  BY <1>1, <1>2, RunOf DEF BlobsDone, IInv
<1>5. /\ m \in Manifests /\ Tail(r.queue) \in Seq(Manifests)
      /\ ToSet(r.queue) = {m} \union ToSet(Tail(r.queue))
  BY <1>3, <1>4, QueueHead DEF Run
<1>6. /\ Layers[m] \subseteq Blobs /\ Children[m] \in Seq(Manifests)
      /\ Tail(r.queue) \o Children[m] \in Seq(Manifests)
      /\ ToSet(Tail(r.queue) \o Children[m]) = ToSet(Tail(r.queue)) \union ToSet(Children[m])
  BY <1>5, PipelineAssumption, QueueConcat
<1>7. CASE m \in r.seen
  <2>1. PICK n : n = [r EXCEPT !.queue = Tail(r.queue)]
    OBVIOUS
  <2>2. /\ n \in Run /\ n.queue = Tail(r.queue) /\ n.at = r.at /\ n.id = r.id
        /\ n.seen = r.seen /\ n.walked = r.walked /\ n.missing = r.missing
        /\ n.waiting = r.waiting /\ n.busy = r.busy /\ n.scanned = r.scanned
        /\ n.covered = r.covered /\ n.found = r.found
    BY <1>4, <1>5, <2>1 DEF Run
  <2>3. ShapeOK(n)
    BY <1>4, <2>2 DEF ShapeOK
  <2>4. WalkOK(n)
    BY <1>4, <1>5, <1>7, <2>2 DEF WalkOK
  <2>5. WalkOK(n)'
    BY <1>1, <2>4, Rigid DEF WalkOK, Payload
  <2>6. run' = [run EXCEPT ![w] = n]
    BY <1>2, <1>3, <1>7, <2>1 DEF LoadManifest
  <2> QED BY <1>1, <1>2, <1>4, <2>2, <2>3, <2>5, <2>6, ScanStep
<1>8. CASE m \notin r.seen /\ m \notin manifests
  <2>1. PICK n : n = [r EXCEPT !.queue = Tail(r.queue), !.seen = r.seen \union {m},
                               !.missing = r.missing \union {m}]
    OBVIOUS
  <2>2. /\ n \in Run /\ n.queue = Tail(r.queue) /\ n.at = r.at /\ n.id = r.id
        /\ n.seen = r.seen \union {m} /\ n.walked = r.walked
        /\ n.missing = r.missing \union {m}
        /\ n.waiting = r.waiting /\ n.busy = r.busy /\ n.scanned = r.scanned
        /\ n.covered = r.covered /\ n.found = r.found
    BY <1>4, <1>5, <2>1 DEF Run
  <2>3. ShapeOK(n)
    BY <1>4, <2>2 DEF ShapeOK
  <2>4. WalkOK(n)
    BY <1>4, <1>5, <1>8, <2>2 DEF WalkOK
  <2>5. WalkOK(n)'
    BY <1>1, <2>4, Rigid DEF WalkOK, Payload
  <2>6. run' = [run EXCEPT ![w] = n]
    BY <1>2, <1>3, <1>8, <2>1 DEF LoadManifest
  <2> QED BY <1>1, <1>2, <1>4, <2>2, <2>3, <2>5, <2>6, ScanStep
<1>9. CASE m \notin r.seen /\ m \in manifests
  <2>1. PICK n : n = [r EXCEPT !.queue = Tail(r.queue) \o Children[m],
                               !.seen = r.seen \union {m},
                               !.walked = r.walked \union {m}, !.waiting = Layers[m]]
    OBVIOUS
  <2>2. /\ n \in Run /\ n.queue = Tail(r.queue) \o Children[m] /\ n.at = r.at /\ n.id = r.id
        /\ n.seen = r.seen \union {m} /\ n.walked = r.walked \union {m}
        /\ n.missing = r.missing
        /\ n.waiting = Layers[m] /\ n.busy = r.busy /\ n.scanned = r.scanned
        /\ n.covered = r.covered /\ n.found = r.found
    BY <1>4, <1>5, <1>6, <2>1 DEF Run
  <2>3. ShapeOK(n)
    BY <1>4, <2>2 DEF ShapeOK
  <2>4. WalkOK(n)
    <3>1. Payload(n.walked) \subseteq n.waiting \union n.scanned
      <4>1. CASE IsGraph
        BY <1>4, <2>2, <4>1 DEF WalkOK, Payload
      <4>2. CASE ~ IsGraph
        BY <1>4, <2>2, <4>2 DEF WalkOK, Payload
      <4> QED BY <4>1, <4>2
    <3>2. IsGraph => root \in n.seen \union ToSet(n.queue)
      BY <1>4, <1>5, <1>6, <2>2 DEF WalkOK
    <3>3. \A k \in n.walked : ToSet(Children[k]) \subseteq n.seen \union ToSet(n.queue)
      BY <1>4, <1>5, <1>6, <2>2 DEF WalkOK
    <3>4. IsGraph /\ root \notin n.walked => FALSE
      <4>1. ASSUME IsGraph, root \notin r.walked PROVE m = root
        BY <1>4, <1>5, <4>1 DEF WalkOK
      <4> QED BY <2>2, <4>1
    <3> QED BY <1>4, <2>2, <3>1, <3>2, <3>3, <3>4 DEF WalkOK
  <2>5. WalkOK(n)'
    BY <1>1, <2>4, Rigid DEF WalkOK, Payload
  <2>6. run' = [run EXCEPT ![w] = n]
    BY <1>2, <1>3, <1>9, <2>1 DEF LoadManifest
  <2> QED BY <1>1, <1>2, <1>4, <2>2, <2>3, <2>5, <2>6, ScanStep
<1> QED BY <1>7, <1>8, <1>9

LEMMA StartBlobIInv ==
  ASSUME IInv, NEW w \in Workers, NEW b \in Blobs, StartBlob(w, b) PROVE IInv'
<1>1. /\ run[w].at = "walk" /\ b \in run[w].waiting /\ Cardinality(run[w].busy) < BlobLimit
      /\ UNCHANGED <<rigid, stored, policy, state, outbox, reported, history, judged, ever,
                     mixed, runs, changes>>
  BY DEF StartBlob, At, MayStart, history
<1>2. PICK r : r = run[w]
  OBVIOUS
<1>3. /\ ShapeOK(r) /\ WalkOK(r) /\ r \in Run /\ r.at = "walk" /\ b \in r.waiting
      /\ Cardinality(r.busy) < BlobLimit
  BY <1>1, <1>2, RunOf
<1>4. PICK n : /\ run' = [run EXCEPT ![w] = n]
               /\ n = IF b \in r.scanned THEN [r EXCEPT !.waiting = r.waiting \ {b}]
                      ELSE IF b \notin bytes \/ (runtime.requested /\ runtime.content = {})
                        THEN [r EXCEPT !.waiting = r.waiting \ {b}, !.at = "failed"]
                        ELSE [r EXCEPT !.waiting = r.waiting \ {b}, !.busy = r.busy \union {b},
                                       !.scanned = r.scanned \union {b}]
  BY <1>2 DEF StartBlob
<1>5. CASE b \in r.scanned
  <2>1. n = [r EXCEPT !.waiting = r.waiting \ {b}]
    BY <1>4, <1>5
  <2>2. /\ n \in Run /\ n.queue = r.queue /\ n.at = r.at /\ n.id = r.id
        /\ n.seen = r.seen /\ n.walked = r.walked /\ n.missing = r.missing
        /\ n.waiting = r.waiting \ {b} /\ n.busy = r.busy /\ n.scanned = r.scanned
        /\ n.covered = r.covered /\ n.found = r.found
    BY <1>3, <2>1 DEF Run
  <2>3. ShapeOK(n)
    BY <1>3, <2>2 DEF ShapeOK
  <2>4. WalkOK(n)
    BY <1>3, <1>5, <2>2 DEF WalkOK
  <2>5. WalkOK(n)'
    BY <1>1, <2>4, Rigid DEF WalkOK, Payload
  <2> QED BY <1>1, <1>2, <1>3, <1>4, <2>2, <2>3, <2>5, ScanStep
<1>6. CASE b \notin r.scanned /\ (b \notin bytes \/ (runtime.requested /\ runtime.content = {}))
  <2>1. n = [r EXCEPT !.waiting = r.waiting \ {b}, !.at = "failed"]
    BY <1>4, <1>6
  <2>2. /\ n \in Run /\ n.at = "failed" /\ n.id = r.id
        /\ n.seen = r.seen /\ n.walked = r.walked /\ n.missing = r.missing
        /\ n.waiting = r.waiting \ {b} /\ n.busy = r.busy /\ n.scanned = r.scanned
        /\ n.found = r.found
    BY <1>3, <2>1 DEF Run, Stages
  <2>3. ShapeOK(n)
    BY <1>3, <2>2 DEF ShapeOK
  <2> QED BY <1>1, <1>2, <1>3, <1>4, <2>2, <2>3, FailStep
<1>7. CASE b \notin r.scanned /\ ~ (b \notin bytes \/ (runtime.requested /\ runtime.content = {}))
  <2>1. n = [r EXCEPT !.waiting = r.waiting \ {b}, !.busy = r.busy \union {b},
                      !.scanned = r.scanned \union {b}]
    BY <1>4, <1>7
  <2>2. /\ n \in Run /\ n.queue = r.queue /\ n.at = r.at /\ n.id = r.id
        /\ n.seen = r.seen /\ n.walked = r.walked /\ n.missing = r.missing
        /\ n.waiting = r.waiting \ {b} /\ n.busy = r.busy \union {b}
        /\ n.scanned = r.scanned \union {b}
        /\ n.covered = r.covered /\ n.found = r.found
    BY <1>3, <2>1 DEF Run
  <2>3. ShapeOK(n)
    <3>1. IsFiniteSet(r.busy) /\ Cardinality(r.busy) \in Nat
      BY <1>3, FS_CardinalityType DEF ShapeOK
    <3>2. /\ IsFiniteSet(r.busy \union {b})
          /\ Cardinality(r.busy \union {b}) =
               IF b \in r.busy THEN Cardinality(r.busy) ELSE Cardinality(r.busy) + 1
      BY <3>1, FS_AddElement
    <3>3. Cardinality(r.busy \union {b}) <= BlobLimit
      BY <1>3, <3>1, <3>2, PipelineAssumption
    <3> QED BY <1>3, <2>2, <3>2, <3>3 DEF ShapeOK
  <2>4. WalkOK(n)
    BY <1>3, <2>2 DEF WalkOK
  <2>5. WalkOK(n)'
    BY <1>1, <2>4, Rigid DEF WalkOK, Payload
  <2> QED BY <1>1, <1>2, <1>3, <1>4, <2>2, <2>3, <2>5, ScanStep
<1> QED BY <1>5, <1>6, <1>7

(* A blob that no gating scanner is missing for is covered.                *)
LEMMA CoveredTypes ==
  ASSUME NEW ok \in SUBSET runtime.content, Uncovered(ok) = {}
  PROVE  /\ Types(runtime.content) \intersect Gating \subseteq Types(ok)
         /\ Types(ok) \subseteq Types(runtime.content)
BY DEF Uncovered, Types

LEMMA FinishBlobIInv ==
  ASSUME IInv, NEW w \in Workers, NEW b \in Blobs, FinishBlob(w, b) PROVE IInv'
<1>1. /\ run[w].at = "walk" /\ b \in run[w].busy
      /\ UNCHANGED <<rigid, stored, policy, state, outbox, reported, judged, mixed,
                     runs, changes>>
  BY DEF FinishBlob, At
<1>2. PICK r : r = run[w]
  OBVIOUS
<1>3. /\ ShapeOK(r) /\ WalkOK(r) /\ r \in Run /\ r.at = "walk" /\ b \in r.busy /\ Deployed
  BY <1>1, <1>2, RunOf DEF IInv
<1>4. CASE Goto(w, "failed") /\ UNCHANGED ever
  <2>1. PICK n : n = [r EXCEPT !.at = "failed"] /\ run' = [run EXCEPT ![w] = n]
    BY <1>2, <1>4 DEF Goto
  <2>2. /\ n \in Run /\ n.at = "failed" /\ n.id = r.id
        /\ n.seen = r.seen /\ n.walked = r.walked /\ n.missing = r.missing
        /\ n.waiting = r.waiting /\ n.busy = r.busy /\ n.scanned = r.scanned
        /\ n.found = r.found
    BY <1>3, <2>1 DEF Run, Stages
  <2>3. ShapeOK(n)
    BY <1>3, <2>2 DEF ShapeOK
  <2>4. UNCHANGED history
    BY <1>1, <1>4 DEF history
  <2> QED BY <1>1, <1>2, <1>3, <2>1, <2>2, <2>3, <2>4, FailStep
<1>5. ASSUME NEW ok \in SUBSET runtime.content, Uncovered(ok) = {},
             NEW early \in runtime.stream, NEW late \in runtime.reports,
             NEW first \in Merges(r.found, early), NEW found \in Merges(first, late),
             ever' = ever \union {b},
             run' = [run EXCEPT ![w] =
                       [r EXCEPT !.busy = r.busy \ {b}, !.found = found,
                                 !.covered = r.covered \union ({b} \X Types(ok))]]
      PROVE  IInv'
  <2>1. PICK n : /\ n = [r EXCEPT !.busy = r.busy \ {b}, !.found = found,
                                  !.covered = r.covered \union ({b} \X Types(ok))]
                 /\ run' = [run EXCEPT ![w] = n]
    BY <1>5
  <2>2. /\ found \in SUBSET Possible /\ IsFiniteSet(found)
        /\ \A f, g \in found : f.key = g.key => f = g
    <3>1. r.found \in SUBSET Possible /\ IsFiniteSet(r.found)
      BY <1>3 DEF ShapeOK, Run
    <3>2. first \in SUBSET Possible /\ IsFiniteSet(first)
      BY <1>3, <3>1, MergedFindings
    <3> QED BY <1>3, <3>2, MergedFindings
  <2>3. /\ {b} \X Types(ok) \subseteq Blobs \X Types(runtime.content)
        /\ {b} \X (Types(runtime.content) \intersect Gating) \subseteq {b} \X Types(ok)
    BY <1>5, CoveredTypes
  <2>4. /\ n \in Run /\ n.queue = r.queue /\ n.at = r.at /\ n.id = r.id
        /\ n.seen = r.seen /\ n.walked = r.walked /\ n.missing = r.missing
        /\ n.waiting = r.waiting /\ n.busy = r.busy \ {b} /\ n.scanned = r.scanned
        /\ n.covered = r.covered \union ({b} \X Types(ok)) /\ n.found = found
    <3>1. r.covered \union ({b} \X Types(ok)) \in SUBSET (Blobs \X Types(runtime.content))
      BY <1>3, <2>3 DEF Run
    <3> QED BY <1>3, <2>1, <2>2, <3>1 DEF Run
  <2>5. ShapeOK(n)
    <3>1. IsFiniteSet(r.busy) /\ Cardinality(r.busy) \in Nat /\ Cardinality(r.busy) <= BlobLimit
      BY <1>3, FS_CardinalityType DEF ShapeOK
    <3>2. /\ IsFiniteSet(r.busy \ {b})
          /\ Cardinality(r.busy \ {b}) = Cardinality(r.busy) - 1
      BY <1>3, <3>1, FS_RemoveElement
    <3>3. Cardinality(r.busy \ {b}) <= BlobLimit
      BY <3>1, <3>2, PipelineAssumption
    <3> QED BY <1>3, <2>2, <2>4, <3>2, <3>3 DEF ShapeOK
  <2>6. WalkOK(n)'
    <3>1. (n.scanned \ n.busy) \X (Types(runtime.content) \intersect Gating) \subseteq n.covered
      BY <1>3, <2>3, <2>4 DEF WalkOK
    <3>2. n.scanned \ n.busy \subseteq ever'
      BY <1>3, <1>5, <2>4 DEF WalkOK
    <3>3. Payload(n.walked)' = Payload(n.walked)
      BY <1>1, Rigid DEF Payload
    <3> QED BY <1>1, <1>3, <2>4, <3>1, <3>2, <3>3, Rigid DEF WalkOK
  <2> QED BY <1>1, <1>2, <1>3, <1>5, <2>1, <2>4, <2>5, <2>6, ScanStep
<1>6. PICK ok \in SUBSET runtime.content, early \in runtime.stream, late \in runtime.reports :
        \/ Goto(w, "failed") /\ UNCHANGED ever
        \/ /\ Uncovered(ok) = {} /\ ever' = ever \union {b}
           /\ \E first \in Merges(run[w].found, early) : \E found \in Merges(first, late) :
                run' = [run EXCEPT ![w].busy = @ \ {b}, ![w].found = found,
                          ![w].covered = @ \union ({b} \X Types(ok))]
  BY DEF FinishBlob
<1>7. CASE ~ (Goto(w, "failed") /\ UNCHANGED ever)
  <2>1. PICK first \in Merges(run[w].found, early) : \E found \in Merges(first, late) :
          run' = [run EXCEPT ![w].busy = @ \ {b}, ![w].found = found,
                    ![w].covered = @ \union ({b} \X Types(ok))]
    BY <1>6, <1>7
  <2>2. PICK found \in Merges(first, late) :
          run' = [run EXCEPT ![w].busy = @ \ {b}, ![w].found = found,
                    ![w].covered = @ \union ({b} \X Types(ok))]
    BY <2>1
  <2>3. run' = [run EXCEPT ![w] =
                  [r EXCEPT !.busy = r.busy \ {b}, !.found = found,
                            !.covered = r.covered \union ({b} \X Types(ok))]]
    BY <1>2, <2>2
  <2> QED BY <1>2, <1>5, <1>6, <1>7, <2>1, <2>2, <2>3
<1> QED BY <1>4, <1>7

LEMMA ExamineIInv ==
  ASSUME IInv, NEW w \in Workers, Examine(w) PROVE IInv'
<1>1. /\ run[w].at = "walk" /\ BlobsDone(w) /\ run[w].queue = <<>>
      /\ UNCHANGED <<rigid, stored, policy, state, outbox, reported, history, judged, ever,
                     mixed, runs, changes>>
  BY DEF Examine, At, history
<1>2. PICK r : r = run[w]
  OBVIOUS
<1>3. /\ ShapeOK(r) /\ WalkOK(r) /\ r \in Run /\ r.at = "walk"
      /\ r.waiting = {} /\ r.busy = {} /\ r.queue = <<>>
  BY <1>1, <1>2, RunOf DEF BlobsDone
<1>4. PICK l \in {"dependencies", "skipDeleted", "skipEmpty", "failed"} :
        Goto(w, l) /\ (l = "dependencies" => r.scanned # {})
  BY <1>2 DEF Examine
<1>5. PICK n : n = [r EXCEPT !.at = l] /\ run' = [run EXCEPT ![w] = n]
  BY <1>2, <1>4 DEF Goto
<1>6. /\ n \in Run /\ n.at = l /\ n.id = r.id /\ n.queue = r.queue
      /\ n.seen = r.seen /\ n.walked = r.walked /\ n.missing = r.missing
      /\ n.waiting = r.waiting /\ n.busy = r.busy /\ n.scanned = r.scanned
      /\ n.covered = r.covered /\ n.found = r.found
  BY <1>3, <1>5 DEF Run, Stages
<1>7. ShapeOK(n)
  BY <1>3, <1>6 DEF ShapeOK
<1>8. WalkOK(n)
  BY <1>3, <1>4, <1>6 DEF WalkOK
<1>9. WalkOK(n)'
  BY <1>1, <1>8, Rigid DEF WalkOK, Payload
<1> QED BY <1>1, <1>2, <1>3, <1>5, <1>6, <1>7, <1>9, ScanStep

LEMMA ScanDependenciesIInv ==
  ASSUME IInv, NEW w \in Workers, ScanDependencies(w) PROVE IInv'
<1>1. /\ run[w].at = "dependencies"
      /\ UNCHANGED <<rigid, stored, policy, state, outbox, reported, judged, ever, mixed,
                     runs, changes>>
  BY DEF ScanDependencies, At, history
<1>2. PICK r : r = run[w]
  OBVIOUS
<1>3. /\ ShapeOK(r) /\ WalkOK(r) /\ r \in Run /\ r.at = "dependencies" /\ Deployed
  BY <1>1, <1>2, RunOf DEF IInv
<1>4. PICK more \in runtime.dependencies : \E found \in Merges(r.found, more) :
        run' = [run EXCEPT ![w] = [r EXCEPT !.at = "persist", !.found = found]]
  BY <1>2 DEF ScanDependencies
<1>5. PICK found \in Merges(r.found, more) :
        run' = [run EXCEPT ![w] = [r EXCEPT !.at = "persist", !.found = found]]
  BY <1>4
<1>6. PICK n : n = [r EXCEPT !.at = "persist", !.found = found] /\ run' = [run EXCEPT ![w] = n]
  BY <1>5
<1>7. /\ found \in SUBSET Possible /\ IsFiniteSet(found)
      /\ \A f, g \in found : f.key = g.key => f = g
  BY <1>3, MergedFindings DEF ShapeOK, Run
<1>8. /\ n \in Run /\ n.at = "persist" /\ n.id = r.id /\ n.queue = r.queue
      /\ n.seen = r.seen /\ n.walked = r.walked /\ n.missing = r.missing
      /\ n.waiting = r.waiting /\ n.busy = r.busy /\ n.scanned = r.scanned
      /\ n.covered = r.covered /\ n.found = found
  BY <1>3, <1>6, <1>7 DEF Run, Stages
<1>9. ShapeOK(n)
  BY <1>3, <1>7, <1>8 DEF ShapeOK
<1>10. WalkOK(n)
  BY <1>3, <1>8 DEF WalkOK
<1>11. WalkOK(n)'
  BY <1>1, <1>10, Rigid DEF WalkOK, Payload
<1> QED BY <1>1, <1>2, <1>3, <1>6, <1>8, <1>9, <1>11, ScanStep
-----------------------------------------------------------------------------
(* Results, with the other runs as they are.                               *)

LEMMA RunsStep ==
  ASSUME IInv, UNCHANGED rigid, runs' \in Nat, runs <= runs', ever \subseteq ever',
         NEW w \in Workers, NEW r, run' = [run EXCEPT ![w] = r], r \in Run,
         ShapeOK(r)', WalkOK(r)'
  PROVE  /\ RunInv' /\ run' \in [Workers -> Run'] /\ run'[w] = r
         /\ \A v \in Workers : v # w => run'[v] = run[v]
<1>1. /\ run' \in [Workers -> Run'] /\ run'[w] = r
      /\ \A v \in Workers : v # w => run'[v] = run[v]
  BY OneRuns
<1>2. ShapeOK(run[w])' /\ WalkOK(run[w])'
  BY <1>1
<1>3. \A v \in Workers \ {w} : ShapeOK(run[v])' /\ WalkOK(run[v])'
  BY <1>1, RunInvKept
<1> QED BY <1>1, <1>2, <1>3 DEF RunInv

LEMMA IdleRun ==
  ASSUME BlobLimit \in Nat
  PROVE  NoRun \in Run /\ ShapeOK(NoRun) /\ WalkOK(NoRun) /\ NoRun.at = "idle"
<1>1. NoRun \in Run /\ NoRun.at = "idle"
  BY EmptyQueue, PipelineAssumption DEF NoRun, Run, Stages
<1>2. IsFiniteSet({}) /\ Cardinality({}) = 0
  BY FS_EmptySet
<1> QED BY <1>1, <1>2 DEF NoRun, ShapeOK, WalkOK

(* A run that ends leaves nothing behind but what it has written.          *)
LEMMA EndStep ==
  ASSUME IInv, NEW w \in Workers, run[w].at # "idle", run' = [run EXCEPT ![w] = NoRun],
         UNCHANGED <<rigid, stored, policy, state, findings, history, runs>>,
         lock' = lock \/ (lock = w /\ lock' = Nobody),
         scan' \in {"none", "succeeded", "failed"}, changes' \in 0..MaxChanges,
         outbox' \in [status : {"pending", "processing", "succeeded"},
                      owner : Workers \union {Nobody}],
         outbox'.status = "succeeded" => outbox' = outbox \/ run[w].at = "done"
  PROVE  IInv'
<1>1. UNCHANGED <<root, runtime, bytes, manifests, live, push, policy, state, findings, judged, ever,
                  mixed, runs>>
  BY DEF rigid, stored, history
<1>2. /\ NoRun \in Run /\ NoRun.at = "idle" /\ ShapeOK(NoRun)' /\ WalkOK(NoRun)'
      /\ runs \in Nat
  <2>1. runs \in Nat /\ runs' \in Nat /\ runs <= runs' /\ BlobLimit \in Nat
    BY <1>1, PipelineAssumption DEF IInv, Tables
  <2> QED BY <1>1, <2>1, IdleRun, RunKept
<1>3. /\ RunInv' /\ run' \in [Workers -> Run'] /\ run'[w] = NoRun
      /\ \A v \in Workers : v # w => run'[v] = run[v]
  <2>1. PICK r : r = NoRun
    OBVIOUS
  <2>2. /\ run' = [run EXCEPT ![w] = r] /\ r \in Run /\ ShapeOK(r)' /\ WalkOK(r)'
        /\ runs' \in Nat /\ runs <= runs' /\ ever \subseteq ever' /\ UNCHANGED rigid
    BY <1>1, <1>2, <2>1
  <2> QED BY <2>1, <2>2, RunsStep
<1>4. Tables' /\ Deployed'
  BY <1>1, <1>3, Rigid DEF IInv, Tables, PushOK, Payload
<1>5. LockInv'
  BY <1>1, <1>2, <1>3 DEF IInv, LockInv, At
<1>6. AloneInv'
  <2>1. \A v \in Workers : /\ At(v, "idle") => At(v, "idle")'
                           /\ At(v, "judge")' => At(v, "judge") /\ run'[v] = run[v]
                           /\ At(v, "done")' => At(v, "done")
    BY <1>2, <1>3 DEF At
  <2>2. Explained => Explained'
    BY <1>1 DEF Explained, Verdict, Violates
  <2>3. ~ mixed => \A v \in Workers : At(v, "idle")'
    BY <1>2, <1>3 DEF IInv, AloneInv, At
  <2>4. ~ mixed /\ outbox'.status = "succeeded" => At(w, "done")
    BY DEF IInv, AloneInv, At
  <2>5. \A v \in Workers : At(v, "idle")' => ~ At(v, "judge")' /\ ~ At(v, "done")'
    BY DEF At
  <2> QED BY <1>1, <2>1, <2>2, <2>3, <2>4, <2>5 DEF IInv, AloneInv
<1>7. VerdictIsCovered' /\ JudgedAll'
  BY <1>1, Rigid DEF IInv, VerdictIsCovered, JudgedAll, Payload
<1> QED BY <1>3, <1>4, <1>5, <1>6, <1>7 DEF IInv

LEMMA SucceedIInv ==
  ASSUME IInv, NEW w \in Workers, Succeed(w) PROVE IInv'
<1>1. /\ run[w].at = "done" /\ run' = [run EXCEPT ![w] = NoRun]
      /\ outbox' = IF outbox.owner = w THEN [status |-> "succeeded", owner |-> Nobody]
                   ELSE outbox
      /\ UNCHANGED <<rigid, stored, policy, state, findings, history, runs, lock, scan, changes>>
  BY DEF Succeed, At, Settled, reported
<1>2. /\ outbox' \in [status : {"pending", "processing", "succeeded"},
                      owner : Workers \union {Nobody}]
      /\ scan' \in {"none", "succeeded", "failed"} /\ changes' \in 0..MaxChanges
  BY <1>1 DEF IInv, Tables
<1> QED BY <1>1, <1>2, EndStep

LEMMA RecordFailureIInv ==
  ASSUME IInv, NEW w \in Workers, RecordFailure(w) PROVE IInv'
<1>1. /\ run[w].at = "failed" /\ run' = [run EXCEPT ![w] = NoRun] /\ scan' = "failed"
      /\ outbox' = IF outbox.owner = w THEN [status |-> "pending", owner |-> Nobody]
                   ELSE outbox
      /\ UNCHANGED <<rigid, stored, policy, state, findings, history, runs, lock, changes>>
  BY DEF RecordFailure, At, Settled
<1>2. /\ outbox' \in [status : {"pending", "processing", "succeeded"},
                      owner : Workers \union {Nobody}]
      /\ scan' \in {"none", "succeeded", "failed"} /\ changes' \in 0..MaxChanges
  BY <1>1 DEF IInv, Tables
<1>3. outbox'.status = "succeeded" => outbox' = outbox
  BY <1>1
<1> QED BY <1>1, <1>2, <1>3, EndStep

LEMMA CrashIInv ==
  ASSUME IInv, NEW w \in Workers, Crash(w) PROVE IInv'
<1>1. /\ run[w].at # "idle" /\ run' = [run EXCEPT ![w] = NoRun]
      /\ lock' = lock \/ (lock = w /\ lock' = Nobody)
      /\ UNCHANGED <<rigid, stored, policy, state, findings, history, runs, outbox, scan>>
  BY DEF Crash, At
<1>2. /\ outbox' \in [status : {"pending", "processing", "succeeded"},
                      owner : Workers \union {Nobody}]
      /\ scan' \in {"none", "succeeded", "failed"}
  BY <1>1 DEF IInv, Tables
<1>3. changes' \in 0..MaxChanges
  BY PipelineAssumption DEF Crash, IInv, Tables
<1> QED BY <1>1, <1>2, <1>3, EndStep

(* A run begins with the digest of a file to scan, or of a manifest to     *)
(* walk; it is alone unless another one has not ended.                     *)
LEMMA BeginIInv ==
  ASSUME IInv, NEW w \in Workers, Begin(w) PROVE IInv'
<1>1. /\ run[w].at = "idle" /\ outbox.status = "pending" /\ runs < MaxRuns
      /\ outbox' = [status |-> "processing", owner |-> w] /\ runs' = runs + 1
      /\ mixed' = \E v \in Workers \ {w} : ~ At(v, "idle")
      /\ UNCHANGED <<rigid, stored, policy, state, reported, judged, ever, changes>>
      /\ UNCHANGED <<root, runtime, bytes, manifests, live, push, policy, state, scan, lock, findings,
                     judged, ever, changes>>
  BY DEF Begin, At, rigid, stored, reported
<1>2. /\ runs \in Nat /\ runs' \in 0..MaxRuns /\ runs' \in 1..runs' /\ runs <= runs' /\ Deployed
  BY <1>1, PipelineAssumption DEF IInv, Tables
<1>3. PICK r : r = [NoRun EXCEPT !.at = "walk", !.id = runs + 1,
                      !.queue = IF IsGraph THEN <<root>> ELSE <<>>,
                      !.waiting = IF IsGraph THEN {} ELSE {root}]
  OBVIOUS
<1>4. run' = [run EXCEPT ![w] = r]
  BY <1>3 DEF Begin
<1>5. /\ r.at = "walk" /\ r.id = runs' /\ r.queue = (IF IsGraph THEN <<root>> ELSE <<>>)
      /\ r.waiting = (IF IsGraph THEN {} ELSE {root})
      /\ r.seen = {} /\ r.walked = {} /\ r.missing = {} /\ r.busy = {} /\ r.scanned = {}
      /\ r.covered = {} /\ r.found = {} /\ r.doomed = {}
  BY <1>1, <1>3 DEF NoRun
<1>6. /\ r.queue \in Seq(Manifests) /\ r.waiting \in SUBSET Blobs
      /\ ToSet(r.queue) = IF IsGraph THEN {root} ELSE {}
  <2>1. CASE IsGraph
    <3>1. root \in Manifests /\ r.queue = <<root>>
      BY <1>5, <2>1 DEF IsGraph
    <3>2. r.queue \in Seq(Manifests) /\ DOMAIN r.queue = {1} /\ r.queue[1] = root
      BY <3>1
    <3>3. ToSet(r.queue) = {root}
      BY <3>2 DEF ToSet
    <3> QED BY <1>5, <2>1, <3>2, <3>3
  <2>2. CASE ~ IsGraph
    BY <1>2, <1>5, <2>2, EmptyQueue, DeployedFacts
  <2> QED BY <2>1, <2>2
<1>7. r \in Run
  <2>1. r = [at |-> "walk", id |-> runs', queue |-> r.queue, seen |-> {}, walked |-> {},
             missing |-> {}, waiting |-> r.waiting, busy |-> {}, scanned |-> {},
             covered |-> {}, found |-> {}, doomed |-> {}]
    BY <1>1, <1>3 DEF NoRun
  <2> QED BY <1>2, <1>6, <2>1 DEF Run, Stages
<1>8. ShapeOK(r)' /\ WalkOK(r)'
  <2>1. r \in Run'
    BY <1>1, <1>7, Rigid
  <2>2. IsFiniteSet({}) /\ Cardinality({}) = 0 /\ 0 <= BlobLimit
    BY FS_EmptySet, PipelineAssumption
  <2>3. ShapeOK(r)'
    BY <1>2, <1>5, <2>1, <2>2 DEF ShapeOK
  <2>4. WalkOK(r)
    BY <1>5, <1>6 DEF WalkOK, Payload
  <2>5. WalkOK(r)'
    BY <1>1, <2>4, Rigid DEF WalkOK, Payload
  <2> QED BY <2>3, <2>5
<1>9. /\ RunInv' /\ run' \in [Workers -> Run'] /\ run'[w] = r
      /\ \A v \in Workers : v # w => run'[v] = run[v]
  <2>1. runs' \in Nat /\ runs <= runs' /\ ever \subseteq ever' /\ UNCHANGED rigid
    BY <1>1, <1>2
  <2> QED BY <1>4, <1>7, <1>8, <2>1, RunsStep
<1>10. Tables' /\ Deployed'
  BY <1>1, <1>2, <1>9, Rigid DEF IInv, Tables, PushOK, Payload
<1>11. LockInv'
  BY <1>1, <1>5, <1>9 DEF IInv, LockInv, At
<1>12. AloneInv'
  <2>1. At(w, "walk")' /\ \A v \in Workers \ {w} : At(v, "idle") => At(v, "idle")'
    BY <1>5, <1>9 DEF At
  <2>2. ~ mixed' => \A v \in Workers \ {w} : At(v, "idle")'
    BY <1>1, <2>1
  <2>3. outbox'.status = "processing"
    BY <1>1
  <2> QED BY <2>1, <2>2, <2>3 DEF AloneInv, At
<1>13. VerdictIsCovered' /\ JudgedAll'
  BY <1>1, Rigid DEF IInv, VerdictIsCovered, JudgedAll, Payload
<1> QED BY <1>9, <1>10, <1>11, <1>12, <1>13 DEF IInv

(* The worker takes the lock of the scans row and marks what is there.     *)
LEMMA PersistDeleteIInv ==
  ASSUME IInv, NEW w \in Workers, PersistDelete(w) PROVE IInv'
<1>1. /\ run[w].at = "persist" /\ lock = Nobody /\ lock' = w
      /\ UNCHANGED <<rigid, stored, policy, state, outbox, scan, findings, history, runs, changes>>
      /\ UNCHANGED <<root, runtime, bytes, manifests, live, push, policy, state, outbox, scan, findings,
                     judged, ever, mixed, runs, changes>>
  BY DEF PersistDelete, At, ScanRowFree, rigid, stored, history
<1>2. PICK r : r = run[w]
  OBVIOUS
<1>3. /\ ShapeOK(r) /\ WalkOK(r) /\ r \in Run /\ r.at = "persist"
      /\ findings \in SUBSET FindingRow /\ runs \in Nat
  BY <1>1, <1>2, RunOf DEF IInv, Tables
<1>4. PICK n : /\ n = [r EXCEPT !.at = "replace", !.doomed = findings]
               /\ run' = [run EXCEPT ![w] = n]
  BY <1>2 DEF PersistDelete
<1>5. /\ n \in Run /\ n.at = "replace" /\ n.id = r.id /\ n.queue = r.queue
      /\ n.seen = r.seen /\ n.walked = r.walked /\ n.missing = r.missing
      /\ n.waiting = r.waiting /\ n.busy = r.busy /\ n.scanned = r.scanned
      /\ n.covered = r.covered /\ n.found = r.found /\ n.doomed = findings
  BY <1>3, <1>4 DEF Run, Stages
<1>6. ShapeOK(n) /\ WalkOK(n)
  BY <1>3, <1>5 DEF ShapeOK, WalkOK
<1>7. /\ RunInv' /\ run' \in [Workers -> Run'] /\ run'[w] = n
      /\ \A v \in Workers : v # w => run'[v] = run[v]
  <2>1. ShapeOK(n)' /\ WalkOK(n)'
    BY <1>1, <1>3, <1>6, RunKept
  <2>2. runs' \in Nat /\ runs <= runs' /\ ever \subseteq ever' /\ UNCHANGED rigid
    BY <1>1, <1>3
  <2> QED BY <1>4, <1>5, <2>1, <2>2, RunsStep
<1>8. Tables' /\ Deployed'
  BY <1>1, <1>7, Rigid DEF IInv, Tables, PushOK, Payload
<1>9. LockInv'
  BY <1>1, <1>5, <1>7, PipelineAssumption DEF IInv, LockInv, At
<1>10. AloneInv'
  <2>1. \A v \in Workers : /\ At(v, "idle")' <=> At(v, "idle")
                           /\ At(v, "judge")' => At(v, "judge") /\ run'[v] = run[v]
                           /\ At(v, "done")' => At(v, "done")
    BY <1>1, <1>5, <1>7 DEF At
  <2>2. Explained => Explained'
    BY <1>1 DEF Explained, Verdict, Violates
  <2> QED BY <1>1, <2>1, <2>2 DEF IInv, AloneInv
<1>11. VerdictIsCovered' /\ JudgedAll'
  BY <1>1, Rigid DEF IInv, VerdictIsCovered, JudgedAll, Payload
<1> QED BY <1>7, <1>8, <1>9, <1>10, <1>11 DEF IInv

(* Nothing was written since the worker marked: all findings are its own.  *)
LEMMA PersistInsertIInv ==
  ASSUME IInv, NEW w \in Workers, PersistInsert(w) PROVE IInv'
<1>1. /\ run[w].at = "replace" /\ lock' = Nobody /\ scan' = "succeeded"
      /\ findings' = (findings \ run[w].doomed) \union [by : {run[w].id}, finding : run[w].found]
      /\ UNCHANGED <<rigid, stored, policy, state, outbox, history, runs, changes>>
      /\ UNCHANGED <<root, runtime, bytes, manifests, live, push, policy, state, outbox,
                     judged, ever, mixed, runs, changes>>
  BY DEF PersistInsert, At, rigid, stored, history
<1>2. PICK r : r = run[w]
  OBVIOUS
<1>3. /\ ShapeOK(r) /\ WalkOK(r) /\ r \in Run /\ r.at = "replace" /\ runs \in 0..MaxRuns
  BY <1>1, <1>2, RunOf DEF IInv, Tables
<1>4. lock = w /\ findings' = [by : {r.id}, finding : r.found]
  <2>1. lock = w /\ run[w].doomed = findings
    BY <1>1 DEF IInv, LockInv, At
  <2> QED BY <1>1, <1>2, <2>1
<1>5. PICK n : n = [r EXCEPT !.at = "judge", !.doomed = {}] /\ run' = [run EXCEPT ![w] = n]
  BY <1>2 DEF PersistInsert
<1>6. /\ n \in Run /\ n.at = "judge" /\ n.id = r.id /\ n.queue = r.queue
      /\ n.seen = r.seen /\ n.walked = r.walked /\ n.missing = r.missing
      /\ n.waiting = r.waiting /\ n.busy = r.busy /\ n.scanned = r.scanned
      /\ n.covered = r.covered /\ n.found = r.found
  BY <1>3, <1>5 DEF Run, Stages
<1>7. ShapeOK(n) /\ WalkOK(n)
  BY <1>3, <1>6 DEF ShapeOK, WalkOK
<1>8. /\ RunInv' /\ run' \in [Workers -> Run'] /\ run'[w] = n
      /\ \A v \in Workers : v # w => run'[v] = run[v]
  <2>1. ShapeOK(n)' /\ WalkOK(n)'
    BY <1>1, <1>3, <1>7, RunKept
  <2>2. runs' \in Nat /\ runs <= runs' /\ ever \subseteq ever' /\ UNCHANGED rigid
    BY <1>1, <1>3
  <2> QED BY <1>5, <1>6, <2>1, <2>2, RunsStep
<1>9. Tables' /\ Deployed'
  <2>1. r.id \in 1..MaxRuns /\ r.found \in SUBSET Possible
    BY <1>3, PipelineAssumption DEF ShapeOK, Run
  <2>2. findings' \subseteq FindingRow'
    BY <1>1, <1>4, <2>1, Rigid DEF FindingRow
  <2> QED BY <1>1, <1>8, <2>2, Rigid DEF IInv, Tables, PushOK, Payload
<1>10. LockInv'
  <2>1. \A v \in Workers : ~ At(v, "replace")'
    BY <1>3, <1>4, <1>6, <1>8 DEF IInv, LockInv, At
  <2>2. \A x, y \in findings' : x.by = y.by
    BY <1>4
  <2> QED BY <2>1, <2>2 DEF LockInv
<1>11. AloneInv'
  <2>1. \A v \in Workers : /\ At(v, "idle")' <=> At(v, "idle")
                           /\ At(v, "judge")' => At(v, "judge") \/ v = w
                           /\ At(v, "done")' => At(v, "done")
    BY <1>1, <1>6, <1>8 DEF At
  <2>2. ~ mixed => /\ \A v \in Workers : v # w => At(v, "idle")
                   /\ outbox.status # "succeeded"
    BY <1>1 DEF IInv, AloneInv, At
  <2>3. \A v \in Workers : At(v, "idle") => ~ At(v, "judge") /\ ~ At(v, "done")
    BY DEF At
  <2>4. ~ At(w, "idle") /\ ~ At(w, "done")
    BY <1>1 DEF At
  <2>5. findings' = [by : {run'[w].id}, finding : run'[w].found]
    BY <1>4, <1>6, <1>8
  <2>6. ~ mixed => \A v \in Workers : At(v, "judge")' => v = w
    BY <2>1, <2>2, <2>3
  <2>7. ~ mixed => \A v \in Workers : ~ At(v, "done")'
    BY <2>1, <2>2, <2>3, <2>4
  <2> QED BY <1>1, <2>1, <2>2, <2>5, <2>6, <2>7 DEF IInv, AloneInv
<1>12. VerdictIsCovered' /\ JudgedAll'
  BY <1>1, Rigid DEF IInv, VerdictIsCovered, JudgedAll, Payload
<1> QED BY <1>8, <1>9, <1>10, <1>11, <1>12 DEF IInv

-----------------------------------------------------------------------------
(* The verdict.                                                            *)

(* With no work left, what was walked is closed under children but for     *)
(* what was missing, and all of its blobs were scanned.                    *)
LEMMA WalkedAll ==
  ASSUME Deployed, NEW r \in Run, ShapeOK(r), WalkOK(r),
         r.at \in {"skipDeleted", "skipEmpty", "judge"}
  PROVE  /\ r.walked \subseteq Manifests /\ Payload(r.walked) \subseteq ever
         /\ IsGraph => root \in r.walked \union r.missing
         /\ \A m \in r.walked : ToSet(Children[m]) \subseteq r.walked \union r.missing
<1>1. /\ r.waiting = {} /\ r.busy = {} /\ ToSet(r.queue) = {}
      /\ r.walked \union r.missing = r.seen /\ r.walked \in SUBSET Manifests
  BY EmptyQueue DEF ShapeOK, WalkOK, Run
<1>2. r.scanned \subseteq ever /\ Payload(r.walked) \subseteq r.scanned
  BY <1>1 DEF WalkOK
<1> QED BY <1>1, <1>2 DEF WalkOK

(* Whichever manifests are there: what one reaches without those that were *)
(* missing was walked.                                                     *)
LEMMA ReachedIsWalked ==
  ASSUME Deployed, JudgedAll
  PROVE  CleanWasScanned
<1> SUFFICES ASSUME state = "clean"
             PROVE  Payload(Reached(manifests \ judged.missing)) \subseteq ever
  BY DEF CleanWasScanned
<1>1. /\ judged.walked \in SUBSET Manifests /\ Payload(judged.walked) \subseteq ever
      /\ IsGraph => root \in judged.walked \union judged.missing
      /\ \A m \in judged.walked :
           ToSet(Children[m]) \subseteq judged.walked \union judged.missing
  BY DEF JudgedAll
<1>2. CASE IsGraph
  <2>1. PICK M : M = manifests \ judged.missing
    OBVIOUS
  <2>2. PICK S : S = judged.walked \intersect M
    OBVIOUS
  <2>3. {root} \intersect M \subseteq S
    BY <1>1, <1>2, <2>1, <2>2
  <2>4. \A k \in S : ToSet(Children[k]) \intersect M \subseteq S
    BY <1>1, <2>1, <2>2
  <2>5. Reached(M) \subseteq S
    BY <2>2, <2>3, <2>4 DEF Reached
  <2>6. Reached(M) \in SUBSET judged.walked
    BY <2>2, <2>5
  <2>7. Payload(Reached(M)) \subseteq Payload(judged.walked)
    BY <1>1, <2>6, PayloadFacts
  <2> QED BY <1>1, <2>1, <2>7
<1>3. CASE ~ IsGraph
  BY <1>1, <1>3 DEF Payload
<1> QED BY <1>2, <1>3

(* What a step that decides the state keeps, whatever it decides.          *)
LEMMA VerdictStep ==
  ASSUME IInv, NEW w \in Workers, run[w].at \in {"skipDeleted", "skipEmpty", "judge"},
         Goto(w, "done"),
         UNCHANGED <<rigid, stored, policy, outbox, reported, ever, mixed, runs, changes>>,
         state' \in {"clean", "quarantined", "blocked"}
  PROVE  /\ Deployed' /\ Tables' /\ RunInv' /\ LockInv'
         /\ judged'.walked = run[w].walked /\ judged'.missing = run[w].missing => JudgedAll'
         /\ \A v \in Workers : /\ At(v, "idle")' <=> At(v, "idle")
                               /\ At(v, "judge")' => At(v, "judge") /\ run'[v] = run[v]
<1>1. UNCHANGED <<root, runtime, bytes, manifests, live, push, policy, outbox, scan, lock, findings,
                  ever, mixed, runs, changes>>
  BY DEF rigid, stored, reported
<1>2. PICK r : r = run[w]
  OBVIOUS
<1>3. /\ ShapeOK(r) /\ WalkOK(r) /\ r \in Run /\ r.at \in {"skipDeleted", "skipEmpty", "judge"}
      /\ runs \in Nat /\ Deployed /\ manifests \subseteq Parts
  BY <1>1, <1>2, RunOf DEF IInv, Tables
<1>4. PICK n : n = [r EXCEPT !.at = "done"] /\ run' = [run EXCEPT ![w] = n]
  BY <1>2 DEF Goto
<1>5. /\ n \in Run /\ n.at = "done" /\ n.id = r.id /\ n.queue = r.queue
      /\ n.seen = r.seen /\ n.walked = r.walked /\ n.missing = r.missing
      /\ n.waiting = r.waiting /\ n.busy = r.busy /\ n.scanned = r.scanned
      /\ n.covered = r.covered /\ n.found = r.found
  BY <1>3, <1>4 DEF Run, Stages
<1>6. ShapeOK(n) /\ WalkOK(n)
  BY <1>3, <1>5 DEF ShapeOK, WalkOK
<1>7. /\ RunInv' /\ run' \in [Workers -> Run'] /\ run'[w] = n
      /\ \A v \in Workers : v # w => run'[v] = run[v]
  <2>1. ShapeOK(n)' /\ WalkOK(n)'
    BY <1>1, <1>3, <1>6, RunKept
  <2>2. runs' \in Nat /\ runs <= runs' /\ ever \subseteq ever' /\ UNCHANGED rigid
    BY <1>1, <1>3
  <2> QED BY <1>4, <1>5, <2>1, <2>2, RunsStep
<1>8. Tables' /\ Deployed'
  BY <1>1, <1>7, Rigid DEF IInv, Tables, PushOK, Payload
<1>9. LockInv'
  BY <1>1, <1>5, <1>7 DEF IInv, LockInv, At
<1>10. judged'.walked = r.walked /\ judged'.missing = r.missing => JudgedAll'
  <2>1. /\ r.walked \subseteq Manifests /\ Payload(r.walked) \subseteq ever
        /\ IsGraph => root \in r.walked \union r.missing
        /\ \A m \in r.walked : ToSet(Children[m]) \subseteq r.walked \union r.missing
    BY <1>3, WalkedAll
  <2>2. ever' = ever /\ (IsGraph' <=> IsGraph) /\ root' = root
    BY <1>1, Rigid
  <2>3. \A P : Payload(P)' = Payload(P)
    BY <1>1, Rigid DEF Payload
  <2> QED BY <2>1, <2>2, <2>3 DEF JudgedAll, Payload
<1>11. \A v \in Workers : /\ At(v, "idle")' <=> At(v, "idle")
                          /\ At(v, "judge")' => At(v, "judge") /\ run'[v] = run[v]
  BY <1>3, <1>2, <1>5, <1>7 DEF At
<1> QED BY <1>2, <1>7, <1>8, <1>9, <1>10, <1>11

LEMMA JudgeIInv ==
  ASSUME IInv, NEW w \in Workers, Judge(w) PROVE IInv'
<1>1. PICK p \in {policy.now, policy.cached} :
        state' = Verdict(run[w].found, p) /\ Remember(w, "scan", p)
  BY DEF Judge
<1>2. /\ run[w].at = "judge" /\ Goto(w, "done")
      /\ UNCHANGED <<rigid, stored, policy, outbox, reported, ever, mixed, runs, changes>>
      /\ UNCHANGED <<root, runtime, manifests, outbox, findings, ever, mixed, runs>>
  BY DEF Judge, At, rigid, stored, reported
<1>3. PICK r : r = run[w]
  OBVIOUS
<1>4. /\ ShapeOK(r) /\ WalkOK(r) /\ r \in Run /\ r.at = "judge"
  BY <1>2, <1>3, RunOf
<1>5. /\ judged'.from = "scan" /\ judged'.id = r.id /\ judged'.walked = r.walked
      /\ judged'.missing = r.missing /\ judged'.covered = r.covered /\ judged'.policy = p
  BY <1>1, <1>3 DEF Remember
<1>6. state' \in {"clean", "quarantined", "blocked"}
  BY <1>1 DEF Verdict
<1>7. /\ Deployed' /\ Tables' /\ RunInv' /\ LockInv' /\ JudgedAll'
      /\ \A v \in Workers : /\ At(v, "idle")' <=> At(v, "idle")
                            /\ At(v, "judge")' => At(v, "judge") /\ run'[v] = run[v]
  BY <1>2, <1>3, <1>5, <1>6, VerdictStep
<1>8. VerdictIsCovered'
  <2>1. /\ r.waiting = {} /\ r.busy = {} /\ ToSet(r.queue) = {} /\ r.scanned # {}
        /\ r.walked \union r.missing = r.seen
    BY <1>4, EmptyQueue DEF ShapeOK, WalkOK
  <2>2. Payload(r.walked) \X (Types(runtime.content) \intersect Gating) \subseteq r.covered
    BY <1>4, <2>1 DEF WalkOK
  <2>3. /\ IsGraph => root \in r.walked
        /\ \A m \in r.walked : ToSet(Children[m]) \subseteq r.walked \union r.missing
    BY <1>4, <2>1 DEF WalkOK
  <2> QED BY <1>2, <1>5, <2>2, <2>3, Rigid DEF VerdictIsCovered, Payload
<1>9. AloneInv'
  <2>1. ~ mixed => /\ findings = [by : {r.id}, finding : r.found]
                   /\ outbox.status # "succeeded"
    BY <1>2, <1>3 DEF IInv, AloneInv, At
  <2>2. ~ mixed => Explained'
    <3>1. ASSUME findings = [by : {r.id}, finding : r.found]
          PROVE  /\ \A x \in findings : x.by = r.id
                 /\ {x.finding : x \in findings} = r.found
      <4>1. \A f \in r.found : [by |-> r.id, finding |-> f] \in findings
        BY <3>1
      <4>2. \A f \in r.found : \E x \in findings : x.finding = f
        <5>1. ASSUME NEW f \in r.found PROVE \E x \in findings : x.finding = f
          <6>1. [by |-> r.id, finding |-> f].finding = f
            OBVIOUS
          <6> QED BY <4>1, <6>1
        <5> QED BY <5>1
      <4>3. \A x \in findings : x.by = r.id /\ x.finding \in r.found
        BY <3>1
      <4> QED BY <4>2, <4>3
    <3>2. ASSUME {x.finding : x \in findings} = r.found
          PROVE  {x.finding : x \in findings'} = r.found
      BY <1>2, <3>2
    <3>3. ~ mixed => state' = Verdict({x.finding : x \in findings'}, p)
      BY <1>1, <1>3, <2>1, <3>1, <3>2
    <3>4. ~ mixed => \A x \in findings' : x.by = judged'.id
      BY <1>2, <1>5, <2>1, <3>1
    <3> QED BY <1>5, <3>3, <3>4 DEF Explained, Verdict, Violates
  <2> QED BY <1>2, <1>7, <2>2 DEF IInv, AloneInv
<1> QED BY <1>7, <1>8, <1>9 DEF IInv

LEMMA MarkSkippedIInv ==
  ASSUME IInv, NEW w \in Workers, MarkSkipped(w) PROVE IInv'
<1>1. /\ run[w].at \in {"skipDeleted", "skipEmpty"} /\ Goto(w, "done") /\ state' = "clean"
      /\ Remember(w, run[w].at, judged.policy)
      /\ UNCHANGED <<rigid, stored, policy, outbox, reported, ever, mixed, runs, changes>>
      /\ UNCHANGED <<outbox, findings, mixed>>
  BY DEF MarkSkipped, At, reported
<1>2. /\ judged'.from = run[w].at /\ judged'.walked = run[w].walked
      /\ judged'.missing = run[w].missing
  BY <1>1 DEF Remember
<1>3. judged'.from # "scan"
  BY <1>1, <1>2
<1>4. /\ Deployed' /\ Tables' /\ RunInv' /\ LockInv' /\ JudgedAll'
      /\ \A v \in Workers : /\ At(v, "idle")' <=> At(v, "idle")
                            /\ At(v, "judge")' => At(v, "judge") /\ run'[v] = run[v]
  BY <1>1, <1>2, VerdictStep
<1>5. VerdictIsCovered' /\ AloneInv'
  BY <1>1, <1>3, <1>4 DEF IInv, AloneInv, VerdictIsCovered
<1> QED BY <1>4, <1>5 DEF IInv

-----------------------------------------------------------------------------
(* What happens meanwhile.                                                 *)

(* A step of others changes no run and no finding, and it may only take    *)
(* back a verdict or a success.                                            *)
LEMMA OthersStep ==
  ASSUME IInv, UNCHANGED <<rigid, reported, run, ever, mixed, runs>>,
         \/ state' = state /\ judged' = judged
         \/ state' = "pending" /\ judged' = Unjudged,
         outbox' = outbox \/ outbox' = [status |-> "pending", owner |-> Nobody],
         bytes' \subseteq Payload(Parts), manifests' \subseteq Parts, live' \in BOOLEAN,
         PushOK',
         policy' \in [now : Policies, cached : Policies], changes' \in 0..MaxChanges
  PROVE  IInv'
<1>1. UNCHANGED <<root, runtime, scan, lock, findings, run, ever, mixed, runs>>
  BY DEF rigid, reported
<1>2. Tables' /\ Deployed'
  <2>1. Payload(Parts)' = Payload(Parts) /\ Parts' = Parts /\ root' = root
    BY <1>1, Rigid DEF Payload
  <2>2. state' \in {"pending", "clean", "quarantined", "blocked"}
    BY DEF IInv, Tables
  <2> QED BY <1>1, <2>1, <2>2, Rigid DEF IInv, Tables
<1>3. RunInv'
  BY <1>1, Rigid DEF IInv, RunInv, ShapeOK, WalkOK, Payload
<1>4. LockInv'
  BY <1>1 DEF IInv, LockInv, At
<1>5. AloneInv'
  <2>1. state' # "pending" =>
          state # "pending" /\ judged' = judged /\ (Explained => Explained')
    BY <1>1 DEF Explained, Verdict, Violates
  <2>2. outbox'.status = "succeeded" => outbox.status = "succeeded"
    OBVIOUS
  <2> QED BY <1>1, <2>1, <2>2 DEF IInv, AloneInv, At
<1>6. VerdictIsCovered'
  <2>1. judged'.from = "scan" => judged' = judged
    BY DEF Unjudged
  <2> QED BY <1>1, <2>1, Rigid DEF IInv, VerdictIsCovered, Payload
<1>7. JudgedAll'
  <2>1. state' = "clean" => judged' = judged /\ state = "clean"
    OBVIOUS
  <2> QED BY <1>1, <2>1, Rigid DEF IInv, JudgedAll, Payload
<1> QED BY <1>2, <1>3, <1>4, <1>5, <1>6, <1>7 DEF IInv

LEMMA NoPushOK ==
  /\ NoPush \in [at : {"idle", "checked", "committed", "versioned"}, of : {root} \union Parts]
  /\ NoPush.at = "idle"
BY DEF NoPush

LEMMA RootIsPart ==
  ASSUME Deployed, IsGraph PROVE root \in Parts
BY PipelineAssumption DEF IsGraph, Parts

LEMMA ScanRequested ==
  ASSUME RequestScan
  PROVE  /\ state' = "pending" /\ judged' = Unjudged
         /\ outbox' = outbox \/ outbox' = [status |-> "pending", owner |-> Nobody]
BY DEF RequestScan, Renewed

LEMMA OthersIInv ==
  ASSUME IInv,
         \/ Reclaim \/ PublishFile \/ DeleteVersion \/ DeleteManifest \/ ExpireCache
         \/ \E c \in Clients : CommitManifest(c) \/ UpsertVersion(c) \/ UpsertAsset(c)
         \/ \E m \in Manifests : DeleteChild(m) \/ \E c \in Clients : CheckManifest(c, m)
         \/ \E b \in Blobs : Lose(b) \/ Upload(b)
         \/ \E p \in Policies : SetPolicy(p)
  PROVE  IInv'
<1>1. /\ bytes \subseteq Payload(Parts) /\ manifests \subseteq Parts /\ live \in BOOLEAN
      /\ policy \in [now : Policies, cached : Policies] /\ changes \in 0..MaxChanges
      /\ MaxChanges \in Nat /\ PushOK
  BY PipelineAssumption DEF IInv, Tables
<1>2. ASSUME changes < MaxChanges, changes' = changes + 1 PROVE changes' \in 0..MaxChanges
  BY <1>1, <1>2
<1>3. ASSUME UNCHANGED <<rigid, push>> PROVE PushOK'
  BY <1>1, <1>3, Rigid DEF PushOK
<1>4. CASE Reclaim
  BY <1>1, <1>2, <1>3, <1>4, OthersStep DEF Reclaim, stored, history
<1>5. CASE PublishFile
  BY <1>1, <1>2, <1>3, <1>5, ScanRequested, OthersStep DEF PublishFile
<1>6. CASE DeleteVersion
  BY <1>1, <1>2, <1>3, <1>6, OthersStep DEF DeleteVersion, history
<1>7. CASE DeleteManifest
  BY <1>1, <1>3, <1>7, OthersStep DEF DeleteManifest, history
<1>8. CASE ExpireCache
  <2>1. policy' \in [now : Policies, cached : Policies]
    BY <1>1, <1>8 DEF ExpireCache
  <2> QED BY <1>1, <1>3, <1>8, <2>1, OthersStep DEF ExpireCache, stored, history
<1>9. ASSUME NEW c \in Clients, CommitManifest(c) PROVE IInv'
  <2>1. push[c].at = "checked" /\ push[c].of \in Parts /\ manifests' \subseteq Parts
    BY <1>1, <1>9 DEF CommitManifest, PushOK
  <2>2. PushOK'
    <3>1. UNCHANGED rigid /\ push' \in [Clients -> [at : {"idle", "checked", "committed", "versioned"},
                                                  of : {root} \union Parts]]
      BY <1>1, <1>9, NoPushOK DEF CommitManifest, PushOK
    <3>2. \A d \in Clients : push'[d].at # "idle" => push'[d].of \in Parts
      BY <1>1, <1>9, <2>1, NoPushOK DEF CommitManifest, PushOK
    <3> QED BY <3>1, <3>2, Rigid DEF PushOK
  <2> QED BY <1>1, <1>9, <2>1, <2>2, OthersStep DEF CommitManifest, history
<1>10. ASSUME NEW c \in Clients, UpsertVersion(c) PROVE IInv'
  <2>1. PushOK'
    BY <1>1, <1>10, Rigid DEF UpsertVersion, PushOK
  <2> QED BY <1>1, <1>10, <2>1, OthersStep DEF UpsertVersion, history
<1>11. ASSUME NEW c \in Clients, UpsertAsset(c) PROVE IInv'
  <2>1. PushOK'
    BY <1>1, <1>11, NoPushOK, Rigid DEF UpsertAsset, PushOK
  <2> QED BY <1>1, <1>11, <2>1, ScanRequested, OthersStep DEF UpsertAsset
<1>12. ASSUME NEW m \in Manifests, DeleteChild(m) PROVE IInv'
  BY <1>1, <1>2, <1>3, <1>12, OthersStep DEF DeleteChild, history
<1>13. ASSUME NEW m \in Manifests, NEW c \in Clients, CheckManifest(c, m) PROVE IInv'
  <2>1. m \in Parts
    BY <1>1, <1>13, RootIsPart DEF CheckManifest, IInv
  <2>2. PushOK'
    BY <1>1, <1>13, <2>1, Rigid DEF CheckManifest, PushOK
  <2> QED BY <1>1, <1>2, <1>13, <2>2, OthersStep DEF CheckManifest, history
<1>14. ASSUME NEW b \in Blobs, Lose(b) PROVE IInv'
  BY <1>1, <1>2, <1>3, <1>14, OthersStep DEF Lose, history
<1>15. ASSUME NEW b \in Blobs, Upload(b) PROVE IInv'
  BY <1>1, <1>3, <1>15, OthersStep DEF Upload, history
<1>16. ASSUME NEW p \in Policies, SetPolicy(p) PROVE IInv'
  <2>1. policy' \in [now : Policies, cached : Policies]
    BY <1>1, <1>16 DEF SetPolicy
  <2> QED BY <1>1, <1>2, <1>3, <1>16, <2>1, OthersStep DEF SetPolicy, stored, history
<1> QED BY <1>4, <1>5, <1>6, <1>7, <1>8, <1>9, <1>10, <1>11, <1>12, <1>13, <1>14, <1>15, <1>16

-----------------------------------------------------------------------------

LEMMA InitIInv == Init => IInv
<1> SUFFICES ASSUME Init PROVE IInv
  OBVIOUS
<1>1. Deployed
  BY DEF Init, Deployed
<1>2. /\ NoRun \in Run /\ ShapeOK(NoRun) /\ WalkOK(NoRun) /\ NoRun.at = "idle"
  BY IdleRun, PipelineAssumption
<1>3. \A w \in Workers : run[w] = NoRun /\ At(w, "idle")
  BY <1>2 DEF Init, At
<1>4. Tables
  <2>1. /\ bytes \subseteq Payload(Parts) /\ manifests \subseteq Parts /\ live \in BOOLEAN
        /\ state \in {"pending", "clean", "quarantined", "blocked"}
        /\ outbox \in [status : {"pending", "processing", "succeeded"},
                       owner : Workers \union {Nobody}]
        /\ scan \in {"none", "succeeded", "failed"} /\ lock \in Workers \union {Nobody}
        /\ findings \subseteq FindingRow /\ mixed \in BOOLEAN
    BY DEF Init
  <2>2. policy \in [now : Policies, cached : Policies]
    BY DEF Init
  <2>3. run \in [Workers -> Run]
    BY <1>2 DEF Init
  <2>4. runs \in 0..MaxRuns /\ changes \in 0..MaxChanges
    BY PipelineAssumption DEF Init
  <2>5. PushOK
    BY NoPushOK DEF Init, PushOK
  <2> QED BY <2>1, <2>2, <2>3, <2>4, <2>5 DEF Tables
<1>5. RunInv
  BY <1>2, <1>3 DEF RunInv
<1>6. LockInv
  BY <1>3 DEF Init, LockInv, At
<1>7. AloneInv
  <2>1. judged.from = "nothing" /\ outbox.status = "pending"
    BY DEF Init, Unjudged
  <2> QED BY <1>3, <2>1 DEF AloneInv, At
<1>8. VerdictIsCovered /\ JudgedAll
  BY DEF Init, Unjudged, VerdictIsCovered, JudgedAll
<1> QED BY <1>1, <1>4, <1>5, <1>6, <1>7, <1>8 DEF IInv

LEMMA NextIInv == IInv /\ [Next]_vars => IInv'
<1> SUFFICES ASSUME IInv, [Next]_vars PROVE IInv'
  OBVIOUS
<1>1. runtime.workers \subseteq Workers
  BY DeployedFacts DEF IInv
<1>2. ASSUME NEW w \in runtime.workers,
             \/ Begin(w) \/ LoadManifest(w) \/ Examine(w) \/ ScanDependencies(w)
             \/ PersistDelete(w) \/ PersistInsert(w) \/ Judge(w) \/ MarkSkipped(w)
             \/ Succeed(w) \/ RecordFailure(w) \/ Crash(w)
             \/ \E b \in Blobs : StartBlob(w, b) \/ FinishBlob(w, b)
      PROVE  IInv'
  BY <1>1, <1>2, BeginIInv, LoadManifestIInv, ExamineIInv, ScanDependenciesIInv,
     PersistDeleteIInv, PersistInsertIInv, JudgeIInv, MarkSkippedIInv, SucceedIInv,
     RecordFailureIInv, CrashIInv, StartBlobIInv, FinishBlobIInv
<1>3. CASE UNCHANGED vars
  <2>1. /\ UNCHANGED <<rigid, reported, run, history, runs>> /\ UNCHANGED <<state, outbox>>
        /\ UNCHANGED <<ever, mixed, judged>>
        /\ UNCHANGED <<bytes, manifests, live, push, policy, changes>>
    BY <1>3 DEF vars, stored, history
  <2>2. PushOK'
    BY <2>1, Rigid DEF IInv, Tables, PushOK
  <2>3. /\ bytes' \subseteq Payload(Parts) /\ manifests' \subseteq Parts /\ live' \in BOOLEAN
        /\ policy' \in [now : Policies, cached : Policies] /\ changes' \in 0..MaxChanges
    BY <2>1 DEF IInv, Tables
  <2> QED BY <2>1, <2>2, <2>3, OthersStep
<1> QED BY <1>2, <1>3, OthersIInv DEF Next

LEMMA SpecIInv == Spec => []IInv
BY InitIInv, NextIInv, PTL DEF Spec

-----------------------------------------------------------------------------

(* Rows and locals keep their shape: the limit of the reference scan       *)
(* concurrency holds, no digest is read twice by a run, and the findings   *)
(* that a run merged have distinct keys (scan-bytes.ts, pipeline.ts).      *)
THEOREM TypeCorrect == Spec => []TypeOK
<1>1. IInv => TypeOK
  <2> SUFFICES ASSUME IInv PROVE TypeOK
    OBVIOUS
  <2>1. ASSUME NEW w \in Workers
        PROVE  LET r == run[w] IN
               /\ r.at \in Stages /\ r.id \in 0..MaxRuns
               /\ Cardinality(r.busy) <= BlobLimit
               /\ r.waiting \intersect r.busy = {} /\ r.busy \subseteq r.scanned
               /\ r.scanned \subseteq Blobs /\ r.walked \union r.missing \subseteq r.seen
               /\ r.found \subseteq Possible /\ Cardinality(Keys(r.found)) = Cardinality(r.found)
    <3>1. PICK r : r = run[w]
      OBVIOUS
    <3>2. ShapeOK(r)
      BY <3>1, RunOf
    <3>3. Cardinality(Keys(r.found)) = Cardinality(r.found)
      BY <3>2, KeysCount DEF ShapeOK
    <3> QED BY <3>1, <3>2, <3>3 DEF ShapeOK, Run
  <2> QED BY <2>1 DEF IInv, Tables, PushOK, TypeOK, FindingRow
<1> QED BY <1>1, SpecIInv, PTL

(* A verdict rests on the whole payload of the artifact as the run found   *)
(* it: every manifest below the root was walked or missing, and every blob *)
(* was covered for each gating type (pipeline.ts, scan-bytes.ts).          *)
THEOREM VerdictCoversPayload == Spec => []VerdictIsCovered
BY SpecIInv, PTL DEF IInv

(* The findings of an artifact are those of one run, and when no scans     *)
(* overlapped they explain the state that it decided (scan-results.ts).    *)
THEOREM FindingsExplainVerdict == Spec => []FindingsExplainState
<1>1. IInv => FindingsExplainState
  BY DEF IInv, LockInv, AloneInv, Explained, FindingsExplainState
<1> QED BY <1>1, SpecIInv, PTL

(* An artifact that is clean has had every blob scanned that it reaches,   *)
(* but through manifests that the run behind its verdict did not find:     *)
(* those may be pushed again before the verdict is withdrawn               *)
(* (oci-manifest-lifecycle.ts, scan-results.ts).                           *)
THEOREM CleanIsScanned == Spec => []CleanWasScanned
<1>1. IInv => CleanWasScanned
  BY ReachedIsWalked DEF IInv
<1> QED BY <1>1, SpecIInv, PTL
=============================================================================
