--------------------------- MODULE ManifestsProofs ---------------------------
(***************************************************************************)
(* The manifests of any number of images, digests, tags and requests, with *)
(* deletes, pushes and scans in any order and requests that stop half-way. *)
(*                                                                         *)
(* The key is the row's id, born[d]: it only grows, so a push that still   *)
(* holds the id of the row that is there saw no deletion since it          *)
(* committed, and what it asserted of its layers then still holds, or a    *)
(* delete that could not see the row has taken one of them.                *)
(***************************************************************************)
EXTENDS Manifests, FiniteSetTheorems, TLAPS

Early == {"checkLayers", "checkChildren", "commit"}
Stored == {"record", "tie", "asset"}
Deleting == {"resolve", "dropTags", "tombstone", "dropRow", "survey", "refetch", "release"}

Job == [request : (UNION {Requests[p] : p \in Procs}) \union {None},
        id : Nat, names : SUBSET Names, blobs : SUBSET Blobs, seen : SUBSET Digests]

(* The pushes that may still insert a row of d.                            *)
Coming(d) == {p \in Procs : pc[p] \in Early /\ Digest(p) = d}

Bounds ==
  /\ requests \in 0..MaxRequests
  /\ \A d \in Digests : born[d] + Cardinality(Coming(d)) <= requests

(* The row that the push inserted or found is the one that is there.       *)
Owns(p) == Digest(p) \in present /\ born[Digest(p)] = job[p].id

Kept(i, d) == \A b \in Layers[d] : <<i, b>> \in layer \/ <<i, d, b>> \in late

Tied(i, d) ==
  \A b \in Layers[d] : [image |-> i, digest |-> d, id |-> born[d], blob |-> b] \in ties

(* What a request relies on at each of its control points.                 *)
JobOK(p) ==
  /\ pc[p] \in Early \union Stored => job[p].request.op = "push"
  /\ pc[p] \in Stored =>
       /\ job[p].id <= born[Digest(p)]
       /\ Owns(p) => Kept(Image(p), Digest(p))
       /\ pc[p] = "asset" /\ Owns(p) => Tied(Image(p), Digest(p))
  /\ pc[p] = "release" => \A d \in job[p].seen : job[p].blobs \intersect Layers[d] = {}

JobInv == \A p \in Procs : JobOK(p)

SettledInv ==
  \A i \in Images, d \in Digests :
    <<i, d>> \in settled => d \in present /\ Kept(i, d) /\ Tied(i, d)

Labels == {"idle"} \union Early \union Stored \union Deleting

Locals == pc \in [Procs -> Labels] /\ job \in [Procs -> Job]

IInv == TypeOK /\ Locals /\ Bounds /\ JobInv /\ SettledInv

USE ManifestAssumption

-----------------------------------------------------------------------------
(* Requests and what they hold.                                            *)

LEMMA NothingType == Nothing \in Job /\ Nothing.request = None
BY DEF Nothing, Job

LEMMA RequestShape ==
  ASSUME TypeOK, NEW p \in Procs, pc[p] # "idle"
  PROVE  /\ job[p].request \in Requests[p]
         /\ job[p].request.op \in {"push", "delete"}
         /\ Image(p) \in Images /\ Digest(p) \in Digests
         /\ job[p].request.op = "push" => job[p].request.tags \subseteq Tags
BY DEF TypeOK, Image, Digest

LEMMA OneMoves ==
  ASSUME Locals, NEW p \in Procs, NEW l \in Labels, NEW j \in Job,
         pc' = [pc EXCEPT ![p] = l], job' = [job EXCEPT ![p] = j]
  PROVE  /\ Locals' /\ pc'[p] = l /\ job'[p] = j
         /\ \A q \in Procs : q # p => pc'[q] = pc[q] /\ job'[q] = job[q]
BY DEF Locals

LEMMA ComingFinite ==
  ASSUME NEW d
  PROVE  IsFiniteSet(Coming(d)) /\ Cardinality(Coming(d)) \in Nat
<1>1. Coming(d) \in SUBSET Procs
  BY DEF Coming
<1> QED BY <1>1, FS_Subset, FS_CardinalityType

(* Nobody starts to push: no row is to come that was not.                  *)
LEMMA BoundsKept ==
  ASSUME TypeOK, Bounds, UNCHANGED <<born, requests>>,
         \A q \in Procs : pc'[q] \in Early =>
           pc[q] \in Early /\ job'[q].request = job[q].request
  PROVE  Bounds'
<1>1. ASSUME NEW d \in Digests
      PROVE  born'[d] + Cardinality(Coming(d))' <= requests'
  <2>1. Coming(d)' \in SUBSET Coming(d)
    BY DEF Coming, Digest
  <2>2. Cardinality(Coming(d)') <= Cardinality(Coming(d)) /\ Cardinality(Coming(d)') \in Nat
    BY <2>1, ComingFinite, FS_Subset, FS_CardinalityType
  <2> QED BY <2>2, ComingFinite DEF Bounds, TypeOK
<1> QED BY <1>1 DEF Bounds

(* A step of one request that changes no table: it may only go on to push  *)
(* what it was about to push.                                              *)
LEMMA ControlStep ==
  ASSUME IInv, NEW p \in Procs, NEW l \in Labels, NEW j \in Job,
         UNCHANGED <<rows, content, history, requests>>,
         pc' = [pc EXCEPT ![p] = l], job' = [job EXCEPT ![p] = j],
         l # "idle" => pc[p] # "idle" /\ j.request = job[p].request,
         l \in Early => pc[p] \in Early,
         l \notin Stored,
         l = "release" => \A d \in j.seen : j.blobs \intersect Layers[d] = {}
  PROVE  IInv'
<1>1. /\ Locals' /\ pc'[p] = l /\ job'[p] = j
      /\ \A q \in Procs : q # p => pc'[q] = pc[q] /\ job'[q] = job[q]
  BY OneMoves DEF IInv
<1>2. UNCHANGED <<born, present, tag, version, layer, ties, scan, settled, late, requests>>
  BY DEF rows, content, history
<1>3. TypeOK'
  BY <1>1, <1>2 DEF IInv, TypeOK, Row
<1>4. Bounds'
  BY <1>1, <1>2, BoundsKept DEF IInv, Early
<1>5. JobOK(p)'
  BY <1>1 DEF IInv, JobInv, JobOK, Early, Stored
<1>6. ASSUME NEW q \in Procs, q # p PROVE JobOK(q)'
  BY <1>1, <1>2, <1>6 DEF IInv, JobInv, JobOK, Owns, Kept, Tied, Image, Digest
<1>7. SettledInv'
  BY <1>2 DEF IInv, SettledInv, Kept, Tied
<1> QED BY <1>1, <1>3, <1>4, <1>5, <1>6, <1>7 DEF IInv, JobInv

LEMMA Ends ==
  ASSUME IInv, NEW p \in Procs, End(p), UNCHANGED <<rows, content, history, requests>>
  PROVE  IInv'
<1>1. "idle" \in Labels /\ "idle" \notin Early /\ "idle" \notin Stored
  BY DEF Labels, Early, Stored
<1>2. pc' = [pc EXCEPT ![p] = "idle"] /\ job' = [job EXCEPT ![p] = Nothing]
  BY DEF End, Goto
<1> QED BY <1>1, <1>2, NothingType, ControlStep

(* The checks before a push and the reads of a delete.                     *)
LEMMA ChecksIInv ==
  ASSUME IInv, NEW p \in Procs,
         \/ CheckLayers(p) \/ CheckChildren(p) \/ CommitRefused(p) \/ Deleted(p) \/ Stop(p)
  PROVE  IInv'
<1>1. UNCHANGED <<rows, content, history, requests>>
  BY DEF CheckLayers, CheckChildren, CommitRefused, Deleted, Stop
<1>2. CASE End(p)
  BY <1>1, <1>2, Ends
<1>3. ASSUME NEW l \in {"checkChildren", "commit"}, Goto(p, l), UNCHANGED job,
             pc[p] \in Early
      PROVE  IInv'
  <2>1. job[p] \in Job /\ job' = [job EXCEPT ![p] = job[p]]
    BY <1>3 DEF IInv, Locals
  <2>2. l \in Labels /\ l \in Early /\ l \notin Stored /\ l # "release" /\ pc[p] # "idle"
    BY <1>3 DEF Labels, Early, Stored
  <2> QED BY <1>1, <1>3, <2>1, <2>2, ControlStep DEF Goto
<1> QED BY <1>2, <1>3 DEF CheckLayers, CheckChildren, CommitRefused, Deleted, Stop, Early

LEMMA SetId ==
  ASSUME NEW j \in Job, NEW n \in Nat
  PROVE  /\ [j EXCEPT !.id = n] \in Job
         /\ [j EXCEPT !.id = n].request = j.request
BY DEF Job

LEMMA SetNames ==
  ASSUME NEW j \in Job, NEW N \in SUBSET Names
  PROVE  /\ [j EXCEPT !.names = N] \in Job
         /\ [j EXCEPT !.names = N].request = j.request
         /\ [j EXCEPT !.names = N].id = j.id
BY DEF Job

LEMMA SetBlobs ==
  ASSUME NEW j \in Job, NEW B \in SUBSET Blobs
  PROVE  /\ [j EXCEPT !.blobs = B] \in Job
         /\ [j EXCEPT !.blobs = B].request = j.request
         /\ [j EXCEPT !.blobs = B].blobs = B
         /\ [j EXCEPT !.blobs = B].seen = j.seen
BY DEF Job

LEMMA ResolveIInv ==
  ASSUME IInv, NEW p \in Procs, Resolve(p) PROVE IInv'
<1>1. UNCHANGED <<rows, content, history, requests>>
  BY DEF Resolve
<1>2. CASE Resolvable(Image(p), Digest(p))
  <2>1. pc' = [pc EXCEPT ![p] = "dropTags"] /\ pc[p] # "idle"
    BY <1>2 DEF Resolve, Goto
  <2>2. born[Digest(p)] \in Nat /\ job[p] \in Job
    BY <2>1, RequestShape DEF IInv, TypeOK, Locals
  <2> DEFINE j == [job[p] EXCEPT !.id = born[Digest(p)]]
  <2>3. j \in Job /\ j.request = job[p].request
    BY <2>2, SetId
  <2>4. job' = [job EXCEPT ![p] = j]
    BY <1>2 DEF Resolve
  <2>5. "dropTags" \in Labels /\ "dropTags" \notin Early /\ "dropTags" \notin Stored
    BY DEF Labels, Early, Stored, Deleting
  <2> HIDE DEF j
  <2> QED BY <1>1, <2>1, <2>3, <2>4, <2>5, ControlStep
<1>3. CASE ~ Resolvable(Image(p), Digest(p))
  BY <1>1, <1>3, Ends DEF Resolve
<1> QED BY <1>2, <1>3

(* The two listings of a delete.                                           *)
LEMMA ListingsIInv ==
  ASSUME IInv, NEW p \in Procs, Survey(p) \/ Refetch(p) PROVE IInv'
<1>1. UNCHANGED <<rows, content, history, requests>> /\ pc[p] # "idle"
  BY DEF Survey, Refetch
<1>2. job[p] \in Job /\ Digest(p) \in Digests
  BY <1>1, RequestShape DEF IInv, Locals
<1>3. /\ "refetch" \in Labels /\ "refetch" \notin Early /\ "refetch" \notin Stored
      /\ "release" \in Labels /\ "release" \notin Early /\ "release" \notin Stored
  BY DEF Labels, Early, Stored, Deleting
<1>4. CASE Survey(p)
  <2> DEFINE B == Layers[Digest(p)] \ UsedIn(Image(p))
             j == [job[p] EXCEPT !.blobs = B]
  <2>1. B \in SUBSET Blobs
    BY <1>2 DEF Blobs
  <2>2. j \in Job /\ j.request = job[p].request
    BY <1>2, <2>1, SetBlobs
  <2>3. job' = [job EXCEPT ![p] = j] /\ pc' = [pc EXCEPT ![p] = "refetch"]
    BY <1>4 DEF Survey, Goto
  <2> HIDE DEF j
  <2> QED BY <1>1, <1>3, <2>2, <2>3, ControlStep
<1>5. CASE Refetch(p)
  <2> DEFINE B == job[p].blobs \ UsedIn(Image(p))
             D == Live(Image(p))
             j == [job[p] EXCEPT !.blobs = B, !.seen = D]
  <2>1. B \in SUBSET Blobs /\ D \in SUBSET Digests
    <3>1. D \subseteq present
      BY DEF Live
    <3> QED BY <1>2, <3>1 DEF IInv, TypeOK, Job
  <2>3. \A d \in D : B \intersect Layers[d] = {}
    BY DEF UsedIn
  <2> HIDE DEF B, D
  <2>2. j \in Job /\ j.request = job[p].request /\ j.blobs = B /\ j.seen = D
    BY <1>2, <2>1 DEF Job
  <2>4. job' = [job EXCEPT ![p] = j] /\ pc' = [pc EXCEPT ![p] = "release"]
    BY <1>5 DEF Refetch, Goto, B, D
  <2> HIDE DEF j
  <2> QED BY <1>1, <1>3, <2>2, <2>3, <2>4, ControlStep
<1> QED BY <1>4, <1>5

-----------------------------------------------------------------------------
(* Pushes.                                                                 *)

(* One request more, which may insert one row more.                        *)
LEMMA ReceiveIInv ==
  ASSUME IInv, NEW p \in Procs, Receive(p) PROVE IInv'
<1>1. PICK r \in Requests[p] :
        /\ job' = [job EXCEPT ![p] = [Nothing EXCEPT !.request = r]]
        /\ pc' = [pc EXCEPT ![p] = IF r.op = "push" THEN "checkLayers" ELSE "resolve"]
  BY DEF Receive, Goto
<1> DEFINE j == [Nothing EXCEPT !.request = r]
           l == IF r.op = "push" THEN "checkLayers" ELSE "resolve"
<1>2. j \in Job /\ j.request = r
  BY NothingType DEF Nothing, Job
<1>3. l \in Labels /\ l \notin Stored /\ l \notin {"idle", "release"}
      /\ (l \in Early => r.op = "push") /\ r.digest \in Digests
  BY DEF Labels, Early, Stored, Deleting
<1>11. job' = [job EXCEPT ![p] = j] /\ pc' = [pc EXCEPT ![p] = l]
  BY <1>1
<1> HIDE DEF j, l
<1>4. /\ Locals' /\ pc'[p] = l /\ job'[p] = j
      /\ \A q \in Procs : q # p => pc'[q] = pc[q] /\ job'[q] = job[q]
  BY <1>11, <1>2, <1>3, OneMoves DEF IInv
<1>5. /\ UNCHANGED <<born, present, tag, version, layer, ties, scan, settled, late>>
      /\ pc[p] = "idle" /\ requests' = requests + 1 /\ requests < MaxRequests
  BY DEF Receive, rows, content, history
<1>6. TypeOK'
  BY <1>2, <1>4, <1>5 DEF IInv, TypeOK, Row
<1>7. Bounds'
  <2>1. requests' \in 0..MaxRequests
    BY <1>5 DEF IInv, Bounds
  <2>2. ASSUME NEW d \in Digests PROVE born'[d] + Cardinality(Coming(d)') <= requests'
    <3>1. Coming(d)' \in SUBSET (Coming(d) \union {p})
      BY <1>4 DEF Coming, Digest
    <3>2. /\ IsFiniteSet(Coming(d) \union {p})
          /\ Cardinality(Coming(d) \union {p}) <= Cardinality(Coming(d)) + 1
      <4>1. IsFiniteSet(Coming(d)) /\ Cardinality(Coming(d)) \in Nat
        BY ComingFinite
      <4>2. /\ IsFiniteSet(Coming(d) \union {p})
            /\ Cardinality(Coming(d) \union {p}) =
                 IF p \in Coming(d) THEN Cardinality(Coming(d)) ELSE Cardinality(Coming(d)) + 1
        BY <4>1, FS_AddElement
      <4> QED BY <4>1, <4>2
    <3>3. /\ IsFiniteSet(Coming(d)')
          /\ Cardinality(Coming(d)') <= Cardinality(Coming(d) \union {p})
      BY <3>1, <3>2, FS_Subset
    <3>4. /\ Cardinality(Coming(d)') \in Nat
          /\ Cardinality(Coming(d) \union {p}) \in Nat
      BY <3>2, <3>3, FS_CardinalityType
    <3> QED BY <1>5, <3>2, <3>3, <3>4, ComingFinite DEF IInv, Bounds, TypeOK
  <2> QED BY <2>1, <2>2 DEF Bounds
<1>8. JobOK(p)'
  BY <1>2, <1>3, <1>4 DEF JobOK
<1>9. ASSUME NEW q \in Procs, q # p PROVE JobOK(q)'
  BY <1>4, <1>5, <1>9 DEF IInv, JobInv, JobOK, Owns, Kept, Tied, Image, Digest
<1>10. SettledInv'
  BY <1>5 DEF IInv, SettledInv, Kept, Tied
<1> QED BY <1>4, <1>6, <1>7, <1>8, <1>9, <1>10 DEF IInv, JobInv

(* A commit of a row that is gone takes the next id, and whoever held the  *)
(* row before owns it no longer.                                           *)
LEMMA CommitIInv ==
  ASSUME IInv, NEW p \in Procs, Commit(p) PROVE IInv'
<1>0. pc[p] = "commit" /\ Digest(p) \in Digests /\ Image(p) \in Images
  BY RequestShape DEF IInv, Commit
<1>a. PICK d \in Digests, i \in Images : d = Digest(p) /\ i = Image(p)
  BY <1>0
<1>b. PICK id : id = IF d \in present THEN born[d] ELSE born[d] + 1
  OBVIOUS
<1> DEFINE N == VersionNames(job[p].request)
           j == [job[p] EXCEPT !.id = id, !.names = N]
<1>1. /\ pc[p] = "commit" /\ Layers[d] \subseteq LayersOf(i)
      /\ born' = [born EXCEPT ![d] = id]
      /\ present' = present \union {d}
      /\ tag' = [x \in Images \X Tags |->
                   IF x[1] = i /\ x[2] \in job[p].request.tags
                     THEN [digest |-> d, id |-> id] ELSE tag[x]]
      /\ job' = [job EXCEPT ![p] = j]
      /\ pc' = [pc EXCEPT ![p] = "record"]
      /\ late' = {x \in late : <<x[1], x[2]>> # <<i, d>>}
      /\ UNCHANGED <<version, layer, ties, scan, settled, requests>>
  BY <1>a, <1>b DEF Commit, AssertedAtCommit, Goto, content
<1>2. /\ d \in Digests /\ i \in Images /\ job[p].request.tags \subseteq Tags
      /\ job[p].request.digest = d
  BY <1>1, <1>a, <1>b, RequestShape DEF IInv, JobInv, JobOK, Early, Digest
<1>3. born[d] \in Nat /\ id \in Nat /\ id > 0 /\ born[d] <= id /\ job[p] \in Job
  BY <1>b DEF IInv, TypeOK, Locals
<1>4. N \in SUBSET Names
  BY <1>2 DEF VersionNames, Names
<1> HIDE DEF N
<1>5. j \in Job /\ j.request = job[p].request /\ j.id = id
  BY <1>3, <1>4 DEF Job
<1>6. "record" \in Labels /\ "record" \notin Early
  BY DEF Labels, Stored, Early
<1> HIDE DEF j
<1>7. /\ Locals' /\ pc'[p] = "record" /\ job'[p] = j
      /\ \A q \in Procs : q # p => pc'[q] = pc[q] /\ job'[q] = job[q]
  BY <1>1, <1>5, <1>6, OneMoves DEF IInv
<1>8. born'[d] = id /\ \A e \in Digests : e # d => born'[e] = born[e]
  BY <1>1, <1>2 DEF IInv, TypeOK
<1>9. Bounds'
  <2>1. ASSUME NEW e \in Digests PROVE born'[e] + Cardinality(Coming(e)') <= requests'
    <3>1. CASE e # d
      <4>1. Coming(e)' \in SUBSET Coming(e)
        BY <1>6, <1>7 DEF Coming, Digest
      <4>2. Cardinality(Coming(e)') <= Cardinality(Coming(e)) /\ Cardinality(Coming(e)') \in Nat
        BY <4>1, ComingFinite, FS_Subset, FS_CardinalityType
      <4> QED BY <1>1, <1>8, <3>1, <4>2, ComingFinite DEF IInv, Bounds, TypeOK
    <3>2. CASE e = d
      <4>1. Coming(d)' \in SUBSET (Coming(d) \ {p}) /\ p \in Coming(d)
        BY <1>1, <1>6, <1>7, <1>a, <1>b DEF Coming, Digest, Early
      <4>2. /\ IsFiniteSet(Coming(d) \ {p})
            /\ Cardinality(Coming(d) \ {p}) = Cardinality(Coming(d)) - 1
        BY <4>1, ComingFinite, FS_RemoveElement
      <4>3. Cardinality(Coming(d)') <= Cardinality(Coming(d)) - 1 /\ Cardinality(Coming(d)') \in Nat
        BY <4>1, <4>2, FS_Subset, FS_CardinalityType
      <4>4. id <= born[d] + 1 /\ requests \in Nat /\ born[d] + Cardinality(Coming(d)) <= requests
        BY <1>a, <1>b, <1>3 DEF IInv, Bounds
      <4> QED BY <1>1, <1>3, <1>8, <3>2, <4>3, <4>4, ComingFinite
    <3> QED BY <3>1, <3>2
  <2> QED BY <1>1, <2>1 DEF IInv, Bounds
<1>10. TypeOK'
  <2>1. born' \in [Digests -> 0..MaxRequests]
    <3>1. Cardinality(Coming(d)') \in Nat /\ born'[d] + Cardinality(Coming(d)') <= requests'
          /\ requests' \in 0..MaxRequests
      <4>1. Coming(d)' \in SUBSET Procs
        BY DEF Coming
      <4> QED BY <1>2, <1>9, <4>1, FS_Subset, FS_CardinalityType DEF Bounds
    <3>2. id \in 0..MaxRequests
      BY <1>3, <1>8, <3>1
    <3> QED BY <1>1, <3>2 DEF IInv, TypeOK
  <2>2. present' \subseteq {e \in Digests : born'[e] > 0}
    BY <1>1, <1>2, <1>3, <1>8 DEF IInv, TypeOK
  <2>3. /\ \A e \in present : e \in Digests /\ born'[e] = born[e]
        /\ Row(d)' = [digest |-> d, id |-> id]
    BY <1>8, <1>a, <1>b DEF IInv, TypeOK, Row
  <2>4. tag' \in [Images \X Tags -> {NoRow} \union {Row(e)' : e \in present'}]
    <3>1. ASSUME NEW x \in Images \X Tags
          PROVE  tag[x] \in {NoRow} \union {Row(e)' : e \in present'}
      BY <1>1, <2>3 DEF IInv, TypeOK, Row
    <3>2. [digest |-> d, id |-> id] \in {Row(e)' : e \in present'}
      BY <1>1, <2>3
    <3> QED BY <1>1, <3>1, <3>2
  <2>5. \A x \in ties' : x.digest \in present' /\ x.id = born'[x.digest] /\ x.blob \in Layers[x.digest]
    BY <1>1, <2>3 DEF IInv, TypeOK
  <2>6. \A q \in Procs : pc'[q] # "idle" => job'[q].request \in Requests[q]
    BY <1>1, <1>5, <1>7 DEF IInv, TypeOK
  <2>7. /\ version' \in [Images \X Names -> Digests \union {None}] /\ layer' \subseteq Images \X Blobs
        /\ scan' \in [Digests -> {"none", "pending", "clean", "blocked"}]
        /\ settled' \subseteq Images \X Digests
    BY <1>1 DEF IInv, TypeOK
  <2>8. {Row(e)' : e \in present'} = {Row(e) : e \in present}'
    OBVIOUS
  <2> QED BY <2>1, <2>2, <2>4, <2>5, <2>6, <2>7, <2>8 DEF TypeOK
<1>11. Kept(i, d)'
  <2>1. ASSUME NEW b \in Layers[d] PROVE <<i, b>> \in layer'
    <3>1. PICK x \in layer : x[1] = i /\ x[2] = b
      BY <1>1 DEF LayersOf
    <3>2. x = <<x[1], x[2]>>
      BY DEF IInv, TypeOK
    <3> QED BY <1>1, <3>1, <3>2
  <2> QED BY <2>1 DEF Kept
<1>12. ASSUME NEW k \in Images, NEW e \in Digests, Kept(k, e) PROVE Kept(k, e)'
  <2>1. CASE k = i /\ e = d
    BY <1>11, <2>1
  <2>2. CASE ~ (k = i /\ e = d)
    BY <1>1, <1>12, <2>2 DEF Kept
  <2> QED BY <2>1, <2>2
<1>13. JobOK(p)'
  <2>1. Image(p)' = i /\ Digest(p)' = d /\ job'[p].request.op = "push"
    BY <1>1, <1>5, <1>7, <1>a, <1>b DEF Image, Digest, IInv, JobInv, JobOK, Early
  <2> QED BY <1>3, <1>5, <1>7, <1>8, <1>11, <2>1 DEF JobOK
<1>14. ASSUME NEW q \in Procs, q # p PROVE JobOK(q)'
  <2>1. /\ pc'[q] = pc[q] /\ job'[q] = job[q]
        /\ Image(q)' = Image(q) /\ Digest(q)' = Digest(q) /\ JobOK(q)
    BY <1>7, <1>14 DEF IInv, JobInv, Image, Digest
  <2>2. CASE pc[q] \in Stored
    <3>1. /\ Image(q) \in Images /\ Digest(q) \in Digests /\ job[q].id \in Nat
          /\ born[Digest(q)] \in Nat /\ job[q].id <= born[Digest(q)]
      BY <2>1, <2>2, RequestShape DEF Stored, IInv, Locals, Job, TypeOK, JobOK
    <3>2. born[Digest(q)] <= born'[Digest(q)] /\ born'[Digest(q)] \in Nat
      BY <1>3, <1>8, <3>1
    <3>3. Owns(q)' => Owns(q) /\ born'[Digest(q)] = born[Digest(q)]
      <4> SUFFICES ASSUME Owns(q)' PROVE Owns(q) /\ born'[Digest(q)] = born[Digest(q)]
        OBVIOUS
      <4>1. Digest(q) \in present' /\ born'[Digest(q)] = job[q].id
        BY <2>1 DEF Owns
      <4>2. born'[Digest(q)] = born[Digest(q)]
        BY <3>1, <3>2, <4>1
      <4>3. Digest(q) \in present
        BY <1>1, <1>3, <1>8, <1>a, <1>b, <4>1, <4>2
      <4> QED BY <4>1, <4>2, <4>3 DEF Owns
    <3>4. pc[q] # "release"
      BY <2>2 DEF Stored
    <3>5. Owns(q)' /\ pc[q] = "asset" => Tied(Image(q), Digest(q))'
      BY <1>1, <2>1, <2>2, <3>3 DEF JobOK, Tied
    <3>6. Owns(q)' => Kept(Image(q), Digest(q))'
      BY <1>12, <2>1, <2>2, <3>1, <3>3 DEF JobOK
    <3>7. job[q].id <= born'[Digest(q)]
      BY <3>1, <3>2
    <3> QED BY <2>1, <2>2, <3>4, <3>5, <3>6, <3>7 DEF JobOK
  <2>3. CASE pc[q] \notin Stored
    BY <2>1, <2>3 DEF JobOK
  <2> QED BY <2>2, <2>3
<1>15. SettledInv'
  <2>1. ASSUME NEW k \in Images, NEW e \in Digests, <<k, e>> \in settled'
        PROVE  e \in present' /\ Kept(k, e)' /\ Tied(k, e)'
    <3>1. e \in present /\ Kept(k, e) /\ Tied(k, e)
      BY <1>1, <2>1 DEF IInv, SettledInv
    <3>2. born'[e] = born[e]
      BY <1>8, <1>a, <1>b, <3>1
    <3> QED BY <1>1, <1>12, <3>1, <3>2 DEF Tied
  <2> QED BY <2>1 DEF SettledInv
<1> QED BY <1>7, <1>9, <1>10, <1>13, <1>14, <1>15 DEF IInv, JobInv

(* While the rows stay, a step need only keep layers and ties.             *)
LEMMA RowsStay ==
  ASSUME IInv, UNCHANGED <<born, present>>,
         \A k \in Images, e \in present :
           (Kept(k, e) => Kept(k, e)') /\ (Tied(k, e) => Tied(k, e)')
  PROVE  /\ settled' = settled => SettledInv'
         /\ \A q \in Procs : pc'[q] = pc[q] /\ job'[q] = job[q] => JobOK(q)'
<1>1. ASSUME settled' = settled, NEW k \in Images, NEW e \in Digests, <<k, e>> \in settled'
      PROVE  e \in present' /\ Kept(k, e)' /\ Tied(k, e)'
  BY <1>1 DEF IInv, SettledInv
<1>2. ASSUME NEW q \in Procs, pc'[q] = pc[q], job'[q] = job[q] PROVE JobOK(q)'
  <2>1. Image(q)' = Image(q) /\ Digest(q)' = Digest(q) /\ JobOK(q) /\ (Owns(q)' <=> Owns(q))
    BY <1>2 DEF IInv, JobInv, Image, Digest, Owns
  <2>2. CASE pc[q] \in Stored
    <3>1. Image(q) \in Images
      BY <2>2, RequestShape DEF IInv, Stored
    <3>2. Owns(q) => /\ Kept(Image(q), Digest(q))'
                     /\ pc[q] = "asset" => Tied(Image(q), Digest(q))'
      BY <2>1, <2>2, <3>1 DEF JobOK, Owns
    <3>3. pc[q] # "release"
      BY <2>2 DEF Stored
    <3> QED BY <1>2, <2>1, <2>2, <3>2, <3>3 DEF JobOK
  <2>3. CASE pc[q] \notin Stored
    BY <1>2, <2>1, <2>3 DEF JobOK
  <2> QED BY <2>2, <2>3
<1> QED BY <1>1, <1>2 DEF SettledInv

LEMMA RecordVersionIInv ==
  ASSUME IInv, NEW p \in Procs, RecordVersion(p) PROVE IInv'
<1>1. PICK n \in job[p].names :
        /\ version' = [version EXCEPT ![<<Image(p), n>>] = Digest(p)]
        /\ job' = [job EXCEPT ![p] = [job[p] EXCEPT !.names = job[p].names \ {n}]]
        /\ pc' = [pc EXCEPT ![p] = IF job[p].names = {n} THEN "tie" ELSE "record"]
  BY DEF RecordVersion, Goto
<1>2. PICK l \in {"tie", "record"} : pc' = [pc EXCEPT ![p] = l]
  BY <1>1
<1>3. PICK j \in Job : /\ job' = [job EXCEPT ![p] = j]
                      /\ j.request = job[p].request /\ j.id = job[p].id
  <2>1. job[p] \in Job /\ job[p].names \ {n} \in SUBSET Names
    BY DEF IInv, Locals, Job
  <2> QED BY <1>1, <2>1, SetNames
<1>4. l \in Labels /\ l \in Stored /\ l \notin Early /\ l \notin {"asset", "release", "idle"}
  BY DEF Labels, Stored, Early
<1>5. /\ pc[p] = "record" /\ UNCHANGED <<born, present, tag, layer, ties, scan, settled, late, requests>>
  BY DEF RecordVersion, content, history
<1>6. /\ Locals' /\ pc'[p] = l /\ job'[p] = j
      /\ \A q \in Procs : q # p => pc'[q] = pc[q] /\ job'[q] = job[q]
  BY <1>2, <1>3, <1>4, OneMoves DEF IInv
<1>7. TypeOK'
  <2>1. Image(p) \in Images /\ Digest(p) \in Digests /\ n \in Names
    BY <1>5, RequestShape DEF IInv, Locals, Job
  <2>2. version' \in [Images \X Names -> Digests \union {None}]
    BY <1>1, <2>1 DEF IInv, TypeOK
  <2> QED BY <1>3, <1>5, <1>6, <2>2 DEF IInv, TypeOK, Row
<1>8. Bounds'
  BY <1>4, <1>5, <1>6, BoundsKept DEF IInv
<1>9. \A k \in Images, e \in present :
        (Kept(k, e) => Kept(k, e)') /\ (Tied(k, e) => Tied(k, e)')
  BY <1>5 DEF Kept, Tied
<1>10. JobOK(p)'
  <2>1. /\ Image(p)' = Image(p) /\ Digest(p)' = Digest(p) /\ (Owns(p)' <=> Owns(p))
    BY <1>3, <1>5, <1>6 DEF Image, Digest, Owns
  <2>2. JobOK(p) /\ "record" \in Stored /\ Image(p) \in Images
    BY <1>5, RequestShape DEF IInv, JobInv, Stored
  <2>3. Owns(p) => Kept(Image(p), Digest(p))'
    BY <1>5, <1>9, <2>1, <2>2 DEF JobOK, Owns
  <2> QED BY <1>3, <1>4, <1>5, <1>6, <2>1, <2>2, <2>3 DEF JobOK
<1> QED BY <1>5, <1>6, <1>7, <1>8, <1>9, <1>10, RowsStay DEF IInv, JobInv

(* The ties of a manifest that are replaced come again with the same id.   *)
LEMMA TieLayersIInv ==
  ASSUME IInv, NEW p \in Procs, TieLayers(p) PROVE IInv'
<1>1. /\ pc[p] = "tie" /\ UNCHANGED <<born, present, tag, version, layer, scan, settled, late, requests>>
      /\ ties' = IF ~ Owns(p) THEN ties ELSE TiesWithout(p) \union
                   [image : {Image(p)}, digest : {Digest(p)}, id : {job[p].id},
                    blob : Layers[Digest(p)]]
  BY DEF TieLayers, rows, history, Owns
<1>2. /\ Image(p) \in Images /\ Digest(p) \in Digests
      /\ JobOK(p) /\ "tie" \in Stored /\ job[p] \in Job
  BY <1>1, RequestShape DEF IInv, JobInv, Stored, Locals
<1>3. \A k \in Images, e \in present :
        (Kept(k, e) => Kept(k, e)') /\ (Tied(k, e) => Tied(k, e)')
  <2>1. ASSUME NEW k \in Images, NEW e \in present, Tied(k, e) PROVE Tied(k, e)'
    <3>1. ASSUME NEW b \in Layers[e]
          PROVE  [image |-> k, digest |-> e, id |-> born[e], blob |-> b] \in ties'
      <4> DEFINE x == [image |-> k, digest |-> e, id |-> born[e], blob |-> b]
      <4>1. x \in ties
        BY <2>1 DEF Tied
      <4>2. CASE Owns(p) /\ k = Image(p) /\ e = Digest(p)
        BY <1>1, <4>2 DEF Owns
      <4>3. CASE ~ (Owns(p) /\ k = Image(p) /\ e = Digest(p))
        BY <1>1, <4>1, <4>3 DEF TiesWithout
      <4> QED BY <4>2, <4>3
    <3> QED BY <1>1, <3>1 DEF Tied
  <2> QED BY <1>1, <2>1 DEF Kept
<1>4. ASSUME NEW i \in Images, NEW d \in Digests, i = Image(p), d = Digest(p), Owns(p)
      PROVE  Tied(i, d)'
  BY <1>1, <1>4 DEF Owns, Tied
<1>5. PICK l \in {"asset", "idle"}, j \in Job :
        /\ pc' = [pc EXCEPT ![p] = l] /\ job' = [job EXCEPT ![p] = j]
        /\ l = "asset" => j = job[p]
  <2>1. CASE UNCHANGED job /\ Goto(p, "asset")
    <3>1. job' = [job EXCEPT ![p] = job[p]]
      BY <2>1 DEF IInv, Locals
    <3> QED BY <1>2, <2>1, <3>1 DEF Goto
  <2>2. CASE End(p)
    BY <2>2, NothingType DEF End, Goto
  <2> QED BY <2>1, <2>2 DEF TieLayers
<1>6. l \in Labels /\ l \notin Early /\ l # "release" /\ (l \in Stored => l = "asset")
  BY DEF Labels, Stored, Early
<1>7. /\ Locals' /\ pc'[p] = l /\ job'[p] = j
      /\ \A q \in Procs : q # p => pc'[q] = pc[q] /\ job'[q] = job[q]
  BY <1>5, <1>6, OneMoves DEF IInv
<1>8. TypeOK'
  <2>1. ASSUME NEW x \in ties'
        PROVE  x.digest \in present' /\ x.id = born'[x.digest] /\ x.blob \in Layers[x.digest]
    <3>1. CASE x \in ties
      BY <1>1, <3>1 DEF IInv, TypeOK
    <3>2. CASE x \notin ties
      BY <1>1, <3>2 DEF TiesWithout, Owns
    <3> QED BY <3>1, <3>2
  <2>2. \A q \in Procs : pc'[q] # "idle" => job'[q].request \in Requests[q]
    BY <1>1, <1>5, <1>7 DEF IInv, TypeOK
  <2> QED BY <1>1, <2>1, <2>2 DEF IInv, TypeOK, Row
<1>9. Bounds'
  BY <1>1, <1>6, <1>7, BoundsKept DEF IInv
<1>10. JobOK(p)'
  <2>1. CASE l = "idle"
    BY <1>6, <1>7, <2>1 DEF JobOK
  <2>2. CASE l = "asset"
    <3>1. /\ Image(p)' = Image(p) /\ Digest(p)' = Digest(p) /\ (Owns(p)' <=> Owns(p))
          /\ job'[p] = job[p]
      BY <1>1, <1>5, <1>7, <2>2 DEF Image, Digest, Owns
    <3>2. Owns(p) => Kept(Image(p), Digest(p))'
      BY <1>1, <1>2, <1>3, <3>1 DEF JobOK, Owns
    <3>3. Owns(p) => Tied(Image(p), Digest(p))'
      BY <1>2, <1>4, <3>1
    <3> QED BY <1>1, <1>2, <1>7, <2>2, <3>1, <3>2, <3>3 DEF JobOK
  <2> QED BY <2>1, <2>2
<1> QED BY <1>1, <1>3, <1>7, <1>8, <1>9, <1>10, RowsStay DEF IInv, JobInv

(* The acknowledgement: the row is the one that was committed and tied.    *)
LEMMA RecordAssetIInv ==
  ASSUME IInv, NEW p \in Procs, RecordAsset(p) PROVE IInv'
<1>1. /\ pc[p] = "asset" /\ UNCHANGED <<born, present, tag, version, layer, ties, late, requests>>
      /\ pc' = [pc EXCEPT ![p] = "idle"] /\ job' = [job EXCEPT ![p] = Nothing]
      /\ scan' = [scan EXCEPT ![Digest(p)] = "pending"]
      /\ settled' = IF Owns(p) THEN settled \union {<<Image(p), Digest(p)>>} ELSE settled
  BY DEF RecordAsset, rows, Owns, End, Goto
<1>2. Image(p) \in Images /\ Digest(p) \in Digests /\ JobOK(p) /\ "asset" \in Stored
  BY <1>1, RequestShape DEF IInv, JobInv, Stored
<1>3. "idle" \in Labels /\ "idle" \notin Early /\ "idle" \notin Stored
  BY DEF Labels, Early, Stored
<1>4. /\ Locals' /\ pc'[p] = "idle"
      /\ \A q \in Procs : q # p => pc'[q] = pc[q] /\ job'[q] = job[q]
  BY <1>1, <1>3, NothingType, OneMoves DEF IInv
<1>5. TypeOK'
  BY <1>1, <1>2, <1>4 DEF IInv, TypeOK, Row
<1>6. Bounds'
  BY <1>1, <1>3, <1>4, BoundsKept DEF IInv
<1>7. \A k \in Images, e \in present :
        (Kept(k, e) => Kept(k, e)') /\ (Tied(k, e) => Tied(k, e)')
  BY <1>1 DEF Kept, Tied
<1>8. JobOK(p)'
  BY <1>3, <1>4 DEF JobOK
<1>9. SettledInv'
  <2>1. ASSUME NEW k \in Images, NEW e \in Digests, <<k, e>> \in settled'
        PROVE  e \in present' /\ Kept(k, e)' /\ Tied(k, e)'
    <3>1. CASE <<k, e>> \in settled
      BY <1>1, <1>7, <3>1 DEF IInv, SettledInv
    <3>2. CASE <<k, e>> \notin settled
      <4>1. Owns(p) /\ k = Image(p) /\ e = Digest(p)
        BY <1>1, <2>1, <3>2
      <4> QED BY <1>1, <1>2, <1>7, <4>1 DEF JobOK, Owns
    <3> QED BY <3>1, <3>2
  <2> QED BY <2>1 DEF SettledInv
<1> QED BY <1>1, <1>4, <1>5, <1>6, <1>7, <1>8, <1>9, RowsStay DEF IInv, JobInv

-----------------------------------------------------------------------------
(* Deletes.                                                                *)

LEMMA DropTagsIInv ==
  ASSUME IInv, NEW p \in Procs, DropTags(p) \/ Tombstone(p) PROVE IInv'
<1>1. /\ pc[p] \in {"dropTags", "tombstone"}
      /\ UNCHANGED <<born, present, layer, ties, scan, job, settled, late, requests>>
  BY DEF DropTags, Tombstone, content, history
<1>2. PICK l \in {"tombstone", "dropRow"} : pc' = [pc EXCEPT ![p] = l]
  BY DEF DropTags, Tombstone, Goto
<1>3. l \in Labels /\ l \notin Early /\ l \notin Stored /\ l \notin {"idle", "release"}
  BY DEF Labels, Early, Stored, Deleting
<1>4. job[p] \in Job /\ job' = [job EXCEPT ![p] = job[p]]
  BY <1>1 DEF IInv, Locals
<1>5. /\ Locals' /\ pc'[p] = l /\ job'[p] = job[p]
      /\ \A q \in Procs : q # p => pc'[q] = pc[q] /\ job'[q] = job[q]
  BY <1>2, <1>3, <1>4, OneMoves DEF IInv
<1>6. /\ tag' \in [Images \X Tags -> {NoRow} \union {Row(d) : d \in present}]
      /\ version' \in [Images \X Names -> Digests \union {None}]
  <2>1. CASE DropTags(p)
    BY <2>1 DEF DropTags, IInv, TypeOK
  <2>2. CASE Tombstone(p)
    BY <2>2 DEF Tombstone, IInv, TypeOK
  <2> QED BY <2>1, <2>2
<1>7. TypeOK'
  BY <1>1, <1>5, <1>6 DEF IInv, TypeOK, Row
<1>8. Bounds'
  BY <1>1, <1>3, <1>5, BoundsKept DEF IInv
<1>9. \A k \in Images, e \in present :
        (Kept(k, e) => Kept(k, e)') /\ (Tied(k, e) => Tied(k, e)')
  BY <1>1 DEF Kept, Tied
<1>10. JobOK(p)'
  BY <1>3, <1>5 DEF JobOK
<1> QED BY <1>1, <1>5, <1>7, <1>8, <1>9, <1>10, RowsStay DEF IInv, JobInv

(* A row goes with its tags, its ties and its acknowledgements: who held   *)
(* it owns it no longer.                                                   *)
LEMMA DropRowIInv ==
  ASSUME IInv, NEW p \in Procs, DropRow(p) PROVE IInv'
<1>1. /\ pc[p] = "dropRow" /\ pc' = [pc EXCEPT ![p] = "survey"]
      /\ UNCHANGED <<born, version, layer, scan, job, late, requests>>
  BY DEF DropRow, Goto
<1>2. "survey" \in Labels /\ "survey" \notin Early /\ "survey" \notin Stored
  BY DEF Labels, Early, Stored, Deleting
<1>3. job[p] \in Job /\ job' = [job EXCEPT ![p] = job[p]]
  BY <1>1 DEF IInv, Locals
<1>4. /\ Locals' /\ pc'[p] = "survey" /\ job'[p] = job[p]
      /\ \A q \in Procs : q # p => pc'[q] = pc[q] /\ job'[q] = job[q]
  BY <1>1, <1>2, <1>3, OneMoves DEF IInv
<1>5. PICK gone \in SUBSET Digests :
        /\ present' = present \ gone
        /\ tag' = [x \in Images \X Tags |-> IF tag[x].digest \in gone THEN NoRow ELSE tag[x]]
        /\ ties' = {x \in ties : x.digest \notin gone}
        /\ settled' = {x \in settled : x[2] \notin gone}
  <2>1. CASE Associated(p)
    <3>1. /\ present' = present \ {} /\ ties' = {x \in ties : x.digest \notin {}}
          /\ settled' = {x \in settled : x[2] \notin {}}
      BY <2>1 DEF DropRow
    <3>2. tag' = [x \in Images \X Tags |-> IF tag[x].digest \in {} THEN NoRow ELSE tag[x]]
      BY <2>1 DEF DropRow
    <3> QED BY <3>1, <3>2
  <2>2. CASE ~ Associated(p)
    <3>1. Digest(p) \in Digests
      BY <1>1, RequestShape DEF IInv
    <3>2. /\ present' = present \ {Digest(p)}
          /\ ties' = {x \in ties : x.digest \notin {Digest(p)}}
          /\ settled' = {x \in settled : x[2] \notin {Digest(p)}}
      BY <2>2 DEF DropRow, TiesCascaded
    <3>3. tag' = [x \in Images \X Tags |->
                    IF tag[x].digest \in {Digest(p)} THEN NoRow ELSE tag[x]]
      BY <2>2 DEF DropRow
    <3> QED BY <3>1, <3>2, <3>3
  <2> QED BY <2>1, <2>2
<1>6. TypeOK'
  <2>1. tag' \in [Images \X Tags -> {NoRow} \union {Row(d) : d \in present'}]
    <3>1. ASSUME NEW x \in Images \X Tags, tag[x].digest \notin gone
          PROVE  tag[x] \in {NoRow} \union {Row(d) : d \in present'}
      <4>1. CASE tag[x] = NoRow
        BY <4>1
      <4>2. ASSUME NEW d \in present, tag[x] = Row(d)
            PROVE  tag[x] \in {Row(e) : e \in present'}
        <5>1. d \in present'
          BY <1>5, <3>1, <4>2 DEF Row
        <5> QED BY <4>2, <5>1
      <4> QED BY <4>1, <4>2 DEF IInv, TypeOK
    <3> QED BY <1>5, <3>1
  <2>2. \A x \in ties' : x.digest \in present' /\ x.id = born'[x.digest] /\ x.blob \in Layers[x.digest]
    BY <1>1, <1>5 DEF IInv, TypeOK
  <2>3. {Row(d) : d \in present'} = {Row(d) : d \in present}'
    BY <1>1 DEF Row
  <2>4. present' \subseteq {d \in Digests : born'[d] > 0} /\ settled' \subseteq Images \X Digests
    BY <1>1, <1>5 DEF IInv, TypeOK
  <2> QED BY <1>1, <1>4, <2>1, <2>2, <2>3, <2>4 DEF IInv, TypeOK
<1>7. Bounds'
  BY <1>1, <1>2, <1>4, BoundsKept DEF IInv
<1>8. \A k \in Images, e \in present' :
        (Kept(k, e) => Kept(k, e)') /\ (Tied(k, e) => Tied(k, e)')
  BY <1>1, <1>5 DEF Kept, Tied
<1>9. JobOK(p)'
  BY <1>2, <1>4 DEF JobOK
<1>10. ASSUME NEW q \in Procs, q # p PROVE JobOK(q)'
  <2>1. /\ Image(q)' = Image(q) /\ Digest(q)' = Digest(q) /\ JobOK(q)
        /\ pc'[q] = pc[q] /\ job'[q] = job[q]
        /\ Owns(q)' => Owns(q) /\ Digest(q) \in present'
    BY <1>1, <1>4, <1>5, <1>10 DEF IInv, JobInv, Image, Digest, Owns
  <2>2. CASE pc[q] \in Stored
    <3>1. Image(q) \in Images
      BY <2>2, RequestShape DEF IInv, Stored
    <3>2. Owns(q)' => /\ Kept(Image(q), Digest(q))'
                      /\ pc[q] = "asset" => Tied(Image(q), Digest(q))'
      BY <1>8, <2>1, <2>2, <3>1 DEF JobOK
    <3>3. pc[q] # "release"
      BY <2>2 DEF Stored
    <3> QED BY <1>1, <2>1, <2>2, <3>2, <3>3 DEF JobOK
  <2>3. CASE pc[q] \notin Stored
    BY <2>1, <2>3 DEF JobOK
  <2> QED BY <2>2, <2>3
<1>11. SettledInv'
  <2>1. ASSUME NEW k \in Images, NEW e \in Digests, <<k, e>> \in settled'
        PROVE  e \in present' /\ Kept(k, e)' /\ Tied(k, e)'
    BY <1>5, <1>8, <2>1 DEF IInv, SettledInv
  <2> QED BY <2>1 DEF SettledInv
<1> QED BY <1>4, <1>6, <1>7, <1>9, <1>10, <1>11 DEF IInv, JobInv

(* A layer that a manifest of the second listing names is not released;    *)
(* one that another manifest names is released unseen.                     *)
LEMMA ReleaseLayerIInv ==
  ASSUME IInv, NEW p \in Procs, ReleaseLayer(p) PROVE IInv'
<1>1. PICK b \in job[p].blobs :
        /\ layer' = layer \ {<<Image(p), b>>}
        /\ job' = [job EXCEPT ![p] = [job[p] EXCEPT !.blobs = job[p].blobs \ {b}]]
        /\ late' = late \union ({Image(p)} \X (present \ job[p].seen) \X {b})
  BY DEF ReleaseLayer
<1>2. /\ pc[p] = "release"
      /\ UNCHANGED <<born, present, tag, version, ties, scan, pc, settled, requests>>
  BY DEF ReleaseLayer, rows
<1>3. job[p] \in Job /\ JobOK(p) /\ job[p].blobs \ {b} \in SUBSET Blobs
      /\ "release" \in Labels /\ "release" \notin Early /\ "release" \notin Stored
  BY DEF IInv, Locals, Job, JobInv, Labels, Early, Stored, Deleting
<1>4. PICK j \in Job : /\ job' = [job EXCEPT ![p] = j] /\ j.request = job[p].request
                      /\ j.blobs = job[p].blobs \ {b} /\ j.seen = job[p].seen
  BY <1>1, <1>3, SetBlobs
<1>5. pc' = [pc EXCEPT ![p] = "release"]
  BY <1>2 DEF IInv, Locals
<1>6. /\ Locals' /\ pc'[p] = "release" /\ job'[p] = j
      /\ \A q \in Procs : q # p => pc'[q] = pc[q] /\ job'[q] = job[q]
  BY <1>3, <1>4, <1>5, OneMoves DEF IInv
<1>7. TypeOK'
  BY <1>1, <1>2, <1>4, <1>6 DEF IInv, TypeOK, Row
<1>8. Bounds'
  BY <1>2, <1>3, <1>6, BoundsKept DEF IInv
<1>9. \A k \in Images, e \in present :
        (Kept(k, e) => Kept(k, e)') /\ (Tied(k, e) => Tied(k, e)')
  <2>1. ASSUME NEW k \in Images, NEW e \in present, Kept(k, e),
               NEW c \in Layers[e]
        PROVE  <<k, c>> \in layer' \/ <<k, e, c>> \in late'
    <3>1. CASE c = b /\ k = Image(p)
      <4>1. e \notin job[p].seen
        BY <1>2, <1>3, <2>1, <3>1 DEF JobOK
      <4> QED BY <1>1, <3>1, <4>1
    <3>2. CASE ~ (c = b /\ k = Image(p))
      BY <1>1, <2>1, <3>2 DEF Kept
    <3> QED BY <3>1, <3>2
  <2> QED BY <1>2, <2>1 DEF Kept, Tied
<1>10. JobOK(p)'
  BY <1>2, <1>3, <1>4, <1>6 DEF JobOK
<1> QED BY <1>2, <1>6, <1>7, <1>8, <1>9, <1>10, RowsStay DEF IInv, JobInv

-----------------------------------------------------------------------------
(* Steps of nobody's request.                                              *)

LEMMA DeleteBlobIInv ==
  ASSUME IInv, NEW i \in Images, NEW b \in Blobs, DeleteBlob(i, b) PROVE IInv'
<1>1. /\ layer' = layer \ {<<i, b>>} /\ late' = late \union ({i} \X present \X {b})
      /\ requests' = requests + 1 /\ requests < MaxRequests
      /\ UNCHANGED <<born, present, tag, version, ties, scan, pc, job, settled>>
  BY DEF DeleteBlob, rows
<1>2. TypeOK' /\ Locals'
  BY <1>1 DEF IInv, TypeOK, Locals, Row
<1>3. Bounds'
  <2>1. \A d \in Digests : Coming(d)' = Coming(d)
    BY <1>1 DEF Coming, Digest
  <2>2. \A d \in Digests : born[d] \in Nat /\ Cardinality(Coming(d)) \in Nat
    BY ComingFinite DEF IInv, TypeOK
  <2> QED BY <1>1, <2>1, <2>2 DEF IInv, Bounds
<1>4. \A k \in Images, e \in present :
        (Kept(k, e) => Kept(k, e)') /\ (Tied(k, e) => Tied(k, e)')
  BY <1>1 DEF Kept, Tied
<1> QED BY <1>1, <1>2, <1>3, <1>4, RowsStay DEF IInv, JobInv

LEMMA OthersIInv ==
  ASSUME IInv,
         \/ \E i \in Images, b \in Blobs : UploadLayer(i, b)
         \/ \E i \in Images, t \in Tags : Untag(i, t)
         \/ \E d \in Digests : Scan(d)
         \/ UNCHANGED vars
  PROVE  IInv'
<1>1. /\ UNCHANGED <<born, present, version, ties, pc, job, settled, late, requests>>
      /\ layer \subseteq layer'
  BY DEF UploadLayer, Untag, Scan, vars, rows, content, history
<1>2. /\ layer' \subseteq Images \X Blobs
      /\ tag' \in [Images \X Tags -> {NoRow} \union {Row(d) : d \in present}]
      /\ scan' \in [Digests -> {"none", "pending", "clean", "blocked"}]
  <2>1. ASSUME NEW i \in Images, NEW b \in Blobs, UploadLayer(i, b)
        PROVE  UNCHANGED <<tag, scan>> /\ layer' \subseteq Images \X Blobs
    BY <2>1 DEF UploadLayer, rows, IInv, TypeOK
  <2>2. ASSUME NEW i \in Images, NEW t \in Tags, Untag(i, t)
        PROVE  /\ UNCHANGED <<layer, scan>>
               /\ tag' \in [Images \X Tags -> {NoRow} \union {Row(d) : d \in present}]
    BY <2>2 DEF Untag, content, IInv, TypeOK
  <2>3. ASSUME NEW d \in Digests, Scan(d)
        PROVE  /\ UNCHANGED <<tag, layer>>
               /\ scan' \in [Digests -> {"none", "pending", "clean", "blocked"}]
    BY <2>3 DEF Scan, rows, IInv, TypeOK
  <2> QED BY <2>1, <2>2, <2>3 DEF vars, IInv, TypeOK
<1>3. TypeOK' /\ Locals'
  BY <1>1, <1>2 DEF IInv, TypeOK, Locals, Row
<1>4. Bounds'
  BY <1>1, BoundsKept DEF IInv
<1>5. \A k \in Images, e \in present :
        (Kept(k, e) => Kept(k, e)') /\ (Tied(k, e) => Tied(k, e)')
  BY <1>1 DEF Kept, Tied
<1> QED BY <1>1, <1>3, <1>4, <1>5, RowsStay DEF IInv, JobInv

-----------------------------------------------------------------------------

LEMMA InitIInv == Init => IInv
<1> SUFFICES ASSUME Init PROVE IInv
  OBVIOUS
<1>1. TypeOK
  BY DEF Init, TypeOK
<1>2. Locals
  BY NothingType DEF Init, Locals, Labels
<1>3. Bounds
  <2>1. ASSUME NEW d \in Digests PROVE born[d] = 0 /\ Coming(d) = {}
    BY DEF Init, Coming, Early
  <2>2. requests = 0
    BY DEF Init
  <2> QED BY <2>1, <2>2, FS_EmptySet DEF Bounds
<1>4. JobInv /\ SettledInv
  BY DEF Init, JobInv, JobOK, SettledInv, Early, Stored
<1> QED BY <1>1, <1>2, <1>3, <1>4 DEF IInv

LEMMA NextIInv == IInv /\ [Next]_vars => IInv'
<1> SUFFICES ASSUME IInv, [Next]_vars PROVE IInv'
  OBVIOUS
<1>1. ASSUME NEW p \in Procs,
             \/ Receive(p) \/ CheckLayers(p) \/ CheckChildren(p) \/ Commit(p)
             \/ CommitRefused(p) \/ RecordVersion(p) \/ TieLayers(p) \/ RecordAsset(p)
      PROVE  IInv'
  BY <1>1, ReceiveIInv, ChecksIInv, CommitIInv, RecordVersionIInv, TieLayersIInv,
     RecordAssetIInv
<1>2. ASSUME NEW p \in Procs,
             \/ Resolve(p) \/ DropTags(p) \/ Tombstone(p) \/ DropRow(p) \/ Survey(p)
             \/ Refetch(p) \/ ReleaseLayer(p) \/ Deleted(p) \/ Stop(p)
      PROVE  IInv'
  BY <1>2, ResolveIInv, DropTagsIInv, DropRowIInv, ListingsIInv, ReleaseLayerIInv, ChecksIInv
<1>3. ASSUME NEW i \in Images, NEW b \in Blobs, DeleteBlob(i, b) PROVE IInv'
  BY <1>3, DeleteBlobIInv
<1> QED BY <1>1, <1>2, <1>3, OthersIInv DEF Next

LEMMA SpecIInv == Spec => []IInv
BY InitIInv, NextIInv, PTL DEF Spec

-----------------------------------------------------------------------------

(* Rows, tags, ties and acknowledgements keep their shape: a tag or a tie  *)
(* always names the row that is there, and no digest is given more rows    *)
(* than there were requests.                                               *)
THEOREM TypeCorrect == Spec => []TypeOK
<1>1. IInv => TypeOK
  BY DEF IInv
<1> QED BY <1>1, SpecIInv, PTL

(* An acknowledged manifest keeps its layers, however many requests push   *)
(* and delete it, its layers and the manifests that share them.            *)
THEOREM AcknowledgedKeepsLayers == Spec => []LayersKept
<1>1. IInv => LayersKept
  BY DEF IInv, TypeOK, SettledInv, Kept, LayersKept, Live
<1> QED BY <1>1, SpecIInv, PTL

(* What a blob is found to be referenced by is live, and names it.         *)
LEMMA ReferencingIsLive ==
  ASSUME IInv, NEW i \in Images, NEW b, NEW d \in Referencing(i, b)
  PROVE  d \in Live(i) /\ b \in Layers[d]
<1>1. PICK y \in ties :
        /\ y.digest = d /\ y.image = i /\ y.blob = b
        /\ \/ \E t \in Tags : tag[<<i, t>>] = [digest |-> d, id |-> y.id]
           \/ \E n \in Names : version[<<i, n>>] = d
  BY DEF Referencing
<1>2. d \in present /\ d \in Digests /\ b \in Layers[d]
  BY <1>1 DEF IInv, TypeOK
<1>3. ASSUME NEW t \in Tags, tag[<<i, t>>] = [digest |-> d, id |-> y.id] PROVE d \in Tagged(i)
  BY <1>2, <1>3 DEF Tagged, NoRow
<1> QED BY <1>1, <1>2, <1>3 DEF Live

(* A live manifest whose push was acknowledged is found to reference its   *)
(* layers.                                                                 *)
LEMMA AcknowledgedIsReferencing ==
  ASSUME IInv, NEW i \in Images, NEW d \in Live(i), <<i, d>> \in settled,
         NEW b \in Layers[d]
  PROVE  d \in Referencing(i, b)
<1>1. d \in present /\ d \in Digests
  BY DEF Live, IInv, TypeOK
<1> DEFINE y == [image |-> i, digest |-> d, id |-> born[d], blob |-> b]
<1>2. y \in ties
  BY <1>1 DEF IInv, SettledInv, Tied
<1>3. CASE d \in Tagged(i)
  <2>1. PICK t \in Tags : tag[<<i, t>>] # NoRow /\ tag[<<i, t>>].digest = d
    BY <1>3 DEF Tagged
  <2>2. <<i, t>> \in Images \X Tags
    OBVIOUS
  <2>3. tag[<<i, t>>] = [digest |-> d, id |-> born[d]]
    BY <2>1, <2>2 DEF IInv, TypeOK, Row
  <2> QED BY <1>2, <2>3 DEF Referencing
<1>4. CASE d \notin Tagged(i)
  <2>1. PICK n \in Names : version[<<i, n>>] = d
    BY <1>4 DEF Live
  <2> QED BY <1>2, <2>1 DEF Referencing
<1> QED BY <1>3, <1>4

(* A layer that only acknowledged manifests name, none of them found       *)
(* clean, is not served, whatever was pushed, retagged and deleted.        *)
THEOREM UncleanIsHidden == Spec => []UncleanLayersHidden
<1>1. ASSUME IInv PROVE UncleanLayersHidden
  <2> SUFFICES ASSUME NEW x \in layer,
                      {d \in Live(x[1]) : x[2] \in Layers[d]} # {},
                      \A d \in {d \in Live(x[1]) : x[2] \in Layers[d]} :
                        scan[d] # "clean" /\ <<x[1], d>> \in settled
               PROVE  Hidden(x[1], x[2])
    BY DEF UncleanLayersHidden
  <2>1. x[1] \in Images
    BY <1>1 DEF IInv, TypeOK
  <2>2. Referencing(x[1], x[2]) # {}
    BY <1>1, <2>1, AcknowledgedIsReferencing
  <2>3. \A d \in Referencing(x[1], x[2]) : scan[d] # "clean"
    BY <1>1, <2>1, ReferencingIsLive
  <2> QED BY <2>2, <2>3 DEF Hidden
<1> QED BY <1>1, SpecIInv, PTL

(* A row goes only in a delete that found no tag of it, of any image; a    *)
(* tag it takes along was of an earlier row than the one it resolved.      *)
THEOREM TagsSurviveDeletes == Spec => TagsAreNotCascaded
<1> DEFINE Gone ==
      \A d \in present \ present' :
        (\E x \in Images \X Tags : tag[x] = Row(d)) =>
          \E p \in Procs : pc[p] = "dropRow" /\ Digest(p) = d /\ job[p].id # born[d]
<1>1. ASSUME Next PROVE Gone
  <2>1. ASSUME NEW p \in Procs, DropRow(p) PROVE Gone
    <3>1. ASSUME NEW d \in present \ present', NEW x \in Images \X Tags, tag[x] = Row(d)
          PROVE  pc[p] = "dropRow" /\ Digest(p) = d /\ job[p].id # born[d]
      <4>1. pc[p] = "dropRow" /\ Digest(p) = d /\ ~ Associated(p)
        BY <2>1, <3>1 DEF DropRow
      <4> QED BY <3>1, <4>1 DEF Associated, Row
    <3> QED BY <3>1
  <2>2. CASE present \subseteq present'
    BY <2>2
  <2>3. (\E p \in Procs : DropRow(p)) \/ present \subseteq present'
    BY <1>1 DEF Next, Receive, CheckLayers, CheckChildren, Commit, CommitRefused,
       RecordVersion, TieLayers, RecordAsset, Resolve, DropTags, Tombstone, Survey,
       Refetch, ReleaseLayer, Deleted, Stop, UploadLayer, DeleteBlob, Untag, Scan, rows
  <2> QED BY <2>1, <2>2, <2>3
<1>2. ASSUME UNCHANGED vars PROVE Gone
  BY <1>2 DEF vars
<1>3. [Next]_vars => [Gone]_vars
  BY <1>1, <1>2
<1> QED BY <1>3, PTL DEF Spec, TagsAreNotCascaded
=============================================================================
