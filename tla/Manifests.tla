------------------------------ MODULE Manifests ------------------------------
(***************************************************************************)
(* The OCI manifests of one repository: content_manifests (one row for a   *)
(* digest, shared by the images of the repository), content_tags and       *)
(* package_versions (of one image each), the blob_refs that keep the       *)
(* layers of an image, the content_blob_refs that tie a layer to the       *)
(* manifests naming it, and the scan state that gates downloads.           *)
(*                                                                         *)
(* A request is a run of transactions, and each of them is an action: a    *)
(* push (putOciManifest) checks its references, commits the manifest with  *)
(* its tags, records a version for each tag, ties the layers and records   *)
(* the asset; a delete by digest (deleteOciManifestReference) resolves the *)
(* manifest, removes its tags, its versions and its row, and releases the  *)
(* layers no live manifest names.  The advisory locks of the transactions  *)
(* make each of them atomic.                                               *)
(***************************************************************************)
EXTENDS Naturals, FiniteSets

CONSTANTS
  Images,       (* packages of the repository                              *)
  Digests,      (* manifest digests                                        *)
  Tags,
  Layers,       (* Layers[d]: the blobs manifest d names                   *)
  Children,     (* Children[d]: the manifests index d names                *)
  Procs,
  Requests,     (* Requests[p]: what p may be asked for                    *)
  MaxRequests,  (* bound: pushes, deletes and blob deletes in all          *)
  MaxStops,     (* bound: requests that crash or are refused half-way      *)
  BlobDeletes,  (* whether clients delete layers themselves                *)
  None

Blobs == UNION {Layers[d] : d \in Digests}
Names == Tags \union Digests

ASSUME ManifestAssumption ==
  /\ Tags \intersect Digests = {}
  /\ None \notin Digests
  /\ \A d \in Digests : Children[d] \subseteq Digests
  /\ IsFiniteSet(Procs)
  /\ \A p \in Procs : \A r \in Requests[p] :
       /\ r.op \in {"push", "delete"} /\ r.image \in Images /\ r.digest \in Digests
       /\ r.op = "push" => r.tags \subseteq Tags
  /\ MaxRequests \in Nat /\ MaxStops \in Nat /\ BlobDeletes \in BOOLEAN

VARIABLES
  born,      (* the rows ever inserted for a digest: the newest one's id   *)
  present,   (* the digests that have a content_manifests row              *)
  tag,       (* content_tags: [digest, id] or None                         *)
  version,   (* the digest of a live package_versions row, or None         *)
  layer,     (* blob_refs of kind oci_layer: <<image, blob>>               *)
  ties,      (* content_blob_refs: [image, digest, id, blob]               *)
  scan,      (* artifacts.state                                            *)
  pc, job,   (* a request: where it is and what it holds                   *)
  settled,   (* history: <<image, digest>> acknowledged since its row came *)
  late,      (* history: <<image, digest, blob>> released unseen           *)
  requests, stops

rows == <<born, present, tag, version>>
content == <<layer, ties, scan>>
history == <<settled, late>>
vars == <<born, present, tag, version, layer, ties, scan, pc, job, settled, late,
          requests, stops>>

Row(d) == [digest |-> d, id |-> born[d]]
NoRow == [digest |-> None, id |-> 0]
Nothing == [request |-> None, id |-> 0, names |-> {}, blobs |-> {}, seen |-> {}]

(* listLiveContentManifestsForPackage: tagged, or named by a live version. *)
Tagged(i) == {tag[<<i, t>>].digest : t \in {x \in Tags : tag[<<i, x>>] # NoRow}}
Live(i) == (Tagged(i) \union {version[<<i, n>>] : n \in Names}) \intersect present

(* resolveContentManifest by digest: tagged in the image, or pushed to it  *)
(* by digest.                                                              *)
Resolvable(i, d) == d \in present /\ (d \in Tagged(i) \/ version[<<i, d>>] = d)

LayersOf(i) == {x[2] : x \in {y \in layer : y[1] = i}}

TypeOK ==
  /\ born \in [Digests -> 0..MaxRequests]
  /\ present \subseteq {d \in Digests : born[d] > 0}
  /\ tag \in [Images \X Tags -> {NoRow} \union {Row(d) : d \in present}]
  /\ version \in [Images \X Names -> Digests \union {None}]
  /\ layer \subseteq Images \X Blobs
  /\ \A x \in ties : x.digest \in present /\ x.id = born[x.digest]
                       /\ x.blob \in Layers[x.digest]
  /\ scan \in [Digests -> {"none", "pending", "clean", "blocked"}]
  /\ \A p \in Procs : pc[p] # "idle" => job[p].request \in Requests[p]
  /\ settled \subseteq Images \X Digests

Init ==
  /\ born = [d \in Digests |-> 0]
  /\ present = {}
  /\ tag = [x \in Images \X Tags |-> NoRow]
  /\ version = [x \in Images \X Names |-> None]
  /\ layer = {} /\ ties = {}
  /\ scan = [d \in Digests |-> "none"]
  /\ pc = [p \in Procs |-> "idle"]
  /\ job = [p \in Procs |-> Nothing]
  /\ settled = {} /\ late = {}
  /\ requests = 0 /\ stops = 0

Goto(p, label) == pc' = [pc EXCEPT ![p] = label]

End(p) == Goto(p, "idle") /\ job' = [job EXCEPT ![p] = Nothing]

Image(p) == job[p].request.image
Digest(p) == job[p].request.digest

(***************************************************************************)
(* putOciManifest                                                          *)
(***************************************************************************)

(* A client sends a push or a delete.                                      *)
Receive(p) ==
  /\ pc[p] = "idle" /\ requests < MaxRequests
  /\ \E r \in Requests[p] :
       /\ job' = [job EXCEPT ![p] = [Nothing EXCEPT !.request = r]]
       /\ Goto(p, IF r.op = "push" THEN "checkLayers" ELSE "resolve")
  /\ requests' = requests + 1
  /\ UNCHANGED <<rows, content, history, stops>>

(* commitOciBlob at the end of an upload: the image gets the layer.        *)
UploadLayer(i, b) ==
  /\ <<i, b>> \notin layer
  /\ layer' = layer \union {<<i, b>>}
  /\ UNCHANGED <<rows, ties, scan, pc, job, history, requests, stops>>

(* assertOciManifestBlobRefsExist                                          *)
CheckLayers(p) ==
  /\ pc[p] = "checkLayers"
  /\ IF Layers[Digest(p)] \subseteq LayersOf(Image(p))
       THEN Goto(p, "checkChildren") /\ UNCHANGED job
       ELSE End(p)
  /\ UNCHANGED <<rows, content, history, requests, stops>>

(* assertReferencedOciManifestsExist                                       *)
CheckChildren(p) ==
  /\ pc[p] = "checkChildren"
  /\ IF \A c \in Children[Digest(p)] : Resolvable(Image(p), c)
       THEN Goto(p, "commit") /\ UNCHANGED job
       ELSE End(p)
  /\ UNCHANGED <<rows, content, history, requests, stops>>

(* What a push records a version under: its tags, or the digest.           *)
VersionNames(r) == IF r.tags = {} THEN {r.digest} ELSE r.tags

AssertedAtCommit(p) == Layers[Digest(p)] \subseteq LayersOf(Image(p))

(* commitContentManifest: one transaction, under the manifest's lock and   *)
(* the locks of its layers.                                                *)
Commit(p) ==
  LET d == Digest(p)
      id == IF d \in present THEN born[d] ELSE born[d] + 1
  IN  /\ pc[p] = "commit" /\ AssertedAtCommit(p)
      /\ born' = [born EXCEPT ![d] = id]
      /\ present' = present \union {d}
      /\ tag' = [x \in Images \X Tags |->
                   IF x[1] = Image(p) /\ x[2] \in job[p].request.tags
                     THEN [digest |-> d, id |-> id] ELSE tag[x]]
      /\ job' = [job EXCEPT ![p].id = id, ![p].names = VersionNames(job[p].request)]
      /\ Goto(p, "record")
      /\ late' = {x \in late : <<x[1], x[2]>> # <<Image(p), d>>}
      /\ UNCHANGED <<version, content, settled, requests, stops>>

CommitRefused(p) ==
  /\ pc[p] = "commit" /\ ~ AssertedAtCommit(p)
  /\ End(p)
  /\ UNCHANGED <<rows, content, history, requests, stops>>

(* recordOciManifestVersions: one upsert after the other.                  *)
RecordVersion(p) ==
  /\ pc[p] = "record"
  /\ \E n \in job[p].names :
       /\ version' = [version EXCEPT ![<<Image(p), n>>] = Digest(p)]
       /\ job' = [job EXCEPT ![p].names = @ \ {n}]
       /\ Goto(p, IF job[p].names = {n} THEN "tie" ELSE "record")
  /\ UNCHANGED <<born, present, tag, content, history, requests, stops>>

TiesWithout(p) == {x \in ties : x.digest # Digest(p) \/ x.image # Image(p)}

(* replaceContentManifestBlobRefs: the foreign key refuses the layers of a *)
(* manifest whose row is gone.                                             *)
TieLayers(p) ==
  LET d == Digest(p)
      alive == d \in present /\ born[d] = job[p].id
  IN  /\ pc[p] = "tie"
      /\ IF alive \/ Layers[d] = {} THEN Goto(p, "asset") /\ UNCHANGED job ELSE End(p)
      /\ ties' = IF ~ alive THEN ties ELSE TiesWithout(p) \union
                   [image : {Image(p)}, digest : {d}, id : {job[p].id}, blob : Layers[d]]
      /\ UNCHANGED <<rows, layer, scan, history, requests, stops>>

(* assets.upsert with a scan intent, and the response.                     *)
RecordAsset(p) ==
  LET d == Digest(p)
  IN  /\ pc[p] = "asset"
      /\ scan' = [scan EXCEPT ![d] = "pending"]
      /\ settled' = IF d \in present /\ born[d] = job[p].id
                      THEN settled \union {<<Image(p), d>>} ELSE settled
      /\ End(p)
      /\ UNCHANGED <<rows, layer, ties, late, requests, stops>>

(* The scan worker's verdict.                                              *)
Scan(d) ==
  /\ scan[d] = "pending"
  /\ \E verdict \in {"clean", "blocked"} : scan' = [scan EXCEPT ![d] = verdict]
  /\ UNCHANGED <<rows, layer, ties, pc, job, history, requests, stops>>

(***************************************************************************)
(* deleteOciManifestReference                                              *)
(***************************************************************************)

Resolve(p) ==
  /\ pc[p] = "resolve"
  /\ IF Resolvable(Image(p), Digest(p))
       THEN Goto(p, "dropTags") /\ job' = [job EXCEPT ![p].id = born[Digest(p)]]
       ELSE End(p)
  /\ UNCHANGED <<rows, content, history, requests, stops>>

(* deleteContentTagsForManifest                                            *)
DropTags(p) ==
  /\ pc[p] = "dropTags"
  /\ tag' = [x \in Images \X Tags |->
               IF x[1] = Image(p) /\ tag[x] = [digest |-> Digest(p), id |-> job[p].id]
                 THEN NoRow ELSE tag[x]]
  /\ Goto(p, "tombstone")
  /\ UNCHANGED <<born, present, version, content, job, history, requests, stops>>

(* markContentPackageVersionsDeletedByDigest                               *)
Tombstone(p) ==
  /\ pc[p] = "tombstone"
  /\ version' = [x \in Images \X Names |->
                   IF x[1] = Image(p) /\ version[x] = Digest(p) THEN None ELSE version[x]]
  /\ Goto(p, "dropRow")
  /\ UNCHANGED <<born, present, tag, content, job, history, requests, stops>>

(* Mutant: the associations of other images are not looked at.             *)
AssociatedHere(p) ==
  \/ \E t \in Tags : tag[<<Image(p), t>>] = [digest |-> Digest(p), id |-> job[p].id]
  \/ \E n \in Names : version[<<Image(p), n>>] = Digest(p)

(* contentManifestHasLiveAssociations: a tag of the row the delete         *)
(* resolved, or a live version of any image with the digest.               *)
Associated(p) ==
  \/ \E x \in Images \X Tags : tag[x] = [digest |-> Digest(p), id |-> job[p].id]
  \/ \E x \in Images \X Names : version[x] = Digest(p)

(* Mutant: the foreign key of the ties does not cascade.                   *)
TiesCascadedNot(d) == ties

TiesCascaded(d) == {x \in ties : x.digest # d}

(* deleteContentManifestIfUnassociated: tags and ties cascade.             *)
DropRow(p) ==
  LET d == Digest(p)
      drop == ~ Associated(p)
  IN  /\ pc[p] = "dropRow"
      /\ present' = IF drop THEN present \ {d} ELSE present
      /\ tag' = [x \in Images \X Tags |->
                   IF drop /\ tag[x].digest = d THEN NoRow ELSE tag[x]]
      /\ ties' = IF drop THEN TiesCascaded(d) ELSE ties
      /\ settled' = IF drop THEN {x \in settled : x[2] # d} ELSE settled
      /\ Goto(p, "survey")
      /\ UNCHANGED <<born, version, layer, scan, job, late, requests, stops>>

(* Mutant: only what is tagged counts.                                     *)
UsedByTag(i) == UNION {Layers[d] : d \in Tagged(i)}

UsedIn(i) == UNION {Layers[d] : d \in Live(i)}

(* releaseOciManifestBlobs: what the live manifests of the image name is   *)
(* kept, by a first listing and by a second one.                           *)
Survey(p) ==
  /\ pc[p] = "survey"
  /\ job' = [job EXCEPT ![p].blobs = Layers[Digest(p)] \ UsedIn(Image(p))]
  /\ Goto(p, "refetch")
  /\ UNCHANGED <<rows, content, history, requests, stops>>

Refetch(p) ==
  /\ pc[p] = "refetch"
  /\ job' = [job EXCEPT ![p].blobs = @ \ UsedIn(Image(p)), ![p].seen = Live(Image(p))]
  /\ Goto(p, "release")
  /\ UNCHANGED <<rows, content, history, requests, stops>>

(* releaseRegistryBlobRef of one layer after the other.  A manifest whose  *)
(* row is there and that the second listing has not seen loses the layer.  *)
ReleaseLayer(p) ==
  /\ pc[p] = "release"
  /\ \E b \in job[p].blobs :
       /\ layer' = layer \ {<<Image(p), b>>}
       /\ job' = [job EXCEPT ![p].blobs = @ \ {b}]
       /\ late' = late \union ({Image(p)} \X (present \ job[p].seen) \X {b})
  /\ UNCHANGED <<rows, ties, scan, pc, settled, requests, stops>>

Deleted(p) ==
  /\ pc[p] = "release" /\ job[p].blobs = {}
  /\ End(p)
  /\ UNCHANGED <<rows, content, history, requests, stops>>

(* deleteOciBlobReference: a client removes a layer, whatever names it.    *)
DeleteBlob(i, b) ==
  /\ BlobDeletes /\ requests < MaxRequests
  /\ <<i, b>> \in layer
  /\ layer' = layer \ {<<i, b>>}
  /\ late' = late \union ({i} \X present \X {b})
  /\ requests' = requests + 1
  /\ UNCHANGED <<rows, ties, scan, pc, job, settled, stops>>

(* deleteContentTag: the version of the tag stays.                         *)
Untag(i, t) ==
  /\ tag[<<i, t>>] # NoRow
  /\ tag' = [tag EXCEPT ![<<i, t>>] = NoRow]
  /\ UNCHANGED <<born, present, version, content, pc, job, history, requests, stops>>

(* A request dies, or one of its transactions fails (a quota, the          *)
(* database): the steps it made stay.                                      *)
Stop(p) ==
  /\ pc[p] # "idle" /\ stops < MaxStops
  /\ stops' = stops + 1
  /\ End(p)
  /\ UNCHANGED <<rows, content, history, requests>>

Next ==
  \/ \E p \in Procs :
       \/ Receive(p) \/ CheckLayers(p) \/ CheckChildren(p) \/ Commit(p) \/ CommitRefused(p)
       \/ RecordVersion(p) \/ TieLayers(p) \/ RecordAsset(p)
       \/ Resolve(p) \/ DropTags(p) \/ Tombstone(p) \/ DropRow(p) \/ Survey(p)
       \/ Refetch(p) \/ ReleaseLayer(p) \/ Deleted(p) \/ Stop(p)
  \/ \E i \in Images, b \in Blobs : UploadLayer(i, b) \/ DeleteBlob(i, b)
  \/ \E i \in Images, t \in Tags : Untag(i, t)
  \/ \E d \in Digests : Scan(d)

Spec == Init /\ [][Next]_vars

(***************************************************************************)
(* Properties.                                                             *)
(***************************************************************************)

(* A manifest whose push was acknowledged and that a tag or a version      *)
(* still names has its layers: only a delete that had made its second      *)
(* listing before the manifest was live, or a client that deletes the blob *)
(* itself, takes one from it (oci-manifest-lifecycle.ts:236-240).          *)
LayersKept ==
  \A i \in Images : \A d \in Live(i) : \A b \in Layers[d] :
    <<i, d>> \in settled => <<i, b>> \in layer \/ <<i, d, b>> \in late

(* Mutant: only the tags of a manifest tie a layer to it.                  *)
ReferencingByTag(i, b) ==
  {x.digest : x \in {y \in ties : y.image = i /\ y.blob = b /\ y.digest \in Tagged(i)}}

(* listContentManifestDigestsReferencingBlob                               *)
Referencing(i, b) ==
  {x.digest : x \in
     {y \in ties : /\ y.image = i /\ y.blob = b
                   /\ \/ \E t \in Tags : tag[<<i, t>>] = [digest |-> y.digest, id |-> y.id]
                      \/ \E n \in Names : version[<<i, n>>] = y.digest}}

(* isOciBlobBlocked under an enforcing scan policy.                        *)
Hidden(i, b) ==
  Referencing(i, b) # {} /\ \A d \in Referencing(i, b) : scan[d] # "clean"

(* A layer that is reachable only through manifests a scan has not found   *)
(* clean is not served, once their pushes are acknowledged, whatever is    *)
(* retagged, untagged, deleted and pushed again meanwhile                  *)
(* (docker-adapter.ts:206).                                                *)
UncleanLayersHidden ==
  \A x \in layer :
    LET naming == {d \in Live(x[1]) : x[2] \in Layers[d]}
    IN  /\ naming # {}
        /\ \A d \in naming : scan[d] # "clean" /\ <<x[1], d>> \in settled
        => Hidden(x[1], x[2])

(* A manifest row does not go while a tag of any image points to it, so a  *)
(* delete in one image never takes a tag of another with it, unless it     *)
(* resolved an earlier row of the digest (manifest-store.ts:233-239).      *)
TagsAreNotCascaded ==
  [][\A d \in present \ present' :
       (\E x \in Images \X Tags : tag[x] = Row(d)) =>
         \E p \in Procs : pc[p] = "dropRow" /\ Digest(p) = d /\ job[p].id # born[d]]_vars
=============================================================================
