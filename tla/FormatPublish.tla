---------------------------- MODULE FormatPublish ----------------------------
(***************************************************************************)
(* Concurrent uploads to one repository of one format, from the adapter's  *)
(* first check to its answer, with retention and with crashes.  Each       *)
(* database statement or transaction the handler awaits is one action.     *)
(* The blob store underneath (bytes, counts, locks, quota) is the subject  *)
(* of BlobStore and Publishing: here a reference is present or absent.     *)
(*                                                                         *)
(* Bound: every upload is sent once, with contents of its own; retention   *)
(* keeps the newest version of a package and prunes any older one.         *)
(***************************************************************************)
EXTENDS FormatCoordinates, Naturals, Sequences, SequencesExt

CONSTANTS Requests(_),\* the uploads sent at the same time: coordinates of each
          Adapters,   \* the formats tried
          Crashes,    \* TRUE when the process may die in the middle of an upload
          SignatureOf(_),\* the digest of SHASUMS.sig beside the SHASUMS of that digest
          None        \* no digest, no version

ASSUME FormatAssumption == Adapters \subseteq Formats /\ Crashes \in BOOLEAN

VARIABLES format,  \* the adapter of this repository
          mortal,  \* whether the server may die
          req,     \* coordinates of each upload
          pc,      \* where each handler is
          created, \* StoredBlob.refCreated of each upload
          previous,\* ivy: digest at the path before the upload stored
          prior,   \* digest of the asset an upload is about to retire
          answer,  \* what the client was told
          rows,    \* package_versions, oldest first
          refs,    \* blob_refs: [digest, scope]
          assets,  \* registry_assets by updated_at
          scans,   \* digests with a scan_outbox row
          pruned   \* history: retention has pruned a version

fixed == <<format, mortal, req>>
vars == <<fixed, pc, created, previous, prior, answer, rows, refs, assets, scans, pruned>>

Upload == DOMAIN req
FileOf(p) == Coordinates(format, req[p])
Digest(p) == req[p].digest
Reference(p) == [digest |-> Digest(p), scope |-> FileOf(p).scope]
ZipReference(p) == [digest |-> Digest(p), scope |-> ProviderZip(req[p])]

SignatureReference(p) ==
    [digest |-> SignatureOf(Digest(p)), scope |-> ProviderSignature(req[p])]

(* What a path says of the file: the primary pom or the Ivy descriptor; a  *)
(* checksum, a signature, a text manifest (the rest is scannable).  A      *)
(* Terraform provider comes with a signature or without.                   *)
IsDescriptor(p) == format \in PathStore /\ req[p].part = "x"
IsScannable(p) == ~(format \in PathStore \cup {"conan"} /\ req[p].part = "z")
IsSigned(p) == format \in Bundle /\ req[p].part = "y"

(* The files a new version row of upload p lists in its metadata. *)
FilesOf(p) == {Reference(p)} \cup (IF format \in Bundle THEN {ZipReference(p)} ELSE {})
                             \cup (IF IsSigned(p) THEN {SignatureReference(p)} ELSE {})

-----------------------------------------------------------------------------
(* Queries.                                                                *)

(* versions.find: the row of p's key, tombstones included; 0 if none. *)
RowOf(p) == SelectInSeq(rows, LAMBDA r : /\ r.package = FileOf(p).package
                                         /\ r.key = FileOf(p).key)
LiveRowOf(p) == RowOf(p) # 0 /\ ~rows[RowOf(p)].deleted

(* assets.findByScope: the most recently updated live asset at a scope. *)
AssetAt(scope) == SelectLastInSeq(assets, LAMBDA a : a.scope = scope /\ ~a.deleted)
DigestAt(scope) == IF AssetAt(scope) = 0 THEN None ELSE assets[AssetAt(scope)].digest

(* What the download route answers for a file of upload p: the digest is   *)
(* looked up, and serveRegistryBlob requires a reference to it.            *)
Named(p, scope) ==
    IF format \in ServedByAsset
    THEN {d \in {DigestAt(scope)} : d # None}
    ELSE IF LiveRowOf(p)
         THEN {f.digest : f \in {f \in rows[RowOf(p)].files : f.scope = scope}}
         ELSE {}
Served(p, scope) == {d \in Named(p, scope) : [digest |-> d, scope |-> scope] \in refs}

(* cargoVersionAlreadyPublished: a version of the same identity is listed. *)
CargoTaken(p) == \E i \in 1..Len(rows) : /\ rows[i].package = FileOf(p).package
                                         /\ rows[i].key[1] = FileOf(p).key[1]

(* The check an adapter makes before it stores anything. *)
Taken(p) ==
    CASE format = "cargo" -> CargoTaken(p)
      [] format \in {"apt", "homebrew", "vagrant"} ->
             \E i \in 1..Len(assets) : assets[i].scope = FileOf(p).scope
      [] format = "pypi" -> \/ \E i \in 1..Len(assets) : assets[i].scope = FileOf(p).scope
                            \/ RowOf(p) # 0 /\ rows[RowOf(p)].deleted
      [] format \in {"nix_nar", "nix_narinfo", "luarocks", "conan"} \cup PathStore -> FALSE
      [] OTHER -> RowOf(p) # 0

-----------------------------------------------------------------------------
Init ==
    /\ format \in Adapters /\ mortal \in {FALSE, Crashes}
    /\ req \in Requests(format)
    /\ pc = [p \in DOMAIN req |-> "check"]
    /\ created = [p \in DOMAIN req |-> FALSE]
    /\ previous = [p \in DOMAIN req |-> None]
    /\ prior = [p \in DOMAIN req |-> None]
    /\ answer = [p \in DOMAIN req |-> "none"]
    /\ rows = <<>>
    /\ refs = {}
    /\ assets = <<>>
    /\ scans = {} /\ pruned = FALSE

Goto(p, step) == pc' = [pc EXCEPT ![p] = step]
Answer(p, what) == /\ answer' = [answer EXCEPT ![p] = what]
                   /\ Goto(p, "done")

(* The adapter's own conflict check and the answer 409 (403 for npm). *)
Check(p) ==
    /\ pc[p] = "check"
    /\ \/ /\ Taken(p)
          /\ Answer(p, "conflict")
       \/ /\ ~Taken(p)
          /\ Goto(p, IF format \in Bundle THEN "store_zip"
                     ELSE IF format = "ivy" THEN "previous" ELSE "store")
          /\ UNCHANGED answer
    /\ UNCHANGED <<fixed, pruned, created, previous, prior, rows, refs, assets, scans>>

(* Terraform stores every platform zip before SHASUMS; one that does not   *)
(* have the digest its manifest declares is given back.                    *)
StoreZip(p) ==
    /\ pc[p] = "store_zip"
    /\ refs' = refs \cup {ZipReference(p)}
    /\ Goto(p, "store") \/ Goto(p, "release_zip")
    /\ UNCHANGED <<fixed, pruned, created, previous, prior, answer, rows, assets, scans>>

(* It stores the signature after SHASUMS.                                  *)
StoreSignature(p) ==
    /\ pc[p] = "store_signature"
    /\ refs' = refs \cup {SignatureReference(p)}
    /\ Goto(p, "create")
    /\ UNCHANGED <<fixed, pruned, created, previous, prior, answer, rows, assets, scans>>

(* Ivy reads the digest it is about to replace before it stores. *)
ReadPrevious(p) ==
    /\ pc[p] = "previous"
    /\ previous' = [previous EXCEPT ![p] = DigestAt(FileOf(p).scope)]
    /\ Goto(p, "store")
    /\ UNCHANGED <<fixed, pruned, created, prior, answer, rows, refs, assets, scans>>

(* storeBlobWithRef; what follows depends on the adapter. *)
Store(p) ==
    /\ pc[p] = "store"
    /\ created' = [created EXCEPT ![p] = Reference(p) \notin refs]
    /\ refs' = refs \cup {Reference(p)}
    /\ Goto(p, CASE IsSigned(p) -> "store_signature"
                 [] format \in SingleFile \cup Bundle \cup MultiFile /\ ~IsSigned(p) -> "create"
                 [] format = "conan" -> "merge"
                 [] format = "apt" -> "replace_row"
                 [] format \in PathStore -> "find_asset")
    /\ UNCHANGED <<fixed, pruned, previous, prior, answer, rows, assets, scans>>

NewRow(p) == [package |-> FileOf(p).package, key |-> FileOf(p).key,
              files |-> FilesOf(p), deleted |-> FALSE]

(* Mutant: the scan is recorded by whoever records the asset. *)
CreateRowUnscanned(p) ==
    /\ RowOf(p) = 0
    /\ rows' = Append(rows, NewRow(p))
    /\ UNCHANGED scans
    /\ Goto(p, IF format \in Bundle THEN "answer"
               ELSE IF format \in MultiFile THEN "find_asset" ELSE "asset")

(* versions.create, with the scan outbox row in the same transaction for *)
(* the formats that commit through commitOrReleaseBlob.                    *)
CreateRow(p) ==
    /\ RowOf(p) = 0
    /\ rows' = Append(rows, NewRow(p))
    /\ scans' = IF format \in MultiFile THEN scans ELSE scans \cup {Digest(p)}
    /\ Goto(p, IF format \in Bundle THEN "answer"
               ELSE IF format \in MultiFile THEN "find_asset" ELSE "asset")

(* The unique key is taken: add the file, or give the reference back. *)
CreateConflict(p) ==
    /\ RowOf(p) # 0
    /\ Goto(p, IF format \in MultiFile THEN "merge" ELSE "release")
    /\ UNCHANGED <<rows, scans>>

Create(p) ==
    /\ pc[p] = "create"
    /\ CreateRow(p) \/ CreateConflict(p)
    /\ UNCHANGED <<fixed, pruned, created, previous, prior, answer, refs, assets>>

(* What a loser gives back after the reference it has just stored.         *)
AfterRelease(p) ==
    CASE format \in Bundle -> "release_zip"
      [] format = "nix_nar" /\ created[p] -> "release_again"
      [] format \in MultiFile /\ created[p] -> "drop_own"
      [] OTHER -> "refuse"

(* The loser releases the reference if its own store created it, ...       *)
Release(p) ==
    /\ pc[p] = "release"
    /\ refs' = IF created[p] THEN refs \ {Reference(p)} ELSE refs
    /\ Goto(p, AfterRelease(p))
    /\ UNCHANGED <<fixed, pruned, created, previous, prior, answer, rows, assets, scans>>

(* ... the NAR handler a second time ...                                   *)
ReleaseAgain(p) ==
    /\ pc[p] = "release_again"
    /\ refs' = refs \ {Reference(p)}
    /\ Goto(p, "drop_own")
    /\ UNCHANGED <<fixed, pruned, created, previous, prior, answer, rows, assets, scans>>

(* ... and Terraform its orphan list, whoever created what is on it.       *)
ReleaseZip(p) ==
    /\ pc[p] = "release_zip"
    /\ refs' = refs \ {ZipReference(p)}
    /\ Goto(p, IF IsSigned(p) THEN "release_signature" ELSE "refuse")
    /\ UNCHANGED <<fixed, pruned, created, previous, prior, answer, rows, assets, scans>>

ReleaseSignature(p) ==
    /\ pc[p] = "release_signature"
    /\ refs' = refs \ {SignatureReference(p)}
    /\ Goto(p, "refuse")
    /\ UNCHANGED <<fixed, pruned, created, previous, prior, answer, rows, assets, scans>>

Refuse(p) ==
    /\ pc[p] = "refuse"
    /\ Answer(p, "conflict")
    /\ UNCHANGED <<fixed, pruned, created, previous, prior, rows, refs, assets, scans>>

(* deleteRegistryAssetRef of a digest at the scope of upload p.            *)
Retired(a, p, digest) == IF a.scope = FileOf(p).scope /\ a.digest = digest
                         THEN [a EXCEPT !.deleted = TRUE] ELSE a
DropAsset(p, digest) == assets' = [i \in 1..Len(assets) |-> Retired(assets[i], p, digest)]

(* content.releaseBlobRef of the data service drops the asset after the    *)
(* reference, in a second transaction (Terraform writes no asset).         *)
DropOwn(p) ==
    /\ pc[p] = "drop_own"
    /\ DropAsset(p, Digest(p))
    /\ Goto(p, "refuse")
    /\ UNCHANGED <<fixed, pruned, created, previous, prior, answer, rows, refs, scans>>

-----------------------------------------------------------------------------
(* Several files in one row.                                               *)

Lists(row, scope) == \E f \in row.files : f.scope = scope

(* Mutant: the file replaces the ones the row already lists. *)
WithFileOnly(row, file) == [row EXCEPT !.files = {file}]

WithFile(row, file) == [row EXCEPT !.files = {f \in @ : f.scope # file.scope} \cup {file}]

MergeInto(p) == rows' = [rows EXCEPT ![RowOf(p)] = WithFile(@, Reference(p))]

(* versions.patch under the row lock: add a file the live row does not *)
(* list yet, refuse the others and release.                                *)
MergeNew(p) ==
    \/ /\ LiveRowOf(p)
       /\ ~Lists(rows[RowOf(p)], FileOf(p).scope)
       /\ MergeInto(p)
       /\ Goto(p, "find_asset")
    \/ /\ ~LiveRowOf(p) \/ Lists(rows[RowOf(p)], FileOf(p).scope)
       /\ Goto(p, "release")
       /\ UNCHANGED rows

(* Conan overwrites the entry of the same name, and turns to an upsert *)
(* when there is no live revision row.                                     *)
MergeConan(p) ==
    \/ /\ LiveRowOf(p)
       /\ MergeInto(p)
       /\ Goto(p, "find_asset")
    \/ /\ ~LiveRowOf(p)
       /\ Goto(p, "replace_row")
       /\ UNCHANGED rows

(* Maven and Ivy binaries: the digest joins a live row, if there is one. *)
MergeBinary(p) ==
    /\ IF LiveRowOf(p) THEN MergeInto(p) ELSE UNCHANGED rows
    /\ Goto(p, "answer")

Merge(p) ==
    /\ pc[p] = "merge"
    /\ \/ format \in MultiFile /\ MergeNew(p)
       \/ format = "conan" /\ MergeConan(p)
       \/ format \in PathStore /\ MergeBinary(p)
    /\ UNCHANGED <<fixed, pruned, created, previous, prior, answer, refs, assets, scans>>

(* versions.upsert: a new row, or new metadata in the old one, revived. *)
ReplaceRow(p) ==
    /\ pc[p] = "replace_row"
    /\ rows' = IF RowOf(p) = 0 THEN Append(rows, NewRow(p))
               ELSE [rows EXCEPT ![RowOf(p)].files = FilesOf(p), ![RowOf(p)].deleted = FALSE]
    /\ Goto(p, IF format \in PathStore THEN "answer" ELSE "find_asset")
    /\ UNCHANGED <<fixed, pruned, created, previous, prior, answer, refs, assets, scans>>

-----------------------------------------------------------------------------
(* The asset.  data.assets.upsert first retires the asset it replaces.     *)

FindAsset(p) ==
    /\ pc[p] = "find_asset"
    /\ LET found == DigestAt(FileOf(p).scope)
       IN  IF found \in {None, Digest(p)}
           THEN Goto(p, "asset") /\ UNCHANGED prior
           ELSE Goto(p, "release_prior") /\ prior' = [prior EXCEPT ![p] = found]
    /\ UNCHANGED <<fixed, pruned, created, previous, answer, rows, refs, assets, scans>>

(* releaseBlobRef of the replaced digest at this scope. *)
ReleasePrior(p) ==
    /\ pc[p] = "release_prior"
    /\ refs' = refs \ {[digest |-> prior[p], scope |-> FileOf(p).scope]}
    /\ Goto(p, "drop_prior")
    /\ UNCHANGED <<fixed, pruned, created, previous, prior, answer, rows, assets, scans>>

DropPrior(p) ==
    /\ pc[p] = "drop_prior"
    /\ DropAsset(p, prior[p])
    /\ Goto(p, "asset")
    /\ UNCHANGED <<fixed, pruned, created, previous, prior, answer, rows, refs, scans>>

(* Adapters that tie the asset to the version row, which retention needs. *)
TiesAsset == SingleFile \cup MultiFile

AssetOf(p) == [scope |-> FileOf(p).scope, digest |-> Digest(p), deleted |-> FALSE,
               package |-> FileOf(p).package, key |-> FileOf(p).key]

(* registry_assets is unique on (repository, role, scope, digest): an      *)
(* upsert revives the row and makes it the most recent.  data.assets       *)
(* records the scan in the same transaction, if the adapter asks for one.  *)
UpsertAsset(p) ==
    /\ pc[p] = "asset"
    /\ assets' = Append(SelectSeq(assets, LAMBDA a : ~(/\ a.scope = FileOf(p).scope
                                                       /\ a.digest = Digest(p))),
                        AssetOf(p))
    /\ scans' = IF format \in SingleFile \/ ~IsScannable(p) THEN scans
                ELSE scans \cup {Digest(p)}
    /\ Goto(p, IF format = "ivy" THEN "release_previous"
               ELSE IF format = "maven" THEN "project" ELSE "answer")
    /\ UNCHANGED <<fixed, pruned, created, previous, prior, answer, rows, refs>>

(* Ivy releases the digest it read before it stored, unless it is its own. *)
ReleasePrevious(p) ==
    /\ pc[p] = "release_previous"
    /\ IF previous[p] \in {None, Digest(p)} THEN Goto(p, "project") /\ UNCHANGED refs
       ELSE /\ refs' = refs \ {[digest |-> previous[p], scope |-> FileOf(p).scope]}
            /\ Goto(p, "drop_previous")
    /\ UNCHANGED <<fixed, pruned, created, previous, prior, answer, rows, assets, scans>>

DropPrevious(p) ==
    /\ pc[p] = "drop_previous"
    /\ DropAsset(p, previous[p])
    /\ Goto(p, "project")
    /\ UNCHANGED <<fixed, pruned, created, previous, prior, answer, rows, refs, scans>>

(* The primary descriptor projects the version row, a scannable file joins *)
(* it, others are no part of a version.                                    *)
Project(p) ==
    /\ pc[p] = "project"
    /\ Goto(p, IF IsDescriptor(p) THEN "replace_row" ELSE IF IsScannable(p) THEN "merge" ELSE "answer")
    /\ UNCHANGED <<fixed, pruned, created, previous, prior, answer, rows, refs, assets, scans>>

Respond(p) ==
    /\ pc[p] = "answer"
    /\ Answer(p, "created")
    /\ UNCHANGED <<fixed, pruned, created, previous, prior, rows, refs, assets, scans>>

(* The server dies with the request: no compensation runs. *)
Crash(p) ==
    /\ mortal
    /\ pc[p] \notin {"check", "done"}
    /\ Answer(p, "lost")
    /\ UNCHANGED <<fixed, pruned, created, previous, prior, rows, refs, assets, scans>>

-----------------------------------------------------------------------------
(* applyRetention keeps the newest version of each package.                *)

Surplus(i) == /\ ~rows[i].deleted
              /\ \E j \in i+1..Len(rows) : rows[j].package = rows[i].package /\ ~rows[j].deleted

TiedTo(a, r) == format \in TiesAsset /\ ~a.deleted /\ a.package = r.package /\ a.key = r.key

PrunedAssets(r) == [i \in 1..Len(assets) |->
    IF TiedTo(assets[i], r) THEN [assets[i] EXCEPT !.deleted = TRUE] ELSE assets[i]]

(* Digests of the version and of its assets that nothing live names. *)
PrunedDigests(r) == {f.digest : f \in r.files}
                    \cup {assets[i].digest : i \in {i \in 1..Len(assets) : TiedTo(assets[i], r)}}
LiveDigests(rs, as) ==
    UNION {{f.digest : f \in rs[i].files} : i \in {i \in 1..Len(rs) : ~rs[i].deleted}}
    \cup {as[i].digest : i \in {i \in 1..Len(as) : ~as[i].deleted}}

(* Mutant: nothing is released. *)
ReleasedByPruneNothing(r, rs, as) == {}

ReleasedByPrune(r, rs, as) ==
    {b \in refs : b.digest \in PrunedDigests(r) \ LiveDigests(rs, as)}

Prune(i) ==
    /\ Surplus(i)
    /\ rows' = [rows EXCEPT ![i].deleted = TRUE]
    /\ assets' = PrunedAssets(rows[i])
    /\ refs' = refs \ ReleasedByPrune(rows[i], rows', assets')
    /\ pruned' = TRUE
    /\ UNCHANGED <<fixed, pc, created, previous, prior, answer, scans>>

-----------------------------------------------------------------------------
Done == (\A p \in Upload : pc[p] = "done") /\ UNCHANGED vars

Next ==
    \/ \E p \in Upload :
         \/ Check(p) \/ StoreZip(p) \/ ReadPrevious(p) \/ Store(p) \/ StoreSignature(p)
         \/ Create(p) \/ Release(p) \/ ReleaseAgain(p) \/ ReleaseZip(p)
         \/ ReleaseSignature(p) \/ DropOwn(p) \/ Refuse(p) \/ Merge(p) \/ ReplaceRow(p)
         \/ FindAsset(p) \/ ReleasePrior(p) \/ DropPrior(p) \/ UpsertAsset(p)
         \/ ReleasePrevious(p) \/ DropPrevious(p) \/ Project(p) \/ Respond(p) \/ Crash(p)
    \/ \E i \in 1..Len(rows) : Prune(i)
    \/ Done

Spec == Init /\ [][Next]_vars

-----------------------------------------------------------------------------
(* Properties.                                                             *)

Steps == {"check", "store_zip", "previous", "store", "store_signature", "create", "merge",
          "replace_row", "release", "release_again", "release_zip", "release_signature",
          "drop_own", "refuse", "find_asset", "release_prior", "drop_prior", "asset",
          "release_previous", "drop_previous", "project", "answer", "done"}

(* Every variable has its type; a key is unique among the rows, and a *)
(* (scope, digest) pair among the assets.  The runs check what says more.  *)
TypeOK ==
    /\ format \in Adapters /\ mortal \in BOOLEAN /\ pruned \in BOOLEAN
    /\ req \in Requests(format)
    /\ pc \in [Upload -> Steps]
    /\ answer \in [Upload -> {"none", "created", "conflict", "lost"}]
    /\ \A i, j \in 1..Len(rows) :
         rows[i].package = rows[j].package /\ rows[i].key = rows[j].key => i = j
    /\ \A i, j \in 1..Len(assets) :
         assets[i].scope = assets[j].scope /\ assets[i].digest = assets[j].digest => i = j
    /\ refs \subseteq UNION {FilesOf(p) : p \in Upload}
    /\ scans \subseteq {Digest(p) : p \in Upload}

AtRest == \A p \in Upload : pc[p] = "done"
NoneLost == \A p \in Upload : answer[p] # "lost"
Pruned(p) == RowOf(p) # 0 /\ rows[RowOf(p)].deleted

(* Formats whose address may be written again: path stores by design; apt *)
(* and rpm because nothing reserves the address itself (two uploads of one *)
(* pool path that both pass the check, two epochs of one file name).       *)
Rewritable == PathStore \cup {"apt", "rpm"}

(* Conan: two first files of one revision that both find no row to patch.  *)
Lossy == {"conan"}

(* Each file of an upload answered with success is downloadable with its   *)
(* own bytes as long as retention has not pruned it; at an address that    *)
(* may be written again, some upload's bytes are served once all handlers  *)
(* are through, unless one crashed or retention pruned a version.          *)
AcknowledgedIsServed == format \notin Lossy => \A p \in Upload :
    answer[p] = "created" /\ ~Pruned(p) =>
        IF format \in Rewritable
        THEN AtRest /\ NoneLost /\ ~pruned => Served(p, FileOf(p).scope) # {}
        ELSE \A f \in FilesOf(p) : Served(p, f.scope) = {f.digest}

(* Formats that list a file in one transaction, serve it from that         *)
(* listing, and record the scan with the asset in a later one.             *)
ListsBeforeScan == {"vagrant", "luarocks", "conan"}

(* The files an adapter wants scanned: all but checksums, signatures and   *)
(* text manifests.                                                         *)
ToScan(p) == IF IsScannable(p) THEN FilesOf(p) \ {SignatureReference(p)} ELSE {}

(* Whatever is served of these has been queued for scanning, whenever the  *)
(* handler died, except in the formats that list first.                    *)
ServedIsQueued == format \notin ListsBeforeScan =>
    \A p \in Upload : \A f \in ToScan(p) : Served(p, f.scope) \subseteq scans

(* When all handlers are through and none crashed, a reference is named by *)
(* a live version or a live asset: losers and retention gave theirs back.  *)
RefsAreOwned ==
    AtRest /\ NoneLost => \A b \in refs : b.digest \in LiveDigests(rows, assets)
=============================================================================
