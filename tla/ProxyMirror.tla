---------------------------- MODULE ProxyMirror ----------------------------
(***************************************************************************)
(* One package of a proxy repository, mirrored from an upstream registry   *)
(* that changes: dispatchProxy and its freshness cache                     *)
(* (registry-platform/src/runtime/dispatch.ts), the proxyIngest of the     *)
(* five adapters that have one, replaceDistTags, and retention's part in   *)
(* versions, references and tags.                                          *)
(*                                                                         *)
(* Several replicas of the API serve the repository, and each runs one     *)
(* ingest of the package at a time.  Content is a generation: a version    *)
(* whose file the upstream replaces gets a new one.  Quotas, digest locks  *)
(* and assets are Publishing's.                                            *)
(***************************************************************************)
EXTENDS Integers, FiniteSets, Sequences

CONSTANTS
  Protocols,     (* the protocols whose proxies are checked                 *)
  Versions,      (* numbered in the order the upstream lists them           *)
  Tags,          (* dist-tags besides latest                                *)
  Replicas, Ingests, Nobody,
  PackageLimit,  (* CONDA_PROXY_MAX_PACKAGES                                *)
  MaxChanges,    (* bound: changes of the upstream in a behaviour           *)
  MaxEvents      (* bound: those and the failed downloads and commits,      *)
                 (* crashes and retentions, together                        *)

ASSUME ProxyMirrorAssumption ==
  /\ Protocols \subseteq {"npm", "puppet", "chef", "conda", "generic"}
  /\ Versions \subseteq Nat \ {0} /\ IsFiniteSet(Versions) /\ 1 \in Versions
  /\ "latest" \notin Tags
  /\ Nobody \notin Replicas \union Ingests
  /\ PackageLimit \in Nat \ {0}
  /\ MaxChanges \in Nat /\ MaxEvents \in Nat

VARIABLES
  protocol,
  docs,          (* what the upstream has said, the last being current      *)
  package,       (* the packages row exists                                 *)
  row,           (* package_versions                                        *)
  refs,          (* blob_refs, scope = version                              *)
  tags,          (* version_tags                                            *)
  latest,        (* packages.latest_version                                 *)
  packageLock,   (* the ingest that holds the packages row FOR UPDATE       *)
  pruning,       (* versions a retention has updated and not committed      *)
  untagged,      (* tag rows it has deleted                                 *)
  fresh,         (* proxyRefreshFreshUntil of each replica is in the future *)
  ingest,        (* the ingests                                             *)
  overtaken,     (* history: versions whose row was rewritten from a survey *)
                 (* that another writer had made stale                      *)
  repointed,     (* history: retention changed the tags since the last      *)
                 (* replacement                                             *)
  events

mirror == <<package, row, refs, tags, latest, overtaken, repointed>>
retention == <<pruning, untagged>>
vars == <<protocol, docs, mirror, packageLock, retention, fresh, ingest, events>>

AllTags == Tags \union {"latest"}
None == 0
Generation == 0..(MaxChanges + 1)
Notes == {0, 1}

(***************************************************************************)
(* The upstream's document: a generation and a manifest for every version  *)
(* it offers, and where its tags point.                                    *)
(***************************************************************************)

Document ==
  [gen : [Versions -> Generation], note : [Versions -> Notes],
   tag : [AllTags -> Versions \union {None}]]

Row == [state : {"none", "live", "deleted"}, gen : Generation, note : Notes]
NoRow == [state |-> "none", gen |-> 0, note |-> 0]
Ref == [version : Versions, gen : Generation \ {0}]

(* work: what a worker has done about a version; file: what it downloaded; *)
(* seen: the live content when the versions were listed.                   *)
Ingest ==
  [on : Replicas \union {Nobody},
   stage : {"idle", "survey", "work", "clear", "retag"},
   doc : Nat, known : BOOLEAN, rejected : BOOLEAN,
   seen : [Versions -> Generation],
   work : [Versions -> {"todo", "commit", "done", "skipped"}],
   file : [Versions -> Generation],
   cleared : SUBSET AllTags]

NoIngest ==
  [on |-> Nobody, stage |-> "idle", doc |-> 0, known |-> FALSE, rejected |-> FALSE,
   seen |-> [v \in Versions |-> 0],
   work |-> [v \in Versions |-> "skipped"],
   file |-> [v \in Versions |-> 0],
   cleared |-> {}]

Upstream == docs[Len(docs)]
Offered(doc) == {v \in Versions : doc.gen[v] # 0}
Doc(i) == docs[ingest[i].doc]
LiveVersions == {v \in Versions : row[v].state = "live"}
LiveGeneration(v) == IF row[v].state = "live" THEN row[v].gen ELSE 0

(* A generic path has one version.                                         *)
Names == IF protocol = "generic" THEN {1} ELSE Versions

Init ==
  /\ protocol \in Protocols
  /\ docs = << [gen |-> [v \in Versions |-> IF v \in Names THEN 1 ELSE 0], note |-> [v \in Versions |-> 0],
                tag |-> [t \in AllTags |-> IF t = "latest" THEN 1 ELSE None]] >>
  /\ package = FALSE
  /\ row = [v \in Versions |-> NoRow]
  /\ refs = {}
  /\ tags = [t \in AllTags |-> None] /\ latest = None
  /\ packageLock = Nobody /\ pruning = {} /\ untagged = {}
  /\ fresh = [r \in Replicas |-> FALSE]
  /\ ingest = [i \in Ingests |-> NoIngest]
  /\ overtaken = {} /\ repointed = FALSE
  /\ events = 0

(* What a behaviour may meet only so often.                                *)
Event == events < MaxEvents /\ events' = events + 1

(***************************************************************************)
(* The upstream releases, replaces and withdraws files; an npm registry    *)
(* also edits manifests and moves tags.                                    *)
(***************************************************************************)

Says(doc) == docs' = Append(docs, doc)

ReplaceFile(v) ==
  Says([Upstream EXCEPT !.gen[v] = Len(docs) + 1,
          !.tag = [t \in AllTags |->
                     IF t = "latest" /\ Upstream.gen[v] = 0 THEN v ELSE Upstream.tag[t]]])

Withdraw(v) ==
  /\ Upstream.gen[v] # 0 /\ Offered(Upstream) # {v}
  /\ Says([Upstream EXCEPT !.gen[v] = 0,
             !.tag = [t \in AllTags |->
                        IF Upstream.tag[t] # v THEN Upstream.tag[t]
                        ELSE IF t = "latest"
                          THEN CHOOSE w \in Offered(Upstream) : w # v ELSE None]])

Deprecate(v) ==
  /\ protocol = "npm" /\ Upstream.gen[v] # 0
  /\ Says([Upstream EXCEPT !.note[v] = 1 - @])

MoveTag(t, v) ==
  /\ protocol = "npm" /\ Upstream.gen[v] # 0 /\ Upstream.tag[t] # v
  /\ Says([Upstream EXCEPT !.tag[t] = v])

UpstreamChanges ==
  /\ Event /\ Len(docs) <= MaxChanges
  /\ \E v \in Names :
       \/ ReplaceFile(v) \/ Withdraw(v) \/ Deprecate(v)
       \/ \E t \in AllTags : MoveTag(t, v)
  /\ UNCHANGED <<protocol, mirror, packageLock, retention, fresh, ingest>>

(***************************************************************************)
(* dispatchProxy: a GET refreshes a package that is not fresh, and one     *)
(* that is and that it does not find.                                      *)
(***************************************************************************)

(* The local answer is below 400: an npm packument may be empty, a conda   *)
(* index always exists.                                                    *)
Found ==
  CASE protocol = "npm" -> package
    [] protocol = "conda" -> TRUE
    [] OTHER -> LiveVersions # {}

InFlight(r) == \E i \in Ingests : ingest[i].on = r /\ ~ ingest[i].rejected

Expire(r) ==
  /\ fresh[r]
  /\ fresh' = [fresh EXCEPT ![r] = FALSE]
  /\ UNCHANGED <<protocol, docs, mirror, packageLock, retention, ingest, events>>

(* The ingest is over; one that has rejected was over for its callers      *)
(* before.                                                                 *)
End(i, ok) ==
  /\ ingest' = [ingest EXCEPT ![i] = NoIngest]
  /\ fresh' = IF ok /\ ~ ingest[i].rejected THEN [fresh EXCEPT ![ingest[i].on] = TRUE]
                                            ELSE fresh

(***************************************************************************)
(* proxyIngest.                                                            *)
(***************************************************************************)

Surveys == protocol \in {"npm", "puppet", "chef"}

(* The versions of a document that an ingest takes up.                     *)
Listed(doc) ==
  IF protocol = "conda"
  THEN {v \in Offered(doc) : Cardinality({w \in Offered(doc) : w < v}) < PackageLimit}
  ELSE Offered(doc)

(* An ingest begins with the upstream's document (generic: with the file   *)
(* itself).  One that is not answered, or with nothing to mirror, leaves   *)
(* everything as it was; requests that miss meanwhile join the one in      *)
(* flight.                                                                 *)
Refresh(r, i) ==
  /\ ~ fresh[r] \/ ~ Found
  /\ ~ InFlight(r)
  /\ \E j \in Ingests : ingest[j].on = Nobody
  /\ i = CHOOSE j \in Ingests : ingest[j].on = Nobody
  /\ Listed(Upstream) # {}
  /\ ingest' = [ingest EXCEPT ![i] =
         [NoIngest EXCEPT !.on = r, !.doc = Len(docs),
            !.stage = IF protocol = "conda" THEN "work" ELSE "survey",
            !.work = [v \in Versions |-> IF v \in Listed(Upstream) THEN "todo" ELSE "skipped"]]]
  /\ UNCHANGED <<protocol, docs, mirror, packageLock, retention, fresh, events>>

(* Mutant: only the files are compared, not the manifests.                 *)
MirroredFileOnly(doc, v) ==
  CASE protocol = "npm" -> LiveGeneration(v) = doc.gen[v]
    [] protocol = "conda" -> row[v].state # "none"
    [] OTHER -> row[v].state = "live"

(* npm mirrors again what does not match, the others keep what is there.   *)
Mirrored(doc, v) ==
  CASE protocol = "npm" -> row[v] = [state |-> "live", gen |-> doc.gen[v], note |-> doc.note[v]]
    [] protocol = "conda" -> row[v].state # "none"
    [] OTHER -> row[v].state = "live"

(* listLive of a package that exists decides what there is left to do.     *)
Survey(i) ==
  /\ ingest[i].stage = "survey" /\ Surveys
  /\ LET kept(v) == v \in Listed(Doc(i)) /\ Mirrored(Doc(i), v)
     IN  ingest' = [ingest EXCEPT ![i].stage = "work", ![i].known = package,
           ![i].work = [v \in Versions |-> IF kept(v) THEN "done" ELSE @[v]],
           ![i].seen = [v \in Versions |->
                          IF protocol = "npm" /\ v \in Listed(Doc(i)) /\ ~ kept(v)
                          THEN LiveGeneration(v) ELSE 0]]
  /\ UNCHANGED <<protocol, docs, mirror, packageLock, retention, fresh, events>>

(* handleGenericStore: findOrCreate, and findLive for the previous digest. *)
SurveyFile(i) ==
  /\ ingest[i].stage = "survey" /\ protocol = "generic"
  /\ package' = TRUE
  /\ ingest' = [ingest EXCEPT ![i].stage = "work", ![i].known = TRUE,
         ![i].seen[1] = LiveGeneration(1), ![i].file[1] = Doc(i).gen[1], ![i].work[1] = "commit"]
  /\ UNCHANGED <<protocol, docs, row, refs, tags, latest, overtaken, repointed,
                 packageLock, retention, fresh, events>>

(* The workers of mapWithBoundedConcurrency: all the versions of these     *)
(* instances are worked on at the same time.                               *)
Working(i, v) == ingest[i].stage = "work" /\ ingest[i].work[v] = "todo"

(* A worker ends with a version.                                           *)
Decide(i, v, outcome) ==
  ingest' = [ingest EXCEPT ![i].work[v] = outcome, ![i].file[v] = 0, ![i].seen[v] = 0]

(* conda looks a version up as it comes to it (versions.exists).           *)
KeepMirrored(i, v) ==
  /\ protocol = "conda" /\ Working(i, v) /\ Mirrored(Doc(i), v)
  /\ Decide(i, v, "done")
  /\ UNCHANGED <<protocol, docs, mirror, packageLock, retention, fresh, events>>

SameFile(i, v) == protocol = "npm" /\ ingest[i].seen[v] = Doc(i).gen[v]

RowUnlocked(v) == v \notin pruning

(* versions.upsert with the dist that was surveyed.                        *)
UpdateManifest(i, v) ==
  /\ Working(i, v) /\ SameFile(i, v) /\ RowUnlocked(v)
  /\ row' = [row EXCEPT ![v] = [state |-> "live", gen |-> ingest[i].seen[v],
                                note |-> Doc(i).note[v]]]
  /\ overtaken' = IF LiveGeneration(v) # ingest[i].seen[v] THEN overtaken \union {v} ELSE overtaken
  /\ Decide(i, v, "done")
  /\ UNCHANGED <<protocol, docs, package, refs, tags, latest, repointed,
                 packageLock, retention, fresh, events>>

(* What is downloaded now must be what the document announced; chef's has  *)
(* no checksum.                                                            *)
Verified(i, v) ==
  /\ Upstream.gen[v] # 0
  /\ protocol = "chef" \/ Upstream.gen[v] = Doc(i).gen[v]

Downloads(i, v) ==
  /\ Working(i, v) /\ ~ SameFile(i, v)
  /\ protocol = "conda" => ~ Mirrored(Doc(i), v)

Download(i, v) ==
  /\ Downloads(i, v) /\ Verified(i, v)
  /\ package' = TRUE
  /\ ingest' = [ingest EXCEPT ![i].work[v] = "commit", ![i].file[v] = Upstream.gen[v],
                              ![i].known = TRUE]
  /\ UNCHANGED <<protocol, docs, row, refs, tags, latest, overtaken, repointed,
                 packageLock, retention, fresh, events>>

SkipUnverified(i, v) ==
  /\ Downloads(i, v) /\ ~ Verified(i, v)
  /\ Decide(i, v, "skipped")
  /\ UNCHANGED <<protocol, docs, mirror, packageLock, retention, fresh, events>>

Previous(i, v) == ingest[i].seen[v]   (* previousDigest, for npm and generic  *)

FileRef(i, v) == [version |-> v, gen |-> ingest[i].file[v]]

(* Mutant: the previous reference is released last, even when it is the    *)
(* one that has just been stored.                                          *)
RefsReleasedLast(i, v) ==
  (refs \union {FileRef(i, v)}) \ {[version |-> v, gen |-> Previous(i, v)]}

RefsAfterCommit(i, v) ==
  (refs \ {[version |-> v, gen |-> Previous(i, v)]}) \union {FileRef(i, v)}

(* versions.upsertWithBlobRef                                              *)
CommitVersion(i, v) ==
  /\ ingest[i].stage = "work" /\ ingest[i].work[v] = "commit"
  /\ RowUnlocked(v)
  /\ refs' = RefsAfterCommit(i, v)
  /\ row' = [row EXCEPT ![v] = [state |-> "live", gen |-> ingest[i].file[v],
                                note |-> Doc(i).note[v]]]
  /\ overtaken' = overtaken \ {v}
  /\ Decide(i, v, "done")
  /\ UNCHANGED <<protocol, docs, package, tags, latest, repointed,
                 packageLock, retention, fresh, events>>

WorkDone(i) ==
  /\ ingest[i].stage = "work"
  /\ \A v \in Versions : ingest[i].work[v] \in {"done", "skipped"}

Succeeded(i) ==
  CASE protocol = "conda" -> \E v \in Versions : ingest[i].work[v] = "done"
    [] protocol = "generic" -> ingest[i].work[1] = "done"
    [] OTHER -> ingest[i].known

(* Without tags to replace, or after a worker has failed.                  *)
FinishWork(i) ==
  /\ WorkDone(i)
  /\ protocol = "npm" => ~ ingest[i].known \/ ingest[i].rejected
  /\ End(i, Succeeded(i))
  /\ UNCHANGED <<protocol, docs, mirror, packageLock, retention, events>>

(***************************************************************************)
(* tags.replace, of the tags of the document whose versions were ingested. *)
(***************************************************************************)

Desired(i) ==
  [t \in AllTags |->
     LET v == Doc(i).tag[t]
     IN  IF v # None /\ ingest[i].work[v] = "done" THEN v ELSE None]

(* Mutant: SELECT without FOR UPDATE.                                      *)
LockNothing(i) ==
  /\ WorkDone(i) /\ protocol = "npm" /\ ingest[i].known /\ ~ ingest[i].rejected
  /\ ingest' = [ingest EXCEPT ![i].stage = "clear"]
  /\ UNCHANGED <<protocol, docs, mirror, packageLock, retention, fresh, events>>

LockPackage(i) ==
  /\ WorkDone(i) /\ protocol = "npm" /\ ingest[i].known /\ ~ ingest[i].rejected
  /\ packageLock = Nobody
  /\ packageLock' = i
  /\ ingest' = [ingest EXCEPT ![i].stage = "clear"]
  /\ UNCHANGED <<protocol, docs, mirror, retention, fresh, events>>

(* The DELETE sees the tags that are there, and waits for those that a     *)
(* retention holds.                                                        *)
ClearTags(i) ==
  /\ ingest[i].stage = "clear" /\ untagged = {}
  /\ ingest' = [ingest EXCEPT ![i].stage = "retag",
         ![i].cleared = {t \in AllTags : tags[t] # None /\ Desired(i)[t] = None}]
  /\ UNCHANGED <<protocol, docs, mirror, packageLock, retention, fresh, events>>

ReplaceTags(i) ==
  /\ ingest[i].stage = "retag" /\ untagged = {}
  /\ tags' = [t \in AllTags |->
                IF Desired(i)[t] # None THEN Desired(i)[t]
                ELSE IF t \in ingest[i].cleared THEN None ELSE tags[t]]
  /\ latest' = Desired(i)["latest"]
  /\ repointed' = FALSE
  /\ packageLock' = Nobody
  /\ End(i, TRUE)
  /\ UNCHANGED <<protocol, docs, package, row, refs, overtaken, retention, events>>

(***************************************************************************)
(* applyRetention, with keepLastN = 1.                                     *)
(***************************************************************************)

(* Which version is the newest is left open.                               *)
Prune ==
  /\ Event /\ pruning = {}
  /\ \E newest \in LiveVersions :
       /\ LiveVersions # {newest}
       /\ pruning' = LiveVersions \ {newest}
       /\ untagged' = {t \in AllTags : tags[t] \in LiveVersions \ {newest}}
  /\ \A i \in Ingests : ingest[i].cleared \cap untagged' = {}
  /\ UNCHANGED <<protocol, docs, mirror, packageLock, fresh, ingest>>

(* Its UPDATE of packages waits for a replacement of the tags.  A deleted  *)
(* latest is set to the newest version; the digests of a version's assets  *)
(* are released, those of contents it had before included.                 *)
CommitPrune ==
  /\ pruning # {} /\ packageLock = Nobody
  /\ row' = [v \in Versions |-> IF v \in pruning THEN [row[v] EXCEPT !.state = "deleted"]
                                                 ELSE row[v]]
  /\ refs' = {f \in refs : f.version \notin pruning}
  /\ \E newest \in LiveVersions \ pruning :
       /\ latest' = newest
       /\ tags' = [t \in AllTags |->
                     IF t \notin untagged THEN tags[t]
                     ELSE IF t = "latest" THEN newest ELSE None]
  /\ repointed' = TRUE
  /\ pruning' = {} /\ untagged' = {}
  /\ UNCHANGED <<protocol, docs, package, overtaken, packageLock, fresh, ingest, events>>

(* A replacement and a retention that wait for each other: PostgreSQL      *)
(* aborts one of them.                                                     *)
Deadlocked(i) == packageLock = i /\ untagged # {}

AbortPrune ==
  /\ \E i \in Ingests : Deadlocked(i)
  /\ pruning' = {} /\ untagged' = {}
  /\ UNCHANGED <<protocol, docs, mirror, packageLock, fresh, ingest, events>>

AbortReplace(i) ==
  /\ Deadlocked(i)
  /\ packageLock' = Nobody
  /\ End(i, FALSE)
  /\ UNCHANGED <<protocol, docs, mirror, retention, events>>

(***************************************************************************)
(* Faults.                                                                 *)
(***************************************************************************)

DownloadFails(i, v) ==
  /\ Event /\ Downloads(i, v) /\ protocol # "generic"
  /\ Decide(i, v, "skipped")
  /\ UNCHANGED <<protocol, docs, mirror, packageLock, retention, fresh>>

(* A transaction that throws rejects the ingest: its callers are told and  *)
(* another may start, while the workers of the other versions go on.       *)
CommitFails(i, v) ==
  /\ Event /\ ingest[i].stage = "work" /\ ingest[i].work[v] = "commit"
  /\ ingest' = [ingest EXCEPT ![i].work[v] = "skipped", ![i].file[v] = 0,
                              ![i].seen[v] = 0, ![i].rejected = TRUE]
  /\ UNCHANGED <<protocol, docs, mirror, packageLock, retention, fresh>>

Crash(r) ==
  /\ Event /\ (fresh[r] \/ \E i \in Ingests : ingest[i].on = r)
  /\ ingest' = [i \in Ingests |-> IF ingest[i].on = r THEN NoIngest ELSE ingest[i]]
  /\ fresh' = [fresh EXCEPT ![r] = FALSE]
  /\ packageLock' = IF packageLock # Nobody /\ ingest[packageLock].on = r
                    THEN Nobody ELSE packageLock
  /\ UNCHANGED <<protocol, docs, mirror, retention>>

(***************************************************************************)
(* The specification.                                                      *)
(***************************************************************************)

WorkStep(i, v) ==
  \/ KeepMirrored(i, v) \/ UpdateManifest(i, v) \/ Download(i, v)
  \/ SkipUnverified(i, v) \/ CommitVersion(i, v)

IngestStep(i) ==
  \/ Survey(i) \/ SurveyFile(i)
  \/ \E v \in Versions : WorkStep(i, v)
  \/ FinishWork(i) \/ LockPackage(i) \/ ClearTags(i) \/ ReplaceTags(i) \/ AbortReplace(i)

RetentionStep == Prune \/ CommitPrune \/ AbortPrune

FaultStep ==
  \/ \E i \in Ingests, v \in Versions : DownloadFails(i, v) \/ CommitFails(i, v)
  \/ \E r \in Replicas : Crash(r)

Next ==
  \/ UpstreamChanges
  \/ \E r \in Replicas : Expire(r) \/ \E i \in Ingests : Refresh(r, i)
  \/ \E i \in Ingests : IngestStep(i)
  \/ RetentionStep
  \/ FaultStep

Spec == Init /\ [][Next]_vars

(* The package is asked for again and again, freshness expires, and what   *)
(* was begun is carried on.  The retention that waits for the packages row *)
(* gets it in the end: row locks are queued.                               *)
Fairness ==
  /\ \A r \in Replicas : WF_vars(Expire(r))
  /\ WF_vars(\E r \in Replicas, i \in Ingests : Refresh(r, i))
  /\ \A i \in Ingests : WF_vars(IngestStep(i))
  /\ SF_vars(CommitPrune)

FairSpec == Spec /\ Fairness

(***************************************************************************)
(* Properties.                                                             *)
(***************************************************************************)

(* The types of the variables.  The runs check properties that say more. *)
TypeOK ==
  /\ protocol \in Protocols
  /\ docs \in Seq(Document)
  /\ package \in BOOLEAN
  /\ row \in [Versions -> Row]
  /\ refs \in SUBSET Ref
  /\ tags \in [AllTags -> Versions \union {None}] /\ latest \in Versions \union {None}
  /\ packageLock \in Ingests \union {Nobody} /\ pruning \in SUBSET Versions
  /\ untagged \in SUBSET AllTags
  /\ fresh \in [Replicas -> BOOLEAN]
  /\ ingest \in [Ingests -> Ingest]
  /\ overtaken \in SUBSET Versions /\ repointed \in BOOLEAN
  /\ events \in 0..MaxEvents

(* Whatever replicas replace the dist-tags at the same time, those there   *)
(* are come from one document, and latest_version from the same            *)
(* (queries.ts:383).  Retention may have removed and repointed them since. *)
TagsAreOneDocument ==
  \/ repointed
  \/ /\ latest = tags["latest"]
     /\ \E k \in DOMAIN docs : \A t \in AllTags : tags[t] \in {None, docs[k].tag[t]}

(* What is listed can be downloaded: two replicas that replace a version,  *)
(* from documents and surveys of different age, and a retention leave the  *)
(* reference of its file.  A manifest written over a row that changed      *)
(* since it was surveyed is excepted.                                      *)
MirroredIsReferenced ==
  \A v \in LiveVersions \ overtaken : [version |-> v, gen |-> row[v].gen] \in refs

(* When the upstream rests and is reachable again, the mirror comes to     *)
(* agree with it and stays so, whatever ingests were lost, late or         *)
(* half done: npm and generic follow the files, the others keep the first  *)
(* they mirrored; conda does not bring back what retention took, nor list  *)
(* more than PackageLimit files.                                           *)
Agrees(v) ==
  CASE protocol = "npm" -> /\ row[v] = [state |-> "live", gen |-> Upstream.gen[v],
                                        note |-> Upstream.note[v]]
                           /\ v \in overtaken \/ [version |-> v, gen |-> row[v].gen] \in refs
    [] protocol = "generic" -> row[v].state = "live" /\ row[v].gen = Upstream.gen[v]
    [] protocol = "conda" -> row[v].state # "none"
    [] OTHER -> row[v].state = "live"

CaughtUp ==
  /\ \A v \in Listed(Upstream) : Agrees(v)
  /\ protocol = "npm" => tags = Upstream.tag /\ latest = Upstream.tag["latest"]

MirrorCatchesUp == <>[]CaughtUp
=============================================================================
