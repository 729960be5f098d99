# Formal verification of hootifactory

TLA+ models of the server side of hootifactory, TLC configurations that check
them on small instances, and TLAPS proofs of theorems about them for every
instance. Paths below are relative to the repository; `platform/` stands for
`packages/registry-platform/src/`.

Run a check with `tlc -config <run>.cfg <module>`, a proof with
`tlapm <module>Proofs.tla`. `PROJECT.json` lists the runs, the mutants that show
that every property can fail, the source lines each definition models, the
hazards, the findings and the theorems.

## 1. The system

hootifactory is an artifact registry for 37 package formats. Four kinds of
process share a PostgreSQL database and an S3-compatible object store and
nothing else:

* `apps/api` serves the registry protocols and the management API. Requests run
  concurrently, in as many replicas as are deployed.
* `apps/scan-worker` claims scan intents, runs the scanners and, in the same
  loop, the maintenance tasks: reaping upload sessions, reclaiming blobs,
  reclaiming stuck scans, applying retention (`worker.ts`).
* `apps/mail-worker` sends queued emails (pg-boss).
* `apps/web` is the browser client.

### Components

| component | state | operations | interacts with |
|---|---|---|---|
| content-addressed blob store (`platform/content/blobs.ts`, `packages/storage`) | `blobs`, `blob_refs`, S3 objects, digest advisory locks | store, stream, replace, mount, resolve, release, discard, sweep | every publish, retention, uploads |
| organisation quotas (`platform/governance/quota.ts`) | `quotas` row, locked `FOR UPDATE` | check and adjust storage, artifacts | blob store, versions, retention, uploads |
| package versions (`platform/packages/versions.ts`, publish tail of `packages/registry`) | `package_versions`, `registry_assets` | create, upsert, upsert with blob, patch | blob store, quotas, scan outbox |
| retention (`platform/repositories/retention.ts`) | the same tables | prune beyond the newest N | versions, blob store, quotas |
| scan outbox and workers (`platform/runtime/scan-outbox.ts`, `apps/scan-worker`) | `artifacts`, `scan_outbox` | intent, claim, scan, finalize, retry, reclaim | publishes |
| upload sessions (`platform/content/upload-sessions.ts`, `registry-oci/src/oci-uploads.ts`) | `upload_sessions`, staged chunks in S3 | POST, PATCH, PUT, DELETE, reap | blob store, quotas |
| mail (`apps/mail-worker`, `packages/queue`) | pg-boss jobs, `email_deliveries` | enqueue, claim, send, confirm, retry | SMTP |
| manifest store (`platform/content/manifest-store.ts`, `registry-oci`) | `content_manifests`, `content_tags`, `content_blob_refs` | push, tag, untag, delete by digest, delete a layer | versions, blob references, scans |
| package metadata (`platform/packages/queries.ts`) | `version_tags`, `packages.latest_version` | set, replace, delete tags | npm and others, retention |
| governance (`governance.ts`, `scan-policy.ts`) | `quotas`, `scan_policies`, a policy cache in each process | set quota (lock, recount, write), set and resolve policies | all publishes, downloads, scans |
| schedulers (`retention-sweep.ts`, `queue/src/maintenance.ts`) | in-memory due times | run due tasks | retention, reapers |
| repositories, upstreams, virtual members | rows | CRUD | dispatch |
| proxies (`platform/runtime/dispatch.ts`, `proxyIngest` of npm, Puppet, Chef, conda, generic) | freshness and in-flight maps of each API process | refresh, mirror, serve | upstream registries, versions, dist-tags, retention |
| dispatch, virtual fan-out | per request | route, authorize, merge | adapters |
| 37 format adapters (`registry-*`), registry SDK | none of their own | check, store, create, merge, record the asset, give back | versions, blob store, scan outbox, retention |
| accounts (`packages/auth`) | `users`, `memberships`, groups, grants, `user_deactivation_snapshots`, `sessions`, `api_tokens`, `auth_email_tokens` | administer, deactivate, reactivate, log in, reset, synchronise OIDC groups | API, mail |
| permissions, throttle, registry JWTs | rows, per request | evaluate, count, sign | every request |
| one scan (`scan-worker/src/pipeline.ts`, `scan-bytes.ts`, `scan-policy.ts`, `scan-results.ts`) | `scans`, `findings`, `artifacts.state`; what the run has found so far | walk the manifests, scan blobs, merge, judge, skip | manifests, blobs, scanners, policies |
| scanners (`packages/scanner*`) | external tools | scan bytes, dependencies | scan worker |

### What makes it correct, and what makes that hard

* **Blobs.** Referenced bytes exist; unreferenced ones go; the count is exact; the
  org is charged once per digest (README.md:567). S3 calls cannot be part of a
  transaction: bytes are put before the row, deleted after the check, and any
  process may die or fail in between.
* **Versions.** A published version never changes (README.md:99), its content stays
  referenced, the artifact count is exact. Locks of three kinds (digest, quota row,
  version row) are taken in orders that differ by path, and several decisions are
  read before the lock that should protect them.
* **Scans.** Every published artifact gets a verdict. Workers die, a scan may outlast
  the reclaim timeout, and a re-publish may meet its row in processing. A verdict rests
  on all the bytes the artifact refers to and on every type of finding that gates, although
  scanners fail one by one, answer in any order, and manifests and blobs come and go
  during the walk.
* **Uploads.** Chunks land where they were planned, nothing staged is lost track of,
  a session commits once. PATCH and PUT let go of the session row during the
  transfer.
* **Mail.** An email is sent, and once as far as SMTP permits. The claim outlives
  crashes, the retry schedule has to outlive the claim.
* **Formats.** Each adapter composes a publish out of several transactions (reference,
  version row, asset, scan intent) at coordinates of its own. What was answered with
  success is downloadable, no file that is to be scanned is served before its scan is queued, and
  losers give back what they stored, wherever a handler dies. Checksums, signatures and text manifests are
  served without a scan by design (`maven-upload-lifecycle.test.ts:140-158`).
* **Proxies.** A mirror shows one document of its upstream and in the end the last one. Every
  replica refreshes on its own, from documents and surveys of different age, while the
  upstream changes, retention prunes, and parts of a refresh fail.
* **Manifests.** A layer belongs to every live manifest that names it, a row to every
  image that tags it. Deletes survey, and release in later transactions, while pushes
  and other deletes commit.
* **Accounts.** What a deactivation takes away a reactivation brings back, and a
  revocation ends what it could see. READ COMMITTED statements of one transaction see
  different states of the tables.
* **Liveness.** Garbage, sessions, intents and jobs all have to end although each of
  their steps may fail.

The full list, at the lines where it bites, is under `hazards` in `PROJECT.json`.

## 2. Modules

| module | models |
|---|---|
| `BlobStore` | the blob store: processes that store, replace, mount, read, release, discard and reclaim |
| `ContentStore` | the contract of the blob store, which `BlobStore` refines |
| `BlobStoreProofs` | its inductive invariant, the safety theorems and the refinement |
| `Publishing` | versions, their references and assets, the artifact quota, retention |
| `VersionIndex` | what clients see of a package, which `Publishing` refines |
| `ScanOutbox` | the scan queue and its workers |
| `ScanRequests` | what a publisher may rely on, which `ScanOutbox` refines |
| `ScanOutboxProofs` | its inductive invariant, the safety theorems and the refinement |
| `PublishingProofs`, `ManifestsProofs`, `ScanPipelineProofs`, `AccountsProofs`, `EmailDeliveryProofs`, `UploadSessionsProofs` | the inductive invariants and theorems of those modules |
| `ScanPipeline` | the scan of one artifact: graph, blobs, scanners, findings, verdict, two overlapping runs |
| `UploadSessions` | chunked uploads, the staging budget, the reaper |
| `EmailDelivery` | the mail queue, the delivery claim, time |
| `FormatCoordinates` | where 36 upload protocols file what they receive: package, version key, reference scope |
| `FormatPublish` | concurrent uploads to one repository of any of them, the adapters' steps, retention, crashes |
| `Manifests` | OCI pushes, deletes, untagging, layers, ties and scans in one repository with several images |
| `ProxyMirror` | a package that several replicas mirror from a changing upstream; its dist-tags |
| `Accounts` | one user: access, deactivation and snapshot, sessions, tokens, reset links, OIDC groups |
| `MCBlobStore`, `MCPublishing`, `MCFormatPublish`, `MCManifests`, `MCAccounts`, `MCScanPipeline` | instances for TLC |

`BlobStore` and the others share state in the program (`blob_refs`, the quota row);
the modules keep the interface between them small instead of composing into one
state space: `Publishing` has the references and their charge and leaves bytes and
counts to `BlobStore`; `UploadSessions` ends where a PUT commits a blob; `BlobStore`
takes a reference's owner as a slot. `FormatPublish` and `Manifests` take a reference as present
or absent, and a transaction as a step: the locks that make it one are in
`Publishing` and `BlobStore`. Releasing in `Publishing` is the reference's
deletion, of which `BlobStore` shows that it is safe at any time.

### BlobStore

A process `p` is a request or a maintenance loop: `pc[p]` is where it is and
`req[p]` what it works on. A step is an S3 call or the part of a transaction between two S3
calls. That is sound because every statement of such a part touches rows of digests
whose advisory lock the transaction holds, or the quota row it holds until commit.
`pg_advisory_xact_lock` is `digestLock`; taking it (`AcquireDigestLock`, in
`lockDigestsTx`' order) is a step of its own.

`HeadObject`, `WriteObject` are `S3BlobStore.put`; `StatFound`, `StatMissing`, `CommitPut`,
`QuotaExceeded` the transaction of `storeBlobWithRef` and of
`upsertPackageVersionWithBlobRef`; `DiscardCheck`, `DiscardDelete` the rollback of the put
(`deleteUnrecordedCasBlob`); `MountRef`, `RefuseMount` `ensureBlobRef`; `OpenBlob`, `ReadBytes` a
download; `ReleaseRef` `releaseBlobRef`; `SelectCandidates` to `ReclaimCommit` the sweep;
`AfterRefDelete` the trigger of the migration. Faults: a crash (local state and
locks are gone), a failed S3 call, and a session that the database ends while its
process still waits for S3 (`idle_in_transaction_session_timeout`, `LateDelete`).

Abstracted: sizes are numbers, the grace period is a flag `ripe` that becomes true at
any time, except, under `GraceOutlastsRequests`, while a request that resolved the
digest is under way.

### Publishing

One package, whose versions share one repository. A transaction is the sequence of its
lock waits and of the reads between them, and its writes appear at its commit.
`created` is the order of `created_at`, the start of the inserting transaction: a
process holds the place of a row it may insert. The operations are immutable publish
(`StartStore`, `StoreRef`, `CreateVersion`, `Conflict`, `CreateOverQuota`, `ReleaseRef`,
`UpsertAsset`), replacement of a mutable version (`StartReplace` to `CommitReplace`,
`DropOldAsset`), upsert of a version after its blob (`LockVersionRow`, `UpsertVersion`),
metadata updates (`StartTouch`), `applyRetention` (`RankVersions` to
`CommitRetention`) and `setOrgQuota` (`BeginRecount` to `SetQuota`: the lock, the two counting
statements, the absolute write). `DeadlockVictim` is PostgreSQL's deadlock detector. Rows that two
transactions of `READ COMMITTED` update after a wait behave as PostgreSQL does: the
second sees the new row and re-checks only its own WHERE clause.

`VersionIndex` is the contract with clients: `Publish` lists a version in one step, with its content there to be downloaded;
`Retire` takes a set of versions and leaves `KeepLastN`; `Write` is for the versions that may be rewritten, of whose content nothing
is promised. The mapping takes `row` for its index and the live versions that have their reference (`Downloadable`) for
what is served, so the references that a publish stores before its row, a loser's and a crashed one's, and every lock, are
stutters. What retention does with assets is three statements, each with a snapshot of its own: `ExpireAssets` (the UPDATE of
the assets tied to the pruned versions), `ReadLiveAssets` and `ReadLiveVersions` (the two SELECTs of what is still needed). `stranded` is
history: the references that nobody will release, those of publishes which the artifact limit refused and those whose asset came between
the UPDATE and the SELECT.

### ScanOutbox

`artifact` and `outbox` are the rows of one (org, repository, digest); `job[w][a]` is what a
worker holds in memory of a claimed intent. A worker claims up to `BatchSize` rows,
works on `Concurrency` of them, and comes back to its loop (where it reclaims) when
the batch is done. `expired` says that `locked_at` is older than the reclaim timeout; it
becomes true for a row whose worker died or still waits for a slot, and, with the fault
`slow`, for a scan that is running: `processClaimedIntent` returns the scan's promise
without awaiting it, so its `finally` stops the heartbeat at once. The history variables
`judged` and `asked` relate a row to the publishes that were scanned and that asked.

`ScanRequests` has no workers, only requests: `Ask` opens one and makes earlier verdicts void, `Try` counts, `Judge` may
come at any time, `Succeed` needs a verdict since, `GiveUp` that `MaxAttempts` tries are spent. The mapping reads a pending or
processing row as open, and the verdicts since the last publish that found no scan under way (`ScannedSince`). So a publish that meets its row in
processing is no request of its own, which is the exemption of `PendingHasIntent`.

### ScanPipeline

What `ScanOutbox` takes as one outcome, for one artifact: a file, or an OCI manifest whose
layers and child manifests are scanned in its place. `run[w]` holds the locals of a
`processScan`. `Begin` is the claim and the first look at the digest, `LoadManifest` one
`scanQueuedManifest` up to its blobs: of the three loops over the queue two end before the
first manifest is loaded, because the queue holds one digest when they start, so manifests are
walked one by one and blobs concurrently. `StartBlob` is `scanStoredBytes` up to its first
await, `FinishBlob` the rest, with any set of content scanners failing and any of the reports
a scanner may give; `Merges` is what `dedupeFindings` keeps, in any order of arrival. `Examine`
chooses between a skip, a failure and the dependency scanners (`ScanDependencies`);
`PersistDelete` and `PersistInsert` are the two statements of `persistScanResult` that see each
other through the lock of the scans row; `Judge` and `MarkSkipped` write the state.
`RecordFailure` is `recordScanFailure` and the row's return to the queue in one step. `Reclaim` gives the row
to a second worker, at any time. Meanwhile versions (`DeleteVersion`), manifests (`DeleteManifest`, `DeleteChild`) and bytes
(`Lose`) go, and an administrator changes the policy, of which a process may hold the one before (`policy.cached`).
They come back as the code brings them: bytes one by one (`Upload`), a file with its scan in one transaction (`PublishFile`), and a manifest
in the steps of `putOciManifest`, of which each of the `Clients` may be anywhere (`push`): `CheckManifest`, `CommitManifest`,
`UpsertVersion`, `UpsertAsset`. Only the last withdraws a verdict (`RequestScan`), and a request may die before it. History: `judged` is what the last verdict was given from, `ever` the
blobs some run has scanned, `mixed` that the last runs overlapped.

Abstracted: severities are numbers, a finding is its dedupe key, type and severity; the size limit; resolving
dependencies; denied licences and CVSS limits, which no route sets. Attempts are not counted here
(`ScanOutbox` has them): `MaxRuns` bounds the runs.

### UploadSessions

The sessions of one org. PATCH is `PlanChunk`, `StageChunk`, `CheckChunk`, `RecordChunk` (or
`ChunkRefused`, `DiscardChunk`), PUT `BeginPut`, `Assemble`, `CommitPut` (or `PutRefused`), then
`CleanStaging`; `Cancel`, `FoundLate` and the reaper's `AbortExpired`, `PickEnded`,
`DeleteStaged`, `DeleteRow` end a session. The record transaction is two steps because
its budget check reads other sessions; the session row and the quota row are locked
over both. Not in the model because the code never does it: the state "closed" is never
set and the base `storageKey` is never written, only its chunk keys.

### EmailDelivery

Time is what this protocol is about. Every deadline is a timer in units of 30 s, the
first retry delay: pg-boss' retry delays (1, 2, 4, ... up to 20 units), the expiration of an
active job (30), the takeover threshold of a claim (30), the duration of a send (1 or
25: nodemailer's timeouts bound it by 12.5 minutes). Statements take no time:
`Advance` runs only when nothing else can be done and moves to the next deadline. A
claim's stamp (`updated_at`) is the number of the claim. pg-boss is external, modelled
from the options `enqueueEmail` gives it and from `runWorker`.

### FormatCoordinates and FormatPublish

`FormatCoordinates` has one operator per upload protocol: from an upload (spelling of the name,
version, build metadata, architecture, a last part such as epoch or file name) to
the unique version row it competes for and the scope its bytes are stored under.
Formats that lower the name, drop build metadata or leave the architecture out of
one of the two compete differently.

`FormatPublish` runs the handler of one of these formats for each upload. `Check` is the
adapter's own conflict check; then come `StoreZip`, `Store` and `StoreSignature` (`storeBlobWithRef`), and, by format:
`Create` and `Release` (`publishImmutableVersionBlob` and its compensation; `ReleaseAgain` for NARs, `ReleaseZip` and
`ReleaseSignature` for Terraform's list of orphans), `Create` or `Merge` (`versions.create`, else `versions.patch`: PyPI,
Homebrew, Vagrant, LuaRocks), `Merge` or `ReplaceRow` (Conan), `ReplaceRow` (`versions.upsert`: apt), and
for Maven and Ivy the asset first and the version row after it (`Project`), if the file is the descriptor
or one to be scanned (`IsDescriptor`, `IsScannable`). The data service's `releaseBlobRef` deletes the asset of the digest in a
second transaction: `DropOwn`, `DropPrior`, `DropPrevious`.
`FindAsset`, `ReleasePrior`, `DropPrior`, `UpsertAsset` are the four transactions of
`data.assets.upsert`. `Prune` is retention with the newest version kept, as one step; `Crash` ends a handler
anywhere. `Served` is the download: by asset for the formats in `ServedByAsset`, from the row's
metadata for the others, and in both cases only with a reference
(`serveRegistryBlob`). Left out are git-lfs, generic (its replace is in
`Publishing`), OCI (its own module) and every edit that is not an upload.

### Manifests

`present` and `born` are the rows of `content_manifests` with their ids, `tag` and `version` what
points to a digest, `layer` the references of an image, `ties` the rows of
`content_blob_refs`. A push is `CheckLayers`, `CheckChildren`, `Commit` (tags included), `RecordVersion` per
name, `TieLayers`, `RecordAsset`; a delete is `Resolve`, `DropTags`, `Tombstone`, `DropRow`, `Survey`,
`Refetch`, `ReleaseLayer` per layer. Each is one transaction or statement of the code; they overlap
freely. `Stop` is a crash or a refusal half-way. `settled` and `late` are history: which pushes were
acknowledged, and which layers were released by a delete that could not see the manifest.

### ProxyMirror

One package (conda: one subdir) of a proxy repository. `docs` is what the upstream has said, the last
being current; content is a number, new for each file the upstream replaces, so a digest
that matches is a number that is equal. `Refresh` is `dispatchProxy` deciding to ask and the
upstream's answer; `fresh` and `InFlight` are the two maps of a process. An ingest then lists the live versions
(`Survey`), its workers keep, update or download and commit each version
(`UpdateManifest` is npm's `versions.upsert`, `CommitVersion` `upsertWithBlobRef`, as one step: its locks are
`Publishing`'s), and npm's ends with `replaceDistTags`: `LockPackage` (`FOR UPDATE` of the packages row), `ClearTags`
(the DELETE, which sees the tags that are committed), `ReplaceTags` (upsert, latest_version,
commit). `Prune` holds the rows that retention has updated and the tag rows it has deleted, `CommitPrune` is its
UPDATE of packages and the rest. The two lock packages and tag rows in opposite order, and `AbortPrune` or
`AbortReplace` is PostgreSQL's choice. A commit that throws rejects the ingest (`rejected`), and its other workers go on
beside the next one. History: `overtaken` (versions rewritten from a stale survey), `repointed` (retention changed the tags).
Abstracted: an upstream that does not answer is one that is not asked; up to 4 workers of a
refresh are as many as there are versions; the asset rows; conda's packages are one.

### Accounts

The rows of one user. `Deactivate`, three `ReadAccess` and `RemoveAccess` are the statements of
`setUserActive(false)`: the row of the user is locked from the first on, and each statement
sees what has committed when it begins. `Reactivate` restores the snapshot, and the foreign key
from group memberships to memberships may refuse it. `Verify` then `Insert` is a login
or the creation of a token; `Ask` then `Issue` a reset link (the invalidation and the
insert of `createAuthEmailToken`); `Reset` then `Confirm` the reset; `Claim` then `Sync` the OIDC login with its groups.
Administration (`CreateOrganization` to `DeleteGroup`) is atomic. `Stop` rolls a transaction back, a
deadlock victim's included. The history variables hold what administrators have
left the user (`owed`), what changed during or after a deactivation (`disturbed`), and which
credentials a revocation found (`ended`).

## 3. Runs

| run | instance | states | shows |
|---|---|---|---|
| `blobs_safety` | 2 digests (1 and 2 bytes), 3 repositories in 2 orgs, one limited to 2 bytes, 2 processes, 2 faults (crash, S3) | 1.3 M | counts, quota, bytes, no lock cycle, refinement of `ContentStore` |
| `blobs_liveness` | 1 digest, 2 repositories, 2 processes, 2 faults, sessions that the database ends included | 11 k | garbage is reclaimed or referenced again |
| `publish_versions` | one of three teams, limit of 2 artifacts: 2 publishers and 1 retention, 3 versions, 4 digests, keep 1, with an administrator or with 1 crash; or 2 writers and an administrator, 3 versions of mutable and immutable kind | 757 k | one publisher wins for ever, exact accounting, quota respected, content kept and given back, only retention and the two kinds of upsert of one version deadlock, refinement of `VersionIndex` |
| `scan_queue` | 2 workers, 2 artifacts, batch 2, concurrency 1, 2 publishes each, 2 faults | 203 k | fencing by attempts, bounded retries, intents kept, scans settle, refinement of `ScanRequests` |
| `scan_artifact` | 1 worker, a file, an index of an image and of a second index (that image again and one that shares its layer) or an empty manifest, 3 blobs, 2 at a time, scanners for both gating types or none; or 2 workers, a file or an image, findings of two severities under one key; 2 clients; 3 runs, 3 changes (pushes begun, deletions, lost bytes, policies, reclaims, crashes) | 3.2 M | a verdict rests on everything reached, findings are one run's and explain the state, what is clean was scanned, but for manifests that the run did not find |
| `upload_chunks` | 2 processes, 2 sessions, 2 chunks of 1 or 2 bytes, budget 2, 1 fault | 793 k | chunks in place, tracked, committed once, within budget, reclaimed |
| `email_retries` | 2 emails, 2 batches of up to 2, the real schedule, 2 faults | 227 k | one sender, explained duplicates, none lost, jobs settle |
| `formats_all` | 36 formats, 2 uploads, one at base coordinates and one at any, or 3, two of one address; other bytes each, files that are not scanned and signed providers included, retention, crashes | 2.4 M | acknowledged uploads are served, served files that are to be scanned are queued, losers give back |
| `manifests_images` | 2 images, 2 manifests that share a layer and an index, 1 tag, 2 processes, 4 requests, 1 stop | 704 k | layers kept, layers of unclean manifests hidden, no tag cascades away |
| `proxy_mirror` | 5 protocols, 2 replicas, 2 ingests, 2 versions, 2 dist-tags, 1 change of the upstream, 2 events (changes, failures, crashes, retentions) | 466 k | one document's dist-tags, listed content kept, the mirror catches up |
| `accounts_lifecycle` | 2 orgs, a local and an OIDC group, 1 session, 1 token, 2 links, 2 processes, 5 requests, 1 rollback | 2.2 M | access survives deactivation, credentials end, links replace each other |
| `publish_conflict` | smallest that shows it | | the finding below |

### Why the bounds are enough

* Two digests are the least that make a lock order, a replacement and a candidate batch;
  two processes the least that race, and every hazard of the blob store listed is
  between two; two orgs and two repositories of one of them are what "once per digest
  per org" distinguishes; a limit equal to the larger blob is met by either digest
  and exceeded by both.
* In `Publishing` three actors (two publishers and a retention) compete for three
  versions: keep-1 makes each publish of another version prune the first, and with two of them live the third publish
  meets the limit of two artifacts. The crash is in a team without the administrator, whose work is one transaction that a crash only rolls back. The other team's three versions
  against the same limit let each writer be the one that is refused; one of them is replaced and touched, which
  makes the deadlock that `NoDeadlock` exempts. The teams (`MCPublishing`)
  work apart, as together they would only multiply their states.
* In `ScanOutbox` a batch larger than the concurrency makes an intent wait for a slot, two
  publishes make a rescan, two attempts make a retry and an exhausted row, and two
  faults a crash of the worker that took over from a crash.
* In `ScanPipeline` an index within an index that names one image again, beside one that shares its layer, has a
  manifest and a blob met twice, a child that goes before it is walked and takes its own children with it,
  and more blobs than are scanned at a time; a scanner for each gating type is what
  a masked failure needs. Results of overlapping runs are about two transactions on one row, so the
  settings with two workers (`MCSettings`) have the smallest graphs, and reports that differ in severity under one key.
  A deletion, a push and a reclaim are three changes; of two clients one may be, or have died, half-way through its push
  while the other goes through.
* In `UploadSessions` two chunks of different sizes can be planned at one offset, and two sessions
  together exceed the budget, which is what a race on either row needs.
* In `EmailDelivery` the numbers are those of the code, in units; two jobs share a
  batch, two batches hold one job after an expiry.
* In `FormatPublish` uploads interact in pairs: by the version row, by the scope, or by the package
  that retention ranks. One upload at fixed coordinates against one at every combination of
  the five distinctions is, up to renaming, every pair of different contents; the
  distinctions are those some adapter makes. Of three uploads two share an address, which is what merges
  into one row and a retired asset need.
* In `Manifests` a shared layer, a row shared by two images and an index are what deletes can get
  wrong; four requests are two deletes around a push and one more, which a row
  with a new id needs.
* In `ProxyMirror` two replicas are what holds two documents at once; with two versions and two tags
  a mix of two documents shows, and one retention prunes one version; two events are a change
  of the upstream beside a retention, a crash or a failure, or two of those. The properties hold with `MaxChanges = 2`
  too (1.2 M states).
* In `Accounts` two processes overlap any two requests; five requests are a deactivation, a
  change, a reactivation, and another round. Symmetry is in processes and in links, which
  occur nowhere but in sets and as indices.

For `BlobStore`, `Publishing`, `ScanOutbox`, `Manifests`, `ScanPipeline`, `Accounts`, `EmailDelivery` and `UploadSessions`
the theorems of section 5 remove the bounds from every safety property but `GivenUpWasSent`, on the
hypotheses named there.

`CHECK_DEADLOCK FALSE` is used where the bounded work of an instance ends: every
publish made and scanned (`ScanOutbox`), every session deleted (`UploadSessions`, where
a session is created once), every email settled (`EmailDelivery`), every request of the bound
made (`Manifests`, `Accounts`), every run done (`ScanPipeline`). In `BlobStore` and
`Publishing` requests come again and TLC checks that something can always happen; a wait
cycle of some processes only is `NoDeadlock` and, where the code has one, is broken by
`DeadlockVictim`. `MaxFaults`, `MaxCrashes`, `MaxPublishes`, `MaxChunks`,
`MaxRequests`, `MaxStops`, `MaxRuns`, `MaxChanges` bound only the environment. In `FormatPublish` `Done` stutters when all handlers are through,
so a handler that is stuck is a deadlock, which TLC finds in the behaviours whose server does not
die (`mortal`).

### Fairness

* `BlobStore`: a process goes on with what it began (weak), the sweep comes round again
  (`maintenance.ts`), the grace period passes. Strong fairness is assumed for taking a
  digest lock, and for the checks under it, because PostgreSQL grants locks in the
  order of their queue, so a waiter is not overtaken for ever.
* `ScanOutbox`: a running worker claims, reclaims and processes; `locked_at` ages. Nothing is
  assumed of publishes or faults.
* `UploadSessions`: requests go on, `expires_at` passes, the reaper comes round.
* `FormatPublish`, `Manifests`, `Accounts`, `ScanPipeline` state no fairness: their properties are safety.
* `EmailDelivery`: batches go on, pg-boss fetches and expires, time passes.
* `ProxyMirror`: the package is asked for again and again, freshness expires (`cacheTtlSeconds`), an ingest goes on
  (HTTP and database calls end, with an answer or a failure). Strong fairness for the retention that waits for the packages
  row, as row locks are queued.

Faults are bounded in a behaviour, so that liveness says: once the faults stop.

## 4. Finding

`publish_conflict`: two publishes of one version with the same bytes. The loser releases the reference
the winner relies on (`versions.ts:309`); the winner's content is reclaimed after the grace period.

### Known behaviour

Found with variations of the runs, each a state TLC reaches when an exemption
or a bound named here is lifted; they have no run of their own.

* A delete by digest lists the live manifests twice and releases the layers they do
  not name in transactions of their own (`oci-manifest-lifecycle.ts:246`); a push that commits after the
  second listing is acknowledged and loses its layer (`late` in `LayersKept`), although the comment at
  `manifest-store.ts:246-249` says that a concurrent delete cannot release it.
* What is clean is not always scanned, although "bytes stay unavailable until a scanner *positively* marks the artifact clean"
  (README.md:593). A run that finds the manifest and its version deleted marks the artifact clean (`pipeline.ts:279`), and one
  that misses a child judges the index without it (`pipeline.ts:199`). `CleanWasScanned` exempts the manifests that the run behind the verdict did
  not find (`judged.missing`). Without the exemption TLC finds: (1) the push comes back between the
  run's look and its verdict, which is written by the artifact's id (`scan-results.ts:151`, `:180`); (2) a manifest that was marked clean is
  pushed again, and is live, clean and unscanned from `commitManifest` to `assets.upsert`, which alone sets
  the artifact to pending (`oci-manifest-lifecycle.ts:55-99`), and stays so if the request dies in between; (3) a
  missing child is pushed alone, whose `assets.upsert` withdraws its own verdict and not that of the index.
* Retention updates the assets of the pruned versions (`retention.ts:144-156`) and later selects the live ones
  (`:228-239`), each statement with a snapshot of its own. A publisher between its version row and its asset inserts the asset
  in between: its digest counts as live, its version is a tombstone, and its reference and charge stay, with no crash. No later retention
  looks at the version again. `RefsAreOwned` of `Publishing` exempts such references (`stranded`).
* Checksums, signatures and other sidecars of Maven and Ivy, text manifests of Conan and Terraform's `SHASUMS.sig` are stored and
  served without a scan (`maven-upload-lifecycle.ts:44-58`, `ivy-upload-lifecycle.ts:58`, `:78`, `conan-publish-lifecycle.ts:131`,
  `terraform-providers.ts:268-280`); `ServedIsQueued` is about the other files (`ToScan`).
* Of two findings of one key with different severities `dedupeFindings` keeps the first
  (`scan-policy.ts:49`), and scanners answer in any order (`orchestrate.ts:109`): the same bytes are clean or
  blocked, although "a violating artifact is **blocked**" (README.md:593).
* Retention chooses what to release before it locks the digests (`retention.ts:226`):
  with a digest that two versions share, it takes the reference of a publish on its way.
* A replacement locks the quota row and then the version's row (`versions.ts:146-156`), an upsert of metadata the version's row
  and then the quota row (`versions.ts:81-93`): two replicas of an npm proxy that do one each to the same version
  (`npm-proxy-lifecycle.ts:100`, `:132`) wait for each other until PostgreSQL aborts one (exempted as `MixedUpserts`).
* Two first upserts of one version charge the artifact quota twice (`versions.ts:91`:
  `FOR UPDATE` of no row).
* The first `setOrgQuota` of an org has no row to lock (`governance.ts:85`): a publish
  committed during its count is never counted (`publish_versions` with `Metered = FALSE`).
* With two sweepers the second retention updates rows the first has pruned and counts
  them back again (`retention.ts:94-142`).
* An S3 DELETE may land after its transaction's session was ended, on bytes a new put has
  checked (fault `session`, `BytesExistAtCommit`).
* The heartbeat stops as soon as the scan starts (`worker-loop.ts:283`), so a scan longer than
  the reclaim timeout is taken from a live worker; the fence of `OneClaimant` holds all the same.
* A re-publish that meets its row in processing is covered by no scan
  (`scan-outbox.ts:90`); `PendingHasIntent` exempts it.
* Two scans of one artifact that overlap after a reclaim can leave the findings of one beside the state of the
  other, as the verdict is a transaction of its own (`FindingsExplainState` exempts them as `mixed`).
* A child manifest that is missing is skipped (`pipeline.ts:199`): an index is judged without it, and
  `VerdictIsCovered` speaks of what was reached.
* Conan: two first files of one revision, the second replaces the first (`Lossy`).
* apt and rpm (two epochs of one file name) do not reserve the address they serve, and a
  second upload replaces it (`Rewritable`).
* Vagrant, LuaRocks and Conan list a file before its scan is recorded (`ListsBeforeScan`): after a crash in
  between it is served and no scan is queued.
* A crash between the version row and the asset leaves, in the formats served by
  asset, a version that answers 404 and a retry that gets 409 (`data-service.ts:207`).
* A manifest delete that resolved an earlier row of the digest cascades to the tag of the
  newer one (`manifest-store.ts:426`, exempted in `TagsAreNotCascaded`).
* A second deactivation of an inactive account forgets what was granted meanwhile, and a
  membership removed while the snapshot is read leaves an account that cannot be reactivated
  (`access-users.ts:117-153`, exempted as `disturbed`).
* A login verified before a reset or a deactivation outlives it; two reset links asked for at
  the same time are both live; `setTemporaryPassword` leaves sessions.

* npm proxy: a manifest that is updated with the dist of the survey overwrites what another
  replica or a retention has written since (`npm-proxy-lifecycle.ts:100`): the version is live again with a
  reference that is gone, and as it matches the upstream no refresh repairs it (exempted as `overtaken`).
* npm proxy and generic: the previous digest comes from the survey, so of two replicas that replace a version the
  second leaves the reference of the first's content (`npm-proxy-lifecycle.ts:121`) until the version is pruned.
* A version whose tarball fails drops its dist-tags until the next refresh.
* conda: a refresh takes the first 500 entries of the document each time (`conda-proxy.ts:77`), although the comment at
  `conda-proxy.ts:28-29` says that subsequent refreshes pick up the packages not yet mirrored; and a version that retention
  pruned is never mirrored again (`versions.exists` finds the tombstone), whereas the other protocols bring it
  back at the next refresh.
* Retention sets `packages.latest_version` to the newest live version also when the tag latest points
  elsewhere (`retention.ts:173-192`; exempted as `repointed`), although `queries.ts:383` calls the two "the same logical pointer".

## 5. Proofs

Every theorem is of `Spec`, for every value of the constants that the module's assumptions allow; the assumptions are
named in the modules, and TLC evaluates them in every run. Each proof has an inductive invariant `IInv` (`Init => IInv`,
`IInv /\ [Next]_vars => IInv'`), with one lemma per action or per group of actions that disturb the same parts of it. The
`TypeCorrect` of `BlobStoreProofs`, `ScanOutboxProofs`, `PublishingProofs` and `ScanPipelineProofs` state what no run lists: their
invariants rest on it.

### `BlobStoreProofs`

For every set of digests, repositories, orgs and processes and any number of faults, sessions that the database ends and
crashes included: `TypeCorrect`, `RefCountExact`, `UsageAccounted` (`UsageIsExact`), `LocksAreOrdered` (`NoLockCycle`). The theorems about bytes assume
`GraceOutlastsRequests` (a request that resolved a digest opens its object within the grace period,
`BLOB_GC_GRACE_SECONDS`, 60 s by default): `BytesAreClaimed`, and, with `"session" \notin Faults` (the database does not end a
session whose process still runs), `ReferencedBytesSafe`, `ResolvedBytesSafe`, `CommitFindsBytes` and `ImplementsContract`
(`Spec => ContractSpec`). `ReferencedBytesSafe` and, below, `RetriesAreBounded` state facts that no run lists.

No safety property of the store is inductive alone: that bytes of a referenced digest
exist depends on what every process was promised before it was interrupted. `IInv` is
`TypeOK /\ Ledger /\ ProcInv`. `Ledger` is the exact count, the finiteness of
`blobRefs` it needs, and, while `Reliable`, that referenced bytes exist (`Reliable`: the grace period suffices and no session can have been ended). So counts
rest on nothing, and one invariant serves both kinds of theorem. `ProcInv` says what each control point relies on:
a process that checked or deletes bytes holds the digest's lock; at its commit the bytes
are there; a digest being reclaimed is still reclaimable; one that was resolved is
`Pinned`, referenced or pending within its grace. One lemma per action shows that the
step preserves `Ledger` and its own process' facts, and that it disturbs no other
process: it changes only what its lock protects. The refinement follows step by step from
`IInv`: a commit references bytes that are there, an erasure meets no reference.

Three theorems have invariants of their own. `LocksAreOrdered`: a process that waits for a digest holds only smaller ones, so a cycle of two would order two digests both ways.
`BytesAreClaimed` (`NoOrphanBytes`) speaks of the time before the first
fault: bytes that have no row, or whose row a reclaim that erased them is about to delete (`Doomed`: a put may have written them
again by then), have a process that wrote them and will record or discard them (`Writer`). `UsageAccounted` takes a digest of
size n for n bytes of its own, so that what an org uses is the cardinality of a union (`QuotaMatchesRefs`), not a sum, which
only an induction would reach. A commit adds or a release takes the bytes of one digest, and exactly if the org had no
other reference to it. `QuotaNeverExceeded` is the other conjunct, `QuotaRespected`, alone.

### `ScanOutboxProofs`

For any artifacts, workers, verdicts, attempts, publishes and faults: `TypeCorrect`,
`AttemptsIdentifyClaims`, `SuccessIsEarned`, `IntentsAreKept`, `RetriesAreBounded`. `IInv` is
`TypeOK`, `RowOK` of every row, `JobOK` of every held intent and `Distinct` of every two holders. The key is that a held
attempt never exceeds the row's and a claim raises the row's: so attempts identify
claims (`Distinct`), a terminal write that matches comes from the last claim, and what
that claim has loaded or judged is at least what was asked (`JobOK`), which no publish
changes while the row is in processing.

`ImplementsRequests` (`RequestSpec`) adds what invariants do not say: a settled row is opened by a publish only, and given up only when its
tries are spent. It needs that nobody has judged or loaded a publish which is yet to come (`KnownInv`), so that a publish which resets the row finds no verdict.
A terminal write that matches settles a row still in processing; all other worker steps but a claim and a verdict are stutters.

### `PublishingProofs`

Any versions, digests, requests, sweepers and administrators and any number of crashes. Assumed throughout
(`PublishingAssumption`): digests are numbers, there is a version and a digest, and a retention keeps at least one version. That is all for `TypeCorrect`,
`WaitsAreOrdered` (`NoDeadlock`) and the action property `PublishedVersionsAreKept` (`PublishedIsKept`). The others have hypotheses, each
a part of the code's use that it depends on (section 4 has the counterexamples), and all of them met by the publishers and
the retention of `publish_versions`:

| theorem | states | hypotheses |
|---|---|---|
| `StorageIsCharged` | `StorageMatchesRefs`, in `UsageIsExact` | `Metered`: the org has a quota row, else a recount locks nothing (`governance.ts:85`) |
| `UsageIsCounted` | `UsageIsExact` | `WritersApart`: `Metered`; one sweeper (`retention.ts:94`); no process creates a version that another upserts (`versions.ts:81`) |
| `LiveVersionsAreReferenced` | `LiveVersionsHaveRefs` | `BytesApart`: bytes of a version that is only published are brought by one process and belong to no other version (`versions.ts:309`, `retention.ts:226`) |
| `ReferencesAreOwned` | `RefsMatchVersions` | `BytesApart`, one sweeper |
| `ImplementsIndex` | `IndexSpec` | `BytesApart` |

`NoDeadlock` rests on what every control point holds (`HoldsInOrder`): a transaction that waits for a digest holds only
smaller ones, whoever holds the quota row waits at most for a version's row, and that only in a replacement; and on
`UpsertsMutable`, by which the two kinds of upsert are told apart. The processes of a cycle would then all wait for digests, and
those that wait for later digests than one of them would be a smaller cycle. The proof corrected the property, which used
to exempt only retention: the two orders above showed as the case that did not close, and the instance has them now.

`PublishedIsKept` has two parts. A row's content is rewritten only by upserts, which no request for an immutable version
reaches. That retention takes only surplus needs an invariant of what it ranked before its lock waits: each version that it is going
to prune has at least `KeepLastN` live ones that are newer (`Surplus`). Inserts, revivals and abandoned rows keep the order of
the rows (`KeepsOrder`, with lemmas on the sequence), so they only add newer ones. Another retention takes some away, but not
those newer than the newest it prunes, and these are enough (`PruningLeavesNewest`). So the property holds for any number of
sweepers, although `UsageIsExact` does not.

Usage: every writer of the quota row holds its lock from its first read to its commit (`KeepsQuota`), so that a recount that
has counted storage (`CountsStorage`) or artifacts (`CountsArtifacts`) is still right when it writes. Storage and artifacts are cardinalities
of what is charged and what is live; a step changes one by what it adds to or takes from the other. What a creator
charges depends on the row it found (`ChargesRight`), and what a retention refunds on its versions being live
still (`PrunesLive`), which is where the hypotheses are used.

References: whoever will create a row holds its reference, and nobody else is to release it (`GuardsRef`); what
a retention releases is the content of rows it has pruned (`ReleasesPruned`), which never come back. Conversely a
reference with no row belongs to its publisher (`OwnerInv`), the loser of a conflict included, until it is released. The case that needed an
argument of its own is the deadlock: PostgreSQL may abort a loser that waits for its digest, and its reference would stay. It
does not, because a cycle leads back to it, and whoever waits for that digest would have to bring or release the same bytes
(`VictimHoldsNoRef`). The proof corrected the property: a publish that the artifact limit refuses keeps its
reference (`versions.ts:253-261`), which neither the bounds at the time nor the property had allowed for. So does one whose asset
comes between two statements of a retention (section 4). `stranded` names these references, `RefsMatchVersions` exempts
nothing else, and the instance has both: a retention that surveys releases what it prunes unless a live asset
names it, and that asset was recorded after the retention's update.

`ImplementsIndex` follows from these step by step: an insert of an immutable version finds its reference, so that it is served from
the step it is listed in; nothing else adds to or takes from what is served but the commit of a retention, and that leaves
enough live (`PruningLeavesEnough`).

### `ScanPipelineProofs`

For any graph of manifests, layers, scanners, findings, policies, workers and changes: `TypeCorrect`,
`VerdictCoversPayload`, `FindingsExplainVerdict`, `CleanIsScanned`. Assumed (`PipelineAssumption`): layers and manifests are
different digests, `Graph` is closed under `Children`, and a report is finite. A verdict says nothing of how the run came to it, so `WalkOK`
keeps the account while it goes on: what is walked has its layers waiting or scanned and its children seen or queued, and what is scanned
and not busy is covered for each gating type. With nothing queued, waiting or busy that is the whole payload. `LockInv` holds
the scans row from the delete to the insert, hence one run's findings; `AloneInv` carries them to the verdict
while no two runs overlap.

The proof corrected the property: `CleanWasScanned` used to ask for every blob of the graph of a live artifact, and failed for an
index within an index whose middle manifest was missing, because the run then never hears of its children. It
now speaks of what the artifact reaches through manifests that are there and that the run found (`Reached`), and the instance has such
a graph. What a run has walked is closed under the children it found (`JudgedAll`), so whatever is reached from
the root without a missing manifest was walked (`ReachedIsWalked`), whichever manifests have come or gone since.

### `ManifestsProofs`

For any images, digests, layers, tags, requests and stops: `TypeCorrect`, `AcknowledgedKeepsLayers` (`LayersKept`),
`UncleanIsHidden` (`UncleanLayersHidden`) and the action property `TagsSurviveDeletes` (`TagsAreNotCascaded`). Assumed (`ManifestAssumption`):
finitely many processes, requests of the shape the handlers parse, tags that are not digests. The invariant is about row ids:
`born[d]` only grows, so a push that holds the id of the row that is there (`Owns`) saw no deletion since it
committed; what it asserted of its layers and ties (`Kept`, `Tied`) then holds still, or a delete that could not see
the row is in `late`. `SettledInv` hands that to the acknowledged. That `born` stays within the bound on
requests (`Bounds`) needs the pushes that may still insert to be counted.

### `AccountsProofs`

For any organisations, groups, credentials, links and processes: `TypeCorrect`, `AccessIsGivenBack`
(`AccessSurvivesDeactivation`), `CredentialsEnd` (`EarlierCredentialsEnd`). Assumed: `AccountAssumption`, and that `None` is no
set of rows (`NoneIsNoSnapshot`). A deactivation reads four tables one after the other, so `ReadOK` says of each place
that what has been read so far is what the user has, but for the rows in `disturbed`; `OwedInv` continues it in the
snapshot, and `PlaceInv` (the rows are of groups that existed once) is what a restoration needs to meet its
foreign key. `CredentialInv`: what a revocation has found is live only while it is going to end it. `LinkInv`: a
link is issued once, by one request, after it has consumed those it found.

### `EmailDeliveryProofs`

For any keys, handlers, batch size, retries, send times and faults: `NoDuplicates` (`NoStrayDuplicates`) and `NothingSwallowed`
(`CompletedWasSent`, the first conjunct of `NoEmailLost`). Assumed (`EmailAssumption`): a send ends before its claim can be taken
over, which nodemailer's timeouts and `CLAIM_TAKEOVER_AFTER_MS` guarantee; and that the backoff is a number (`BackoffAssumption`:
the prover knows no powers). `HandInv` compares the two clocks: what is left of a send is less than what is left of its
claim. Hence a claim under a live send is not taken over, a claim's number is held by one handler (`OneHolder`), and
only that one confirms or rolls back. That what completes was sent needs what a batch has still to do: each of its jobs is
ahead, failed, or sent (`DoneInv`).

### `UploadSessionsProofs`

For any sessions, processes, sizes, budget and faults: `SessionIsAssembledOnce` (`AssembledOnce`), `NothingStranded`
(`StagedBytesTracked`) and `StagingIsBounded` (`StagedBytesAccounted`, that and the budget). `KeyInv` says that a chunk key is in one place, a request
that carries it or one session that has recorded it, and that what a process is to delete is no session's that can still be used.
`CommitOK` is the lock: between check and commit the session is open, at the offset that was compared, and nobody else
commits to it. `StrayInv` adds the reaper's order: it deletes all that its session has recorded
(`ReapOK`) and then the row. Total is a fold over chunks, of which not even its type can be proved without an
induction, so offsets are in `Offsets`, a set that says where a number came from; no conclusion depends on it.
The budget counts the bytes of open sessions as a set (`OpenBytes`) rather than a sum. `BudgetInv`: with a quota row one
transaction at a time is between check and commit, and what it checked has room for its chunk still, because the
other steps leave a session's offset or take the session out of the sum (`TakesNoMore`).

### Only model-checked

* Liveness (`GarbageIsReclaimed`, `ScansSettle`, `SessionsReclaimed`, `EmailsSettle`, `MirrorCatchesUp`) is out of the prover's reach.
* `GivenUpWasSent` (in `NoEmailLost`) depends on how the retry schedule and the takeover threshold add up against the number of
  faults: a sum of powers over the attempts, which is an induction.
* `LiveVersionsHaveRefs` fails without a hypothesis like `BytesApart` (`publish_conflict` refutes it), and `UsageIsExact` of `Publishing`
  without each part of `WritersApart`. (The second team of `publish_versions` is outside `BytesApart`: there TLC alone shows that its properties hold.)
* All of `FormatPublish` and `ProxyMirror`. The first selects from sequences with operators for arguments, whose facts
  are inductions; the second has no proofs yet.

`Publishing`, `UploadSessions`, `ScanPipeline`, `EmailDelivery`, `FormatPublish` and `ProxyMirror` state their types as `TypeOK` too, which no run lists: TLC finds
them true of the instances, and those of `Publishing` and `ScanPipeline` are proved.

## 6. Not modelled

`PROJECT.json` gives a reason for every component. In short: the web client, the
management routes, the SDK's route builder, configuration, telemetry and the end-to-end
suites are about two fifths of the source and hold no state that the
modules do not have; parsing and rendering in the 37 adapters are about as much, and they, the scanners and the
SMTP and OIDC dialogues are data and I/O; evaluation of permissions is a pure function of
rows. Virtual repositories, the dist-tags of hosted ones and the maintenance scheduler are the next stages.
Because of the first two groups the map covers a small share of the repository's lines, though most of those that
change shared state on the server.

Within the modelled parts, left out are the sizes and media types of rows, package metadata
beyond the files it names, licence and CVSS limits of scan policies and their name patterns, blob bytes of a PUT
(they are `BlobStore`'s), referrers of manifests, grants of groups and tokens, and COMMITs whose
outcome the client does not learn.

`ScanPipeline` assumes that the digest of a manifest is not also that of a stored blob; with one, the scan takes the bytes and
walks no graph (`pipeline.ts:273`).

Behaviour that no property judges: a dependency scanner that fails reports nothing and gates nothing; an org without a quota row has no lock, so
its staging budget may be exceeded by racing PATCHes; a publish refused by the artifact
quota keeps its reference and charge (`versions.ts:253-261`); assets that adapters upsert
without a version outlive it (apt, Maven, Ivy); a stale worker may still write its verdict to the
artifact (`scan-results.ts:138`), though not finalize the row.

## 7. Plan

Done, in order: 1. `BlobStore` with its contract, 2. its proof, 3. `Publishing`,
4. `ScanOutbox`, 5. `UploadSessions`, 6. `EmailDelivery`, 7. `FormatCoordinates` and
`FormatPublish`, 8. `Manifests`, 9. `Accounts`, 10. `ProxyMirror`, 11. `ScanPipeline`, the proofs of 3 to 6, 8, 9 and 11, and
`VersionIndex` and `ScanRequests` with the proofs that `Publishing` and `ScanOutbox` implement them.

Next, by importance:

12. Proofs: `ProxyMirror`, and the mail queue as an implementation of an abstract at-least-once delivery.
13. Virtual members: the fan-out and the merge of what they answer.
14. Dist-tags and `latestVersion` of hosted repositories, which are set in statements of their own.
15. The maintenance scheduler and the retention sweep: which tasks and policies run when others fail.
