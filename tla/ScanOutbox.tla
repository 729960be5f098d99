----------------------------- MODULE ScanOutbox -----------------------------
(***************************************************************************)
(* The scan queue: registry-platform/src/runtime/scan-outbox.ts writes an  *)
(* artifact and its one scan_outbox row when content is published, and the *)
(* scan workers of apps/scan-worker claim the row, scan, write the verdict *)
(* to the artifact and finalize the row.                                   *)
(*                                                                         *)
(* Statements on the database are single steps; what a worker does between *)
(* two of them interleaves with the other workers and with publishes.  A   *)
(* worker process runs its maintenance tasks, the reclaim among them, and  *)
(* then one claim/scan cycle, never both at once.                          *)
(*                                                                         *)
(* Abstracted: the scan itself is its outcome, findings and scans rows are *)
(* reports nothing here reads, next_attempt_at is met at any later time.   *)
(***************************************************************************)
EXTENDS Integers, FiniteSets, FiniteSetsExt

CONSTANTS
  Artifacts,     (* (org, repo, digest) keys that may be published          *)
  Workers,       (* scan-worker processes                                   *)
  Verdicts,      (* the states evaluateScanPolicy gives an artifact         *)
  MaxAttempts,   (* SCAN_WORKER_MAX_ATTEMPTS                                *)
  BatchSize,     (* SCAN_WORKER_BATCH_SIZE                                  *)
  Concurrency,   (* SCAN_WORKER_CONCURRENCY                                 *)
  Faults,        (* the kinds of fault this instance suffers                *)
  MaxFaults,     (* bound: faults in a behaviour                            *)
  MaxPublishes   (* bound: publishes of one artifact                        *)

FaultKinds == {"crash", "scan", "finalize", "slow"}

ASSUME ScanAssumption ==
  /\ MaxAttempts \in Nat \ {0} /\ BatchSize \in Nat \ {0}
  /\ Concurrency \in 1..BatchSize
  /\ MaxPublishes \in Nat /\ MaxFaults \in Nat
  /\ Faults \subseteq FaultKinds
  /\ "pending" \notin Verdicts /\ "absent" \notin Verdicts

VARIABLES
  artifact,    (* the artifacts table: state, and the publish it describes  *)
  outbox,      (* the scan_outbox table                                     *)
  job,         (* what a worker holds of an artifact's intent               *)
  judged,      (* history: the publishes a verdict was ever written for     *)
  asked,       (* history: the last publish that found no scan under way    *)
  faults       (* faults so far                                             *)

vars == <<artifact, outbox, job, judged, asked, faults>>

(***************************************************************************)
(* Rows.                                                                   *)
(***************************************************************************)

Publishes == 0..MaxPublishes

(* name and version of an artifacts row are those of its last publish.     *)
Artifact == [state : {"absent", "pending"} \union Verdicts, publish : Publishes]

(* expired: locked_at is older than SCAN_RECLAIM_TIMEOUT_SECONDS.          *)
OutboxRow == [status : {"absent", "pending", "processing", "succeeded", "failed"},
              attempts : Nat, expired : BOOLEAN]

(* A claimed intent with the attempt it was stamped with, and, once the    *)
(* scan has loaded the artifact, the publish it read there.                *)
Job == [phase : {"none", "queued", "scanning", "judged", "failed"},
        attempts : Nat, publish : Publishes]

NoJob == [phase |-> "none", attempts |-> 0, publish |-> 0]

TypeOK ==
  (* Every row and every job has the shape its table or type declares.     *)
  /\ artifact \in [Artifacts -> Artifact]
  /\ outbox \in [Artifacts -> OutboxRow]
  /\ job \in [Workers -> [Artifacts -> Job]]
  /\ judged \in [Artifacts -> SUBSET Publishes]
  /\ asked \in [Artifacts -> Publishes]
  /\ faults \in 0..MaxFaults

Held(w) == {a \in Artifacts : job[w][a].phase # "none"}
Active(w) == {a \in Held(w) : job[w][a].phase # "queued"}
Idle(w) == Held(w) = {}

(* Mutant: the filter compares the attempts alone.                         *)
CurrentAnyStatus(w, a) == outbox[a].attempts = job[w][a].attempts

(* Mutant: the filter compares the status alone.                           *)
CurrentAnyAttempt(w, a) == outbox[a].status = "processing"

(* claimedAttemptFilter: the row is still the attempt this worker claimed. *)
Current(w, a) ==
  /\ outbox[a].status = "processing"
  /\ outbox[a].attempts = job[w][a].attempts

Fault(kind) == kind \in Faults /\ faults < MaxFaults /\ faults' = faults + 1

Init ==
  /\ artifact = [a \in Artifacts |-> [state |-> "absent", publish |-> 0]]
  /\ outbox = [a \in Artifacts |-> [status |-> "absent", attempts |-> 0, expired |-> FALSE]]
  /\ job = [w \in Workers |-> [a \in Artifacts |-> NoJob]]
  /\ judged = [a \in Artifacts |-> {}]
  /\ asked = [a \in Artifacts |-> 0]
  /\ faults = 0

(***************************************************************************)
(* Publishing: one transaction upserts the artifact as pending and its row *)
(* as pending, unless a worker is processing the row.                      *)
(***************************************************************************)

(* Mutant: a digest scanned once is not scanned again.                     *)
ResetAllowedOnce(row) == row.status \notin {"processing", "succeeded"}

ResetAllowed(row) == row.status # "processing"

Reset(row) == [row EXCEPT !.status = "pending", !.expired = FALSE]

Publish(a) ==
  /\ artifact[a].publish < MaxPublishes
  /\ artifact' = [artifact EXCEPT ![a] = [state |-> "pending", publish |-> @.publish + 1]]
  /\ IF ResetAllowed(outbox[a])
       THEN outbox' = [outbox EXCEPT ![a] = Reset(@)]
       ELSE UNCHANGED outbox
  /\ asked' = [asked EXCEPT ![a] =
                 IF outbox[a].status = "processing" THEN @ ELSE artifact[a].publish + 1]
  /\ UNCHANGED <<job, judged, faults>>

(***************************************************************************)
(* A worker's cycle.                                                       *)
(***************************************************************************)

(* Mutant: the attempt is counted when it fails, not when it is claimed.   *)
ClaimedRowUncounted(row) ==
  [status |-> "processing", attempts |-> row.attempts, expired |-> FALSE]

ClaimedRow(row) ==
  [status |-> "processing", attempts |-> row.attempts + 1, expired |-> FALSE]

ClaimedJob(attempts) == [phase |-> "queued", attempts |-> attempts, publish |-> 0]

(* Which pending rows are due and unlocked is up to the clock and to the   *)
(* other workers, so the batch may be any of them.                         *)
Claim(w) ==
  /\ Idle(w)
  /\ \E batch \in SUBSET {a \in Artifacts : outbox[a].status = "pending"} :
       /\ batch # {} /\ Cardinality(batch) <= BatchSize
       /\ outbox' = [a \in Artifacts |->
                       IF a \in batch THEN ClaimedRow(outbox[a]) ELSE outbox[a]]
       /\ job' = [job EXCEPT ![w] =
                    [a \in Artifacts |->
                       IF a \in batch
                         THEN ClaimedJob(ClaimedRow(outbox[a]).attempts)
                         ELSE NoJob]]
  /\ UNCHANGED <<artifact, judged, asked, faults>>

SlotFree(w) == Cardinality(Active(w)) < Concurrency

(* loadScanContext reads the artifact, in a slot of the bounded pool.      *)
Load(w, a) ==
  /\ job[w][a].phase = "queued"
  /\ SlotFree(w)
  /\ job' = [job EXCEPT ![w][a] =
               [phase |-> "scanning", attempts |-> @.attempts, publish |-> artifact[a].publish]]
  /\ UNCHANGED <<artifact, outbox, judged, asked, faults>>

(* applyPolicyDecision or markSkippedClean: the verdict goes to the        *)
(* artifact whoever holds the row by now.                                  *)
WriteVerdict(w, a) ==
  /\ job[w][a].phase = "scanning"
  /\ \E verdict \in Verdicts : artifact' = [artifact EXCEPT ![a].state = verdict]
  /\ judged' = [judged EXCEPT ![a] = @ \union {job[w][a].publish}]
  /\ job' = [job EXCEPT ![w][a] = [@ EXCEPT !.phase = "judged"]]
  /\ UNCHANGED <<outbox, asked, faults>>

ScanFails(w, a) ==
  /\ Fault("scan")
  /\ job[w][a].phase = "scanning"
  /\ job' = [job EXCEPT ![w][a] = [@ EXCEPT !.phase = "failed"]]
  /\ UNCHANGED <<artifact, outbox, judged, asked>>

RetryOrFail(attempts) == IF attempts < MaxAttempts THEN "pending" ELSE "failed"

Finish(w, a, status) ==
  /\ outbox' = [outbox EXCEPT ![a] =
                  IF Current(w, a) THEN [@ EXCEPT !.status = status, !.expired = FALSE] ELSE @]
  /\ job' = [job EXCEPT ![w][a] = NoJob]
  /\ UNCHANGED <<artifact, judged, asked, faults>>

MarkSucceeded(w, a) ==
  /\ job[w][a].phase = "judged"
  /\ Finish(w, a, "succeeded")

MarkFailed(w, a) ==
  /\ job[w][a].phase = "failed"
  /\ Finish(w, a, RetryOrFail(job[w][a].attempts))

(* The terminal write fails: it is logged, and the row stays processing.   *)
FinalizeFails(w, a) ==
  /\ Fault("finalize")
  /\ job[w][a].phase \in {"judged", "failed"}
  /\ job' = [job EXCEPT ![w][a] = NoJob]
  /\ UNCHANGED <<artifact, outbox, judged, asked>>

(* The process dies, or is shut down beyond its drain grace.               *)
Crash(w) ==
  /\ ~Idle(w)
  /\ Fault("crash")
  /\ job' = [job EXCEPT ![w] = [a \in Artifacts |-> NoJob]]
  /\ UNCHANGED <<artifact, outbox, judged, asked>>

(***************************************************************************)
(* Stuck rows.                                                             *)
(***************************************************************************)

Expirable(a) == outbox[a].status = "processing" /\ ~outbox[a].expired

Abandoned(a) == \A w \in Workers : a \in Held(w) => ~Current(w, a)

Expired(a) == outbox' = [outbox EXCEPT ![a].expired = TRUE]

(* The reclaim timeout passes for a row no worker will finalize, ...       *)
Expire(a) ==
  /\ Expirable(a) /\ Abandoned(a)
  /\ Expired(a)
  /\ UNCHANGED <<artifact, job, judged, asked, faults>>

(* The artifacts whose locked_at a heartbeat of w keeps fresh.  None: the  *)
(* finally of processClaimedIntent clears the timer in the turn that set   *)
(* it, when the promise is returned and not when it settles.               *)
Beating(w) == {}

(* ... or for one whose scan, or whose wait for a slot, outlasts it.       *)
Overrun(a) ==
  /\ Expirable(a) /\ ~Abandoned(a)
  /\ \A w \in Workers :
       a \in Held(w) => a \notin Beating(w) /\ (a \in Active(w) \/ ~SlotFree(w))
  /\ Fault("slow")
  /\ Expired(a)
  /\ UNCHANGED <<artifact, job, judged, asked>>

(* Mutant: rows without attempts left are not reclaimed.                   *)
StuckRetryable(row) ==
  row.status = "processing" /\ row.expired /\ row.attempts < MaxAttempts

Stuck(row) == row.status = "processing" /\ row.expired

Reclaimed(row) ==
  [row EXCEPT !.status = RetryOrFail(row.attempts), !.expired = FALSE]

(* reclaimStuckScans, between two cycles of a worker: one update of every  *)
(* stuck row.                                                              *)
Reclaim(w) ==
  /\ Idle(w)
  /\ \E a \in Artifacts : Stuck(outbox[a])
  /\ outbox' = [a \in Artifacts |->
                  IF Stuck(outbox[a]) THEN Reclaimed(outbox[a]) ELSE outbox[a]]
  /\ UNCHANGED <<artifact, job, judged, asked, faults>>

(* What a worker does with one claimed intent.                             *)
Process(w, a) ==
  \/ Load(w, a) \/ WriteVerdict(w, a) \/ ScanFails(w, a)
  \/ MarkSucceeded(w, a) \/ MarkFailed(w, a) \/ FinalizeFails(w, a)

Next ==
  \/ \E a \in Artifacts : Publish(a) \/ Expire(a) \/ Overrun(a)
  \/ \E w \in Workers :
       \/ Claim(w) \/ Reclaim(w) \/ Crash(w)
       \/ \E a \in Artifacts : Process(w, a)

Spec == Init /\ [][Next]_vars

(* A worker that runs goes on with what it holds, claims and reclaims in   *)
(* every turn of its loop, and time passes.                                *)
FairSpec ==
  /\ Spec
  /\ \A w \in Workers :
       /\ WF_vars(Claim(w)) /\ WF_vars(Reclaim(w))
       /\ \A a \in Artifacts : WF_vars(Process(w, a))
  /\ \A a \in Artifacts : WF_vars(Expire(a))

(***************************************************************************)
(* Properties.                                                             *)
(***************************************************************************)

(* The attempts column is a claim's identity: two workers that hold the    *)
(* same artifact, one of them overtaken by a reclaim, never hold the same  *)
(* attempt, so at most one of them can finalize the row.                   *)
OneClaimant ==
  \A v, w \in Workers : \A a \in Held(v) \cap Held(w) :
    v # w => job[v][a].attempts # job[w][a].attempts

(* A row is finalized as succeeded only when a scan of the publish that    *)
(* asked for it, or of a later one, has given its verdict: a stale worker  *)
(* cannot finalize a newer attempt or a rescan requested since.            *)
SucceededWasScanned ==
  \A a \in Artifacts :
    outbox[a].status = "succeeded" => \E p \in judged[a] : p >= asked[a]

(* An artifact that waits for its verdict has an intent that some worker   *)
(* will or may still process, or one that used up its attempts.  Only a    *)
(* publish that came while the row was processing can leave it without.    *)
PendingHasIntent ==
  \A a \in Artifacts :
    artifact[a].state = "pending" =>
      \/ outbox[a].status \in {"pending", "processing", "failed"}
      \/ artifact[a].publish > asked[a]

(* Retries are bounded across failures, crashes and reclaims: one more     *)
(* attempt than SCAN_WORKER_MAX_ATTEMPTS needs one more publish.           *)
AttemptsBounded ==
  \A a \in Artifacts :
    outbox[a].attempts > 0 => outbox[a].attempts < MaxAttempts + artifact[a].publish

(* Whatever crashes, fails or is overtaken, a requested scan ends: the row *)
(* does not stay pending or processing for ever.                           *)
ScansSettle ==
  \A a \in Artifacts :
    outbox[a].status \in {"pending", "processing"}
      ~> outbox[a].status \in {"succeeded", "failed"}

(* What a publisher sees of all this: a request for a scan, the verdicts   *)
(* given since the last publish that found no scan under way, and tries.   *)
RequestState ==
  [a \in Artifacts |->
     IF outbox[a].status \in {"pending", "processing"} THEN "open" ELSE outbox[a].status]

ScannedSince == {a \in Artifacts : \E p \in judged[a] : p >= asked[a]}

Tries == [a \in Artifacts |-> outbox[a].attempts]

(* No stale worker, late verdict or reclaim settles a request that was not *)
(* judged or tried enough since, nor opens one that is settled.            *)
Abstract ==
  INSTANCE ScanRequests WITH request <- RequestState, scanned <- ScannedSince, tries <- Tries
RequestSpec == Abstract!Spec
=============================================================================
