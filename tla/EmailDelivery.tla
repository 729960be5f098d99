--------------------------- MODULE EmailDelivery ---------------------------
(***************************************************************************)
(* Sending an email once: enqueueEmail of apps/api puts a job on the       *)
(* pg-boss queue, the batch handler of packages/queue/src/runtime.ts hands *)
(* the jobs of a batch one by one to apps/mail-worker's sendEmailOnce, and *)
(* email_deliveries holds the claim that keeps two deliveries of a job     *)
(* from sending twice.                                                     *)
(*                                                                         *)
(* A statement on the database is one step.  Time is what the protocol is  *)
(* about, so every deadline is a timer, in units of the first retry delay  *)
(* (30 seconds).  A send takes time; the other steps take none, and time   *)
(* advances from one deadline to the next when none is left to take.       *)
(*                                                                         *)
(* Abstracted: a claim stamp is the number of the claim (stamps are        *)
(* milliseconds, and the claims of a key are apart in time), payloads are  *)
(* valid, pg-boss retries by the nominal delays without jitter.            *)
(***************************************************************************)
EXTENDS Integers, FiniteSets, FiniteSetsExt

CONSTANTS
  Keys,           (* deliveryKeys                                           *)
  Handlers,       (* batches that may be in hand at once                    *)
  BatchSize,      (* MAIL_WORKER_BATCH_SIZE                                 *)
  RetryLimit,     (* retryLimit                                             *)
  RetryDelayMax,  (* retryDelayMax, in units                                *)
  TakeoverAfter,  (* CLAIM_TAKEOVER_AFTER_MS, in units                      *)
  Expiry,         (* pg-boss' default expiration of an active job, in units *)
  SendTimes,      (* how long a send may take, in units                     *)
  Faults,         (* the kinds of fault this instance suffers               *)
  MaxFaults       (* bound: faults in a behaviour                           *)

FaultKinds == {"crash", "smtp", "ambiguous", "db"}

(* nodemailer gives up within 12.5 minutes, a claim is kept for 15.        *)
ASSUME EmailAssumption ==
  /\ BatchSize \in Nat \ {0} /\ RetryLimit \in Nat /\ RetryDelayMax \in Nat \ {0}
  /\ TakeoverAfter \in Nat \ {0} /\ Expiry \in Nat \ {0}
  /\ SendTimes \subseteq 1..(TakeoverAfter - 1) /\ SendTimes # {}
  /\ Faults \subseteq FaultKinds /\ MaxFaults \in Nat

VARIABLES
  job,          (* pg-boss' jobs: singletonKey makes it one for a key       *)
  claim,        (* the email_deliveries table                               *)
  handler,      (* the batches in hand                                      *)
  sends,        (* history: how often the SMTP server accepted the email    *)
  unconfirmed,  (* history: accepted sends whose confirmation was lost      *)
  faults        (* faults so far                                            *)

vars == <<job, claim, handler, sends, unconfirmed, faults>>

(***************************************************************************)
(* Rows.                                                                   *)
(***************************************************************************)

(* timer: until a waiting job is due, or until an active one expires.      *)
Job == [state : {"absent", "waiting", "active", "completed", "failed"},
        retries : 0..RetryLimit, timer : Nat]

(* timer: until an unconfirmed claim may be taken over.                    *)
ClaimRow == [state : {"none", "claimed", "sent"}, stamp : Nat, timer : 0..TakeoverAfter]

(* todo and failures are the loop's; key, stamp and left belong to the     *)
(* sendEmailOnce call under way.                                           *)
Batch == [jobs : SUBSET Keys, todo : SUBSET Keys, failures : SUBSET Keys,
          phase : {"next", "lost", "sending", "rollback", "sent", "ack", "failed"},
          key : Keys, stamp : Nat, left : Nat]

NoBatch == [jobs |-> {}]

(* The types of the variables.  The runs check properties that say more. *)
TypeOK ==
  /\ job \in [Keys -> Job]
  /\ claim \in [Keys -> ClaimRow]
  /\ handler \in [Handlers -> Batch \union {NoBatch}]
  /\ sends \in [Keys -> Nat]
  /\ unconfirmed \in [Keys -> Nat]
  /\ faults \in 0..MaxFaults

Busy(h) == handler[h].jobs # {}
At(h, phase) == Busy(h) /\ handler[h].phase = phase

Fault(kind) == kind \in Faults /\ faults < MaxFaults /\ faults' = faults + 1

Goto(h, phase) == handler' = [handler EXCEPT ![h].phase = phase]

Init ==
  /\ job = [k \in Keys |-> [state |-> "absent", retries |-> 0, timer |-> 0]]
  /\ claim = [k \in Keys |-> [state |-> "none", stamp |-> 0, timer |-> 0]]
  /\ handler = [h \in Handlers |-> NoBatch]
  /\ sends = [k \in Keys |-> 0]
  /\ unconfirmed = [k \in Keys |-> 0]
  /\ faults = 0

(***************************************************************************)
(* The queue.                                                              *)
(***************************************************************************)

Enqueue(k) ==
  /\ job[k].state = "absent"
  /\ job' = [job EXCEPT ![k].state = "waiting"]
  /\ UNCHANGED <<claim, handler, sends, unconfirmed, faults>>

Due(k) == job[k].state = "waiting" /\ job[k].timer = 0

Fetch(h) ==
  /\ ~Busy(h)
  /\ \E batch \in SUBSET {k \in Keys : Due(k)} :
       /\ batch # {} /\ Cardinality(batch) <= BatchSize
       /\ job' = [k \in Keys |->
                    IF k \in batch
                      THEN [job[k] EXCEPT !.state = "active", !.timer = Expiry]
                      ELSE job[k]]
       /\ handler' = [handler EXCEPT ![h] =
                        [jobs |-> batch, todo |-> batch, failures |-> {}, phase |-> "next",
                         key |-> CHOOSE k \in batch : TRUE, stamp |-> 0, left |-> 0]]
  /\ UNCHANGED <<claim, sends, unconfirmed, faults>>

(* Mutant: retryBackoff and retryDelayMax are left out of the options.     *)
BackoffConstant(n) == 1

(* retryDelay * 2^n, at most retryDelayMax.                                *)
Backoff(n) == IF 2^n < RetryDelayMax THEN 2^n ELSE RetryDelayMax

ASSUME BackoffAssumption == \A n \in 0..RetryLimit : Backoff(n) \in Nat

Retried(j) ==
  IF j.retries < RetryLimit
    THEN [state |-> "waiting", retries |-> j.retries + 1, timer |-> Backoff(j.retries)]
    ELSE [j EXCEPT !.state = "failed", !.timer = 0]

(* pg-boss fails a job that is active for longer than its expiration.      *)
Expire(k) ==
  /\ job[k].state = "active" /\ job[k].timer = 0
  /\ job' = [job EXCEPT ![k] = Retried(@)]
  /\ UNCHANGED <<claim, handler, sends, unconfirmed, faults>>

(***************************************************************************)
(* The batch handler and sendEmailOnce.                                    *)
(***************************************************************************)

(* Mutant: any claim that is not confirmed is taken over.                  *)
ClaimableThoughFresh(row) == row.state # "sent"

Claimable(row) == row.state = "none" \/ (row.state = "claimed" /\ row.timer = 0)

Claim(h, k) ==
  /\ At(h, "next") /\ k \in handler[h].todo
  /\ Claimable(claim[k])
  /\ claim' = [claim EXCEPT ![k] =
                 [state |-> "claimed", stamp |-> @.stamp + 1, timer |-> TakeoverAfter]]
  /\ \E t \in SendTimes :
       handler' = [handler EXCEPT ![h].todo = @ \ {k}, ![h].phase = "sending",
                     ![h].key = k, ![h].stamp = claim[k].stamp + 1, ![h].left = t]
  /\ UNCHANGED <<job, sends, unconfirmed, faults>>

LoseClaim(h, k) ==
  /\ At(h, "next") /\ k \in handler[h].todo
  /\ ~Claimable(claim[k])
  /\ handler' = [handler EXCEPT ![h].todo = @ \ {k}, ![h].phase = "lost", ![h].key = k]
  /\ UNCHANGED <<job, claim, sends, unconfirmed, faults>>

Skipped(row) == row.state = "sent"

(* Already sent: the job is done.  Otherwise EmailDeliveryPendingError.    *)
LookUp(h) ==
  /\ At(h, "lost")
  /\ Goto(h, IF Skipped(claim[handler[h].key]) THEN "ack" ELSE "failed")
  /\ UNCHANGED <<job, claim, sends, unconfirmed, faults>>

InHand(h) == At(h, "sending") \/ At(h, "sent")

SendDone(h) == At(h, "sending") /\ handler[h].left = 0

Accepted(k) == sends' = [sends EXCEPT ![k] = @ + 1]
NeverConfirmed(k) == unconfirmed' = [unconfirmed EXCEPT ![k] = @ + 1]

Send(h) ==
  /\ SendDone(h)
  /\ Accepted(handler[h].key)
  /\ Goto(h, "sent")
  /\ UNCHANGED <<job, claim, unconfirmed, faults>>

SendFails(h) ==
  /\ SendDone(h)
  /\ Goto(h, "rollback")
  /\ \/ Fault("smtp") /\ UNCHANGED <<sends, unconfirmed>>
     \/ (* The server accepted the email and the answer was lost.          *)
        Fault("ambiguous") /\ Accepted(handler[h].key) /\ NeverConfirmed(handler[h].key)
  /\ UNCHANGED <<job, claim>>

(* Only while the claim is still this call's and unconfirmed.              *)
Ours(h) == claim[handler[h].key].stamp = handler[h].stamp

Rollback(h) ==
  /\ At(h, "rollback")
  /\ claim' = [claim EXCEPT ![handler[h].key] =
                 IF Ours(h) /\ @.state = "claimed"
                   THEN [@ EXCEPT !.state = "none", !.timer = 0] ELSE @]
  /\ Goto(h, "failed")
  /\ UNCHANGED <<job, sends, unconfirmed, faults>>

Confirm(h) ==
  /\ At(h, "sent")
  /\ claim' = [claim EXCEPT ![handler[h].key] =
                 IF Ours(h) THEN [@ EXCEPT !.state = "sent", !.timer = 0] ELSE @]
  /\ Goto(h, "ack")
  /\ UNCHANGED <<job, sends, unconfirmed, faults>>

ConfirmFails(h) ==
  /\ At(h, "sent")
  /\ Fault("db") /\ NeverConfirmed(handler[h].key)
  /\ Goto(h, "failed")
  /\ UNCHANGED <<job, claim, sends>>

(* completeJobs: pg-boss completes a job that is still active.             *)
Ack(h) ==
  /\ At(h, "ack")
  /\ job' = [job EXCEPT ![handler[h].key] =
               IF @.state = "active" THEN [@ EXCEPT !.state = "completed", !.timer = 0] ELSE @]
  /\ Goto(h, "next")
  /\ UNCHANGED <<claim, sends, unconfirmed, faults>>

(* A statement, or the call that completes the job, fails.                 *)
ClaimFails(h, k) ==
  /\ At(h, "next") /\ k \in handler[h].todo
  /\ Fault("db")
  /\ handler' = [handler EXCEPT ![h].todo = @ \ {k}, ![h].phase = "failed", ![h].key = k]
  /\ UNCHANGED <<job, claim, sends, unconfirmed>>

StatementFails(h) ==
  /\ At(h, "lost") \/ At(h, "rollback") \/ At(h, "ack")
  /\ Fault("db")
  /\ Goto(h, "failed")
  /\ UNCHANGED <<job, claim, sends, unconfirmed>>

(* Mutant: the job is tried again in the same loop.                        *)
JobFailsAndIsRetried(h) ==
  /\ At(h, "failed")
  /\ handler' = [handler EXCEPT ![h].todo = @ \union {handler[h].key}, ![h].phase = "next"]
  /\ UNCHANGED <<job, claim, sends, unconfirmed, faults>>

(* The failure is kept, and the loop goes on with the job's siblings.      *)
JobFails(h) ==
  /\ At(h, "failed")
  /\ handler' = [handler EXCEPT ![h].failures = @ \union {handler[h].key}, ![h].phase = "next"]
  /\ UNCHANGED <<job, claim, sends, unconfirmed, faults>>

(* pg-boss completes the batch, or, by the rethrown failures, fails what   *)
(* of it is not completed.                                                 *)
Finished(h, j) ==
  IF handler[h].failures = {} THEN [j EXCEPT !.state = "completed", !.timer = 0] ELSE Retried(j)

Finish(h) ==
  /\ At(h, "next") /\ handler[h].todo = {}
  /\ job' = [k \in Keys |->
               IF k \in handler[h].jobs /\ job[k].state = "active"
                 THEN Finished(h, job[k]) ELSE job[k]]
  /\ handler' = [handler EXCEPT ![h] = NoBatch]
  /\ UNCHANGED <<claim, sends, unconfirmed, faults>>

(* The process dies.  The email it was sending may have been accepted.     *)
Crash(h) ==
  /\ Busy(h) /\ Fault("crash")
  /\ handler' = [handler EXCEPT ![h] = NoBatch]
  /\ \/ ~At(h, "sent") /\ UNCHANGED <<sends, unconfirmed>>
     \/ At(h, "sending") /\ Accepted(handler[h].key) /\ NeverConfirmed(handler[h].key)
     \/ At(h, "sent") /\ UNCHANGED sends /\ NeverConfirmed(handler[h].key)
  /\ UNCHANGED <<job, claim>>

(***************************************************************************)
(* Time.                                                                   *)
(***************************************************************************)

Timers ==
  {job[k].timer : k \in Keys} \union {claim[k].timer : k \in Keys}
    \union {handler[h].left : h \in {g \in Handlers : At(g, "sending")}}

Less(timer, d) == IF timer < d THEN 0 ELSE timer - d

(* Nothing that takes no time is left to do.                               *)
Waiting ==
  /\ \A h \in Handlers : Busy(h) => At(h, "sending") /\ handler[h].left > 0
  /\ \A k \in Keys : /\ job[k].state = "active" => job[k].timer > 0
                     /\ Due(k) => \A h \in Handlers : Busy(h)

Advance ==
  /\ Waiting
  /\ \E t \in Timers : t > 0
  /\ LET d == Min(Timers \ {0})
     IN /\ job' = [k \in Keys |-> [job[k] EXCEPT !.timer = Less(@, d)]]
        /\ claim' = [k \in Keys |-> [claim[k] EXCEPT !.timer = Less(@, d)]]
        /\ handler' = [h \in Handlers |->
                         IF Busy(h) THEN [handler[h] EXCEPT !.left = Less(@, d)] ELSE NoBatch]
  /\ UNCHANGED <<sends, unconfirmed, faults>>

Handle(h) ==
  \/ \E k \in Keys : Claim(h, k) \/ LoseClaim(h, k) \/ ClaimFails(h, k)
  \/ LookUp(h) \/ Send(h) \/ SendFails(h) \/ Rollback(h) \/ Confirm(h) \/ ConfirmFails(h)
  \/ Ack(h) \/ StatementFails(h) \/ JobFails(h) \/ Finish(h)

Next ==
  \/ \E k \in Keys : Enqueue(k) \/ Expire(k)
  \/ \E h \in Handlers : Fetch(h) \/ Handle(h) \/ Crash(h)
  \/ Advance

Spec == Init /\ [][Next]_vars

(* The workers run, pg-boss maintains its queue, and time passes.          *)
FairSpec ==
  /\ Spec
  /\ \A h \in Handlers : WF_vars(Handle(h))
  /\ WF_vars(\E h \in Handlers : Fetch(h))
  /\ \A k \in Keys : WF_vars(Expire(k))
  /\ WF_vars(Advance)

(***************************************************************************)
(* Properties.                                                             *)
(***************************************************************************)

(* Two deliveries of one job, by an expiry or a retry, never have its      *)
(* email in hand at once: a claim is not taken over under a live send.     *)
OneSender ==
  \A g, h \in Handlers :
    g # h /\ InHand(g) /\ InHand(h) => handler[g].key # handler[h].key

(* So an email arrives twice only if the confirmation of a send was lost.  *)
DuplicatesExplained ==
  \A k \in Keys : sends[k] <= 1 + unconfirmed[k]

NoStrayDuplicates == OneSender /\ DuplicatesExplained

(* A claim held elsewhere, and a sibling's failure, never swallow a job:   *)
(* what is completed was accepted by the SMTP server.                      *)
CompletedWasSent == \A k \in Keys : job[k].state = "completed" => sends[k] > 0

(* The retries reach past the takeover threshold, so that a job is, at     *)
(* worst, given up only after its email was accepted.                      *)
GivenUpWasSent == \A k \in Keys : job[k].state = "failed" => sends[k] > 0

NoEmailLost == CompletedWasSent /\ GivenUpWasSent

(* Every email that was queued is sent or given up.                        *)
EmailsSettle ==
  \A k \in Keys : job[k].state = "waiting" ~> job[k].state \in {"completed", "failed"}
=============================================================================
