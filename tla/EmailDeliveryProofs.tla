------------------------ MODULE EmailDeliveryProofs ------------------------
(***************************************************************************)
(* No stray duplicates, for any keys, handlers, retries, send times and    *)
(* faults.                                                                 *)
(*                                                                         *)
(* A handler that is sending has less of its send before it than its claim *)
(* has until a takeover, so a claim under a live send is never claimable;  *)
(* and a claim's number is held by one handler, so no other one confirms   *)
(* or rolls it back.  And nothing completed unsent: each job of a batch    *)
(* that is neither to do nor failed had its email accepted.                *)
(***************************************************************************)
EXTENDS EmailDelivery, WellFoundedInduction, NaturalsInduction, TLAPS

Phases == {"next", "lost", "sending", "rollback", "sent", "ack", "failed"}

(* The handlers that have a number of their key's claim.                   *)
Held(h) == InHand(h) \/ At(h, "rollback")

HandInv(h) ==
  /\ At(h, "sending") => handler[h].left < claim[handler[h].key].timer
  /\ At(h, "sent") => 0 < claim[handler[h].key].timer
  /\ InHand(h) => claim[handler[h].key].state = "claimed" /\ Ours(h)
  /\ Held(h) => handler[h].stamp <= claim[handler[h].key].stamp

OneHolder ==
  \A g, h \in Handlers :
    /\ Held(g) /\ Held(h)
    /\ handler[g].key = handler[h].key /\ handler[g].stamp = handler[h].stamp
    => g = h

(* An accepted email that the table confirms, or a handler is to confirm.  *)
Accounted(k) ==
  claim[k].state = "sent" \/ \E h \in Handlers : At(h, "sent") /\ handler[h].key = k

SendsInv ==
  \A k \in Keys : /\ sends[k] <= unconfirmed[k] + 1
                  /\ ~ Accounted(k) => sends[k] <= unconfirmed[k]

IInv == TypeOK /\ (\A h \in Handlers : HandInv(h)) /\ OneHolder /\ SendsInv

-----------------------------------------------------------------------------
(* Batches.                                                                *)

LEMMA Minimum ==
  ASSUME NEW S \in SUBSET Nat, S # {}
  PROVE  Min(S) \in S /\ \A y \in S : Min(S) <= y
<1>1. IsWellFoundedOn(OpToRel(<, Nat), Nat)
  BY NatLessThanWellFounded
<1>2. PICK x \in S : \A y \in S : ~ (<<y, x>> \in OpToRel(<, Nat))
  BY <1>1, WFMin
<1>3. \A y \in S : x <= y
  <2> TAKE y \in S
  <2>1. y < x => <<y, x>> \in OpToRel(<, Nat)
    BY DEF OpToRel
  <2>2. ~ (y < x)
    BY <1>2, <2>1, Zenon
  <2>3. ~ (y < x) => x <= y
    OBVIOUS
  <2> QED BY <2>2, <2>3, Zenon
<1> QED BY <1>3 DEF Min

LEMMA BatchTypes ==
  ASSUME TypeOK, NEW h \in Handlers, Busy(h)
  PROVE  /\ handler[h] \in Batch
         /\ handler[h].key \in Keys /\ handler[h].stamp \in Nat /\ handler[h].left \in Nat
         /\ handler[h].jobs \subseteq Keys /\ handler[h].todo \subseteq Keys
         /\ handler[h].failures \subseteq Keys /\ handler[h].phase \in Phases
<1>1. NoBatch.jobs = {}
  BY DEF NoBatch
<1>2. handler[h] \in Batch
  BY <1>1 DEF TypeOK, Busy
<1> QED BY <1>2 DEF Batch, Phases

(* A step of a handler h that leaves the others alone.                     *)
Alone(h) ==
  /\ handler' \in [Handlers -> Batch \union {NoBatch}]
  /\ \A g \in Handlers \ {h} : handler'[g] = handler[g]

LEMMA HandlerSteps ==
  ASSUME TypeOK, NEW h \in Handlers, NEW b \in Batch \union {NoBatch},
         handler' = [handler EXCEPT ![h] = b]
  PROVE  Alone(h) /\ handler'[h] = b
BY DEF TypeOK, Alone

(* The loop over the batch is where it was.                                *)
SameLoop(h) ==
  /\ handler'[h].jobs = handler[h].jobs /\ handler'[h].todo = handler[h].todo
  /\ handler'[h].failures = handler[h].failures

(* A handler goes to a phase with its email.                               *)
Went(h, phase) ==
  /\ Alone(h) /\ Busy(h)' /\ SameLoop(h)
  /\ handler'[h].phase = phase /\ handler'[h].key = handler[h].key
  /\ handler'[h].stamp = handler[h].stamp /\ handler'[h].left = handler[h].left

LEMMA GotoSteps ==
  ASSUME TypeOK, NEW h \in Handlers, Busy(h), NEW phase \in Phases, Goto(h, phase)
  PROVE  Went(h, phase)
<1>1. PICK b : b = [handler[h] EXCEPT !.phase = phase]
  OBVIOUS
<1>2. b \in Batch
  BY <1>1, BatchTypes DEF Batch, Phases
<1>3. handler' = [handler EXCEPT ![h] = b]
  BY <1>1 DEF Goto
<1>4. Alone(h) /\ handler'[h] = b
  BY <1>2, <1>3, HandlerSteps
<1>5. /\ b.phase = phase /\ b.key = handler[h].key /\ b.stamp = handler[h].stamp
      /\ b.left = handler[h].left /\ b.jobs = handler[h].jobs
      /\ b.todo = handler[h].todo /\ b.failures = handler[h].failures
  BY <1>1, BatchTypes DEF Batch
<1> QED BY <1>4, <1>5 DEF Went, SameLoop, Busy

(* The handler takes the next job of its batch.                            *)
Took(h, k, phase) ==
  /\ Alone(h) /\ Busy(h)'
  /\ handler'[h].jobs = handler[h].jobs /\ handler'[h].todo = handler[h].todo \ {k}
  /\ handler'[h].failures = handler[h].failures
  /\ handler'[h].phase = phase /\ handler'[h].key = k

LEMMA TakeSteps ==
  ASSUME TypeOK, NEW h \in Handlers, NEW k \in Keys,
         Claim(h, k) \/ LoseClaim(h, k) \/ ClaimFails(h, k)
  PROVE  /\ Claim(h, k) => /\ Took(h, k, "sending")
                            /\ handler'[h].stamp = claim[k].stamp + 1
                            /\ handler'[h].left \in 1..(TakeoverAfter - 1)
         /\ LoseClaim(h, k) => Took(h, k, "lost")
         /\ ClaimFails(h, k) => Took(h, k, "failed")
<1>1. Busy(h) /\ handler[h] \in Batch
  BY BatchTypes DEF Claim, LoseClaim, ClaimFails, At
<1>2. ASSUME Claim(h, k)
      PROVE  /\ Took(h, k, "sending") /\ handler'[h].stamp = claim[k].stamp + 1
             /\ handler'[h].left \in 1..(TakeoverAfter - 1)
  <2>1. PICK t \in SendTimes :
          handler' = [handler EXCEPT ![h].todo = @ \ {k}, ![h].phase = "sending",
                        ![h].key = k, ![h].stamp = claim[k].stamp + 1, ![h].left = t]
    BY <1>2 DEF Claim
  <2>2. claim[k].stamp + 1 \in Nat /\ t \in 1..(TakeoverAfter - 1) /\ t \in Nat
    BY EmailAssumption DEF TypeOK, ClaimRow
  <2>3. PICK b : b = [handler[h] EXCEPT !.todo = @ \ {k}, !.phase = "sending",
                        !.key = k, !.stamp = claim[k].stamp + 1, !.left = t]
    OBVIOUS
  <2>4. /\ b \in Batch /\ b.phase = "sending" /\ b.key = k /\ b.left = t
        /\ b.stamp = claim[k].stamp + 1 /\ b.jobs = handler[h].jobs
        /\ b.todo = handler[h].todo \ {k} /\ b.failures = handler[h].failures
    BY <1>1, <2>2, <2>3 DEF Batch
  <2>5. handler' = [handler EXCEPT ![h] = b]
    BY <2>1, <2>3
  <2>6. Alone(h) /\ handler'[h] = b
    BY <2>4, <2>5, HandlerSteps
  <2> QED BY <1>1, <2>2, <2>4, <2>6 DEF Took, Busy
<1>3. ASSUME NEW phase \in {"lost", "failed"},
             handler' = [handler EXCEPT ![h].todo = @ \ {k}, ![h].phase = phase, ![h].key = k]
      PROVE  Took(h, k, phase)
  <2>1. PICK b : b = [handler[h] EXCEPT !.todo = @ \ {k}, !.phase = phase, !.key = k]
    OBVIOUS
  <2>2. /\ b \in Batch /\ b.phase = phase /\ b.key = k /\ b.jobs = handler[h].jobs
        /\ b.todo = handler[h].todo \ {k} /\ b.failures = handler[h].failures
    BY <1>1, <2>1 DEF Batch
  <2>3. handler' = [handler EXCEPT ![h] = b]
    BY <1>3, <2>1
  <2>4. Alone(h) /\ handler'[h] = b
    BY <2>2, <2>3, HandlerSteps
  <2> QED BY <1>1, <2>2, <2>4 DEF Took, Busy
<1> QED BY <1>2, <1>3 DEF LoseClaim, ClaimFails

LEMMA JobFailsSteps ==
  ASSUME TypeOK, NEW h \in Handlers, JobFails(h)
  PROVE  /\ Alone(h) /\ Busy(h)' /\ handler'[h].phase = "next"
         /\ handler'[h].jobs = handler[h].jobs /\ handler'[h].todo = handler[h].todo
         /\ handler'[h].failures = handler[h].failures \union {handler[h].key}
<1>1. Busy(h) /\ handler[h] \in Batch /\ handler[h].key \in Keys
  BY BatchTypes DEF JobFails, At
<1>2. PICK b : b = [handler[h] EXCEPT !.failures = @ \union {handler[h].key}, !.phase = "next"]
  OBVIOUS
<1>3. /\ b \in Batch /\ b.phase = "next" /\ b.jobs = handler[h].jobs
      /\ b.todo = handler[h].todo /\ b.failures = handler[h].failures \union {handler[h].key}
  BY <1>1, <1>2 DEF Batch
<1>4. handler' = [handler EXCEPT ![h] = b]
  BY <1>2 DEF JobFails
<1>5. Alone(h) /\ handler'[h] = b
  BY <1>3, <1>4, HandlerSteps
<1> QED BY <1>1, <1>3, <1>5 DEF Busy

LEMMA FetchSteps ==
  ASSUME TypeOK, NEW h \in Handlers, Fetch(h)
  PROVE  /\ Alone(h) /\ handler'[h].phase = "next" /\ job' \in [Keys -> Job]
         /\ handler'[h].jobs = handler'[h].todo
         /\ \A k \in Keys : job'[k].state = "completed" => job[k].state = "completed"
<1>1. PICK batch \in SUBSET {k \in Keys : Due(k)} :
        /\ batch # {}
        /\ job' = [k \in Keys |->
                     IF k \in batch
                       THEN [job[k] EXCEPT !.state = "active", !.timer = Expiry]
                       ELSE job[k]]
        /\ handler' = [handler EXCEPT ![h] =
                         [jobs |-> batch, todo |-> batch, failures |-> {}, phase |-> "next",
                          key |-> CHOOSE k \in batch : TRUE, stamp |-> 0, left |-> 0]]
  BY DEF Fetch
<1>2. batch \subseteq Keys /\ (CHOOSE k \in batch : TRUE) \in Keys
  BY <1>1
<1>3. PICK b : b = [jobs |-> batch, todo |-> batch, failures |-> {}, phase |-> "next",
                    key |-> CHOOSE k \in batch : TRUE, stamp |-> 0, left |-> 0]
  OBVIOUS
<1>4. b \in Batch /\ b.phase = "next" /\ b.jobs = b.todo
  BY <1>2, <1>3 DEF Batch
<1>5. handler' = [handler EXCEPT ![h] = b]
  BY <1>1, <1>3
<1>6. Alone(h) /\ handler'[h] = b
  BY <1>4, <1>5, HandlerSteps
<1>7. job' \in [Keys -> Job]
  <2>1. ASSUME NEW k \in Keys PROVE [job[k] EXCEPT !.state = "active", !.timer = Expiry] \in Job
    BY EmailAssumption DEF TypeOK, Job
  <2> QED BY <1>1, <2>1 DEF TypeOK
<1>8. \A k \in Keys : job'[k].state = "completed" => job[k].state = "completed"
  BY <1>1 DEF TypeOK, Job
<1> QED BY <1>4, <1>6, <1>7, <1>8

(* Every handler that waits for the time to pass is sending.               *)
LEMMA AdvanceSteps ==
  ASSUME TypeOK, Advance
  PROVE  \E d \in Nat :
           /\ d > 0
           /\ job' = [k \in Keys |-> [job[k] EXCEPT !.timer = Less(@, d)]]
           /\ claim' = [k \in Keys |-> [claim[k] EXCEPT !.timer = Less(@, d)]]
           /\ handler' = [h \in Handlers |->
                            IF Busy(h) THEN [handler[h] EXCEPT !.left = Less(@, d)] ELSE NoBatch]
           /\ \A h \in Handlers : Busy(h) => At(h, "sending") /\ d <= handler[h].left
<1>1. Timers \subseteq Nat
  <2>1. \A h \in Handlers : At(h, "sending") => handler[h].left \in Nat
    BY BatchTypes DEF At
  <2>2. \A k \in Keys : job[k].timer \in Nat /\ claim[k].timer \in Nat
    BY EmailAssumption DEF TypeOK, Job, ClaimRow
  <2> QED BY <2>1, <2>2 DEF Timers
<1>2. PICK d : d = Min(Timers \ {0})
  OBVIOUS
<1>3. d \in Timers \ {0} /\ \A y \in Timers \ {0} : d <= y
  <2>1. Timers \ {0} \in SUBSET Nat /\ Timers \ {0} # {}
    BY <1>1 DEF Advance
  <2> QED BY <1>2, <2>1, Minimum
<1>4. /\ job' = [k \in Keys |-> [job[k] EXCEPT !.timer = Less(@, d)]]
      /\ claim' = [k \in Keys |-> [claim[k] EXCEPT !.timer = Less(@, d)]]
      /\ handler' = [h \in Handlers |->
                       IF Busy(h) THEN [handler[h] EXCEPT !.left = Less(@, d)] ELSE NoBatch]
  BY <1>2 DEF Advance
<1>5. ASSUME NEW h \in Handlers, Busy(h) PROVE At(h, "sending") /\ d <= handler[h].left
  <2>1. At(h, "sending") /\ handler[h].left > 0
    BY <1>5 DEF Advance, Waiting
  <2>2. handler[h].left \in Timers \ {0}
    BY <2>1 DEF Timers
  <2> QED BY <1>3, <2>1, <2>2
<1>6. d \in Nat /\ d > 0
  BY <1>1, <1>3
<1> QED BY <1>4, <1>5, <1>6

-----------------------------------------------------------------------------
(* Types.                                                                  *)

LEMMA RetriedTypes == \A j \in Job : Retried(j) \in Job /\ [j EXCEPT !.timer = 0] \in Job
<1> SUFFICES ASSUME NEW j \in Job PROVE Retried(j) \in Job /\ [j EXCEPT !.timer = 0] \in Job
  OBVIOUS
<1>1. j.retries \in 0..RetryLimit /\ Backoff(j.retries) \in Nat
  BY BackoffAssumption DEF Job
<1>2. CASE j.retries < RetryLimit
  BY <1>1, <1>2, EmailAssumption DEF Retried, Job
<1>3. CASE ~ (j.retries < RetryLimit)
  BY <1>3 DEF Retried, Job
<1> QED BY <1>2, <1>3

LEMMA JobTypes ==
  ASSUME TypeOK, Next PROVE job' \in [Keys -> Job]
<1>1. ASSUME NEW k \in Keys, Enqueue(k) PROVE job' \in [Keys -> Job]
  BY <1>1 DEF Enqueue, TypeOK, Job
<1>2. ASSUME NEW k \in Keys, Expire(k) PROVE job' \in [Keys -> Job]
  BY <1>2, RetriedTypes DEF Expire, TypeOK
<1>3. ASSUME NEW h \in Handlers, Fetch(h) PROVE job' \in [Keys -> Job]
  BY <1>3, FetchSteps
<1>4. ASSUME NEW h \in Handlers, Ack(h) PROVE job' \in [Keys -> Job]
  <2>1. handler[h].key \in Keys
    BY <1>4, BatchTypes DEF Ack, At
  <2>2. \A j \in Job : [j EXCEPT !.state = "completed", !.timer = 0] \in Job
    BY DEF Job
  <2> QED BY <1>4, <2>1, <2>2 DEF Ack, TypeOK
<1>5. ASSUME NEW h \in Handlers, Finish(h) PROVE job' \in [Keys -> Job]
  <2>1. \A j \in Job : Finished(h, j) \in Job
    BY RetriedTypes DEF Finished, Job
  <2> QED BY <1>5, <2>1 DEF Finish, TypeOK
<1>6. CASE Advance
  <2>1. PICK d \in Nat : job' = [k \in Keys |-> [job[k] EXCEPT !.timer = Less(@, d)]]
    BY <1>6, AdvanceSteps
  <2>2. \A t \in Nat : Less(t, d) \in Nat
    BY DEF Less
  <2>3. \A j \in Job : [j EXCEPT !.timer = Less(j.timer, d)] \in Job
    BY <2>2 DEF Job
  <2> QED BY <2>1, <2>3 DEF TypeOK
<1>7. ASSUME NEW h \in Handlers, Handle(h), ~ Ack(h), ~ Finish(h)
      PROVE  job' = job
  BY <1>7 DEF Handle, Claim, LoseClaim, ClaimFails, LookUp, Send, SendFails, Rollback,
              Confirm, ConfirmFails, StatementFails, JobFails
<1>8. ASSUME NEW h \in Handlers, Crash(h) PROVE job' = job
  BY <1>8 DEF Crash
<1> QED BY <1>1, <1>2, <1>3, <1>4, <1>5, <1>6, <1>7, <1>8 DEF Next, TypeOK

LEMMA SettledRows ==
  ASSUME NEW row \in ClaimRow
  PROVE  /\ [row EXCEPT !.state = "none", !.timer = 0] \in ClaimRow
         /\ [row EXCEPT !.state = "sent", !.timer = 0] \in ClaimRow
<1>1. 0 \in 0..TakeoverAfter
  BY EmailAssumption
<1> QED BY <1>1 DEF ClaimRow

LEMMA ClaimTypes ==
  ASSUME TypeOK, Next PROVE claim' \in [Keys -> ClaimRow]
<1>1. ASSUME NEW h \in Handlers, NEW k \in Keys, Claim(h, k)
      PROVE  claim' \in [Keys -> ClaimRow]
  <2>1. [state |-> "claimed", stamp |-> claim[k].stamp + 1, timer |-> TakeoverAfter] \in ClaimRow
    BY EmailAssumption DEF TypeOK, ClaimRow
  <2> QED BY <1>1, <2>1 DEF Claim, TypeOK
<1>2. \A row \in ClaimRow : /\ [row EXCEPT !.state = "none", !.timer = 0] \in ClaimRow
                            /\ [row EXCEPT !.state = "sent", !.timer = 0] \in ClaimRow
  BY SettledRows
<1>3. ASSUME NEW h \in Handlers, Rollback(h) \/ Confirm(h) PROVE claim' \in [Keys -> ClaimRow]
  <2>1. handler[h].key \in Keys
    BY <1>3, BatchTypes DEF Rollback, Confirm, At
  <2>2. PICK k \in Keys : k = handler[h].key
    BY <2>1
  <2>3. CASE Rollback(h)
    BY <1>2, <2>2, <2>3 DEF Rollback, TypeOK
  <2>4. CASE Confirm(h)
    BY <1>2, <2>2, <2>4 DEF Confirm, TypeOK
  <2> QED BY <1>3, <2>3, <2>4
<1>4. CASE Advance
  <2>1. PICK d \in Nat : claim' = [k \in Keys |-> [claim[k] EXCEPT !.timer = Less(@, d)]]
    BY <1>4, AdvanceSteps
  <2>2. \A t \in 0..TakeoverAfter : Less(t, d) \in 0..TakeoverAfter
    BY EmailAssumption DEF Less
  <2>3. \A row \in ClaimRow : [row EXCEPT !.timer = Less(row.timer, d)] \in ClaimRow
    BY <2>2 DEF ClaimRow
  <2> QED BY <2>1, <2>3 DEF TypeOK
<1>5. ASSUME NEW h \in Handlers, Handle(h), ~ Rollback(h), ~ Confirm(h),
             \A k \in Keys : ~ Claim(h, k)
      PROVE  claim' = claim
  BY <1>5 DEF Handle, LoseClaim, ClaimFails, LookUp, Send, SendFails, Ack, Finish,
              ConfirmFails, StatementFails, JobFails
<1>6. ASSUME NEW k \in Keys, Enqueue(k) \/ Expire(k) PROVE claim' = claim
  BY <1>6 DEF Enqueue, Expire
<1>7. ASSUME NEW h \in Handlers, Fetch(h) \/ Crash(h) PROVE claim' = claim
  BY <1>7 DEF Fetch, Crash
<1> QED BY <1>1, <1>3, <1>4, <1>5, <1>6, <1>7 DEF Next, TypeOK

(* The phases that a handler goes to with its email.                       *)
LEMMA WentSteps ==
  ASSUME TypeOK, NEW h \in Handlers,
         \/ LookUp(h) \/ Send(h) \/ SendFails(h) \/ Rollback(h) \/ Confirm(h)
         \/ ConfirmFails(h) \/ Ack(h) \/ StatementFails(h)
  PROVE  /\ LookUp(h) => Went(h, "ack") \/ Went(h, "failed")
         /\ Send(h) => Went(h, "sent")
         /\ SendFails(h) => Went(h, "rollback")
         /\ Rollback(h) => Went(h, "failed")
         /\ Confirm(h) => Went(h, "ack")
         /\ ConfirmFails(h) => Went(h, "failed")
         /\ Ack(h) => Went(h, "next")
         /\ StatementFails(h) => Went(h, "failed")
<1>1. Busy(h)
  BY DEF LookUp, Send, SendFails, SendDone, Rollback, Confirm, ConfirmFails, Ack,
         StatementFails, At
<1>2. \A phase \in Phases : Goto(h, phase) => Went(h, phase)
  BY <1>1, GotoSteps
<1> QED BY <1>2 DEF LookUp, Send, SendFails, Rollback, Confirm, ConfirmFails, Ack,
                    StatementFails, Phases

LEMMA NoBatchSteps ==
  ASSUME TypeOK, NEW h \in Handlers, Finish(h) \/ Crash(h)
  PROVE  Alone(h) /\ ~ Busy(h)'
<1>1. handler' = [handler EXCEPT ![h] = NoBatch] /\ NoBatch.jobs = {}
  BY DEF Finish, Crash, NoBatch
<1>2. Alone(h) /\ handler'[h] = NoBatch
  BY <1>1, HandlerSteps
<1> QED BY <1>1, <1>2 DEF Busy

LEMMA HandlerTypes ==
  ASSUME TypeOK, Next PROVE handler' \in [Handlers -> Batch \union {NoBatch}]
<1>1. ASSUME NEW h \in Handlers, Fetch(h) \/ Handle(h) \/ Crash(h) PROVE Alone(h)
  BY <1>1, FetchSteps, TakeSteps, WentSteps, JobFailsSteps, NoBatchSteps
  DEF Handle, Went, Took
<1>2. ASSUME NEW k \in Keys, Enqueue(k) \/ Expire(k) PROVE handler' = handler
  BY <1>2 DEF Enqueue, Expire
<1>3. CASE Advance
  <2>1. PICK d \in Nat :
          handler' = [h \in Handlers |->
                        IF Busy(h) THEN [handler[h] EXCEPT !.left = Less(@, d)] ELSE NoBatch]
    BY <1>3, AdvanceSteps
  <2>2. \A t \in Nat : Less(t, d) \in Nat
    BY DEF Less
  <2>3. \A b \in Batch : [b EXCEPT !.left = Less(b.left, d)] \in Batch
    BY <2>2 DEF Batch
  <2>4. \A h \in Handlers : Busy(h) => handler[h] \in Batch
    BY BatchTypes
  <2> QED BY <2>1, <2>3, <2>4
<1> QED BY <1>1, <1>2, <1>3 DEF Next, TypeOK, Alone

(* What is accepted and what is lost is counted.                           *)
LEMMA Counted ==
  ASSUME TypeOK, NEW k \in Keys
  PROVE  /\ Accepted(k) => sends' \in [Keys -> Nat] /\ sends'[k] = sends[k] + 1
                           /\ \A l \in Keys \ {k} : sends'[l] = sends[l]
         /\ NeverConfirmed(k) => unconfirmed' \in [Keys -> Nat]
                                 /\ unconfirmed'[k] = unconfirmed[k] + 1
                                 /\ \A l \in Keys \ {k} : unconfirmed'[l] = unconfirmed[l]
BY DEF Accepted, NeverConfirmed, TypeOK

LEMMA CountTypes ==
  ASSUME TypeOK, Next
  PROVE  sends' \in [Keys -> Nat] /\ unconfirmed' \in [Keys -> Nat] /\ faults' \in 0..MaxFaults
<1>1. ASSUME NEW kind, Fault(kind) PROVE faults' \in 0..MaxFaults
  BY <1>1, EmailAssumption DEF Fault, TypeOK
<1>2. ASSUME NEW h \in Handlers, Send(h) \/ SendFails(h) \/ ConfirmFails(h) \/ Crash(h)
      PROVE  sends' \in [Keys -> Nat] /\ unconfirmed' \in [Keys -> Nat] /\ faults' \in 0..MaxFaults
  <2>1. handler[h].key \in Keys
    BY <1>2, BatchTypes DEF Send, SendFails, SendDone, ConfirmFails, Crash, At
  <2> QED BY <1>1, <1>2, <2>1, Counted DEF Send, SendFails, ConfirmFails, Crash, TypeOK
<1>3. ASSUME NEW h \in Handlers, NEW k \in Keys, Claim(h, k) \/ LoseClaim(h, k) \/ ClaimFails(h, k)
      PROVE  sends' \in [Keys -> Nat] /\ unconfirmed' \in [Keys -> Nat] /\ faults' \in 0..MaxFaults
  BY <1>1, <1>3 DEF Claim, LoseClaim, ClaimFails, TypeOK
<1>4. ASSUME NEW h \in Handlers, Handle(h), ~ Send(h), ~ SendFails(h), ~ ConfirmFails(h)
      PROVE  sends' \in [Keys -> Nat] /\ unconfirmed' \in [Keys -> Nat] /\ faults' \in 0..MaxFaults
  BY <1>1, <1>3, <1>4
  DEF Handle, LookUp, Rollback, Confirm, Ack, Finish, StatementFails, JobFails, TypeOK
<1>5. ASSUME NEW k \in Keys, Enqueue(k) \/ Expire(k)
      PROVE  UNCHANGED <<sends, unconfirmed, faults>>
  BY <1>5 DEF Enqueue, Expire
<1>6. ASSUME Advance \/ \E h \in Handlers : Fetch(h)
      PROVE  UNCHANGED <<sends, unconfirmed, faults>>
  BY <1>6 DEF Advance, Fetch
<1> QED BY <1>2, <1>4, <1>5, <1>6 DEF Next, TypeOK

LEMMA TypesKept ==
  ASSUME TypeOK, [Next]_vars PROVE TypeOK'
<1>1. CASE Next
  BY <1>1, JobTypes, ClaimTypes, HandlerTypes, CountTypes DEF TypeOK
<1>2. CASE UNCHANGED vars
  BY <1>2 DEF vars, TypeOK
<1> QED BY <1>1, <1>2

-----------------------------------------------------------------------------
(* The claims and their holders.                                           *)

(* A live send is never taken over.                                        *)
LEMMA LiveClaims ==
  ASSUME IInv, NEW h \in Handlers, InHand(h)
  PROVE  /\ claim[handler[h].key].state = "claimed" /\ 0 < claim[handler[h].key].timer
         /\ ~ Claimable(claim[handler[h].key])
<1>1. handler[h].left \in Nat /\ handler[h].key \in Keys
  BY BatchTypes DEF IInv, InHand, At
<1>2. claim[handler[h].key].timer \in Nat
  BY <1>1, EmailAssumption DEF IInv, TypeOK, ClaimRow
<1>3. 0 < claim[handler[h].key].timer
  BY <1>1, <1>2 DEF IInv, HandInv, InHand
<1> QED BY <1>3 DEF IInv, HandInv, Claimable

LEMMA SoleHolder ==
  ASSUME IInv, NEW g \in Handlers, NEW h \in Handlers, InHand(g), Held(h), Ours(h),
         handler[g].key = handler[h].key
  PROVE  g = h
BY DEF IInv, HandInv, OneHolder, Held, Ours

(* A handler that holds its claim did so before, by the same number.       *)
Holds(g) ==
  Held(g)' => Held(g) /\ handler'[g].key = handler[g].key /\ handler'[g].stamp = handler[g].stamp

LEMMA OneHolderKept ==
  ASSUME OneHolder, \A g \in Handlers : Holds(g) PROVE OneHolder'
BY DEF OneHolder, Holds

(* Another handler's step does not touch what this one holds.              *)
LEMMA Unmoved ==
  ASSUME NEW g \in Handlers, handler'[g] = handler[g]
  PROVE  /\ Holds(g) /\ (InHand(g)' <=> InHand(g)) /\ (Held(g)' <=> Held(g))
         /\ \A phase \in Phases : At(g, phase)' <=> At(g, phase)
BY DEF Holds, Held, InHand, At, Busy, Phases

LEMMA HandKept ==
  ASSUME NEW g \in Handlers, HandInv(g), handler'[g] = handler[g],
         claim'[handler[g].key] = claim[handler[g].key]
  PROVE  HandInv(g)'
BY Unmoved DEF HandInv, Held, InHand, At, Busy, Ours

(* The table is left alone, and the handler lets its claim go, or goes on  *)
(* from sending by the same number.                                        *)
LEMMA HandsKept ==
  ASSUME IInv, NEW h \in Handlers, claim' = claim, Alone(h),
         \/ ~ Held(h)'
         \/ At(h, "sending") /\ (Went(h, "sent") \/ Went(h, "rollback"))
  PROVE  (\A g \in Handlers : HandInv(g)') /\ OneHolder'
<1>1. \A g \in Handlers \ {h} : HandInv(g)' /\ Holds(g)
  BY HandKept, Unmoved DEF IInv, Alone
<1>2. HandInv(h)' /\ Holds(h)
  <2>1. CASE ~ Held(h)'
    BY <2>1 DEF HandInv, Held, InHand, Holds
  <2>2. CASE At(h, "sending") /\ (Went(h, "sent") \/ Went(h, "rollback"))
    <3>1. InHand(h) /\ Held(h) /\ HandInv(h)
      BY <2>2 DEF InHand, Held, IInv
    <3>2. 0 < claim[handler[h].key].timer
      BY <3>1, LiveClaims
    <3>3. /\ handler'[h].key = handler[h].key /\ handler'[h].stamp = handler[h].stamp
          /\ ~ At(h, "sending")'
      BY <2>2 DEF Went, At
    <3> QED BY <3>1, <3>2, <3>3 DEF HandInv, Holds, Ours
  <2> QED BY <2>1, <2>2
<1> QED BY <1>1, <1>2, OneHolderKept DEF IInv

(* The handler settles the claim that is its own, and lets it go.          *)
LEMMA HandsSettled ==
  ASSUME IInv, NEW h \in Handlers, Held(h), Ours(h), Alone(h), ~ Held(h)',
         NEW row \in ClaimRow, row.stamp = claim[handler[h].key].stamp,
         claim' = [claim EXCEPT ![handler[h].key] = row]
  PROVE  (\A g \in Handlers : HandInv(g)') /\ OneHolder'
<1>1. handler[h].key \in Keys
  BY BatchTypes DEF IInv, Held, InHand, At
<1>2. ASSUME NEW g \in Handlers \ {h} PROVE HandInv(g)' /\ Holds(g)
  <2>1. handler'[g] = handler[g] /\ Holds(g) /\ HandInv(g)
    BY Unmoved DEF IInv, Alone
  <2>2. CASE handler[g].key # handler[h].key
    BY <2>1, <2>2, HandKept
  <2>3. CASE handler[g].key = handler[h].key
    <3>1. ~ InHand(g)
      BY <2>3, SoleHolder
    <3>2. ~ InHand(g)' /\ (Held(g)' => Held(g))
      BY <2>1, <3>1, Unmoved
    <3>3. claim'[handler[g].key].stamp = claim[handler[g].key].stamp
      BY <1>1, <2>3 DEF IInv, TypeOK
    <3> QED BY <2>1, <3>2, <3>3 DEF HandInv, InHand
  <2> QED BY <2>1, <2>2, <2>3
<1>3. HandInv(h)' /\ Holds(h)
  BY DEF HandInv, Held, InHand, Holds
<1> QED BY <1>2, <1>3, OneHolderKept DEF IInv

(* The handler takes a claim with a number that nobody has.                *)
LEMMA HandsClaim ==
  ASSUME IInv, NEW h \in Handlers, NEW k \in Keys, Claim(h, k)
  PROVE  (\A g \in Handlers : HandInv(g)') /\ OneHolder'
<1>1. /\ Took(h, k, "sending") /\ handler'[h].stamp = claim[k].stamp + 1
      /\ handler'[h].left \in 1..(TakeoverAfter - 1)
  BY TakeSteps DEF IInv
<1>2. /\ Claimable(claim[k])
      /\ claim' = [claim EXCEPT ![k] =
                     [state |-> "claimed", stamp |-> @.stamp + 1, timer |-> TakeoverAfter]]
  BY DEF Claim
<1>3. /\ claim'[k].state = "claimed" /\ claim'[k].stamp = claim[k].stamp + 1
      /\ claim'[k].timer = TakeoverAfter /\ claim[k].stamp \in Nat
      /\ \A l \in Keys \ {k} : claim'[l] = claim[l]
  BY <1>2 DEF IInv, TypeOK, ClaimRow
<1>4. ASSUME NEW g \in Handlers \ {h}
      PROVE  /\ HandInv(g)' /\ Holds(g)
             /\ Held(g)' /\ handler'[g].key = k => handler'[g].stamp # claim[k].stamp + 1
  <2>1. handler'[g] = handler[g] /\ Holds(g) /\ HandInv(g)
    BY <1>1, Unmoved DEF IInv, Alone, Took
  <2>2. CASE Held(g) /\ handler[g].key # k
    <3>1. handler[g].key \in Keys
      BY <2>2, BatchTypes DEF IInv, Held, InHand, At
    <3> QED BY <1>3, <2>1, <2>2, <3>1, HandKept
  <2>3. CASE Held(g) /\ handler[g].key = k
    <3>1. ~ InHand(g)
      BY <1>2, <2>3, LiveClaims
    <3>2. ~ InHand(g)' /\ (Held(g)' => Held(g))
      BY <2>1, <3>1, Unmoved
    <3>3. handler[g].stamp <= claim[k].stamp /\ handler[g].stamp \in Nat
      BY <2>1, <2>3, BatchTypes DEF IInv, HandInv, Held, InHand, At
    <3> QED BY <1>3, <2>1, <2>3, <3>2, <3>3 DEF HandInv, InHand
  <2>4. CASE ~ Held(g)
    <3>1. ~ Held(g)'
      BY <2>1, <2>4, Unmoved
    <3> QED BY <2>1, <3>1 DEF HandInv, Held, InHand
  <2> QED BY <2>2, <2>3, <2>4
<1>5. HandInv(h)' /\ handler'[h].key = k
  <2>1. At(h, "sending")' /\ handler'[h].key = k /\ ~ At(h, "sent")' /\ ~ At(h, "rollback")'
    BY <1>1 DEF Took, At
  <2>2. handler'[h].left < TakeoverAfter
    BY <1>1, EmailAssumption
  <2> QED BY <1>1, <1>3, <2>1, <2>2 DEF HandInv, Held, InHand, Ours
<1>6. OneHolder'
  <2>1. SUFFICES ASSUME NEW f \in Handlers, NEW g \in Handlers, Held(f)', Held(g)',
                        handler'[f].key = handler'[g].key, handler'[f].stamp = handler'[g].stamp
                 PROVE  f = g
    BY DEF OneHolder
  <2>2. CASE f # h /\ g # h
    BY <1>4, <2>1, <2>2 DEF Holds, IInv, OneHolder
  <2>3. CASE f = h \/ g = h
    BY <1>1, <1>4, <1>5, <2>1, <2>3
  <2> QED BY <2>2, <2>3
<1> QED BY <1>4, <1>5, <1>6

(* Time takes as much from a send as from its claim.                       *)
LEMMA HandsAdvance ==
  ASSUME IInv, Advance
  PROVE  /\ (\A g \in Handlers : HandInv(g)') /\ OneHolder'
         /\ \A k \in Keys : Accounted(k) => Accounted(k)'
<1>1. PICK d \in Nat :
        /\ d > 0
        /\ claim' = [k \in Keys |-> [claim[k] EXCEPT !.timer = Less(@, d)]]
        /\ handler' = [h \in Handlers |->
                         IF Busy(h) THEN [handler[h] EXCEPT !.left = Less(@, d)] ELSE NoBatch]
        /\ \A h \in Handlers : Busy(h) => At(h, "sending") /\ d <= handler[h].left
  BY AdvanceSteps DEF IInv
<1>2. ASSUME NEW k \in Keys
      PROVE  /\ claim'[k].state = claim[k].state /\ claim'[k].stamp = claim[k].stamp
             /\ claim'[k].timer = Less(claim[k].timer, d) /\ claim[k].timer \in Nat
  BY <1>1, EmailAssumption DEF IInv, TypeOK, ClaimRow
<1>3. ASSUME NEW h \in Handlers PROVE HandInv(h)' /\ Holds(h) /\ ~ At(h, "sent")
  <2>1. CASE Busy(h)
    <3>1. /\ handler[h] \in Batch /\ handler[h].key \in Keys /\ handler[h].left \in Nat
          /\ At(h, "sending") /\ d <= handler[h].left
      BY <1>1, <2>1, BatchTypes DEF IInv
    <3>2. handler'[h] = [handler[h] EXCEPT !.left = Less(@, d)]
      BY <1>1, <2>1
    <3>3. /\ handler'[h].key = handler[h].key /\ handler'[h].stamp = handler[h].stamp
          /\ handler'[h].phase = handler[h].phase /\ handler'[h].jobs = handler[h].jobs
          /\ handler'[h].left = Less(handler[h].left, d)
      BY <3>1, <3>2 DEF Batch
    <3>4. /\ handler[h].left < claim[handler[h].key].timer
          /\ claim[handler[h].key].state = "claimed" /\ Ours(h)
          /\ handler[h].stamp <= claim[handler[h].key].stamp
      BY <3>1 DEF IInv, HandInv, InHand, Held
    <3>5. Less(handler[h].left, d) < Less(claim[handler[h].key].timer, d)
      BY <1>2, <3>1, <3>4 DEF Less
    <3>6. At(h, "sending")' /\ Held(h) /\ ~ At(h, "sent") /\ ~ At(h, "sent")' /\ ~ At(h, "rollback")'
      BY <3>1, <3>3 DEF At, Busy, Held, InHand
    <3> QED BY <1>2, <3>1, <3>3, <3>4, <3>5, <3>6 DEF HandInv, Holds, Ours
  <2>2. CASE ~ Busy(h)
    <3>1. ~ Busy(h)'
      BY <1>1, <2>2 DEF Busy, NoBatch
    <3> QED BY <2>2, <3>1 DEF HandInv, Held, InHand, Holds, At
  <2> QED BY <2>1, <2>2
<1> QED BY <1>2, <1>3, OneHolderKept DEF IInv, Accounted

-----------------------------------------------------------------------------
(* What was sent is accounted for.                                         *)

LEMMA SendsKept ==
  ASSUME SendsInv, UNCHANGED <<sends, unconfirmed>>,
         \A k \in Keys : Accounted(k) => Accounted(k)'
  PROVE  SendsInv'
BY DEF SendsInv

(* A key that a handler is sending is not accounted for yet.               *)
LEMMA SendingIsOpen ==
  ASSUME IInv, NEW h \in Handlers, At(h, "sending")
  PROVE  ~ Accounted(handler[h].key)
<1>1. claim[handler[h].key].state = "claimed" /\ Held(h) /\ Ours(h)
  BY LiveClaims DEF InHand, Held, IInv, HandInv
<1>2. ASSUME NEW g \in Handlers, At(g, "sent"), handler[g].key = handler[h].key PROVE FALSE
  BY <1>1, <1>2, SoleHolder DEF InHand, At
<1> QED BY <1>1, <1>2 DEF Accounted

(* Another handler's key stays accounted for.                              *)
LEMMA AccountedKept ==
  ASSUME NEW h \in Handlers, Alone(h), NEW k \in Keys, Accounted(k),
         claim[k].state = "sent" => claim'[k].state = "sent",
         At(h, "sent") /\ handler[h].key = k => At(h, "sent")' /\ handler'[h].key = k
  PROVE  Accounted(k)'
<1>1. \A g \in Handlers \ {h} : (At(g, "sent")' <=> At(g, "sent")) /\ handler'[g] = handler[g]
  BY DEF Alone, At, Busy
<1> QED BY <1>1 DEF Accounted

(* A handler's step that neither sends nor loses a confirmation.           *)
LEMMA QuietSteps ==
  ASSUME IInv, NEW h \in Handlers, Alone(h), ~ At(h, "sent"), UNCHANGED <<sends, unconfirmed>>,
         \A k \in Keys : claim[k].state = "sent" => claim'[k].state = "sent"
  PROVE  SendsInv'
BY AccountedKept, SendsKept DEF IInv

(* A send is accepted, and its confirmation is to come, or lost.           *)
LEMMA AcceptedSteps ==
  ASSUME IInv, NEW h \in Handlers, At(h, "sending"), Alone(h), claim' = claim,
         Accepted(handler[h].key),
         \/ UNCHANGED unconfirmed /\ Went(h, "sent")
         \/ NeverConfirmed(handler[h].key)
  PROVE  SendsInv'
<1>1. PICK k \in Keys : k = handler[h].key
  BY BatchTypes DEF IInv, At
<1>2. ~ At(h, "sent")
  BY DEF At
<1>3. sends[k] \in Nat /\ unconfirmed[k] \in Nat /\ sends[k] <= unconfirmed[k]
  BY <1>1, SendingIsOpen DEF IInv, TypeOK, SendsInv
<1>4. /\ sends'[k] = sends[k] + 1 /\ \A l \in Keys \ {k} : sends'[l] = sends[l]
      /\ \/ UNCHANGED unconfirmed /\ Went(h, "sent")
         \/ unconfirmed'[k] = unconfirmed[k] + 1
            /\ \A l \in Keys \ {k} : unconfirmed'[l] = unconfirmed[l]
  BY <1>1, Counted DEF IInv
<1>5. Went(h, "sent") => Accounted(k)'
  BY <1>1 DEF Went, Accounted, At
<1>6. \A l \in Keys : Accounted(l) => Accounted(l)'
  BY <1>2, AccountedKept
<1> QED BY <1>3, <1>4, <1>5, <1>6 DEF IInv, SendsInv

(* The confirmation of a send is lost.                                     *)
LEMMA LostSteps ==
  ASSUME IInv, NEW h \in Handlers, At(h, "sent"), Alone(h), UNCHANGED <<claim, sends>>,
         NeverConfirmed(handler[h].key)
  PROVE  SendsInv'
<1>1. PICK k \in Keys : k = handler[h].key
  BY BatchTypes DEF IInv, At
<1>2. sends[k] \in Nat /\ unconfirmed[k] \in Nat /\ sends[k] <= unconfirmed[k] + 1
  BY DEF IInv, TypeOK, SendsInv
<1>3. /\ unconfirmed'[k] = unconfirmed[k] + 1
      /\ \A l \in Keys \ {k} : unconfirmed'[l] = unconfirmed[l]
  BY <1>1, Counted DEF IInv
<1>4. \A l \in Keys \ {k} : Accounted(l) => Accounted(l)'
  BY <1>1, AccountedKept
<1> QED BY <1>2, <1>3, <1>4 DEF IInv, SendsInv

-----------------------------------------------------------------------------
(* Every action.                                                           *)

Rest == (\A h \in Handlers : HandInv(h)) /\ OneHolder /\ SendsInv

(* A step that holds nothing after it, and sends and claims nothing.       *)
LEMMA LetGo ==
  ASSUME IInv, NEW h \in Handlers, Alone(h), ~ At(h, "sent"), ~ Held(h)',
         UNCHANGED <<claim, sends, unconfirmed>>
  PROVE  Rest'
BY HandsKept, QuietSteps DEF Rest

LEMMA TakeIInv ==
  ASSUME IInv, NEW h \in Handlers, NEW k \in Keys,
         Claim(h, k) \/ LoseClaim(h, k) \/ ClaimFails(h, k)
  PROVE  Rest'
<1>1. At(h, "next") /\ ~ At(h, "sent") /\ UNCHANGED <<sends, unconfirmed>>
  BY DEF Claim, LoseClaim, ClaimFails, At
<1>2. CASE Claim(h, k)
  <2>1. Alone(h)
    BY <1>2, TakeSteps DEF IInv, Took
  <2>2. \A l \in Keys : claim[l].state = "sent" => claim'[l].state = "sent"
    BY <1>2 DEF Claim, Claimable, IInv, TypeOK
  <2> QED BY <1>1, <1>2, <2>1, <2>2, HandsClaim, QuietSteps DEF Rest
<1>3. CASE LoseClaim(h, k) \/ ClaimFails(h, k)
  <2>1. (Took(h, k, "lost") \/ Took(h, k, "failed")) /\ claim' = claim
    BY <1>3, TakeSteps DEF IInv, LoseClaim, ClaimFails
  <2>2. Alone(h) /\ ~ Held(h)'
    BY <2>1 DEF Took, Held, InHand, At
  <2> QED BY <1>1, <2>1, <2>2, LetGo
<1> QED BY <1>2, <1>3

LEMMA SendIInv ==
  ASSUME IInv, NEW h \in Handlers, Send(h) \/ SendFails(h)
  PROVE  Rest'
<1>1. At(h, "sending") /\ ~ At(h, "sent") /\ claim' = claim
  BY DEF Send, SendFails, SendDone, At
<1>2. (Send(h) => Went(h, "sent")) /\ (SendFails(h) => Went(h, "rollback"))
  BY WentSteps DEF IInv
<1>3. Alone(h)
  BY <1>2 DEF Went
<1>4. SendsInv'
  <2>1. CASE Send(h)
    BY <1>1, <1>2, <1>3, <2>1, AcceptedSteps DEF Send
  <2>2. CASE SendFails(h) /\ UNCHANGED <<sends, unconfirmed>>
    BY <1>1, <1>3, <2>2, QuietSteps
  <2>3. CASE SendFails(h) /\ Accepted(handler[h].key) /\ NeverConfirmed(handler[h].key)
    BY <1>1, <1>3, <2>3, AcceptedSteps
  <2> QED BY <2>1, <2>2, <2>3 DEF SendFails
<1> QED BY <1>1, <1>2, <1>3, <1>4, HandsKept DEF Rest

LEMMA RollbackIInv ==
  ASSUME IInv, NEW h \in Handlers, Rollback(h) PROVE Rest'
<1>1. At(h, "rollback") /\ ~ At(h, "sent") /\ Held(h) /\ UNCHANGED <<sends, unconfirmed>>
  BY DEF Rollback, Held, At
<1>2. Alone(h) /\ ~ Held(h)'
  BY WentSteps DEF IInv, Went, Held, InHand, At
<1>3. PICK k \in Keys : k = handler[h].key
  BY <1>1, BatchTypes DEF IInv, At
<1>4. claim[k] \in ClaimRow
  BY DEF IInv, TypeOK
<1>5. CASE Ours(h) /\ claim[k].state = "claimed"
  <2>1. PICK row : row = [claim[k] EXCEPT !.state = "none", !.timer = 0]
    OBVIOUS
  <2>2. row \in ClaimRow /\ row.stamp = claim[k].stamp
    BY <1>4, <2>1, SettledRows DEF ClaimRow
  <2>3. claim' = [claim EXCEPT ![handler[h].key] = row]
    BY <1>3, <1>5, <2>1 DEF Rollback
  <2>4. \A l \in Keys : claim[l].state = "sent" => claim'[l].state = "sent"
    BY <1>3, <1>5, <2>3 DEF IInv, TypeOK
  <2>5. (\A g \in Handlers : HandInv(g)') /\ OneHolder'
    BY <1>1, <1>2, <1>3, <1>5, <2>2, <2>3, HandsSettled
  <2> QED BY <1>1, <1>2, <2>4, <2>5, QuietSteps DEF Rest
<1>6. CASE ~ (Ours(h) /\ claim[k].state = "claimed")
  <2>1. claim' = claim
    BY <1>3, <1>6 DEF Rollback, IInv, TypeOK
  <2> QED BY <1>1, <1>2, <2>1, LetGo
<1> QED BY <1>5, <1>6

LEMMA ConfirmIInv ==
  ASSUME IInv, NEW h \in Handlers, Confirm(h) PROVE Rest'
<1>1. At(h, "sent") /\ Held(h) /\ UNCHANGED <<sends, unconfirmed>> /\ Ours(h)
  BY DEF Confirm, Held, InHand, IInv, HandInv
<1>2. Alone(h) /\ ~ Held(h)'
  BY WentSteps DEF IInv, Went, Held, InHand, At
<1>3. PICK k \in Keys : k = handler[h].key
  BY <1>1, BatchTypes DEF IInv, At
<1>4. PICK row : row = [claim[k] EXCEPT !.state = "sent", !.timer = 0]
  OBVIOUS
<1>5. row \in ClaimRow /\ row.stamp = claim[k].stamp /\ row.state = "sent"
  <2>1. claim[k] \in ClaimRow
    BY DEF IInv, TypeOK
  <2> QED BY <1>4, <2>1, SettledRows DEF ClaimRow
<1>6. claim' = [claim EXCEPT ![handler[h].key] = row]
  BY <1>1, <1>3, <1>4 DEF Confirm
<1>7. claim'[k].state = "sent" /\ \A l \in Keys \ {k} : claim'[l] = claim[l]
  BY <1>3, <1>5, <1>6 DEF IInv, TypeOK
<1>8. \A l \in Keys : Accounted(l) => Accounted(l)'
  <2>1. Accounted(k)'
    BY <1>7 DEF Accounted
  <2>2. \A l \in Keys \ {k} : Accounted(l) => Accounted(l)'
    BY <1>2, <1>3, <1>7, AccountedKept
  <2> QED BY <2>1, <2>2
<1>9. (\A g \in Handlers : HandInv(g)') /\ OneHolder'
  BY <1>1, <1>2, <1>3, <1>5, <1>6, HandsSettled
<1> QED BY <1>1, <1>8, <1>9, SendsKept DEF IInv, Rest

LEMMA CrashIInv ==
  ASSUME IInv, NEW h \in Handlers, Crash(h) PROVE Rest'
<1>1. Alone(h) /\ ~ Busy(h)' /\ claim' = claim
  BY NoBatchSteps DEF IInv, Crash
<1>2. ~ Held(h)'
  BY <1>1 DEF Held, InHand, At
<1>3. SendsInv'
  <2>1. CASE ~ At(h, "sent") /\ UNCHANGED <<sends, unconfirmed>>
    BY <1>1, <2>1, QuietSteps
  <2>2. CASE At(h, "sending") /\ Accepted(handler[h].key) /\ NeverConfirmed(handler[h].key)
    BY <1>1, <2>2, AcceptedSteps
  <2>3. CASE At(h, "sent") /\ UNCHANGED sends /\ NeverConfirmed(handler[h].key)
    BY <1>1, <2>3, LostSteps
  <2> QED BY <2>1, <2>2, <2>3 DEF Crash
<1> QED BY <1>1, <1>2, <1>3, HandsKept DEF Rest

LEMMA HandleIInv ==
  ASSUME IInv, NEW h \in Handlers, Handle(h) PROVE Rest'
<1>1. ASSUME NEW k \in Keys, Claim(h, k) \/ LoseClaim(h, k) \/ ClaimFails(h, k) PROVE Rest'
  BY <1>1, TakeIInv
<1>2. ASSUME LookUp(h) \/ Ack(h) \/ StatementFails(h) PROVE Rest'
  <2>1. ~ At(h, "sent") /\ UNCHANGED <<claim, sends, unconfirmed>>
    BY <1>2 DEF LookUp, Ack, StatementFails, At
  <2>2. Went(h, "ack") \/ Went(h, "failed") \/ Went(h, "next")
    BY <1>2, WentSteps DEF IInv
  <2>3. Alone(h) /\ ~ Held(h)'
    BY <2>2 DEF Went, Held, InHand, At
  <2> QED BY <2>1, <2>3, LetGo
<1>3. ASSUME ConfirmFails(h) PROVE Rest'
  <2>1. /\ At(h, "sent") /\ UNCHANGED <<claim, sends>> /\ NeverConfirmed(handler[h].key)
        /\ Went(h, "failed")
    BY <1>3, WentSteps DEF IInv, ConfirmFails
  <2>2. Alone(h) /\ ~ Held(h)'
    BY <2>1 DEF Went, Held, InHand, At
  <2> QED BY <2>1, <2>2, LostSteps, HandsKept DEF Rest
<1>4. ASSUME JobFails(h) PROVE Rest'
  <2>1. ~ At(h, "sent") /\ UNCHANGED <<claim, sends, unconfirmed>>
    BY <1>4 DEF JobFails, At
  <2>2. Alone(h) /\ ~ Held(h)'
    BY <1>4, JobFailsSteps DEF IInv, Held, InHand, At
  <2> QED BY <2>1, <2>2, LetGo
<1>5. ASSUME Finish(h) PROVE Rest'
  <2>1. ~ At(h, "sent") /\ UNCHANGED <<claim, sends, unconfirmed>>
    BY <1>5 DEF Finish, At
  <2>2. Alone(h) /\ ~ Held(h)'
    BY <1>5, NoBatchSteps DEF IInv, Held, InHand, At
  <2> QED BY <2>1, <2>2, LetGo
<1> QED BY <1>1, <1>2, <1>3, <1>4, <1>5, SendIInv, RollbackIInv, ConfirmIInv DEF Handle

LEMMA IInvInit == Init => IInv
<1> SUFFICES ASSUME Init PROVE IInv
  OBVIOUS
<1>1. \A h \in Handlers : ~ Busy(h)
  BY DEF Init, Busy, NoBatch
<1>2. (\A h \in Handlers : HandInv(h)) /\ OneHolder
  BY <1>1 DEF HandInv, OneHolder, Held, InHand, At
<1>3. SendsInv
  BY DEF Init, SendsInv
<1>4. job \in [Keys -> Job] /\ claim \in [Keys -> ClaimRow]
  <2>1. [state |-> "absent", retries |-> 0, timer |-> 0] \in Job
    BY EmailAssumption DEF Job
  <2>2. [state |-> "none", stamp |-> 0, timer |-> 0] \in ClaimRow
    BY EmailAssumption DEF ClaimRow
  <2> QED BY <2>1, <2>2 DEF Init
<1>5. TypeOK
  BY <1>4, EmailAssumption DEF Init, TypeOK
<1> QED BY <1>2, <1>3, <1>5 DEF IInv

LEMMA IInvStep == IInv /\ [Next]_vars => IInv'
<1> SUFFICES ASSUME IInv, [Next]_vars PROVE IInv'
  OBVIOUS
<1>1. TypeOK'
  BY TypesKept DEF IInv
<1>2. Rest'
  <2>1. ASSUME UNCHANGED <<claim, handler, sends, unconfirmed>> PROVE Rest'
    <3>1. \A h \in Handlers : HandInv(h)'
      BY <2>1 DEF IInv, HandInv, Held, InHand, At, Busy, Ours
    <3>2. OneHolder'
      BY <2>1 DEF IInv, OneHolder, Held, InHand, At, Busy
    <3>3. SendsInv'
      BY <2>1 DEF IInv, SendsInv, Accounted, At, Busy
    <3> QED BY <3>1, <3>2, <3>3 DEF Rest
  <2>2. ASSUME NEW k \in Keys, Enqueue(k) \/ Expire(k) PROVE Rest'
    BY <2>1, <2>2 DEF Enqueue, Expire
  <2>3. ASSUME NEW h \in Handlers, Fetch(h) PROVE Rest'
    <3>1. ~ At(h, "sent") /\ UNCHANGED <<claim, sends, unconfirmed>>
      BY <2>3 DEF Fetch, At
    <3>2. Alone(h) /\ ~ Held(h)'
      BY <2>3, FetchSteps DEF IInv, Held, InHand, At
    <3> QED BY <3>1, <3>2, LetGo
  <2>4. CASE Advance
    BY <2>4, HandsAdvance, SendsKept DEF IInv, Rest, Advance
  <2>5. CASE UNCHANGED vars
    BY <2>1, <2>5 DEF vars
  <2> QED BY <2>2, <2>3, <2>4, <2>5, HandleIInv, CrashIInv DEF Next
<1> QED BY <1>1, <1>2 DEF IInv, Rest

LEMMA IInvStrayDuplicates == IInv => NoStrayDuplicates
<1> SUFFICES ASSUME IInv PROVE NoStrayDuplicates
  OBVIOUS
<1>1. OneSender
  BY SoleHolder DEF OneSender, Held, IInv, HandInv
<1>2. DuplicatesExplained
  BY DEF IInv, SendsInv, DuplicatesExplained, TypeOK
<1> QED BY <1>1, <1>2 DEF NoStrayDuplicates

-----------------------------------------------------------------------------

(* An email is in the hand of one handler at a time, and its recipient     *)
(* gets it a second time only after the confirmation of a send was lost:   *)
(* sendEmailOnce takes a claim over only when the send that holds it has   *)
(* given up, and confirms and rolls back only what is still its own.       *)
THEOREM NoDuplicates == Spec => []NoStrayDuplicates
<1>1. Spec => []IInv
  BY IInvInit, IInvStep, PTL DEF Spec
<1> QED BY <1>1, IInvStrayDuplicates, PTL

-----------------------------------------------------------------------------
(* What is completed was sent.                                             *)

Sender(h) == At(h, "sent") \/ At(h, "ack") => sends[handler[h].key] > 0

(* A job of a batch is still to do, has failed, or had its email accepted, *)
(* unless it is the one the loop is at.                                    *)
Looped(h) ==
  Busy(h) => \A k \in handler[h].jobs :
    \/ k \in handler[h].todo \/ k \in handler[h].failures \/ sends[k] > 0
    \/ ~ At(h, "next") /\ handler[h].key = k

RowsSent == \A k \in Keys : claim[k].state = "sent" => sends[k] > 0

DoneInv ==
  /\ TypeOK
  /\ CompletedWasSent
  /\ RowsSent
  /\ \A h \in Handlers : Sender(h) /\ Looped(h)

(* Accepted emails are never taken back.                                   *)
Grown == \A k \in Keys : sends[k] > 0 => sends'[k] > 0

LEMMA SendsGrow ==
  ASSUME TypeOK, [Next]_vars PROVE Grown
<1>1. ASSUME NEW h \in Handlers, Busy(h), Accepted(handler[h].key) PROVE Grown
  <2>1. PICK k \in Keys : k = handler[h].key
    BY <1>1, BatchTypes
  <2> QED BY <1>1, <2>1, Counted DEF Grown, TypeOK
<1>2. ASSUME sends' = sends PROVE Grown
  BY <1>2 DEF Grown
<1>3. ASSUME NEW h \in Handlers, Handle(h) \/ Crash(h) PROVE Grown
  <2>1. CASE Send(h) \/ SendFails(h) \/ Crash(h)
    BY <1>1, <1>2, <2>1 DEF Send, SendFails, SendDone, Crash, At
  <2>2. CASE Handle(h) /\ ~ Send(h) /\ ~ SendFails(h)
    <3>1. sends' = sends
      BY <2>2 DEF Handle, Claim, LoseClaim, ClaimFails, LookUp, Rollback, Confirm, ConfirmFails,
                  Ack, StatementFails, JobFails, Finish
    <3> QED BY <1>2, <3>1
  <2> QED BY <1>3, <2>1, <2>2
<1>4. ASSUME ~ \E h \in Handlers : Handle(h) \/ Crash(h) PROVE sends' = sends
  BY <1>4 DEF Next, vars, Enqueue, Expire, Fetch, Advance
<1> QED BY <1>2, <1>3, <1>4

LEMMA DoneAlone ==
  ASSUME DoneInv, Grown, NEW h \in Handlers, Alone(h), Sender(h)', Looped(h)'
  PROVE  \A g \in Handlers : Sender(g)' /\ Looped(g)'
<1> SUFFICES ASSUME NEW g \in Handlers \ {h} PROVE Sender(g)' /\ Looped(g)'
  OBVIOUS
<1>1. handler'[g] = handler[g] /\ Sender(g) /\ Looped(g)
  BY DEF Alone, DoneInv
<1>2. Busy(g) => handler[g].key \in Keys /\ handler[g].jobs \subseteq Keys
  BY BatchTypes DEF DoneInv
<1> QED BY <1>1, <1>2 DEF Sender, Looped, Grown, At, Busy

(* The loop stays at the email, on the way to a phase that is not the next.*)
LEMMA DoneWent ==
  ASSUME DoneInv, Grown, NEW h \in Handlers, NEW phase \in Phases, Went(h, phase),
         Busy(h), ~ At(h, "next"), phase # "next",
         phase \in {"sent", "ack"} => sends'[handler[h].key] > 0
  PROVE  \A g \in Handlers : Sender(g)' /\ Looped(g)'
<1>1. handler[h].jobs \subseteq Keys /\ Looped(h)
  BY BatchTypes DEF DoneInv
<1>2. Sender(h)'
  BY DEF Went, Sender, At
<1>3. Looped(h)'
  BY <1>1 DEF Went, SameLoop, Looped, Grown, At, Busy
<1> QED BY <1>2, <1>3, DoneAlone DEF Went

LEMMA HandleDone ==
  ASSUME DoneInv, NEW h \in Handlers, Handle(h)
  PROVE  \A g \in Handlers : Sender(g)' /\ Looped(g)'
<1>0. Grown
  BY SendsGrow DEF DoneInv, Next
<1> USE DEF DoneInv
<1>1. ASSUME NEW k \in Keys, Claim(h, k) \/ LoseClaim(h, k) \/ ClaimFails(h, k)
      PROVE  \A g \in Handlers : Sender(g)' /\ Looped(g)'
  <2>1. PICK phase \in {"sending", "lost", "failed"} : Took(h, k, phase)
    BY <1>1, TakeSteps
  <2>2. At(h, "next") /\ Busy(h) /\ Looped(h)
    BY <1>1 DEF Claim, LoseClaim, ClaimFails, At
  <2>3. handler[h].jobs \subseteq Keys
    BY <2>2, BatchTypes
  <2>4. Sender(h)'
    BY <2>1 DEF Took, Sender, At
  <2>5. Looped(h)'
    BY <1>0, <2>1, <2>2, <2>3 DEF Took, Looped, Grown, At, Busy
  <2> QED BY <1>0, <2>1, <2>4, <2>5, DoneAlone DEF Took
<1>2. CASE LookUp(h)
  <2>1. PICK phase : phase = (IF Skipped(claim[handler[h].key]) THEN "ack" ELSE "failed")
    OBVIOUS
  <2>2. At(h, "lost") /\ Busy(h) /\ phase \in Phases /\ Goto(h, phase) /\ sends' = sends
    BY <1>2, <2>1 DEF LookUp, At, Phases
  <2>3. handler[h].key \in Keys
    BY <2>2, BatchTypes
  <2>4. phase = "ack" => sends'[handler[h].key] > 0
    BY <2>1, <2>2, <2>3 DEF Skipped, RowsSent
  <2>5. Went(h, phase)
    BY <2>2, GotoSteps
  <2> QED BY <1>0, <2>1, <2>2, <2>4, <2>5, DoneWent DEF At
<1>3. CASE Send(h)
  <2>1. At(h, "sending") /\ Busy(h) /\ Goto(h, "sent") /\ Accepted(handler[h].key)
    BY <1>3 DEF Send, SendDone, At
  <2>2. PICK k \in Keys : k = handler[h].key
    BY <2>1, BatchTypes
  <2>3. sends'[k] > 0
    BY <2>1, <2>2, Counted DEF TypeOK
  <2>4. Went(h, "sent")
    BY <2>1, GotoSteps DEF Phases
  <2> QED BY <1>0, <2>1, <2>2, <2>3, <2>4, DoneWent DEF At, Phases
<1>4. CASE Confirm(h)
  <2>1. At(h, "sent") /\ Busy(h) /\ Goto(h, "ack") /\ sends' = sends
    BY <1>4 DEF Confirm, At
  <2>2. sends'[handler[h].key] > 0
    BY <2>1 DEF Sender
  <2>3. Went(h, "ack")
    BY <2>1, GotoSteps DEF Phases
  <2> QED BY <1>0, <2>1, <2>2, <2>3, DoneWent DEF At, Phases
<1>5. CASE SendFails(h) \/ Rollback(h) \/ ConfirmFails(h) \/ StatementFails(h)
  <2>1. Busy(h) /\ ~ At(h, "next") /\ (Goto(h, "rollback") \/ Goto(h, "failed"))
    BY <1>5 DEF SendFails, SendDone, Rollback, ConfirmFails, StatementFails, At
  <2>2. Went(h, "rollback") \/ Went(h, "failed")
    BY <2>1, GotoSteps DEF Phases
  <2> QED BY <1>0, <2>1, <2>2, DoneWent DEF Phases
<1>6. CASE Ack(h)
  <2>1. At(h, "ack") /\ Busy(h) /\ Goto(h, "next") /\ sends' = sends /\ Sender(h) /\ Looped(h)
    BY <1>6 DEF Ack, At
  <2>2. Went(h, "next")
    BY <2>1, GotoSteps DEF Phases
  <2>3. Sender(h)' /\ Looped(h)'
    BY <2>1, <2>2 DEF Went, SameLoop, Sender, Looped, At, Busy
  <2> QED BY <1>0, <2>2, <2>3, DoneAlone DEF Went
<1>7. CASE JobFails(h)
  <2>1. At(h, "failed") /\ Busy(h) /\ sends' = sends /\ Looped(h)
    BY <1>7 DEF JobFails, At
  <2>2. /\ Alone(h) /\ Busy(h)' /\ handler'[h].phase = "next"
        /\ handler'[h].jobs = handler[h].jobs /\ handler'[h].todo = handler[h].todo
        /\ handler'[h].failures = handler[h].failures \union {handler[h].key}
    BY <1>7, JobFailsSteps
  <2>3. Sender(h)' /\ Looped(h)'
    BY <2>1, <2>2 DEF Sender, Looped, At, Busy
  <2> QED BY <1>0, <2>2, <2>3, DoneAlone
<1>8. CASE Finish(h)
  <2>1. Alone(h) /\ handler'[h] = NoBatch
    BY <1>8, HandlerSteps DEF Finish
  <2>2. Sender(h)' /\ Looped(h)'
    BY <2>1 DEF Sender, Looped, At, Busy, NoBatch
  <2> QED BY <1>0, <2>1, <2>2, DoneAlone
<1> QED BY <1>1, <1>2, <1>3, <1>4, <1>5, <1>6, <1>7, <1>8 DEF Handle

LEMMA HandlersDone ==
  ASSUME DoneInv, [Next]_vars
  PROVE  \A g \in Handlers : Sender(g)' /\ Looped(g)'
<1>0. Grown
  BY SendsGrow DEF DoneInv
<1> USE DEF DoneInv
<1>1. ASSUME NEW h \in Handlers, Crash(h) PROVE \A g \in Handlers : Sender(g)' /\ Looped(g)'
  <2>1. Alone(h) /\ handler'[h] = NoBatch
    BY <1>1, HandlerSteps DEF Crash
  <2>2. Sender(h)' /\ Looped(h)'
    BY <2>1 DEF Sender, Looped, At, Busy, NoBatch
  <2> QED BY <1>0, <2>1, <2>2, DoneAlone
<1>2. ASSUME NEW h \in Handlers, Fetch(h) PROVE \A g \in Handlers : Sender(g)' /\ Looped(g)'
  <2>1. Alone(h) /\ handler'[h].phase = "next" /\ handler'[h].jobs = handler'[h].todo
    BY <1>2, FetchSteps
  <2>2. Sender(h)' /\ Looped(h)'
    BY <2>1 DEF Sender, Looped, At
  <2> QED BY <1>0, <2>1, <2>2, DoneAlone
<1>3. ASSUME Advance, NEW g \in Handlers PROVE Sender(g)' /\ Looped(g)'
  <2>1. PICK d \in Nat :
          /\ handler' = [h \in Handlers |->
                           IF Busy(h) THEN [handler[h] EXCEPT !.left = Less(@, d)] ELSE NoBatch]
          /\ \A h \in Handlers : Busy(h) => At(h, "sending")
    BY <1>3, AdvanceSteps
  <2>2. CASE Busy(g)
    <3>1. At(g, "sending") /\ handler[g] \in Batch /\ Looped(g)
      BY <2>1, <2>2, BatchTypes
    <3>2. PICK b : b = [handler[g] EXCEPT !.left = Less(@, d)]
      OBVIOUS
    <3>3. /\ b.jobs = handler[g].jobs /\ b.todo = handler[g].todo /\ b.phase = "sending"
          /\ b.failures = handler[g].failures /\ b.key = handler[g].key
      BY <3>1, <3>2 DEF Batch, At
    <3>4. handler'[g] = b /\ sends' = sends
      BY <1>3, <2>1, <2>2, <3>2 DEF Advance
    <3> QED BY <3>1, <3>3, <3>4 DEF Sender, Looped, At, Busy
  <2>3. CASE ~ Busy(g)
    BY <2>1, <2>3 DEF Sender, Looped, At, Busy, NoBatch
  <2> QED BY <2>2, <2>3
<1>4. ASSUME UNCHANGED <<handler, sends>>, NEW g \in Handlers PROVE Sender(g)' /\ Looped(g)'
  BY <1>4 DEF Sender, Looped, At, Busy
<1>5. CASE (\E k \in Keys : Enqueue(k) \/ Expire(k)) \/ UNCHANGED vars
  <2>1. handler' = handler /\ sends' = sends
    BY <1>5 DEF Enqueue, Expire, vars
  <2> QED BY <1>4, <2>1
<1> QED BY <1>1, <1>2, <1>3, <1>5, HandleDone DEF Next

(* A claim is confirmed by the call whose email was accepted.              *)
LEMMA RowsSentKept ==
  ASSUME DoneInv, [Next]_vars PROVE RowsSent'
<1>0. Grown
  BY SendsGrow DEF DoneInv
<1>1. ASSUME \A k \in Keys : claim'[k].state = "sent" => claim[k].state = "sent"
      PROVE  RowsSent'
  BY <1>0, <1>1 DEF DoneInv, RowsSent, Grown
<1>2. ASSUME claim' = claim PROVE RowsSent'
  BY <1>1, <1>2
<1>3. ASSUME NEW h \in Handlers, NEW k \in Keys, Claim(h, k) PROVE RowsSent'
  BY <1>1, <1>3 DEF Claim, DoneInv, TypeOK
<1>4. ASSUME NEW h \in Handlers, Rollback(h) \/ Confirm(h) PROVE RowsSent'
  <2>1. PICK k \in Keys : k = handler[h].key
    BY <1>4, BatchTypes DEF Rollback, Confirm, At, DoneInv
  <2>2. CASE Rollback(h)
    <3>1. PICK row : row = [claim[k] EXCEPT !.state = "none", !.timer = 0]
      OBVIOUS
    <3>2. row.state = "none"
      BY <3>1 DEF DoneInv, TypeOK, ClaimRow
    <3>3. claim' = [claim EXCEPT ![k] = IF Ours(h) /\ claim[k].state = "claimed" THEN row ELSE claim[k]]
      BY <2>1, <2>2, <3>1 DEF Rollback
    <3> QED BY <1>1, <3>2, <3>3 DEF DoneInv, TypeOK
  <2>3. CASE Confirm(h)
    <3>1. sends[k] > 0
      BY <2>1, <2>3 DEF Confirm, DoneInv, Sender
    <3>2. PICK row : claim' = [claim EXCEPT ![k] = row]
      BY <2>1, <2>3 DEF Confirm
    <3> QED BY <1>0, <3>1, <3>2 DEF DoneInv, TypeOK, RowsSent, Grown
  <2> QED BY <1>4, <2>2, <2>3
<1>5. ASSUME NEW h \in Handlers, Handle(h), ~ Rollback(h), ~ Confirm(h), \A k \in Keys : ~ Claim(h, k)
      PROVE  claim' = claim
  BY <1>5 DEF Handle, LoseClaim, ClaimFails, LookUp, Send, SendFails, ConfirmFails, Ack,
              StatementFails, JobFails, Finish
<1>6. CASE Advance
  <2>1. \A k \in Keys : claim'[k].state = claim[k].state
    BY <1>6 DEF Advance, DoneInv, TypeOK, ClaimRow
  <2> QED BY <1>1, <2>1
<1>7. ASSUME ~ Advance, ~ \E h \in Handlers : Handle(h) PROVE claim' = claim
  BY <1>7 DEF Next, vars, Enqueue, Expire, Fetch, Crash
<1> QED BY <1>2, <1>3, <1>4, <1>5, <1>6, <1>7

LEMMA RetriedNotCompleted ==
  ASSUME NEW j \in Job PROVE Retried(j).state # "completed"
                             \/ (j.state = "completed" /\ Retried(j).state = "completed")
BY DEF Retried, Job

LEMMA CompletedKept ==
  ASSUME DoneInv, [Next]_vars PROVE CompletedWasSent'
<1>0. Grown
  BY SendsGrow DEF DoneInv
<1> USE DEF DoneInv
<1>1. ASSUME \A k \in Keys : job'[k].state = "completed" => job[k].state = "completed" \/ sends[k] > 0
      PROVE  CompletedWasSent'
  BY <1>0, <1>1 DEF CompletedWasSent, Grown
<1>2. ASSUME job' = job PROVE CompletedWasSent'
  BY <1>1, <1>2
<1>3. ASSUME NEW k \in Keys, Enqueue(k) PROVE CompletedWasSent'
  BY <1>1, <1>3 DEF Enqueue, TypeOK, Job
<1>4. ASSUME NEW k \in Keys, Expire(k) PROVE CompletedWasSent'
  BY <1>1, <1>4, RetriedNotCompleted DEF Expire, TypeOK
<1>5. ASSUME NEW h \in Handlers, Fetch(h) PROVE CompletedWasSent'
  BY <1>1, <1>5, FetchSteps
<1>6. ASSUME NEW h \in Handlers, Ack(h) PROVE CompletedWasSent'
  <2>1. PICK k \in Keys : k = handler[h].key
    BY <1>6, BatchTypes DEF Ack, At
  <2>2. sends[k] > 0
    BY <1>6, <2>1 DEF Ack, Sender
  <2>3. PICK j : job' = [job EXCEPT ![k] = j]
    BY <1>6, <2>1 DEF Ack
  <2> QED BY <1>1, <2>2, <2>3 DEF TypeOK
<1>7. ASSUME NEW h \in Handlers, Finish(h) PROVE CompletedWasSent'
  <2>1. /\ At(h, "next") /\ Busy(h) /\ handler[h].todo = {} /\ Looped(h)
        /\ job' = [k \in Keys |->
                     IF k \in handler[h].jobs /\ job[k].state = "active"
                       THEN Finished(h, job[k]) ELSE job[k]]
    BY <1>7 DEF Finish, At
  <2>2. ASSUME NEW k \in Keys, job'[k].state = "completed"
        PROVE  job[k].state = "completed" \/ sends[k] > 0
    <3>1. CASE k \in handler[h].jobs /\ job[k].state = "active"
      <4>1. job'[k] = Finished(h, job[k]) /\ job[k] \in Job
        BY <2>1, <3>1 DEF TypeOK
      <4>2. CASE handler[h].failures = {}
        BY <2>1, <3>1, <4>2 DEF Looped
      <4>3. CASE handler[h].failures # {}
        BY <2>2, <4>1, <4>3, RetriedNotCompleted DEF Finished
      <4> QED BY <4>2, <4>3
    <3>2. CASE ~ (k \in handler[h].jobs /\ job[k].state = "active")
      <4>1. job'[k] = job[k]
        BY <2>1, <3>2
      <4> QED BY <2>2, <4>1
    <3> QED BY <3>1, <3>2
  <2> QED BY <1>1, <2>2
<1>8. CASE Advance
  <2>1. \A k \in Keys : job'[k].state = job[k].state
    BY <1>8 DEF Advance, TypeOK, Job
  <2> QED BY <1>1, <2>1
<1>9. ASSUME NEW h \in Handlers, Handle(h), ~ Ack(h), ~ Finish(h) PROVE job' = job
  BY <1>9 DEF Handle, Claim, LoseClaim, ClaimFails, LookUp, Send, SendFails, Rollback, Confirm,
              ConfirmFails, StatementFails, JobFails
<1>10. ASSUME NEW h \in Handlers, Crash(h) PROVE job' = job
  BY <1>10 DEF Crash
<1>11. CASE UNCHANGED vars
  BY <1>2, <1>11 DEF vars
<1> QED BY <1>2, <1>3, <1>4, <1>5, <1>6, <1>7, <1>8, <1>9, <1>10, <1>11 DEF Next

(* A job is completed only when the SMTP server accepted its email, for    *)
(* any number of retries and faults: a claim held elsewhere fails the job  *)
(* that lost it, and a failure its batch (send-email-once.ts, runtime.ts).  *)
THEOREM NothingSwallowed == Spec => []CompletedWasSent
<1>1. Init => DoneInv
  <2>1. Init => TypeOK
    BY IInvInit DEF IInv
  <2>2. Init => CompletedWasSent /\ RowsSent
    BY DEF Init, CompletedWasSent, RowsSent
  <2>3. ASSUME Init, NEW h \in Handlers PROVE Sender(h) /\ Looped(h)
    BY <2>3 DEF Init, Sender, Looped, At, Busy, NoBatch
  <2> QED BY <2>1, <2>2, <2>3 DEF DoneInv
<1>2. DoneInv /\ [Next]_vars => DoneInv'
  BY TypesKept, HandlersDone, RowsSentKept, CompletedKept DEF DoneInv
<1>3. DoneInv => CompletedWasSent
  BY DEF DoneInv
<1> QED BY <1>1, <1>2, <1>3, PTL DEF Spec
=============================================================================
