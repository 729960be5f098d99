-------------------------- MODULE ScanOutboxProofs --------------------------
(***************************************************************************)
(* The scan queue for any number of artifacts, workers, attempts and       *)
(* publishes, whatever crashes, fails, or outlasts the reclaim timeout.    *)
(*                                                                         *)
(* The key is the attempts column: it never decreases and every claim      *)
(* increments it, so an attempt a worker holds is at most the row's, a     *)
(* claim is greater than any other worker's, and an overtaken worker never *)
(* becomes current again.  What a current worker knows of the artifact is  *)
(* therefore at least as recent as the publish that asked for the scan.    *)
(* The last part shows that publishers see ScanRequests.                   *)
(***************************************************************************)
EXTENDS ScanOutbox, TLAPS

RowOK(a) ==
  /\ asked[a] <= artifact[a].publish
  /\ outbox[a].status # "absent" => artifact[a].publish >= 1
  /\ artifact[a].state = "pending" => outbox[a].status # "absent"
  /\ outbox[a].attempts > 0 => outbox[a].attempts < MaxAttempts + artifact[a].publish
  /\ outbox[a].status = "pending" =>
       outbox[a].attempts + 1 < MaxAttempts + artifact[a].publish
  /\ outbox[a].status = "succeeded" =>
       /\ \E p \in judged[a] : p >= asked[a]
       /\ artifact[a].state = "pending" => artifact[a].publish > asked[a]

JobOK(w, a) ==
  job[w][a].phase # "none" =>
    /\ job[w][a].attempts <= outbox[a].attempts
    /\ Current(w, a) /\ job[w][a].phase = "scanning" => job[w][a].publish >= asked[a]
    /\ Current(w, a) /\ job[w][a].phase = "judged" =>
         /\ \E p \in judged[a] : p >= asked[a]
         /\ artifact[a].state = "pending" => artifact[a].publish > asked[a]

Distinct(v, w, a) ==
  v # w /\ job[v][a].phase # "none" /\ job[w][a].phase # "none" =>
    job[v][a].attempts # job[w][a].attempts

IInv ==
  /\ TypeOK
  /\ \A a \in Artifacts : RowOK(a)
  /\ \A w \in Workers, a \in Artifacts : JobOK(w, a)
  /\ \A v, w \in Workers, a \in Artifacts : Distinct(v, w, a)

USE ScanAssumption DEF Publishes

-----------------------------------------------------------------------------

LEMMA InitIInv == Init => IInv
BY DEF Init, IInv, TypeOK, RowOK, JobOK, Distinct, NoJob, Job, Artifact, OutboxRow

LEMMA RowUpdate ==
  ASSUME NEW row \in OutboxRow,
         NEW status \in {"absent", "pending", "processing", "succeeded", "failed"}
  PROVE  /\ [row EXCEPT !.status = status, !.expired = FALSE] \in OutboxRow
         /\ [row EXCEPT !.status = status, !.expired = FALSE].status = status
         /\ [row EXCEPT !.status = status, !.expired = FALSE].attempts = row.attempts
BY DEF OutboxRow

LEMMA ResetRow ==
  ASSUME NEW row \in OutboxRow
  PROVE  /\ Reset(row) \in OutboxRow
         /\ Reset(row).status = "pending"
         /\ Reset(row).attempts = row.attempts
BY RowUpdate DEF Reset

LEMMA ReclaimedRow ==
  ASSUME NEW row \in OutboxRow
  PROVE  /\ Reclaimed(row) \in OutboxRow
         /\ Reclaimed(row).status = RetryOrFail(row.attempts)
         /\ Reclaimed(row).attempts = row.attempts
<1>1. RetryOrFail(row.attempts) \in {"absent", "pending", "processing", "succeeded", "failed"}
  BY DEF RetryOrFail
<1> QED BY <1>1, RowUpdate DEF Reclaimed

LEMMA ClaimedRowAndJob ==
  ASSUME NEW row \in OutboxRow
  PROVE  /\ ClaimedRow(row) \in OutboxRow
         /\ ClaimedRow(row).status = "processing"
         /\ ClaimedRow(row).attempts = row.attempts + 1
         /\ ClaimedJob(ClaimedRow(row).attempts) \in Job
         /\ ClaimedJob(ClaimedRow(row).attempts).phase = "queued"
         /\ ClaimedJob(ClaimedRow(row).attempts).attempts = row.attempts + 1
BY DEF ClaimedRow, ClaimedJob, OutboxRow, Job

LEMMA NoJobType == NoJob \in Job /\ NoJob.phase = "none"
BY DEF NoJob, Job

LEMMA JobPhase ==
  ASSUME NEW j \in Job, NEW phase \in {"judged", "failed"}
  PROVE  /\ [j EXCEPT !.phase = phase] \in Job
         /\ [j EXCEPT !.phase = phase].phase = phase
         /\ [j EXCEPT !.phase = phase].attempts = j.attempts
         /\ [j EXCEPT !.phase = phase].publish = j.publish
BY DEF Job

LEMMA JobUpdate ==
  ASSUME TypeOK, NEW u \in Workers, NEW b \in Artifacts, NEW j \in Job,
         job' = [job EXCEPT ![u][b] = j]
  PROVE  /\ job' \in [Workers -> [Artifacts -> Job]]
         /\ job'[u][b] = j
         /\ \A w \in Workers, a \in Artifacts : w # u \/ a # b => job'[w][a] = job[w][a]
BY DEF TypeOK

(* A change to a job that keeps its attempt and does not create it.        *)
LEMMA DistinctKept ==
  ASSUME IInv,
         \A w \in Workers, a \in Artifacts :
           job'[w][a].phase # "none" =>
             job[w][a].phase # "none" /\ job'[w][a].attempts = job[w][a].attempts
  PROVE  \A v, w \in Workers, a \in Artifacts : Distinct(v, w, a)'
BY DEF IInv, Distinct

LEMMA PublishIInv ==
  ASSUME IInv, NEW b \in Artifacts, Publish(b) PROVE IInv'
<1>1. artifact' = [artifact EXCEPT ![b] = [state |-> "pending", publish |-> artifact[b].publish + 1]]
  BY DEF Publish
<1>2. /\ artifact[b].publish + 1 \in Publishes
      /\ artifact'[b] = [state |-> "pending", publish |-> artifact[b].publish + 1]
      /\ \A a \in Artifacts : a # b => artifact'[a] = artifact[a]
      /\ artifact' \in [Artifacts -> Artifact]
  BY <1>1 DEF IInv, TypeOK, Publish, Artifact
<1>3. /\ outbox' \in [Artifacts -> OutboxRow]
      /\ \A a \in Artifacts : a # b => outbox'[a] = outbox[a]
      /\ \A a \in Artifacts : outbox'[a].attempts = outbox[a].attempts
      /\ outbox[b].status = "processing" => outbox'[b] = outbox[b]
      /\ outbox[b].status # "processing" => outbox'[b].status = "pending"
  <2>1. CASE outbox[b].status = "processing"
    BY <2>1 DEF IInv, TypeOK, Publish, ResetAllowed
  <2>2. CASE outbox[b].status # "processing"
    <3>1. outbox' = [outbox EXCEPT ![b] = Reset(outbox[b])]
      BY <2>2 DEF Publish, ResetAllowed
    <3> QED BY <2>2, <3>1, ResetRow DEF IInv, TypeOK
  <2> QED BY <2>1, <2>2
<1>4. /\ asked' \in [Artifacts -> Publishes]
      /\ \A a \in Artifacts : a # b => asked'[a] = asked[a]
      /\ outbox[b].status = "processing" => asked'[b] = asked[b]
      /\ outbox[b].status # "processing" => asked'[b] = artifact[b].publish + 1
      /\ UNCHANGED <<job, judged, faults>>
  BY <1>2 DEF IInv, TypeOK, Publish
<1>5. TypeOK'
  BY <1>2, <1>3, <1>4 DEF IInv, TypeOK
<1>6. ASSUME NEW a \in Artifacts PROVE RowOK(a)'
  <2>1. CASE a # b
    BY <1>2, <1>3, <1>4, <2>1 DEF IInv, RowOK
  <2>2. CASE a = b
    <3>1. /\ artifact[b].publish \in Nat /\ outbox[b].attempts \in Nat /\ asked[b] \in Nat
          /\ artifact'[b].publish = artifact[b].publish + 1 /\ RowOK(b)
      BY <1>2 DEF IInv, TypeOK, Artifact, OutboxRow
    <3>2. CASE outbox[b].status = "processing"
      BY <1>3, <1>4, <2>2, <3>1, <3>2 DEF RowOK
    <3>3. CASE outbox[b].status # "processing"
      BY <1>3, <1>4, <2>2, <3>1, <3>3 DEF RowOK
    <3> QED BY <3>2, <3>3
  <2> QED BY <2>1, <2>2
<1>7. ASSUME NEW w \in Workers, NEW a \in Artifacts PROVE JobOK(w, a)'
  <2>1. CASE a # b
    BY <1>2, <1>3, <1>4, <2>1 DEF IInv, JobOK, Current
  <2>2. CASE a = b /\ outbox[b].status # "processing"
    BY <1>3, <1>4, <2>2 DEF IInv, JobOK, Current
  <2>3. CASE a = b /\ outbox[b].status = "processing"
    <3>1. asked[b] < artifact'[b].publish
      BY <1>2 DEF IInv, TypeOK, RowOK, Artifact
    <3> QED BY <1>3, <1>4, <2>3, <3>1 DEF IInv, JobOK, Current
  <2> QED BY <2>1, <2>2, <2>3
<1>8. \A v, w \in Workers, a \in Artifacts : Distinct(v, w, a)'
  BY <1>4, DistinctKept
<1> QED BY <1>5, <1>6, <1>7, <1>8 DEF IInv

LEMMA ClaimIInv ==
  ASSUME IInv, NEW u \in Workers, Claim(u) PROVE IInv'
<1>1. PICK batch \in SUBSET {a \in Artifacts : outbox[a].status = "pending"} :
        /\ outbox' = [a \in Artifacts |->
                        IF a \in batch THEN ClaimedRow(outbox[a]) ELSE outbox[a]]
        /\ job' = [job EXCEPT ![u] =
                     [a \in Artifacts |->
                        IF a \in batch
                          THEN ClaimedJob(ClaimedRow(outbox[a]).attempts)
                          ELSE NoJob]]
  BY DEF Claim
<1>2. UNCHANGED <<artifact, judged, asked, faults>>
  BY DEF Claim
<1>3. /\ \A a \in batch : /\ outbox[a].status = "pending"
                           /\ outbox'[a].status = "processing"
                           /\ outbox'[a].attempts = outbox[a].attempts + 1
      /\ \A a \in Artifacts \ batch : outbox'[a] = outbox[a]
      /\ outbox' \in [Artifacts -> OutboxRow]
  BY <1>1, ClaimedRowAndJob DEF IInv, TypeOK
<1>4. /\ \A a \in batch : /\ job'[u][a].phase = "queued"
                           /\ job'[u][a].attempts = outbox[a].attempts + 1
                           /\ job'[u][a] \in Job
      /\ \A a \in Artifacts \ batch : job'[u][a] = NoJob /\ NoJob \in Job
      /\ \A w \in Workers : w # u => job'[w] = job[w]
  BY <1>1, ClaimedRowAndJob, NoJobType DEF IInv, TypeOK
<1>5. TypeOK'
  <2>1. job' = [w \in Workers |-> job'[w]] /\ DOMAIN job'[u] = Artifacts
    BY <1>1 DEF IInv, TypeOK
  <2>2. job'[u] \in [Artifacts -> Job]
    <3>1. job'[u] = [a \in Artifacts |-> job'[u][a]]
      BY <1>1 DEF IInv, TypeOK
    <3>2. \A a \in Artifacts : job'[u][a] \in Job
      BY <1>4
    <3> QED BY <3>1, <3>2
  <2>3. \A w \in Workers : job'[w] \in [Artifacts -> Job]
    BY <1>4, <2>2 DEF IInv, TypeOK
  <2>4. job' \in [Workers -> [Artifacts -> Job]]
    BY <2>1, <2>3
  <2> QED BY <1>2, <1>3, <2>4 DEF IInv, TypeOK
<1>7. ASSUME NEW a \in Artifacts PROVE RowOK(a)'
  BY <1>2, <1>3 DEF IInv, TypeOK, OutboxRow, Artifact, RowOK
<1>8. ASSUME NEW w \in Workers, NEW a \in Artifacts PROVE JobOK(w, a)'
  <2>1. CASE w = u
    BY <1>2, <1>3, <1>4, <2>1 DEF IInv, TypeOK, OutboxRow, NoJob, JobOK
  <2>2. CASE w # u /\ a \notin batch
    BY <1>2, <1>3, <1>4, <2>2 DEF IInv, JobOK, Current
  <2>3. CASE w # u /\ a \in batch
    <3>1. outbox[a].attempts \in Nat /\ job[w][a].attempts \in Nat
      BY DEF IInv, TypeOK, OutboxRow, Job
    <3> QED BY <1>2, <1>3, <1>4, <2>3, <3>1 DEF IInv, JobOK, Current
  <2> QED BY <2>1, <2>2, <2>3
<1>6. ASSUME NEW v \in Workers, NEW w \in Workers, NEW a \in Artifacts PROVE Distinct(v, w, a)'
  <2>1. ASSUME NEW x \in Workers, x # u PROVE job'[x] = job[x]
    BY <1>1, <2>1 DEF IInv, TypeOK
  <2>2. CASE a \notin batch
    <3>1. job'[u][a].phase = "none"
      BY <1>4, <2>2 DEF NoJob
    <3> QED BY <2>1, <3>1 DEF IInv, Distinct
  <2>3. CASE a \in batch
    <3>1. job'[u][a].attempts = outbox[a].attempts + 1
      BY <1>4, <2>3
    <3>2. ASSUME NEW x \in Workers, x # u, job[x][a].phase # "none"
          PROVE  job[x][a].attempts # outbox[a].attempts + 1
      BY <3>2 DEF IInv, TypeOK, OutboxRow, Job, JobOK
    <3> QED BY <2>1, <3>1, <3>2 DEF IInv, Distinct
  <2> QED BY <2>2, <2>3
<1> QED BY <1>5, <1>6, <1>7, <1>8 DEF IInv

LEMMA LoadIInv ==
  ASSUME IInv, NEW u \in Workers, NEW b \in Artifacts, Load(u, b) PROVE IInv'
<1>1. PICK j \in Job : /\ job' = [job EXCEPT ![u][b] = j] /\ j.phase = "scanning"
                      /\ j.publish = artifact[b].publish /\ j.attempts = job[u][b].attempts
  <2>1. job[u][b] \in Job /\ artifact[b].publish \in Publishes
    BY DEF IInv, TypeOK, Artifact
  <2> DEFINE k == [phase |-> "scanning", attempts |-> job[u][b].attempts,
                   publish |-> artifact[b].publish]
  <2>2. /\ k \in Job /\ k.phase = "scanning"
        /\ k.publish = artifact[b].publish /\ k.attempts = job[u][b].attempts
    BY <2>1 DEF Job
  <2>3. job' = [job EXCEPT ![u][b] = k]
    BY DEF Load
  <2> HIDE DEF k
  <2> QED BY <2>2, <2>3
<1>2. UNCHANGED <<artifact, outbox, judged, asked, faults>> /\ job[u][b].phase = "queued"
  BY DEF Load
<1>4. TypeOK'
  BY <1>1, <1>2, JobUpdate DEF IInv, TypeOK
<1>5. \A a \in Artifacts : RowOK(a)'
  BY <1>2 DEF IInv, RowOK
<1>6. ASSUME NEW w \in Workers, NEW a \in Artifacts PROVE JobOK(w, a)'
  <2>1. CASE w = u /\ a = b
    <3>1. job'[u][b] = j
      BY <1>1, JobUpdate DEF IInv
    <3>2. asked[b] <= artifact[b].publish /\ job[u][b].attempts <= outbox[b].attempts
      BY <1>2 DEF IInv, RowOK, JobOK
    <3> QED BY <1>1, <1>2, <2>1, <3>1, <3>2 DEF JobOK
  <2>2. CASE ~ (w = u /\ a = b)
    BY <1>1, <1>2, <2>2, JobUpdate DEF IInv, JobOK, Current
  <2> QED BY <2>1, <2>2
<1>7. \A v, w \in Workers, a \in Artifacts : Distinct(v, w, a)'
  BY <1>1, <1>2, JobUpdate, DistinctKept DEF IInv
<1> QED BY <1>4, <1>5, <1>6, <1>7 DEF IInv

LEMMA WriteVerdictIInv ==
  ASSUME IInv, NEW u \in Workers, NEW b \in Artifacts, WriteVerdict(u, b) PROVE IInv'
<1>1. PICK j \in Job : /\ job' = [job EXCEPT ![u][b] = j] /\ j.phase = "judged"
                      /\ j.publish = job[u][b].publish /\ j.attempts = job[u][b].attempts
  <2>1. job[u][b] \in Job
    BY DEF IInv, TypeOK
  <2> DEFINE k == [job[u][b] EXCEPT !.phase = "judged"]
  <2>2. /\ k \in Job /\ k.phase = "judged"
        /\ k.publish = job[u][b].publish /\ k.attempts = job[u][b].attempts
    BY <2>1, JobPhase
  <2>3. job' = [job EXCEPT ![u][b] = k]
    BY DEF WriteVerdict
  <2> HIDE DEF k
  <2> QED BY <2>2, <2>3
<1>2. UNCHANGED <<outbox, asked, faults>> /\ job[u][b].phase = "scanning"
  BY DEF WriteVerdict
<1>3. /\ judged'[b] = judged[b] \union {job[u][b].publish}
      /\ judged' \in [Artifacts -> SUBSET Publishes]
      /\ \A a \in Artifacts : judged[a] \subseteq judged'[a]
      /\ artifact' \in [Artifacts -> Artifact]
      /\ \A a \in Artifacts : artifact'[a].publish = artifact[a].publish
      /\ \A a \in Artifacts : artifact'[a].state = "pending" => artifact[a].state = "pending"
      /\ artifact'[b].state # "pending"
  BY DEF IInv, TypeOK, WriteVerdict, Artifact, Job
<1>4. TypeOK'
  BY <1>1, <1>2, <1>3, JobUpdate DEF IInv, TypeOK
<1>5. ASSUME NEW a \in Artifacts PROVE RowOK(a)'
  BY <1>2, <1>3 DEF IInv, RowOK
<1>6. ASSUME NEW w \in Workers, NEW a \in Artifacts PROVE JobOK(w, a)'
  <2>1. CASE w = u /\ a = b
    <3>1. j.attempts <= outbox[b].attempts /\ (Current(u, b) => job[u][b].publish >= asked[b])
      BY <1>1, <1>2 DEF IInv, JobOK
    <3>2. job'[u][b] = j
      BY <1>1, JobUpdate DEF IInv
    <3>3. job'[u][b].phase = "judged"
      BY <1>1, <3>2
    <3>4. Current(u, b)' => \E q \in judged'[b] : q >= asked[b]
      BY <1>1, <1>2, <1>3, <3>1, <3>2 DEF Current
    <3> QED BY <1>2, <1>3, <2>1, <3>1, <3>2, <3>3, <3>4 DEF JobOK
  <2>2. CASE ~ (w = u /\ a = b)
    <3>1. job'[w][a] = job[w][a]
      BY <1>1, <2>2, JobUpdate DEF IInv
    <3> QED BY <1>2, <1>3, <3>1 DEF IInv, JobOK, Current
  <2> QED BY <2>1, <2>2
<1>7. \A v, w \in Workers, a \in Artifacts : Distinct(v, w, a)'
  BY <1>1, <1>2, JobUpdate, DistinctKept DEF IInv
<1> QED BY <1>4, <1>5, <1>6, <1>7 DEF IInv

LEMMA ScanFailsIInv ==
  ASSUME IInv, NEW u \in Workers, NEW b \in Artifacts, ScanFails(u, b) PROVE IInv'
<1>1. PICK j \in Job : /\ job' = [job EXCEPT ![u][b] = j]
                      /\ j.phase = "failed" /\ j.attempts = job[u][b].attempts
  <2>1. job[u][b] \in Job
    BY DEF IInv, TypeOK
  <2> DEFINE k == [job[u][b] EXCEPT !.phase = "failed"]
  <2>2. k \in Job /\ k.phase = "failed" /\ k.attempts = job[u][b].attempts
    BY <2>1, JobPhase
  <2>3. job' = [job EXCEPT ![u][b] = k]
    BY DEF ScanFails
  <2> HIDE DEF k
  <2> QED BY <2>2, <2>3
<1>2. /\ UNCHANGED <<artifact, outbox, judged, asked>>
      /\ faults' \in 0..MaxFaults
      /\ job[u][b].phase = "scanning"
  BY DEF IInv, TypeOK, ScanFails, Fault
<1>3. TypeOK'
  BY <1>1, <1>2, JobUpdate DEF IInv, TypeOK
<1>4. \A a \in Artifacts : RowOK(a)'
  BY <1>2 DEF IInv, RowOK
<1>5. ASSUME NEW w \in Workers, NEW a \in Artifacts PROVE JobOK(w, a)'
  <2>1. CASE w = u /\ a = b
    BY <1>1, <1>2, <2>1, JobUpdate DEF IInv, JobOK
  <2>2. CASE ~ (w = u /\ a = b)
    BY <1>1, <1>2, <2>2, JobUpdate DEF IInv, JobOK, Current
  <2> QED BY <2>1, <2>2
<1>6. \A v, w \in Workers, a \in Artifacts : Distinct(v, w, a)'
  BY <1>1, <1>2, JobUpdate, DistinctKept DEF IInv
<1> QED BY <1>3, <1>4, <1>5, <1>6 DEF IInv

(* Jobs that only disappear leave the other jobs as they were.             *)
LEMMA JobsDropped ==
  ASSUME IInv, NEW D \in SUBSET (Workers \X Artifacts),
         job' = [w \in Workers |-> [a \in Artifacts |->
                   IF <<w, a>> \in D THEN NoJob ELSE job[w][a]]]
  PROVE  /\ job' \in [Workers -> [Artifacts -> Job]]
         /\ \A v, w \in Workers, a \in Artifacts : Distinct(v, w, a)'
         /\ UNCHANGED <<artifact, outbox, judged, asked>> =>
              \A w \in Workers, a \in Artifacts : JobOK(w, a)'
<1>1. job' \in [Workers -> [Artifacts -> Job]]
  BY DEF IInv, TypeOK, NoJob, Job
<1>2. ASSUME NEW v \in Workers, NEW w \in Workers, NEW a \in Artifacts PROVE Distinct(v, w, a)'
  BY DEF IInv, NoJob, Distinct
<1>3. ASSUME UNCHANGED <<artifact, outbox, judged, asked>>, NEW w \in Workers, NEW a \in Artifacts
      PROVE  JobOK(w, a)'
  BY <1>3 DEF IInv, NoJob, JobOK, Current
<1> QED BY <1>1, <1>2, <1>3

LEMMA ForgetOne ==
  ASSUME IInv, NEW u \in Workers, NEW b \in Artifacts, job' = [job EXCEPT ![u][b] = NoJob]
  PROVE  job' = [w \in Workers |-> [a \in Artifacts |->
                   IF <<w, a>> \in {<<u, b>>} THEN NoJob ELSE job[w][a]]]
BY DEF IInv, TypeOK

LEMMA FinalizeFailsIInv ==
  ASSUME IInv, NEW u \in Workers, NEW b \in Artifacts, FinalizeFails(u, b) PROVE IInv'
<1>1. job' = [w \in Workers |-> [a \in Artifacts |->
                IF <<w, a>> \in {<<u, b>>} THEN NoJob ELSE job[w][a]]]
  BY ForgetOne DEF FinalizeFails
<1>2. UNCHANGED <<artifact, outbox, judged, asked>>
  BY DEF FinalizeFails
<1>3. /\ job' \in [Workers -> [Artifacts -> Job]]
      /\ \A v, w \in Workers, a \in Artifacts : Distinct(v, w, a)'
      /\ \A w \in Workers, a \in Artifacts : JobOK(w, a)'
  <2>1. {<<u, b>>} \in SUBSET (Workers \X Artifacts)
    OBVIOUS
  <2> QED BY <1>1, <1>2, <2>1, JobsDropped
<1>4. TypeOK'
  BY <1>2, <1>3 DEF IInv, TypeOK, FinalizeFails, Fault
<1>5. \A a \in Artifacts : RowOK(a)'
  BY <1>2 DEF IInv, RowOK
<1> QED BY <1>3, <1>4, <1>5 DEF IInv

LEMMA CrashIInv ==
  ASSUME IInv, NEW u \in Workers, Crash(u) PROVE IInv'
<1>1. job' = [w \in Workers |-> [a \in Artifacts |->
                IF <<w, a>> \in {u} \X Artifacts THEN NoJob ELSE job[w][a]]]
  BY DEF IInv, TypeOK, Crash
<1>2. UNCHANGED <<artifact, outbox, judged, asked>>
  BY DEF Crash
<1>3. /\ job' \in [Workers -> [Artifacts -> Job]]
      /\ \A v, w \in Workers, a \in Artifacts : Distinct(v, w, a)'
      /\ \A w \in Workers, a \in Artifacts : JobOK(w, a)'
  BY <1>1, <1>2, JobsDropped
<1>4. TypeOK'
  BY <1>2, <1>3 DEF IInv, TypeOK, Crash, Fault
<1>5. \A a \in Artifacts : RowOK(a)'
  BY <1>2 DEF IInv, RowOK
<1> QED BY <1>3, <1>4, <1>5 DEF IInv

(* The terminal write: nobody becomes current by it, and the row gets a    *)
(* status that its claimant's knowledge justifies.                         *)
LEMMA FinishIInv ==
  ASSUME IInv, NEW u \in Workers, NEW b \in Artifacts, job[u][b].phase # "none",
         NEW status \in {"succeeded", "failed", "pending"}, Finish(u, b, status),
         status = "succeeded" => job[u][b].phase = "judged",
         status = "pending" => job[u][b].attempts < MaxAttempts
  PROVE  IInv'
<1>1. job' = [w \in Workers |-> [a \in Artifacts |->
                IF <<w, a>> \in {<<u, b>>} THEN NoJob ELSE job[w][a]]]
  BY ForgetOne DEF Finish
<1>2. /\ UNCHANGED <<artifact, judged, asked, faults>>
      /\ \A a \in Artifacts : outbox'[a].attempts = outbox[a].attempts
      /\ \A a \in Artifacts : outbox'[a].status = "processing" => outbox[a].status = "processing"
      /\ outbox' \in [Artifacts -> OutboxRow]
  BY DEF IInv, TypeOK, OutboxRow, Finish
<1>3. /\ job' \in [Workers -> [Artifacts -> Job]]
      /\ \A v, w \in Workers, a \in Artifacts : Distinct(v, w, a)'
  <2>1. {<<u, b>>} \in SUBSET (Workers \X Artifacts)
    OBVIOUS
  <2> QED BY <1>1, <2>1, JobsDropped
<1>4. TypeOK'
  BY <1>2, <1>3 DEF IInv, TypeOK
<1>5. ASSUME NEW a \in Artifacts PROVE RowOK(a)'
  <2>1. CASE a = b /\ Current(u, b)
    <3>1. outbox'[b].status = status /\ outbox[b].status = "processing"
      BY <2>1 DEF IInv, TypeOK, OutboxRow, Finish, Current
    <3>2. RowOK(b) /\ JobOK(u, b)
      BY DEF IInv
    <3>3. status = "pending" => outbox[b].attempts + 1 < MaxAttempts + artifact[b].publish
      BY <2>1, <3>1, <3>2 DEF IInv, TypeOK, OutboxRow, Artifact, Job, RowOK, Current
    <3>4. status = "succeeded" =>
            /\ \E p \in judged[b] : p >= asked[b]
            /\ artifact[b].state = "pending" => artifact[b].publish > asked[b]
      BY <2>1, <3>2 DEF JobOK
    <3> QED BY <1>2, <2>1, <3>1, <3>2, <3>3, <3>4 DEF RowOK
  <2>2. CASE ~ (a = b /\ Current(u, b))
    <3>1. outbox'[a] = outbox[a]
      BY <2>2 DEF IInv, TypeOK, Finish
    <3> QED BY <1>2, <3>1 DEF IInv, RowOK
  <2> QED BY <2>1, <2>2
<1>6. ASSUME NEW w \in Workers, NEW a \in Artifacts PROVE JobOK(w, a)'
  BY <1>1, <1>2 DEF IInv, NoJob, JobOK, Current
<1> QED BY <1>3, <1>4, <1>5, <1>6 DEF IInv

LEMMA MarkIInv ==
  ASSUME IInv, NEW u \in Workers, NEW b \in Artifacts, MarkSucceeded(u, b) \/ MarkFailed(u, b)
  PROVE  IInv'
<1>1. CASE MarkSucceeded(u, b)
  BY <1>1, FinishIInv DEF MarkSucceeded
<1>2. CASE MarkFailed(u, b)
  BY <1>2, FinishIInv DEF MarkFailed, RetryOrFail
<1> QED BY <1>1, <1>2

LEMMA ExpiryIInv ==
  ASSUME IInv, NEW b \in Artifacts, Expire(b) \/ Overrun(b) PROVE IInv'
<1>1. /\ UNCHANGED <<artifact, job, judged, asked>>
      /\ faults' \in 0..MaxFaults
      /\ outbox' = [outbox EXCEPT ![b].expired = TRUE]
  BY DEF IInv, TypeOK, Expire, Overrun, Expired, Fault
<1>2. TypeOK'
  BY <1>1 DEF IInv, TypeOK, OutboxRow
<1>3. \A a \in Artifacts : /\ outbox'[a].status = outbox[a].status
                           /\ outbox'[a].attempts = outbox[a].attempts
  BY <1>1 DEF IInv, TypeOK, OutboxRow
<1> QED BY <1>1, <1>2, <1>3 DEF IInv, RowOK, JobOK, Distinct, Current

LEMMA ReclaimIInv ==
  ASSUME IInv, NEW u \in Workers, Reclaim(u) PROVE IInv'
<1>1. /\ UNCHANGED <<artifact, job, judged, asked, faults>>
      /\ outbox' = [a \in Artifacts |->
                      IF Stuck(outbox[a]) THEN Reclaimed(outbox[a]) ELSE outbox[a]]
  BY DEF Reclaim
<1>2. TypeOK'
  BY <1>1 DEF IInv, TypeOK, OutboxRow, Reclaimed, RetryOrFail
<1>3. /\ \A a \in Artifacts : outbox'[a].attempts = outbox[a].attempts
      /\ \A a \in Artifacts : outbox'[a].status = "processing" => outbox[a].status = "processing"
  BY <1>1 DEF IInv, TypeOK, OutboxRow, Reclaimed, RetryOrFail
<1>4. ASSUME NEW a \in Artifacts PROVE RowOK(a)'
  <2>1. RowOK(a) /\ outbox[a].attempts \in Nat /\ artifact[a].publish \in Nat
    BY DEF IInv, TypeOK, OutboxRow, Artifact
  <2>2. CASE Stuck(outbox[a])
    <3>1. outbox'[a].status = RetryOrFail(outbox[a].attempts)
      BY <1>1, <2>2, ReclaimedRow DEF IInv, TypeOK
    <3> QED BY <1>1, <1>3, <2>1, <2>2, <3>1 DEF RowOK, Stuck, RetryOrFail
  <2>3. CASE ~ Stuck(outbox[a])
    BY <1>1, <2>1, <2>3 DEF RowOK
  <2> QED BY <2>2, <2>3
<1>5. ASSUME NEW w \in Workers, NEW a \in Artifacts PROVE JobOK(w, a)'
  BY <1>1, <1>3 DEF IInv, JobOK, Current
<1>6. \A v, w \in Workers, a \in Artifacts : Distinct(v, w, a)'
  BY <1>1 DEF IInv, Distinct
<1> QED BY <1>2, <1>4, <1>5, <1>6 DEF IInv

LEMMA NextIInv == IInv /\ [Next]_vars => IInv'
<1> SUFFICES ASSUME IInv, [Next]_vars PROVE IInv'
  OBVIOUS
<1>1. ASSUME NEW a \in Artifacts, Publish(a) \/ Expire(a) \/ Overrun(a) PROVE IInv'
  BY <1>1, PublishIInv, ExpiryIInv
<1>2. ASSUME NEW w \in Workers, Claim(w) \/ Reclaim(w) \/ Crash(w) PROVE IInv'
  BY <1>2, ClaimIInv, ReclaimIInv, CrashIInv
<1>3. ASSUME NEW w \in Workers, NEW a \in Artifacts, Process(w, a) PROVE IInv'
  BY <1>3, LoadIInv, WriteVerdictIInv, ScanFailsIInv, MarkIInv, FinalizeFailsIInv DEF Process
<1>4. CASE UNCHANGED vars
  BY <1>4 DEF vars, IInv, TypeOK, RowOK, JobOK, Distinct, Current
<1> QED BY <1>1, <1>2, <1>3, <1>4 DEF Next

LEMMA SpecIInv == Spec => []IInv
BY InitIInv, NextIInv, PTL DEF Spec

-----------------------------------------------------------------------------

(* Every table and every job keeps its shape.                              *)
THEOREM TypeCorrect == Spec => []TypeOK
<1>1. IInv => TypeOK
  BY DEF IInv
<1> QED BY <1>1, SpecIInv, PTL

(* However many workers share the queue, an attempt has one holder: claims *)
(* raise the attempts column above every attempt that is held.             *)
THEOREM AttemptsIdentifyClaims == Spec => []OneClaimant
<1>1. IInv => OneClaimant
  BY DEF IInv, Distinct, OneClaimant, Held
<1> QED BY <1>1, SpecIInv, PTL

(* No crash, retry, reclaim or stale worker makes a row succeed before the *)
(* publish that asked for the scan was scanned.                            *)
THEOREM SuccessIsEarned == Spec => []SucceededWasScanned
<1>1. IInv => SucceededWasScanned
  BY DEF IInv, RowOK, SucceededWasScanned
<1> QED BY <1>1, SpecIInv, PTL

(* An artifact that waits for a verdict keeps its intent, but for the      *)
(* publish that came while the row was processing.                         *)
THEOREM IntentsAreKept == Spec => []PendingHasIntent
<1>1. IInv => PendingHasIntent
  BY DEF IInv, TypeOK, OutboxRow, RowOK, PendingHasIntent
<1> QED BY <1>1, SpecIInv, PTL

(* Attempts are bounded by the configured number and one more per further  *)
(* publish, across failures, crashes and reclaims.                         *)
THEOREM RetriesAreBounded == Spec => []AttemptsBounded
<1>1. IInv => AttemptsBounded
  BY DEF IInv, RowOK, AttemptsBounded
<1> QED BY <1>1, SpecIInv, PTL
-----------------------------------------------------------------------------
(* What a publisher sees.                                                  *)

(* Nobody has judged, or is about to judge, a publish that is yet to come. *)
KnownInv ==
  /\ \A a \in Artifacts : \A p \in judged[a] : p <= artifact[a].publish
  /\ \A w \in Workers, a \in Artifacts :
       job[w][a].phase # "none" =>
         job[w][a].publish <= artifact[a].publish /\ outbox[a].status # "absent"

(* Rows whose publisher sees no change.                                    *)
LooksSame(a) ==
  /\ outbox'[a].attempts = outbox[a].attempts
  /\ \/ outbox'[a].status = outbox[a].status
     \/ {outbox[a].status, outbox'[a].status} \subseteq {"pending", "processing"}

LEMMA ViewStep ==
  ASSUME TypeOK
  PROVE  /\ \A a \in Artifacts :
              /\ outbox[a].attempts \in Nat
              /\ artifact[a].publish \in Nat /\ asked[a] \in Nat /\ judged[a] \subseteq Nat
         /\ \A w \in Workers, a \in Artifacts :
              job[w][a] \in Job /\ job[w][a].publish \in Nat
BY DEF TypeOK, OutboxRow, Artifact, Job

LEMMA RowsLookSame ==
  ASSUME \A a \in Artifacts : LooksSame(a)
  PROVE  RequestState' = RequestState /\ Tries' = Tries
BY DEF LooksSame, RequestState, Tries

(* Publishes are counted upwards, and no row goes away.                    *)
Grows ==
  /\ \A a \in Artifacts :
       /\ artifact[a].publish <= artifact'[a].publish
       /\ outbox[a].status # "absent" => outbox'[a].status # "absent"

LEMMA FinishStep ==
  ASSUME TypeOK, NEW u \in Workers, NEW b \in Artifacts,
         NEW status \in {"succeeded", "failed", "pending"}, Finish(u, b, status)
  PROVE  /\ \A a \in Artifacts \ {b} : outbox'[a] = outbox[a]
         /\ outbox'[b].attempts = outbox[b].attempts
         /\ Current(u, b) => outbox'[b].status = status
         /\ ~ Current(u, b) => outbox'[b] = outbox[b]
         /\ UNCHANGED <<artifact, judged, asked>>
         /\ \A w \in Workers, a \in Artifacts :
              job'[w][a].phase # "none" => job'[w][a] = job[w][a]
BY DEF TypeOK, OutboxRow, Finish, NoJob

LEMMA KnownStep ==
  ASSUME IInv, KnownInv, [Next]_vars
  PROVE  KnownInv'
<1>0. TypeOK
  BY DEF IInv
(* Steps that only drop jobs, or take them on from phase to phase.         *)
<1>1. ASSUME Grows, judged' = judged,
             \A w \in Workers, a \in Artifacts :
               job'[w][a].phase # "none" =>
                 job[w][a].phase # "none" /\ job'[w][a].publish = job[w][a].publish,
             artifact' \in [Artifacts -> Artifact]
      PROVE  KnownInv'
  <2>1. \A a \in Artifacts : artifact[a].publish \in Nat /\ artifact'[a].publish \in Nat
    BY <1>0, <1>1 DEF TypeOK, Artifact
  <2> QED BY <1>0, <1>1, <2>1, ViewStep DEF KnownInv, Grows
<1>2. ASSUME NEW b \in Artifacts, Publish(b) PROVE KnownInv'
  <2>1. /\ judged' = judged /\ job' = job
        /\ \A a \in Artifacts : artifact[a].publish <= artifact'[a].publish
        /\ artifact' \in [Artifacts -> Artifact]
    BY <1>0, <1>2, ViewStep DEF TypeOK, Publish, Artifact
  <2>2. \A a \in Artifacts : outbox[a].status # "absent" => outbox'[a].status # "absent"
    BY <1>0, <1>2, ResetRow DEF TypeOK, Publish
  <2> QED BY <1>1, <2>1, <2>2 DEF Grows
<1>3. ASSUME NEW b \in Artifacts, Expire(b) \/ Overrun(b) PROVE KnownInv'
  <2>1. outbox' = [outbox EXCEPT ![b].expired = TRUE] /\ UNCHANGED <<artifact, job, judged>>
    BY <1>3 DEF Expire, Overrun, Expired
  <2>2. Grows
    BY <1>0, <2>1, ViewStep DEF TypeOK, OutboxRow, Grows
  <2> QED BY <1>0, <1>1, <2>1, <2>2 DEF TypeOK
<1>4. ASSUME NEW u \in Workers, Claim(u) PROVE KnownInv'
  <2>1. PICK batch \in SUBSET {a \in Artifacts : outbox[a].status = "pending"} :
          /\ outbox' = [a \in Artifacts |->
                          IF a \in batch THEN ClaimedRow(outbox[a]) ELSE outbox[a]]
          /\ job' = [job EXCEPT ![u] =
                       [a \in Artifacts |->
                          IF a \in batch THEN ClaimedJob(ClaimedRow(outbox[a]).attempts)
                                         ELSE NoJob]]
    BY <1>4 DEF Claim
  <2>2. artifact' = artifact /\ judged' = judged
    BY <1>4 DEF Claim
  <2>3. \A a \in Artifacts : outbox[a].status # "absent" => outbox'[a].status # "absent"
    BY <2>1 DEF ClaimedRow
  <2>4. \A a \in Artifacts : job'[u][a].phase # "none" =>
          job'[u][a].publish = 0 /\ outbox'[a].status # "absent"
    BY <1>0, <2>1 DEF TypeOK, ClaimedRow, ClaimedJob, NoJob
  <2>5. \A w \in Workers : w # u => job'[w] = job[w]
    BY <1>0, <2>1 DEF TypeOK
  <2> QED BY <1>0, <2>2, <2>3, <2>4, <2>5, ViewStep DEF KnownInv
<1>5. ASSUME NEW u \in Workers, Reclaim(u) PROVE KnownInv'
  <2>1. /\ UNCHANGED <<artifact, job, judged>>
        /\ outbox' = [a \in Artifacts |->
                        IF Stuck(outbox[a]) THEN Reclaimed(outbox[a]) ELSE outbox[a]]
    BY <1>5 DEF Reclaim
  <2>2. Grows
    BY <1>0, <2>1, ViewStep, ReclaimedRow DEF TypeOK, RetryOrFail, Grows
  <2> QED BY <1>0, <1>1, <2>1, <2>2 DEF TypeOK
<1>6. ASSUME NEW u \in Workers, Crash(u) PROVE KnownInv'
  BY <1>0, <1>1, <1>6, ViewStep DEF TypeOK, Crash, Grows, NoJob
<1>7. ASSUME NEW u \in Workers, NEW b \in Artifacts, Process(u, b) PROVE KnownInv'
  <2>1. CASE Load(u, b)
    <3>1. /\ artifact' = artifact /\ outbox' = outbox /\ judged' = judged
          /\ job[u][b].phase # "none" /\ job'[u][b].publish = artifact[b].publish
          /\ \A w \in Workers, a \in Artifacts : w # u \/ a # b => job'[w][a] = job[w][a]
      BY <1>0, <2>1 DEF TypeOK, Load
    <3> QED BY <1>0, <3>1, ViewStep DEF KnownInv
  <2>2. CASE WriteVerdict(u, b)
    <3>1. /\ outbox' = outbox /\ job[u][b].phase # "none"
          /\ judged' = [judged EXCEPT ![b] = judged[b] \union {job[u][b].publish}]
          /\ \A a \in Artifacts : artifact'[a].publish = artifact[a].publish
          /\ job' = [job EXCEPT ![u][b].phase = "judged"]
      BY <1>0, <2>2 DEF TypeOK, WriteVerdict, Artifact
    <3>2. \A w \in Workers, a \in Artifacts :
            /\ job'[w][a].publish = job[w][a].publish
            /\ job'[w][a].phase # "none" => job[w][a].phase # "none"
      BY <1>0, <3>1 DEF TypeOK, Job
    <3>3. \A a \in Artifacts : \A p \in judged'[a] :
            p \in judged[a] \/ (a = b /\ p = job[u][b].publish)
      BY <1>0, <3>1 DEF TypeOK
    <3> QED BY <3>1, <3>2, <3>3 DEF KnownInv
  <2>3. CASE ScanFails(u, b)
    BY <1>0, <1>1, <2>3, ViewStep DEF TypeOK, ScanFails, Grows, Job
  <2>4. CASE MarkSucceeded(u, b) \/ MarkFailed(u, b)
    <3>1. PICK status \in {"succeeded", "failed", "pending"} : Finish(u, b, status)
      BY <2>4 DEF MarkSucceeded, MarkFailed, RetryOrFail
    <3>2. Grows
      BY <1>0, <3>1, FinishStep, ViewStep DEF Grows
    <3> QED BY <1>0, <1>1, <3>1, <3>2, FinishStep DEF TypeOK
  <2>5. CASE FinalizeFails(u, b)
    BY <1>0, <1>1, <2>5, ViewStep DEF TypeOK, FinalizeFails, Grows, NoJob
  <2> QED BY <1>7, <2>1, <2>2, <2>3, <2>4, <2>5 DEF Process
<1>8. CASE UNCHANGED vars
  BY <1>8 DEF vars, KnownInv
<1> QED BY <1>2, <1>3, <1>4, <1>5, <1>6, <1>7, <1>8 DEF Next

(* A row that becomes pending again by a publish has no verdict yet; one   *)
(* in processing is a request under way, which the publish joins.          *)
LEMMA PublishRefines ==
  ASSUME IInv, KnownInv, NEW b \in Artifacts, Publish(b)
  PROVE  [Abstract!Next]_Abstract!vars
<1>0. TypeOK
  BY DEF IInv
<1>1. CASE outbox[b].status = "processing"
  <2>1. outbox' = outbox /\ judged' = judged /\ asked' = asked
    BY <1>0, <1>1 DEF TypeOK, Publish, ResetAllowed
  <2> QED BY <2>1 DEF Abstract!vars, RequestState, ScannedSince, Tries
<1>2. CASE outbox[b].status # "processing"
  <2>1. /\ outbox' = [outbox EXCEPT ![b] = Reset(outbox[b])] /\ judged' = judged
        /\ asked' = [asked EXCEPT ![b] = artifact[b].publish + 1]
    BY <1>2 DEF Publish, ResetAllowed
  <2>2. outbox'[b].status = "pending" /\ outbox'[b].attempts = outbox[b].attempts
    BY <1>0, <2>1, ResetRow DEF TypeOK
  <2>3. RequestState' = [RequestState EXCEPT ![b] = "open"]
    BY <1>0, <2>1, <2>2 DEF TypeOK, RequestState
  <2>4. Tries' = Tries
    BY <1>0, <2>1, <2>2 DEF TypeOK, Tries
  <2>5. b \notin ScannedSince'
    <3>1. \A p \in judged[b] : ~ (p >= asked'[b])
      BY <1>0, <2>1, ViewStep DEF TypeOK, KnownInv
    <3> QED BY <2>1, <3>1 DEF ScannedSince
  <2>6. ScannedSince' = ScannedSince \ {b}
    BY <1>0, <2>1, <2>5 DEF TypeOK, ScannedSince
  <2> QED BY <2>3, <2>4, <2>6 DEF Abstract!Ask, Abstract!Next
<1> QED BY <1>1, <1>2

LEMMA ClaimRefines ==
  ASSUME IInv, NEW u \in Workers, Claim(u)
  PROVE  Abstract!Next
<1>1. PICK batch \in SUBSET {a \in Artifacts : outbox[a].status = "pending"} :
        outbox' = [a \in Artifacts |-> IF a \in batch THEN ClaimedRow(outbox[a]) ELSE outbox[a]]
  BY DEF Claim
<1>2. judged' = judged /\ asked' = asked
  BY DEF Claim
<1>3. RequestState' = RequestState /\ ScannedSince' = ScannedSince
  BY <1>1, <1>2 DEF RequestState, ScannedSince, ClaimedRow
<1>4. Tries' = [a \in Artifacts |-> IF a \in batch THEN Tries[a] + 1 ELSE Tries[a]]
  BY <1>1 DEF Tries, ClaimedRow
<1>5. batch \in SUBSET Abstract!Open
  BY DEF Abstract!Open, RequestState
<1> QED BY <1>3, <1>4, <1>5 DEF Abstract!Try, Abstract!Next

LEMMA ReclaimRefines ==
  ASSUME IInv, NEW u \in Workers, Reclaim(u)
  PROVE  Abstract!Next
<1>0. TypeOK
  BY DEF IInv
<1> DEFINE S == {a \in Artifacts : Stuck(outbox[a]) /\ ~ (outbox[a].attempts < MaxAttempts)}
<1>1. /\ outbox' = [a \in Artifacts |->
                      IF Stuck(outbox[a]) THEN Reclaimed(outbox[a]) ELSE outbox[a]]
      /\ judged' = judged /\ asked' = asked
  BY DEF Reclaim
<1>2. ASSUME NEW a \in Artifacts
      PROVE  /\ outbox'[a].attempts = outbox[a].attempts
             /\ a \in S => outbox[a].status = "processing" /\ outbox'[a].status = "failed"
             /\ a \notin S => LooksSame(a)
  <2>1. CASE Stuck(outbox[a])
    <3>1. /\ outbox'[a].status = RetryOrFail(outbox[a].attempts)
          /\ outbox'[a].attempts = outbox[a].attempts
      BY <1>0, <1>1, <2>1, ReclaimedRow DEF TypeOK
    <3> QED BY <2>1, <3>1 DEF RetryOrFail, Stuck, LooksSame
  <2>2. CASE ~ Stuck(outbox[a])
    BY <1>1, <2>2 DEF LooksSame
  <2> QED BY <2>1, <2>2
<1>3. Tries' = Tries /\ ScannedSince' = ScannedSince
  BY <1>1, <1>2 DEF Tries, ScannedSince
<1>4. RequestState' = [a \in Artifacts |-> IF a \in S THEN "failed" ELSE RequestState[a]]
  BY <1>2 DEF RequestState, LooksSame
<1>5. S \in SUBSET Abstract!Spent
  BY <1>0, <1>2, ViewStep DEF Abstract!Spent, Abstract!Open, RequestState, Tries
<1> QED BY <1>3, <1>4, <1>5 DEF Abstract!GiveUp, Abstract!Next

(* Only the current claimant settles the row, and by what it has seen.     *)
LEMMA FinishRefines ==
  ASSUME IInv, NEW u \in Workers, NEW b \in Artifacts, MarkSucceeded(u, b) \/ MarkFailed(u, b)
  PROVE  [Abstract!Next]_Abstract!vars
<1>0. TypeOK /\ JobOK(u, b)
  BY DEF IInv
<1>1. PICK status \in {"succeeded", "failed", "pending"} :
        /\ Finish(u, b, status)
        /\ status = "succeeded" => job[u][b].phase = "judged"
        /\ status = "failed" => ~ (job[u][b].attempts < MaxAttempts)
  BY DEF MarkSucceeded, MarkFailed, RetryOrFail
<1>2. /\ \A a \in Artifacts \ {b} : outbox'[a] = outbox[a]
      /\ outbox'[b].attempts = outbox[b].attempts
      /\ Current(u, b) => outbox'[b].status = status
      /\ ~ Current(u, b) => outbox'[b] = outbox[b]
      /\ judged' = judged /\ asked' = asked
  BY <1>0, <1>1, FinishStep
<1>3. Tries' = Tries /\ ScannedSince' = ScannedSince
  BY <1>2 DEF Tries, ScannedSince
<1>4. CASE ~ Current(u, b) \/ status = "pending"
  <2>1. \A a \in Artifacts : LooksSame(a)
    BY <1>2, <1>4 DEF LooksSame, Current
  <2> QED BY <1>3, <2>1, RowsLookSame DEF Abstract!vars
<1>5. CASE Current(u, b) /\ status # "pending"
  <2>1. /\ RequestState' = [RequestState EXCEPT ![b] = status]
        /\ RequestState' = [a \in Artifacts |-> IF a \in {b} THEN status ELSE RequestState[a]]
        /\ RequestState[b] = "open"
    BY <1>2, <1>5 DEF RequestState, Current
  <2>2. b \in Abstract!Open
    BY <2>1 DEF Abstract!Open
  <2>3. CASE status = "succeeded"
    <3>1. b \in ScannedSince
      BY <1>0, <1>1, <1>5, <2>3 DEF JobOK, ScannedSince
    <3> QED BY <1>3, <2>1, <2>2, <2>3, <3>1 DEF Abstract!Succeed, Abstract!Next
  <2>4. CASE status = "failed"
    <3>1. {b} \in SUBSET Abstract!Spent
      BY <1>0, <1>1, <1>5, <2>2, <2>4, ViewStep DEF Abstract!Spent, Tries, Current
    <3> QED BY <1>3, <2>1, <2>4, <3>1 DEF Abstract!GiveUp, Abstract!Next
  <2> QED BY <1>1, <1>5, <2>3, <2>4
<1> QED BY <1>4, <1>5

LEMMA VerdictRefines ==
  ASSUME IInv, KnownInv, NEW u \in Workers, NEW b \in Artifacts, WriteVerdict(u, b)
  PROVE  [Abstract!Next]_Abstract!vars
<1>0. TypeOK
  BY DEF IInv
<1>1. /\ outbox' = outbox /\ asked' = asked /\ job[u][b].phase # "none"
      /\ judged' = [judged EXCEPT ![b] = judged[b] \union {job[u][b].publish}]
  BY DEF WriteVerdict
<1>2. RequestState' = RequestState /\ Tries' = Tries
  BY <1>1 DEF RequestState, Tries
<1>3. RequestState[b] # "absent"
  BY <1>1 DEF KnownInv, RequestState
<1>4. ScannedSince' = IF job[u][b].publish >= asked[b] THEN ScannedSince \union {b} ELSE ScannedSince
  BY <1>0, <1>1 DEF TypeOK, ScannedSince
<1> QED BY <1>2, <1>3, <1>4 DEF Abstract!Judge, Abstract!Next, Abstract!vars

LEMMA StepRefines ==
  ASSUME IInv, KnownInv, [Next]_vars
  PROVE  [Abstract!Next]_Abstract!vars
<1>0. TypeOK
  BY DEF IInv
<1>1. ASSUME \A a \in Artifacts : LooksSame(a), judged' = judged, asked' = asked
      PROVE  [Abstract!Next]_Abstract!vars
  BY <1>1, RowsLookSame DEF Abstract!vars, ScannedSince
<1>2. ASSUME NEW b \in Artifacts, Expire(b) \/ Overrun(b) PROVE [Abstract!Next]_Abstract!vars
  <2>1. outbox' = [outbox EXCEPT ![b].expired = TRUE] /\ judged' = judged /\ asked' = asked
    BY <1>2 DEF Expire, Overrun, Expired
  <2>2. \A a \in Artifacts : LooksSame(a)
    BY <1>0, <2>1 DEF TypeOK, OutboxRow, LooksSame
  <2> QED BY <1>1, <2>1, <2>2
<1>3. ASSUME NEW u \in Workers, Crash(u) PROVE [Abstract!Next]_Abstract!vars
  BY <1>1, <1>3 DEF Crash, LooksSame
<1>4. ASSUME NEW u \in Workers, NEW b \in Artifacts, Process(u, b)
      PROVE  [Abstract!Next]_Abstract!vars
  <2>1. CASE Load(u, b) \/ ScanFails(u, b) \/ FinalizeFails(u, b)
    BY <1>1, <2>1 DEF Load, ScanFails, FinalizeFails, LooksSame
  <2> QED BY <1>4, <2>1, VerdictRefines, FinishRefines DEF Process
<1>5. CASE UNCHANGED vars
  BY <1>1, <1>5 DEF vars, LooksSame
<1> QED
  BY <1>2, <1>3, <1>4, <1>5, PublishRefines, ClaimRefines, ReclaimRefines DEF Next

(* The scan queue implements ScanRequests: what somebody asked to have     *)
(* scanned stays open until it was judged since, or MaxAttempts claims are *)
(* spent, and what is settled is opened by a publish only, whatever stale  *)
(* workers write and reclaims take over (scan-outbox-rows.ts:102).         *)
THEOREM ImplementsRequests == Spec => RequestSpec
<1>1. Init => Abstract!Init /\ KnownInv
  BY DEF Init, Abstract!Init, KnownInv, RequestState, ScannedSince, Tries, NoJob
<1>2. IInv /\ KnownInv /\ [Next]_vars => KnownInv'
  BY KnownStep
<1>3. IInv /\ KnownInv /\ [Next]_vars => [Abstract!Next]_Abstract!vars
  BY StepRefines
<1> QED BY <1>1, <1>2, <1>3, SpecIInv, PTL DEF Spec, RequestSpec, Abstract!Spec
=============================================================================
