--------------------------- MODULE UploadSessions ---------------------------
(***************************************************************************)
(* Chunked uploads: the upload_sessions table and its reaper               *)
(* (registry-platform/src/content/upload-sessions.ts) and the OCI requests *)
(* that use it (registry-oci/src/oci-uploads.ts).                          *)
(*                                                                         *)
(* PATCH locks the session, plans a chunk and lets go, stages the bytes in *)
(* object storage, then locks the session again to record the chunk.  PUT  *)
(* does the same around the upload of the assembled blob.  A transaction   *)
(* is one step, but for the one that records a chunk: between its budget   *)
(* check and its commit it holds the session's row lock and, where the     *)
(* organisation has a quota row, that row's lock.                          *)
(*                                                                         *)
(* The sessions are those of one organisation.  The blob a PUT uploads and *)
(* commits is the business of BlobStore; here it is its size.              *)
(***************************************************************************)
EXTENDS Integers, FiniteSets, Sequences, SequencesExt

CONSTANTS
  Sessions,
  Procs,          (* requests and reapers                                   *)
  ChunkSizes,     (* content lengths of a PATCH                             *)
  BodySizes,      (* bytes a PUT carries itself                             *)
  MaxStaged,      (* REGISTRY_MAX_STAGED_UPLOAD_BYTES                       *)
  Metered,        (* the organisation has a quota row                       *)
  MaxChunks,      (* bound: PATCH requests that plan a chunk                *)
  Faults,         (* the kinds of fault this instance suffers               *)
  MaxFaults       (* bound: faults in a behaviour                           *)

ASSUME UploadAssumption ==
  /\ ChunkSizes \subseteq Nat /\ BodySizes \subseteq Nat
  /\ MaxStaged \in Nat /\ MaxChunks \in Nat /\ MaxFaults \in Nat
  /\ Metered \in BOOLEAN
  /\ Faults \subseteq {"crash", "s3"}

VARIABLES
  session,   (* the upload_sessions table                                   *)
  staged,    (* chunk keys whose bytes are in object storage                *)
  req,       (* what a process is doing                                     *)
  planned,   (* chunk keys handed out                                       *)
  blobs,     (* history: blobs committed from a session                     *)
  faults     (* faults so far                                               *)

vars == <<session, staged, req, planned, blobs, faults>>

(***************************************************************************)
(* Rows and requests.                                                      *)
(***************************************************************************)

Keys == 0..MaxChunks      (* 0: an empty PATCH stages nothing               *)

(* start: the offset the PATCH was planned at.                             *)
Chunk == [key : Keys, size : Nat, start : Nat]

NoChunk == [key |-> 0, size |-> 0, start |-> 0]

(* late: expires_at has passed.                                            *)
Session == [state : {"none", "open", "committed", "aborted", "deleted"},
            offset : Nat, chunks : Seq(Chunk), late : BOOLEAN]

Phases == {"idle", "patch", "record", "commit", "discard",
           "assemble", "uploaded", "clean", "reap", "reaped"}

Request == [phase : Phases, session : Sessions, chunk : Chunk,
            chunks : Seq(Chunk), size : Nat]

Begin(phase, s, chunks) ==
  [phase |-> phase, session |-> s, chunk |-> NoChunk, chunks |-> chunks, size |-> 0]

Idle == Begin("idle", CHOOSE s \in Sessions : TRUE, << >>)

EmptyRow(state) == [state |-> state, offset |-> 0, chunks |-> << >>, late |-> FALSE]

(* The types of the variables.  The runs check properties that say more. *)
TypeOK ==
  /\ session \in [Sessions -> Session]
  /\ staged \subseteq Keys \ {0}
  /\ req \in [Procs -> Request]
  /\ planned \in Keys
  /\ blobs \in [Sessions -> Nat]
  /\ faults \in 0..MaxFaults

KeysOf(chunks) == {c.key : c \in ToSet(chunks)} \ {0}

Total(chunks) == FoldSeq(LAMBDA c, sum : sum + c.size, 0, chunks)

IsIdle(p) == req[p].phase = "idle"
Sess(p) == session[req[p].session]

Goto(p, phase) == req' = [req EXCEPT ![p].phase = phase]
Done(p) == req' = [req EXCEPT ![p] = Idle]

Fault(kind) == kind \in Faults /\ faults < MaxFaults /\ faults' = faults + 1

Init ==
  /\ session = [s \in Sessions |-> EmptyRow("none")]
  /\ staged = {}
  /\ req = [p \in Procs |-> Idle]
  /\ planned = 0
  /\ blobs = [s \in Sessions |-> 0]
  /\ faults = 0

(***************************************************************************)
(* Sessions.                                                               *)
(***************************************************************************)

Locked(s) == \E p \in Procs : req[p].phase = "commit" /\ req[p].session = s

(* Mutant: the quota row is read without FOR UPDATE.                       *)
QuotaNeverLocked == FALSE

QuotaLocked == Metered /\ \E p \in Procs : req[p].phase = "commit"

Usable(row) == row.state = "open" /\ ~row.late

CreateSession(s) ==
  /\ session[s].state = "none"
  /\ session' = [session EXCEPT ![s].state = "open"]
  /\ UNCHANGED <<staged, req, planned, blobs, faults>>

Expire(s) ==
  /\ session[s].state = "open" /\ ~session[s].late
  /\ session' = [session EXCEPT ![s].late = TRUE]
  /\ UNCHANGED <<staged, req, planned, blobs, faults>>

(* A request finds the session expired.  PATCH and PUT mark it aborted in  *)
(* the transaction that their own error rolls back, a status request does  *)
(* so for good; all of them then delete what it staged.                    *)
FoundLate(p, s) ==
  /\ IsIdle(p) /\ ~Locked(s)
  /\ session[s].state = "open" /\ session[s].late
  /\ \/ UNCHANGED session
     \/ session' = [session EXCEPT ![s].state = "aborted"]
  /\ req' = [req EXCEPT ![p] = Begin("clean", s, session[s].chunks)]
  /\ UNCHANGED <<staged, planned, blobs, faults>>

Cancel(p, s) ==
  /\ IsIdle(p) /\ ~Locked(s)
  /\ Usable(session[s])
  /\ session' = [session EXCEPT ![s].state = "aborted"]
  /\ UNCHANGED <<staged, req, planned, blobs, faults>>

(***************************************************************************)
(* PATCH.                                                                  *)
(***************************************************************************)

(* The bytes recorded by the open ones of some sessions, numbered within   *)
(* each: the sum of the offsets is the number of them.                     *)
OpenBytes(some) ==
  UNION {{s} \X (1..session[s].offset) : s \in {t \in some : session[t].state = "open"}}

OpenBytesElsewhere(s) == Cardinality(OpenBytes(Sessions \ {s}))

BudgetAllows(s, offset) == OpenBytesElsewhere(s) + offset <= MaxStaged

PlanChunk(p, s) ==
  /\ IsIdle(p) /\ ~Locked(s) /\ ~QuotaLocked
  /\ Usable(session[s])
  /\ planned < MaxChunks
  /\ \E size \in ChunkSizes :
       /\ BudgetAllows(s, session[s].offset + size)
       /\ LET key == IF size > 0 THEN planned + 1 ELSE 0
              chunk == [key |-> key, size |-> size, start |-> session[s].offset]
          IN  req' = [req EXCEPT ![p] =
                        [Begin(IF size > 0 THEN "patch" ELSE "record", s, << >>)
                           EXCEPT !.chunk = chunk]]
       /\ planned' = planned + 1
  /\ UNCHANGED <<session, staged, blobs, faults>>

StageChunk(p) ==
  /\ req[p].phase = "patch"
  /\ staged' = staged \union {req[p].chunk.key}
  /\ Goto(p, "record")
  /\ UNCHANGED <<session, planned, blobs, faults>>

(* The put failed, whether or not the bytes arrived.                       *)
StageFails(p) ==
  /\ req[p].phase = "patch"
  /\ Fault("s3")
  /\ staged' \in {staged, staged \union {req[p].chunk.key}}
  /\ Goto(p, "discard")
  /\ UNCHANGED <<session, planned, blobs>>

(* Mutant: the offset is not compared again.                               *)
InPlaceAnyway(p) == TRUE

StillInPlace(p) == Sess(p).offset = req[p].chunk.start

MayRecord(p) ==
  /\ Usable(Sess(p))
  /\ StillInPlace(p)
  /\ BudgetAllows(req[p].session, Sess(p).offset + req[p].chunk.size)

(* The second transaction up to its budget check ...                       *)
CheckChunk(p) ==
  /\ req[p].phase = "record"
  /\ ~Locked(req[p].session) /\ ~QuotaLocked
  /\ MayRecord(p)
  /\ Goto(p, "commit")
  /\ UNCHANGED <<session, staged, planned, blobs, faults>>

WithChunk(row, chunk) ==
  [row EXCEPT !.offset = @ + chunk.size,
              !.chunks = IF chunk.size > 0 THEN Append(@, chunk) ELSE @]

(* ... and to its commit.                                                  *)
RecordChunk(p) ==
  /\ req[p].phase = "commit"
  /\ session' = [session EXCEPT ![req[p].session] = WithChunk(@, req[p].chunk)]
  /\ Done(p)
  /\ UNCHANGED <<staged, planned, blobs, faults>>

(* Any check failed: the chunk is thrown away, and, when the session was   *)
(* found expired, what it had staged as well.                              *)
ChunkRefused(p) ==
  /\ req[p].phase = "record"
  /\ ~Locked(req[p].session) /\ ~QuotaLocked
  /\ ~MayRecord(p)
  /\ req' = [req EXCEPT ![p] =
               [@ EXCEPT !.phase = "discard",
                         !.chunks = IF Sess(p).state = "open" /\ Sess(p).late
                                      THEN Sess(p).chunks ELSE << >>]]
  /\ UNCHANGED <<session, staged, planned, blobs, faults>>

DiscardChunk(p) ==
  /\ req[p].phase = "discard"
  /\ \/ staged' = staged \ {req[p].chunk.key} /\ UNCHANGED faults
     \/ UNCHANGED staged /\ Fault("s3")
  /\ Goto(p, "clean")
  /\ UNCHANGED <<session, planned, blobs>>

(***************************************************************************)
(* PUT.                                                                    *)
(***************************************************************************)

BeginPut(p, s) ==
  /\ IsIdle(p) /\ ~Locked(s)
  /\ Usable(session[s])
  /\ req' = [req EXCEPT ![p] = Begin("assemble", s, session[s].chunks)]
  /\ UNCHANGED <<session, staged, planned, blobs, faults>>

(* The staged chunks and the body are uploaded as one blob ...             *)
Assemble(p) ==
  /\ req[p].phase = "assemble"
  /\ KeysOf(req[p].chunks) \subseteq staged
  /\ \E body \in BodySizes :
       req' = [req EXCEPT ![p] = [@ EXCEPT !.phase = "uploaded",
                                           !.size = Total(req[p].chunks) + body]]
  /\ UNCHANGED <<session, staged, planned, blobs, faults>>

(* ... unless one is missing, or the digest is not the expected one.       *)
AssembleFails(p) ==
  /\ req[p].phase = "assemble"
  /\ Done(p)
  /\ UNCHANGED <<session, staged, planned, blobs, faults>>

MayCommit(p) == Usable(Sess(p)) /\ req[p].size >= Sess(p).offset

CommitPut(p) ==
  /\ req[p].phase = "uploaded"
  /\ ~Locked(req[p].session)
  /\ MayCommit(p)
  /\ session' = [session EXCEPT ![req[p].session] =
                   [@ EXCEPT !.state = "committed", !.offset = req[p].size]]
  /\ blobs' = [blobs EXCEPT ![req[p].session] = @ + 1]
  /\ req' = [req EXCEPT ![p] = [@ EXCEPT !.phase = "clean", !.chunks = Sess(p).chunks]]
  /\ UNCHANGED <<staged, planned, faults>>

(* The session has changed, or a length header or the storage quota        *)
(* refuses the commit: the uploaded blob is discarded, and the chunks of a *)
(* session found expired.                                                  *)
PutRefused(p) ==
  /\ req[p].phase = "uploaded"
  /\ ~Locked(req[p].session)
  /\ IF Sess(p).state = "open" /\ Sess(p).late
       THEN req' = [req EXCEPT ![p] = [@ EXCEPT !.phase = "clean", !.chunks = Sess(p).chunks]]
       ELSE Done(p)
  /\ UNCHANGED <<session, staged, planned, blobs, faults>>

(* Deletes after the fact; a failure is ignored.                           *)
CleanStaging(p) ==
  /\ req[p].phase = "clean"
  /\ \/ staged' = staged \ KeysOf(req[p].chunks) /\ UNCHANGED faults
     \/ /\ Fault("s3")
        /\ \E kept \in SUBSET KeysOf(req[p].chunks) :
             staged' = staged \ (KeysOf(req[p].chunks) \ kept)
  /\ Done(p)
  /\ UNCHANGED <<session, planned, blobs>>

(***************************************************************************)
(* The reaper.                                                             *)
(***************************************************************************)

(* Mutant: committed sessions are not reaped.                              *)
EndedAbortedOnly(row) == row.state = "aborted"

Ended(row) == row.state \in {"aborted", "committed"}

(* Phase 1, one statement; locked rows are skipped.                        *)
AbortExpired ==
  \E late \in SUBSET {s \in Sessions :
                        session[s].state = "open" /\ session[s].late /\ ~Locked(s)} :
    /\ late # {}
    /\ session' = [s \in Sessions |->
                     IF s \in late THEN [session[s] EXCEPT !.state = "aborted"]
                                   ELSE session[s]]
    /\ UNCHANGED <<staged, req, planned, blobs, faults>>

PickEnded(p, s) ==
  /\ IsIdle(p)
  /\ Ended(session[s])
  /\ req' = [req EXCEPT ![p] = Begin("reap", s, session[s].chunks)]
  /\ UNCHANGED <<session, staged, planned, blobs, faults>>

DeleteStaged(p) ==
  /\ req[p].phase = "reap"
  /\ staged' = staged \ KeysOf(req[p].chunks)
  /\ Goto(p, "reaped")
  /\ UNCHANGED <<session, planned, blobs, faults>>

(* Some delete failed: the row stays for the next reap.                    *)
KeepRow(p) == Done(p)

DeleteStagedFails(p) ==
  /\ req[p].phase = "reap"
  /\ Fault("s3")
  /\ \E kept \in SUBSET KeysOf(req[p].chunks) :
       staged' = staged \ (KeysOf(req[p].chunks) \ kept)
  /\ KeepRow(p)
  /\ UNCHANGED <<session, planned, blobs>>

DeleteRow(p) ==
  /\ req[p].phase = "reaped"
  /\ session' = [session EXCEPT ![req[p].session] =
                   IF Ended(@) THEN EmptyRow("deleted") ELSE @]
  /\ Done(p)
  /\ UNCHANGED <<staged, planned, blobs, faults>>

Crash(p) ==
  /\ ~IsIdle(p)
  /\ Fault("crash")
  /\ Done(p)
  /\ UNCHANGED <<session, staged, planned, blobs>>

(***************************************************************************)
(* The system.                                                             *)
(***************************************************************************)

Continue(p) ==
  \/ StageChunk(p) \/ StageFails(p) \/ CheckChunk(p) \/ RecordChunk(p)
  \/ ChunkRefused(p) \/ DiscardChunk(p)
  \/ Assemble(p) \/ AssembleFails(p) \/ CommitPut(p) \/ PutRefused(p)
  \/ CleanStaging(p)
  \/ DeleteStaged(p) \/ DeleteStagedFails(p) \/ DeleteRow(p)

Next ==
  \/ \E s \in Sessions : CreateSession(s) \/ Expire(s)
  \/ AbortExpired
  \/ \E p \in Procs :
       \/ Continue(p) \/ Crash(p)
       \/ \E s \in Sessions :
            FoundLate(p, s) \/ Cancel(p, s) \/ PlanChunk(p, s) \/ BeginPut(p, s)
              \/ PickEnded(p, s)

Spec == Init /\ [][Next]_vars

(* A request that runs goes on, time passes, and the maintenance loop of   *)
(* the scan workers comes round again and again.                           *)
FairSpec ==
  /\ Spec
  /\ \A s \in Sessions : WF_vars(Expire(s))
  /\ WF_vars(AbortExpired)
  /\ WF_vars(\E p \in Procs, s \in Sessions : PickEnded(p, s))
  /\ \A p \in Procs : WF_vars(Continue(p))

(***************************************************************************)
(* Properties.                                                             *)
(***************************************************************************)

(* A request that is still under way will record or discard its chunk.     *)
InFlight == {req[p].chunk.key : p \in {q \in Procs :
               req[q].phase \in {"patch", "record", "commit", "discard"}}}

Tracked == InFlight \union UNION {KeysOf(session[s].chunks) : s \in Sessions}

(* Staged bytes are never lost track of while nothing fails, and a crash   *)
(* or a failed delete strands at most the one chunk it was about: the      *)
(* reaper keeps the row of a session until its bytes are gone.             *)
StagedBytesTracked == Cardinality(staged \ Tracked) <= faults

(* The chunks of a session that can still be used are all there for a PUT  *)
(* to assemble, whatever requests have failed, retried or been refused.    *)
OpenSessionIsComplete ==
  \A s \in Sessions : Usable(session[s]) => KeysOf(session[s].chunks) \subseteq staged

(* Every recorded chunk was planned at the offset where the one before it  *)
(* ends, so of two concurrent PATCHes of one offset only one is recorded.  *)
ChunksInPlace ==
  \A s \in Sessions : LET chunks == session[s].chunks IN
    \A i \in 1..Len(chunks) :
      chunks[i].start = IF i = 1 THEN 0 ELSE chunks[i - 1].start + chunks[i - 1].size

(* A session is committed at most once, and never after it was aborted.    *)
CommittedOnce ==
  \A s \in Sessions :
    /\ blobs[s] <= 1
    /\ session[s].state = "aborted" => blobs[s] = 0

(* A session is assembled once, from chunks that are all there, each at    *)
(* its offset.                                                             *)
AssembledOnce == CommittedOnce /\ OpenSessionIsComplete /\ ChunksInPlace

(* The open uploads of an organisation with a quota row stay within the    *)
(* staging budget, however many PATCHes race.                              *)
BudgetRespected ==
  Metered => Cardinality(OpenBytes(Sessions)) <= MaxStaged

(* Staged bytes are known to a session and within the budget.              *)
StagedBytesAccounted == StagedBytesTracked /\ BudgetRespected

(* Every session ends: committed, cancelled or expired, its row and its    *)
(* staged bytes are reclaimed.  A deleted row does not come back, so this  *)
(* is to say that no session is left in the end.                           *)
SessionsReclaimed ==
  []<>(\A s \in Sessions : session[s].state \in {"none", "deleted"})
=============================================================================
