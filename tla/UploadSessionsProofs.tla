------------------------ MODULE UploadSessionsProofs ------------------------
(***************************************************************************)
(* A session is assembled once, from chunks that are all there and in      *)
(* place, no bytes are left behind but those a fault stranded, and what is *)
(* staged stays within the budget, for any sessions, processes, sizes,     *)
(* budget and faults.                                                      *)
(*                                                                         *)
(* A chunk key is in one place: a request carries it, or one session has   *)
(* recorded it.  What a request deletes was recorded by a session that can *)
(* be used no more, or is the chunk it carries itself; and what it records *)
(* it compared with the session's offset under the lock it still holds.    *)
(* A row that a reaper is about to delete has nothing in storage.          *)
(*                                                                         *)
(* Total is a fold: that it is a number would need an induction over       *)
(* sequences, so an offset that a PUT leaves behind is only known to be    *)
(* one of Offsets.  Nothing below depends on it.                           *)
(***************************************************************************)
EXTENDS UploadSessions, SequenceTheorems, FiniteSetTheorems, TLAPS

Offsets == Nat \union {Total(chunks) + body : chunks \in Seq(Chunk), body \in BodySizes}

Rows == [state : {"none", "open", "committed", "aborted", "deleted"},
         offset : Offsets, chunks : Seq(Chunk), late : BOOLEAN]

Requests == [phase : Phases, session : Sessions \union {Idle.session}, chunk : Chunk,
             chunks : Seq(Chunk), size : Offsets]

TypeInv ==
  /\ session \in [Sessions -> Rows]
  /\ req \in [Procs -> Requests]
  /\ \A p \in Procs : ~ IsIdle(p) => req[p].session \in Sessions
  /\ planned \in Keys
  /\ blobs \in [Sessions -> Nat]

(* Where the last of the chunks ends.                                      *)
End(chunks) ==
  IF chunks = << >> THEN 0 ELSE chunks[Len(chunks)].start + chunks[Len(chunks)].size

InPlace(chunks) ==
  \A i \in 1..Len(chunks) :
    chunks[i].start = IF i = 1 THEN 0 ELSE chunks[i - 1].start + chunks[i - 1].size

RowOK(s) ==
  /\ InPlace(session[s].chunks)
  /\ session[s].state = "open" => session[s].offset = End(session[s].chunks)
  /\ session[s].state \in {"none", "deleted"} => session[s].chunks = << >>
  /\ session[s].state = "none" => session[s].offset = 0
  /\ session[s].state \in {"none", "open", "aborted"} => blobs[s] = 0
  /\ blobs[s] <= 1

Recorded(s) == KeysOf(session[s].chunks)
Named(p) == KeysOf(req[p].chunks)

(* A request with a chunk of its own, and one that is to delete others.    *)
Chunking(p) == req[p].phase \in {"patch", "record", "commit", "discard"}
Carrying(p) == Chunking(p) /\ req[p].chunk.key # 0
Cleaning(p) == req[p].phase \in {"discard", "clean", "reap", "reaped"}

CarriedAlone(p) ==
  Carrying(p) =>
    /\ req[p].chunk.key \in 1..planned
    /\ \A s \in Sessions : req[p].chunk.key \notin Recorded(s)
    /\ \A q \in Procs : req[p].chunk.key \notin Named(q)
    /\ \A q \in Procs : Carrying(q) /\ req[q].chunk.key = req[p].chunk.key => q = p

KeyInv ==
  /\ \A s \in Sessions : Recorded(s) \subseteq 1..planned
  /\ \A s, t \in Sessions : s # t => Recorded(s) \intersect Recorded(t) = {}
  /\ \A p \in Procs : Named(p) \subseteq 1..planned
  /\ \A p \in Procs : CarriedAlone(p)
  /\ \A p \in Procs, s \in Sessions :
       Cleaning(p) /\ Usable(session[s]) => Named(p) \intersect Recorded(s) = {}

(* A chunk that is recorded, or is going to be.                            *)
ToRecord(p) == req[p].phase \in {"record", "commit"} /\ req[p].chunk.key # 0

StagedInv ==
  /\ OpenSessionIsComplete
  /\ \A p \in Procs : ToRecord(p) => req[p].chunk.key \in staged

CommitOK(p) ==
  req[p].phase = "commit" =>
    /\ Sess(p).state = "open" /\ Sess(p).offset = req[p].chunk.start
    /\ \A q \in Procs : req[q].phase = "commit" /\ req[q].session = req[p].session => q = p

ChunkOK(p) ==
  /\ Chunking(p) => (req[p].chunk.key = 0 <=> req[p].chunk.size = 0)
  /\ req[p].phase \in {"patch", "record", "commit"} => Named(p) = {}

IInv ==
  /\ TypeInv
  /\ \A s \in Sessions : RowOK(s)
  /\ KeyInv
  /\ StagedInv
  /\ \A p \in Procs : CommitOK(p) /\ ChunkOK(p)

-----------------------------------------------------------------------------
(* Chunks and requests.                                                    *)

LEMMA NoKeys == KeysOf(<< >>) = {}
BY DEF KeysOf, ToSet

LEMMA AppendedKeys ==
  ASSUME NEW chunks \in Seq(Chunk), NEW c \in Chunk
  PROVE  /\ Append(chunks, c) \in Seq(Chunk)
         /\ KeysOf(Append(chunks, c)) = KeysOf(chunks) \union ({c.key} \ {0})
<1>1. ToSet(Append(chunks, c)) = ToSet(chunks) \union {c}
  BY AppendProperties DEF ToSet
<1> QED BY <1>1, AppendProperties DEF KeysOf

LEMMA EndIsOffset ==
  ASSUME NEW chunks \in Seq(Chunk) PROVE End(chunks) \in Nat
<1>1. chunks # << >> => chunks[Len(chunks)] \in Chunk
  BY EmptySeq, LenProperties, ElementOfSeq
<1> QED BY <1>1 DEF End, Chunk

LEMMA AppendedInPlace ==
  ASSUME NEW chunks \in Seq(Chunk), NEW c \in Chunk, InPlace(chunks), c.start = End(chunks)
  PROVE  InPlace(Append(chunks, c)) /\ End(Append(chunks, c)) = c.start + c.size
<1>1. PICK n \in Nat : n = Len(chunks)
  BY LenProperties
<1>2. /\ Len(Append(chunks, c)) = n + 1 /\ Append(chunks, c)[n + 1] = c
      /\ \A i \in 1..n : Append(chunks, c)[i] = chunks[i]
      /\ Append(chunks, c) # << >>
  BY <1>1, AppendProperties
<1>3. n = 0 <=> chunks = << >>
  BY <1>1, EmptySeq
<1>4. ASSUME NEW i \in 1..(n + 1)
      PROVE  Append(chunks, c)[i].start =
               IF i = 1 THEN 0
               ELSE Append(chunks, c)[i - 1].start + Append(chunks, c)[i - 1].size
  <2>1. CASE i = n + 1
    BY <1>1, <1>2, <1>3, <2>1 DEF End
  <2>2. CASE i # n + 1
    <3>1. i \in 1..n /\ (i # 1 => i - 1 \in 1..n)
      BY <2>2
    <3> QED BY <1>1, <1>2, <3>1 DEF InPlace
  <2> QED BY <2>1, <2>2
<1> QED BY <1>2, <1>4 DEF InPlace, End

(* A step of one process.                                                  *)
Alone(p) ==
  /\ req' \in [Procs -> Requests]
  /\ \A q \in Procs \ {p} : req'[q] = req[q]

LEMMA RequestSteps ==
  ASSUME TypeInv, NEW p \in Procs, NEW r \in Requests, req' = [req EXCEPT ![p] = r]
  PROVE  Alone(p) /\ req'[p] = r
BY DEF TypeInv, Alone

LEMMA IdleRequest ==
  /\ Idle \in Requests /\ Idle.phase = "idle" /\ Idle.chunks = << >>
  /\ \A phase \in Phases, s \in Sessions, chunks \in Seq(Chunk) :
       /\ Begin(phase, s, chunks) \in Requests
       /\ Begin(phase, s, chunks).phase = phase /\ Begin(phase, s, chunks).session = s
       /\ Begin(phase, s, chunks).chunks = chunks /\ Begin(phase, s, chunks).chunk = NoChunk
<1>1. NoChunk \in Chunk
  BY UploadAssumption DEF NoChunk, Chunk, Keys
<1>2. 0 \in Offsets /\ << >> \in Seq(Chunk)
  BY DEF Offsets
<1> QED BY <1>1, <1>2 DEF Idle, Begin, Requests, Phases

LEMMA Requested ==
  ASSUME TypeInv, NEW p \in Procs
  PROVE  /\ req[p] \in Requests /\ req[p].phase \in Phases /\ req[p].chunk \in Chunk
         /\ req[p].chunks \in Seq(Chunk) /\ req[p].size \in Offsets
         /\ req[p].chunk.key \in 0..MaxChunks /\ req[p].chunk.size \in Nat
         /\ ~ IsIdle(p) => Sess(p) \in Rows
BY DEF TypeInv, Requests, Chunk, Keys, Sess

LEMMA GotoSteps ==
  ASSUME TypeInv, NEW p \in Procs, NEW phase \in Phases, Goto(p, phase)
  PROVE  /\ Alone(p) /\ req'[p].phase = phase /\ req'[p].session = req[p].session
         /\ req'[p].chunk = req[p].chunk /\ req'[p].chunks = req[p].chunks
<1>1. PICK r : r = [req[p] EXCEPT !.phase = phase]
  OBVIOUS
<1>2. /\ r \in Requests /\ r.phase = phase /\ r.session = req[p].session
      /\ r.chunk = req[p].chunk /\ r.chunks = req[p].chunks
  BY <1>1, Requested DEF Requests
<1>3. req' = [req EXCEPT ![p] = r]
  BY <1>1 DEF Goto
<1> QED BY <1>2, <1>3, RequestSteps

(* A request goes on to a phase with the chunks of its session.            *)
LEMMA ChunksSteps ==
  ASSUME TypeInv, NEW p \in Procs, NEW phase \in Phases, NEW chunks \in Seq(Chunk),
         req' = [req EXCEPT ![p] = [@ EXCEPT !.phase = phase, !.chunks = chunks]]
  PROVE  /\ Alone(p) /\ req'[p].phase = phase /\ req'[p].session = req[p].session
         /\ req'[p].chunk = req[p].chunk /\ req'[p].chunks = chunks
<1>1. PICK r : r = [req[p] EXCEPT !.phase = phase, !.chunks = chunks]
  OBVIOUS
<1>2. /\ r \in Requests /\ r.phase = phase /\ r.session = req[p].session
      /\ r.chunk = req[p].chunk /\ r.chunks = chunks
  BY <1>1, Requested DEF Requests
<1>3. req' = [req EXCEPT ![p] = r]
  BY <1>1
<1> QED BY <1>2, <1>3, RequestSteps

LEMMA DoneSteps ==
  ASSUME TypeInv, NEW p \in Procs, Done(p)
  PROVE  Alone(p) /\ IsIdle(p)' /\ Named(p)' = {}
<1>1. Alone(p) /\ req'[p] = Idle
  BY IdleRequest, RequestSteps DEF Done
<1> QED BY <1>1, IdleRequest, NoKeys DEF IsIdle, Named

LEMMA BeginSteps ==
  ASSUME TypeInv, NEW p \in Procs, NEW phase \in Phases, NEW s \in Sessions,
         req' = [req EXCEPT ![p] = Begin(phase, s, session[s].chunks)]
  PROVE  Alone(p) /\ req'[p].phase = phase /\ req'[p].session = s /\ Named(p)' = Recorded(s)
<1>1. session[s].chunks \in Seq(Chunk)
  BY DEF TypeInv, Rows
<1>2. Alone(p) /\ req'[p] = Begin(phase, s, session[s].chunks)
  BY <1>1, IdleRequest, RequestSteps
<1> QED BY <1>1, <1>2, IdleRequest DEF Named, Recorded

-----------------------------------------------------------------------------
(* What a step leaves alone.                                               *)

(* Another process's step.                                                 *)
Same(p) ==
  /\ Named(p)' = Named(p) /\ (Carrying(p)' <=> Carrying(p)) /\ (Cleaning(p)' <=> Cleaning(p))
  /\ req'[p] = req[p]
  /\ (ToRecord(p)' <=> ToRecord(p)) /\ (ChunkOK(p)' <=> ChunkOK(p))

LEMMA SameSteps ==
  ASSUME NEW p \in Procs, req'[p] = req[p] PROVE Same(p)
BY DEF Same, Named, Carrying, Chunking, Cleaning, ToRecord, ChunkOK

(* What a step does with the chunks that a process is to delete, and with  *)
(* the one that it carries.                                                *)
Keeps(p) ==
  /\ Carrying(p)' => Carrying(p) /\ req'[p].chunk.key = req[p].chunk.key
  /\ \/ Named(p)' = {}
     \/ Named(p)' = Named(p) /\ (Cleaning(p)' => Cleaning(p))
     \/ \E s \in Sessions : Named(p)' = Recorded(s) /\ ~ Usable(session'[s])

(* No key is new, and none is recorded.                                    *)
LEMMA KeysKept ==
  ASSUME KeyInv, planned' = planned,
         \A s \in Sessions : Recorded(s)' = Recorded(s) \/ Recorded(s)' = {},
         \A s \in Sessions : Usable(session'[s]) => Usable(session[s]) \/ Recorded(s)' = {},
         \A p \in Procs : Keeps(p) \/
           \E s \in Sessions : Named(p)' = Recorded(s) /\ ~ Cleaning(p)' /\ ~ Carrying(p)'
  PROVE  KeyInv'
<1>1. ASSUME NEW p \in Procs
      PROVE  /\ Named(p)' \subseteq 1..planned
             /\ \A q \in Procs : Carrying(q) => req[q].chunk.key \notin Named(p)'
             /\ Carrying(p)' => Carrying(p) /\ req'[p].chunk.key = req[p].chunk.key
  BY DEF KeyInv, Keeps, CarriedAlone
<1>2. ASSUME NEW p \in Procs PROVE CarriedAlone(p)'
  BY <1>1 DEF KeyInv, CarriedAlone
<1>3. ASSUME NEW p \in Procs, NEW s \in Sessions, Cleaning(p)', Usable(session'[s])
      PROVE  Named(p)' \intersect Recorded(s)' = {}
  <2>1. CASE Named(p)' = Named(p) /\ Cleaning(p)
    BY <1>3, <2>1 DEF KeyInv
  <2>2. ASSUME NEW t \in Sessions, Named(p)' = Recorded(t), ~ Usable(session'[t])
        PROVE  Named(p)' \intersect Recorded(s)' = {}
    <3>1. s # t
      BY <1>3, <2>2
    <3> QED BY <2>2, <3>1 DEF KeyInv
  <2> QED BY <1>3, <2>1, <2>2 DEF Keeps
<1>4. \A s, t \in Sessions : s # t => Recorded(s)' \intersect Recorded(t)' = {}
  BY DEF KeyInv
<1>5. \A s \in Sessions : Recorded(s)' \subseteq 1..planned
  BY DEF KeyInv
<1> QED BY <1>1, <1>2, <1>3, <1>4, <1>5 DEF KeyInv

(* Nothing that is needed is deleted.                                      *)
LEMMA StagedKept ==
  ASSUME StagedInv, NEW gone, staged \ staged' \subseteq gone,
         \A s \in Sessions : Usable(session'[s]) =>
           \/ Recorded(s)' = {}
           \/ /\ Usable(session[s]) /\ Recorded(s)' = Recorded(s)
              /\ gone \intersect Recorded(s) = {},
         \A p \in Procs : ToRecord(p)' =>
           \/ req'[p].chunk.key \in staged'
           \/ /\ ToRecord(p) /\ req'[p].chunk.key = req[p].chunk.key
              /\ req[p].chunk.key \notin gone
  PROVE  StagedInv'
<1>1. \A s \in Sessions : Usable(session'[s]) => Recorded(s)' \subseteq staged'
  BY DEF StagedInv, OpenSessionIsComplete, Recorded
<1>2. \A p \in Procs : ToRecord(p)' => req'[p].chunk.key \in staged'
  BY DEF StagedInv
<1> QED BY <1>1, <1>2 DEF StagedInv, OpenSessionIsComplete, Recorded

(* No chunk comes to its commit, and a session under one is left alone.    *)
LEMMA CommitsKept ==
  ASSUME \A p \in Procs : CommitOK(p),
         \A p \in Procs : req'[p].phase = "commit" =>
           /\ req'[p] = req[p]
           /\ session'[req[p].session].state = session[req[p].session].state
           /\ session'[req[p].session].offset = session[req[p].session].offset
  PROVE  \A p \in Procs : CommitOK(p)'
BY DEF CommitOK, Sess

(* A step of one process that touches no session.                          *)
LEMMA ProcessIInv ==
  ASSUME IInv, NEW p \in Procs, Alone(p), UNCHANGED <<session, blobs, planned>>,
         ~ IsIdle(p)' => req'[p].session \in Sessions,
         Keeps(p) \/ \E s \in Sessions : /\ Named(p)' = Recorded(s)
                                         /\ ~ Cleaning(p)' /\ ~ Carrying(p)',
         StagedInv', CommitOK(p)', ChunkOK(p)',
         req'[p].phase = "commit" =>
           \A q \in Procs \ {p} : ~ (req[q].phase = "commit" /\ req[q].session = req'[p].session)
  PROVE  IInv'
<1>1. \A q \in Procs \ {p} : Same(q) /\ req'[q] = req[q]
  BY SameSteps DEF Alone
<1>2. TypeInv'
  BY <1>1 DEF Alone, IInv, TypeInv, IsIdle
<1>3. \A s \in Sessions : RowOK(s)' /\ Recorded(s)' = Recorded(s)
  BY DEF IInv, RowOK, Recorded
<1>4. KeyInv'
  <2>1. \A q \in Procs \ {p} : Keeps(q)
    BY <1>1 DEF Same, Keeps
  <2> QED BY <1>3, <2>1, KeysKept DEF IInv
<1>5. ASSUME NEW q \in Procs \ {p} PROVE CommitOK(q)' /\ ChunkOK(q)'
  <2>1. ChunkOK(q)'
    BY <1>1 DEF IInv, Same
  <2>2. CommitOK(q)'
    BY <1>1, <1>5 DEF IInv, CommitOK, Sess
  <2> QED BY <2>1, <2>2
<1> QED BY <1>2, <1>3, <1>4, <1>5 DEF IInv

-----------------------------------------------------------------------------
(* The steps that touch no session.                                        *)

(* What a process deletes nobody needs.                                    *)
LEMMA NamedDeleted ==
  ASSUME IInv, NEW p \in Procs, Cleaning(p), Alone(p), ~ ToRecord(p)',
         session' = session, staged \ staged' \subseteq Named(p)
  PROVE  StagedInv'
<1>1. \A s \in Sessions : Usable(session'[s]) =>
        /\ Usable(session[s]) /\ Recorded(s)' = Recorded(s)
        /\ Named(p) \intersect Recorded(s) = {}
  BY DEF IInv, KeyInv, Recorded
<1>2. \A q \in Procs : ToRecord(q)' =>
        /\ ToRecord(q) /\ req'[q].chunk.key = req[q].chunk.key
        /\ req[q].chunk.key \notin Named(p)
  <2> TAKE q \in Procs
  <2>1. CASE q = p
    BY <2>1
  <2>2. CASE q # p
    <3>1. req'[q] = req[q] /\ Same(q)
      BY <2>2, SameSteps DEF Alone
    <3>2. ToRecord(q) => Carrying(q)
      BY DEF ToRecord, Carrying, Chunking
    <3> QED BY <3>1, <3>2 DEF IInv, KeyInv, CarriedAlone, Same
  <2> QED BY <2>1, <2>2
<1> QED BY <1>1, <1>2, StagedKept DEF IInv

(* Nothing is deleted.                                                     *)
LEMMA StagedMore ==
  ASSUME IInv, NEW p \in Procs, Alone(p), session' = session, staged \subseteq staged',
         ToRecord(p)' => \/ req'[p].chunk.key \in staged'
                         \/ ToRecord(p) /\ req'[p].chunk.key = req[p].chunk.key
  PROVE  StagedInv'
<1>1. \A s \in Sessions : Usable(session'[s]) => Usable(session[s]) /\ Recorded(s)' = Recorded(s)
  BY DEF Recorded
<1>2. \A q \in Procs \ {p} : req'[q] = req[q] /\ (ToRecord(q)' <=> ToRecord(q))
  BY SameSteps DEF Alone, Same
<1>3. PICK gone : gone = {}
  OBVIOUS
<1> QED BY <1>1, <1>2, <1>3, StagedKept DEF IInv

(* A request is over.                                                      *)
LEMMA DoneIInv ==
  ASSUME IInv, NEW p \in Procs, Done(p), UNCHANGED <<session, blobs, planned>>,
         StagedInv' \/ staged' = staged
  PROVE  IInv'
<1>1. /\ Alone(p) /\ IsIdle(p)' /\ Named(p)' = {} /\ req'[p].phase = "idle"
      /\ ~ Carrying(p)' /\ ~ ToRecord(p)' /\ CommitOK(p)' /\ ChunkOK(p)'
  BY DoneSteps DEF IInv, IsIdle, Carrying, Chunking, ToRecord, CommitOK, ChunkOK
<1>2. StagedInv'
  BY <1>1, StagedMore
<1> QED BY <1>1, <1>2, ProcessIInv DEF Keeps

(* A request begins that is to delete, or to assemble, what a session has. *)
LEMMA BeginIInv ==
  ASSUME IInv, NEW p \in Procs, NEW s \in Sessions, NEW phase \in {"clean", "assemble", "reap"},
         req' = [req EXCEPT ![p] = Begin(phase, s, session[s].chunks)],
         phase = "assemble" \/ ~ Usable(session[s]), UNCHANGED <<session, staged, blobs, planned>>
  PROVE  IInv'
<1>1. Alone(p) /\ req'[p].phase = phase /\ req'[p].session = s /\ Named(p)' = Recorded(s)
  BY BeginSteps DEF IInv, Phases
<1>2. /\ ~ Carrying(p)' /\ ~ ToRecord(p)' /\ CommitOK(p)' /\ ChunkOK(p)'
      /\ phase = "assemble" => ~ Cleaning(p)'
  BY <1>1 DEF Carrying, Chunking, ToRecord, CommitOK, ChunkOK, Cleaning
<1>3. StagedInv'
  BY <1>1, <1>2, StagedMore
<1> QED BY <1>1, <1>2, <1>3, ProcessIInv DEF Keeps

(* A request goes on with its chunk, its chunks and its session.           *)
Goes(p, phase) ==
  /\ Alone(p) /\ req'[p].phase = phase /\ req'[p].session = req[p].session
  /\ req'[p].chunk = req[p].chunk /\ req'[p].chunks = req[p].chunks

LEMMA GoesIInv ==
  ASSUME IInv, NEW p \in Procs, NEW phase \in Phases \ {"commit"}, Goes(p, phase), ~ IsIdle(p),
         phase \in {"patch", "record", "discard"} => Chunking(p) /\ Named(p) = {},
         phase \in {"discard", "clean", "reap", "reaped"} => Cleaning(p) \/ Named(p) = {},
         UNCHANGED <<session, blobs, planned>>, StagedInv'
  PROVE  IInv'
<1>1. Named(p)' = Named(p) /\ (Cleaning(p)' => Cleaning(p) \/ Named(p)' = {})
  BY DEF Goes, Named, Cleaning
<1>2. Carrying(p)' => Carrying(p) /\ req'[p].chunk.key = req[p].chunk.key
  BY DEF Goes, Carrying, Chunking
<1>3. CommitOK(p)' /\ req'[p].phase # "commit"
  BY DEF Goes, CommitOK
<1>4. ChunkOK(p)'
  BY <1>1 DEF Goes, ChunkOK, Chunking, IInv
<1>5. ~ IsIdle(p)' => req'[p].session \in Sessions
  BY DEF Goes, IInv, TypeInv
<1> QED BY <1>1, <1>2, <1>3, <1>4, <1>5, ProcessIInv DEF Goes, Keeps

(* The bytes of a chunk are put; whatever arrives of them is its own.      *)
LEMMA StageIInv ==
  ASSUME IInv, NEW p \in Procs, StageChunk(p) \/ StageFails(p)
  PROVE  IInv'
<1>1. /\ req[p].phase = "patch" /\ ~ IsIdle(p) /\ Chunking(p) /\ Named(p) = {}
      /\ staged \subseteq staged' /\ UNCHANGED <<session, blobs, planned>>
  BY DEF StageChunk, StageFails, IsIdle, Chunking, IInv, ChunkOK
<1>2. CASE StageChunk(p)
  <2>1. Goes(p, "record") /\ req'[p].chunk.key \in staged'
    BY <1>2, GotoSteps DEF IInv, Phases, StageChunk, Goes
  <2>2. StagedInv'
    BY <1>1, <2>1, StagedMore DEF Goes
  <2> QED BY <1>1, <2>1, <2>2, GoesIInv DEF Phases
<1>3. CASE StageFails(p)
  <2>1. Goes(p, "discard") /\ ~ ToRecord(p)'
    BY <1>3, GotoSteps DEF IInv, Phases, StageFails, Goes, ToRecord
  <2>2. StagedInv'
    BY <1>1, <2>1, StagedMore DEF Goes
  <2> QED BY <1>1, <2>1, <2>2, GoesIInv DEF Phases
<1> QED BY <1>2, <1>3

(* The offset is compared under the lock that the commit still holds.      *)
LEMMA CheckIInv ==
  ASSUME IInv, NEW p \in Procs, CheckChunk(p) PROVE IInv'
<1>1. /\ req[p].phase = "record" /\ ~ IsIdle(p) /\ Chunking(p)
      /\ ~ Locked(req[p].session) /\ Usable(Sess(p)) /\ StillInPlace(p)
      /\ UNCHANGED <<session, staged, blobs, planned>>
  BY DEF CheckChunk, MayRecord, IsIdle, Chunking
<1>2. Goes(p, "commit")
  BY GotoSteps DEF IInv, Phases, CheckChunk, Goes
<1>3. ToRecord(p)' => ToRecord(p) /\ req'[p].chunk.key = req[p].chunk.key
  BY <1>1, <1>2 DEF Goes, ToRecord
<1>4. StagedInv'
  BY <1>1, <1>2, <1>3, StagedMore DEF Goes
<1>5. \A q \in Procs \ {p} : ~ (req[q].phase = "commit" /\ req[q].session = req'[p].session)
  BY <1>1, <1>2 DEF Locked, Goes
<1>6. CommitOK(p)'
  <2>1. Sess(p)' = Sess(p)
    BY <1>1, <1>2 DEF Goes, Sess
  <2>2. req'[p].chunk = req[p].chunk
    BY <1>2 DEF Goes
  <2>3. \A q \in Procs \ {p} : req'[q] = req[q]
    BY <1>2 DEF Goes, Alone
  <2> QED BY <1>1, <1>5, <2>1, <2>2, <2>3 DEF CommitOK, Usable, StillInPlace
<1>7. Named(p)' = Named(p) /\ Named(p) = {} /\ ChunkOK(p)'
  <2>1. Named(p)' = Named(p) /\ Named(p) = {}
    BY <1>1, <1>2 DEF Goes, Named, IInv, ChunkOK
  <2> QED BY <1>1, <1>2, <2>1 DEF Goes, ChunkOK, Chunking, IInv
<1>8. Carrying(p)' => Carrying(p) /\ req'[p].chunk.key = req[p].chunk.key
  BY <1>1, <1>2 DEF Goes, Carrying, Chunking
<1>9. ~ IsIdle(p)' => req'[p].session \in Sessions
  BY <1>1, <1>2 DEF Goes, IInv, TypeInv
<1> QED BY <1>1, <1>2, <1>4, <1>5, <1>6, <1>7, <1>8, <1>9, ProcessIInv DEF Goes, Keeps

(* A request gives its chunk, or its blob, up; of a session that it found  *)
(* expired it is to delete the chunks.                                     *)
LEMMA RefusedIInv ==
  ASSUME IInv, NEW p \in Procs, NEW phase \in {"discard", "clean"}, NEW chunks \in Seq(Chunk),
         phase = "discard" => req[p].phase = "record", ~ IsIdle(p),
         req' = [req EXCEPT ![p] = [@ EXCEPT !.phase = phase, !.chunks = chunks]],
         \/ chunks = << >>
         \/ chunks = Sess(p).chunks /\ ~ Usable(Sess(p)),
         UNCHANGED <<session, staged, blobs, planned>>
  PROVE  IInv'
<1>1. /\ Alone(p) /\ req'[p].phase = phase /\ req'[p].session = req[p].session
      /\ req'[p].chunk = req[p].chunk /\ req'[p].chunks = chunks
  BY ChunksSteps DEF IInv, Phases
<1>2. /\ ~ ToRecord(p)' /\ CommitOK(p)' /\ req'[p].phase # "commit"
      /\ Carrying(p)' => Carrying(p) /\ req'[p].chunk.key = req[p].chunk.key
  BY <1>1 DEF ToRecord, CommitOK, Carrying, Chunking
<1>3. ChunkOK(p)'
  BY <1>1 DEF IInv, ChunkOK, Chunking
<1>4. req[p].session \in Sessions
  BY DEF IInv, TypeInv
<1>5. Named(p)' = {} \/ \E s \in Sessions : Named(p)' = Recorded(s) /\ ~ Usable(session'[s])
  BY <1>1, <1>4, NoKeys DEF Named, Recorded, Sess
<1>6. StagedInv'
  BY <1>1, <1>2, StagedMore
<1> QED BY <1>1, <1>2, <1>3, <1>4, <1>5, <1>6, ProcessIInv DEF Keeps

LEMMA ChunkRefusedIInv ==
  ASSUME IInv, NEW p \in Procs, ChunkRefused(p) PROVE IInv'
<1>1. PICK chunks : chunks = IF Sess(p).state = "open" /\ Sess(p).late
                               THEN Sess(p).chunks ELSE << >>
  OBVIOUS
<1>2. ~ IsIdle(p) /\ Sess(p).chunks \in Seq(Chunk)
  BY Requested DEF IInv, ChunkRefused, IsIdle, Rows
<1>3. chunks \in Seq(Chunk) /\ (chunks = << >> \/ (chunks = Sess(p).chunks /\ ~ Usable(Sess(p))))
  BY <1>1, <1>2 DEF Usable
<1> QED BY <1>1, <1>2, <1>3, RefusedIInv DEF ChunkRefused

LEMMA PutRefusedIInv ==
  ASSUME IInv, NEW p \in Procs, PutRefused(p) PROVE IInv'
<1>1. CASE Sess(p).state = "open" /\ Sess(p).late
  <2>1. ~ IsIdle(p) /\ Sess(p).chunks \in Seq(Chunk)
    BY Requested DEF IInv, PutRefused, IsIdle, Rows
  <2> QED BY <1>1, <2>1, RefusedIInv DEF PutRefused, Usable
<1>2. CASE ~ (Sess(p).state = "open" /\ Sess(p).late)
  BY <1>2, DoneIInv DEF PutRefused
<1> QED BY <1>1, <1>2

(* A request deletes the chunk that it carries, and nobody else has.       *)
LEMMA DiscardIInv ==
  ASSUME IInv, NEW p \in Procs, DiscardChunk(p) PROVE IInv'
<1>1. /\ req[p].phase = "discard" /\ ~ IsIdle(p) /\ Chunking(p) /\ Cleaning(p)
      /\ UNCHANGED <<session, blobs, planned>> /\ staged \ staged' \subseteq {req[p].chunk.key}
  BY DEF DiscardChunk, IsIdle, Chunking, Cleaning
<1>2. Goes(p, "clean") /\ ~ ToRecord(p)'
  BY GotoSteps DEF IInv, Phases, DiscardChunk, Goes, ToRecord
<1>3. PICK key : key = req[p].chunk.key
  OBVIOUS
<1>4. \A s \in Sessions : Recorded(s)' = Recorded(s) /\ key \notin Recorded(s)
  <2>1. key = 0 => \A s \in Sessions : key \notin Recorded(s)
    BY DEF Recorded, KeysOf
  <2>2. key # 0 => Carrying(p)
    BY <1>1, <1>3 DEF Carrying
  <2> QED BY <1>1, <1>3, <2>1, <2>2 DEF IInv, KeyInv, CarriedAlone, Recorded
<1>5. \A q \in Procs : ToRecord(q)' => /\ ToRecord(q) /\ req'[q].chunk.key = req[q].chunk.key
                                       /\ req[q].chunk.key # key
  <2> TAKE q \in Procs
  <2>1. CASE q = p
    BY <1>2, <2>1
  <2>2. CASE q # p
    <3>1. req'[q] = req[q] /\ (ToRecord(q)' <=> ToRecord(q))
      BY <1>2, <2>2, SameSteps DEF Goes, Alone, Same
    <3>2. ToRecord(q) => Carrying(q) /\ req[q].chunk.key # 0
      BY DEF ToRecord, Carrying, Chunking
    <3>3. ToRecord(q) => req[q].chunk.key # key
      BY <1>1, <1>3, <2>2, <3>2 DEF IInv, KeyInv, CarriedAlone, Carrying
    <3> QED BY <3>1, <3>3
  <2> QED BY <2>1, <2>2
<1>6. StagedInv'
  <2>1. PICK gone : gone = {key}
    OBVIOUS
  <2>2. staged \ staged' \subseteq gone
    BY <1>1, <1>3, <2>1
  <2>3. \A s \in Sessions : Usable(session'[s]) =>
          /\ Usable(session[s]) /\ Recorded(s)' = Recorded(s)
          /\ gone \intersect Recorded(s) = {}
    BY <1>1, <1>4, <2>1
  <2> QED BY <1>5, <2>1, <2>2, <2>3, StagedKept DEF IInv
<1> QED BY <1>1, <1>2, <1>6, GoesIInv DEF Phases

LEMMA AssembleIInv ==
  ASSUME IInv, NEW p \in Procs, Assemble(p) PROVE IInv'
<1>1. /\ req[p].phase = "assemble" /\ ~ IsIdle(p)
      /\ UNCHANGED <<session, staged, blobs, planned>>
  BY DEF Assemble, IsIdle
<1>2. PICK body \in BodySizes :
        req' = [req EXCEPT ![p] = [@ EXCEPT !.phase = "uploaded",
                                            !.size = Total(req[p].chunks) + body]]
  BY DEF Assemble
<1>3. PICK size : size = Total(req[p].chunks) + body
  OBVIOUS
<1>4. size \in Offsets
  BY <1>3, Requested DEF IInv, Offsets
<1>5. PICK r : r = [req[p] EXCEPT !.phase = "uploaded", !.size = size]
  OBVIOUS
<1>6. /\ r \in Requests /\ r.phase = "uploaded" /\ r.session = req[p].session
      /\ r.chunk = req[p].chunk /\ r.chunks = req[p].chunks
  BY <1>4, <1>5, Requested DEF IInv, Requests, Phases
<1>7. req' = [req EXCEPT ![p] = r]
  BY <1>2, <1>3, <1>5
<1>8. Goes(p, "uploaded")
  BY <1>6, <1>7, RequestSteps DEF IInv, Goes
<1>9. StagedInv'
  BY <1>1, <1>8, StagedMore DEF Goes, ToRecord
<1> QED BY <1>1, <1>8, <1>9, GoesIInv DEF Phases

LEMMA DeleteIInv ==
  ASSUME IInv, NEW p \in Procs, CleanStaging(p) \/ DeleteStaged(p) \/ DeleteStagedFails(p)
  PROVE  IInv'
<1>1. /\ Cleaning(p) /\ ~ IsIdle(p) /\ UNCHANGED <<session, blobs, planned>>
      /\ staged \ staged' \subseteq Named(p)
  BY DEF CleanStaging, DeleteStaged, DeleteStagedFails, Cleaning, IsIdle, Named
<1>2. CASE CleanStaging(p) \/ DeleteStagedFails(p)
  <2>1. Done(p)
    BY <1>2 DEF CleanStaging, DeleteStagedFails, KeepRow
  <2>2. Alone(p) /\ ~ ToRecord(p)'
    BY <2>1, DoneSteps DEF IInv, IsIdle, ToRecord
  <2> QED BY <1>1, <2>1, <2>2, NamedDeleted, DoneIInv
<1>3. CASE DeleteStaged(p)
  <2>1. Goes(p, "reaped") /\ ~ ToRecord(p)'
    BY <1>3, GotoSteps DEF IInv, Phases, DeleteStaged, Goes, ToRecord
  <2>2. StagedInv'
    BY <1>1, <2>1, NamedDeleted DEF Goes
  <2> QED BY <1>1, <2>1, <2>2, GoesIInv DEF Phases
<1> QED BY <1>2, <1>3

-----------------------------------------------------------------------------
(* The sessions.                                                           *)

(* What happens to a row while its chunks are what they were.              *)
Turned(s) ==
  /\ session'[s].chunks = session[s].chunks /\ session'[s].offset = session[s].offset
  /\ \/ session'[s].state = session[s].state /\ (Usable(session'[s]) => Usable(session[s]))
     \/ session[s].state = "none" /\ session'[s].state = "open"
     \/ session[s].state = "open" /\ session'[s].state = "aborted" /\ ~ Locked(s)

LEMMA TurnedRows ==
  ASSUME IInv, \A s \in Sessions : Turned(s), blobs' = blobs
  PROVE  /\ \A s \in Sessions : RowOK(s)' /\ Recorded(s)' = Recorded(s)
         /\ \A s \in Sessions : Usable(session'[s]) => Usable(session[s]) \/ Recorded(s)' = {}
         /\ \A p \in Procs : req[p].phase = "commit" =>
              /\ session'[req[p].session].state = session[req[p].session].state
              /\ session'[req[p].session].offset = session[req[p].session].offset
<1>1. ASSUME NEW s \in Sessions
      PROVE  /\ RowOK(s)' /\ Recorded(s)' = Recorded(s)
             /\ Usable(session'[s]) => Usable(session[s]) \/ Recorded(s)' = {}
  <2>1. RowOK(s) /\ Turned(s)
    BY DEF IInv
  <2>2. RowOK(s)'
    BY <2>1 DEF RowOK, Turned, End
  <2> QED BY <2>1, <2>2, NoKeys DEF RowOK, Turned, Recorded, Usable
<1>2. ASSUME NEW p \in Procs, req[p].phase = "commit"
      PROVE  /\ session'[req[p].session].state = session[req[p].session].state
             /\ session'[req[p].session].offset = session[req[p].session].offset
  <2>1. req[p].session \in Sessions /\ Locked(req[p].session) /\ Sess(p).state = "open"
    BY <1>2 DEF IInv, TypeInv, IsIdle, Locked, CommitOK
  <2> QED BY <2>1 DEF Turned, Sess
<1> QED BY <1>1, <1>2

LEMMA TurnedIInv ==
  ASSUME IInv, \A s \in Sessions : Turned(s), session' \in [Sessions -> Rows],
         UNCHANGED <<staged, req, blobs, planned>>
  PROVE  IInv'
<1>1. \A p \in Procs : Same(p) /\ Keeps(p)
  BY SameSteps DEF Same, Keeps
<1>2. KeyInv'
  BY <1>1, TurnedRows, KeysKept DEF IInv
<1>3. StagedInv'
  <2>1. PICK gone : gone = {}
    OBVIOUS
  <2> QED BY <1>1, <2>1, TurnedRows, StagedKept DEF IInv, Same
<1>4. \A p \in Procs : CommitOK(p)'
  BY TurnedRows, CommitsKept DEF IInv
<1>5. TypeInv'
  BY DEF IInv, TypeInv, IsIdle
<1>6. \A p \in Procs : ChunkOK(p)'
  BY <1>1 DEF IInv, Same
<1> QED BY <1>2, <1>3, <1>4, <1>5, <1>6, TurnedRows DEF IInv

(* A row goes to a state, or becomes late.                                 *)
LEMMA RowTypes ==
  ASSUME NEW row \in Rows
  PROVE  /\ [row EXCEPT !.state = "open"] \in Rows /\ [row EXCEPT !.state = "aborted"] \in Rows
         /\ [row EXCEPT !.late = TRUE] \in Rows
BY DEF Rows

LEMMA SessionSteps ==
  ASSUME IInv,
         \/ \E s \in Sessions : CreateSession(s) \/ Expire(s)
         \/ \E p \in Procs, s \in Sessions : Cancel(p, s)
         \/ AbortExpired
  PROVE  /\ session' \in [Sessions -> Rows] /\ \A s \in Sessions : Turned(s)
         /\ UNCHANGED <<staged, req, blobs, planned, faults>>
<1>1. \A s \in Sessions : session[s] \in Rows
  BY DEF IInv, TypeInv
<1>2. ASSUME NEW s \in Sessions, CreateSession(s)
      PROVE  /\ session' \in [Sessions -> Rows] /\ \A t \in Sessions : Turned(t)
             /\ UNCHANGED <<staged, req, blobs, planned, faults>>
  <2>1. PICK row : row = [session[s] EXCEPT !.state = "open"]
    OBVIOUS
  <2>2. /\ row \in Rows /\ row.state = "open" /\ row.chunks = session[s].chunks
        /\ row.offset = session[s].offset
    BY <1>1, <2>1, RowTypes DEF Rows
  <2>3. session' = [session EXCEPT ![s] = row] /\ session[s].state = "none"
    BY <1>2, <2>1 DEF CreateSession
  <2>4. session' \in [Sessions -> Rows] /\ \A t \in Sessions : Turned(t)
    BY <2>2, <2>3 DEF IInv, TypeInv, Turned
  <2> QED BY <1>2, <2>4 DEF CreateSession
<1>3. ASSUME NEW s \in Sessions, Expire(s)
      PROVE  /\ session' \in [Sessions -> Rows] /\ \A t \in Sessions : Turned(t)
             /\ UNCHANGED <<staged, req, blobs, planned, faults>>
  <2>1. PICK row : row = [session[s] EXCEPT !.late = TRUE]
    OBVIOUS
  <2>2. /\ row \in Rows /\ row.state = session[s].state /\ row.chunks = session[s].chunks
        /\ row.offset = session[s].offset /\ row.late
    BY <1>1, <2>1, RowTypes DEF Rows
  <2>3. session' = [session EXCEPT ![s] = row]
    BY <1>3, <2>1 DEF Expire
  <2>4. session' \in [Sessions -> Rows] /\ \A t \in Sessions : Turned(t)
    BY <2>2, <2>3 DEF IInv, TypeInv, Turned, Usable
  <2> QED BY <1>3, <2>4 DEF Expire
<1>4. ASSUME NEW p \in Procs, NEW s \in Sessions, Cancel(p, s)
      PROVE  /\ session' \in [Sessions -> Rows] /\ \A t \in Sessions : Turned(t)
             /\ UNCHANGED <<staged, req, blobs, planned, faults>>
  <2>1. PICK row : row = [session[s] EXCEPT !.state = "aborted"]
    OBVIOUS
  <2>2. /\ row \in Rows /\ row.state = "aborted" /\ row.chunks = session[s].chunks
        /\ row.offset = session[s].offset
    BY <1>1, <2>1, RowTypes DEF Rows
  <2>3. session' = [session EXCEPT ![s] = row] /\ ~ Locked(s) /\ session[s].state = "open"
    BY <1>4, <2>1 DEF Cancel, Usable
  <2>4. session' \in [Sessions -> Rows] /\ \A t \in Sessions : Turned(t)
    BY <2>2, <2>3 DEF IInv, TypeInv, Turned
  <2> QED BY <1>4, <2>4 DEF Cancel
<1>5. ASSUME AbortExpired
      PROVE  /\ session' \in [Sessions -> Rows] /\ \A t \in Sessions : Turned(t)
             /\ UNCHANGED <<staged, req, blobs, planned, faults>>
  <2>1. PICK late \in SUBSET {s \in Sessions :
                                session[s].state = "open" /\ session[s].late /\ ~Locked(s)} :
          /\ session' = [s \in Sessions |->
                           IF s \in late THEN [session[s] EXCEPT !.state = "aborted"]
                                         ELSE session[s]]
          /\ UNCHANGED <<staged, req, blobs, planned, faults>>
    BY <1>5 DEF AbortExpired
  <2>2. ASSUME NEW t \in Sessions PROVE session'[t] \in Rows /\ Turned(t)
    <3>1. CASE t \in late
      <4>1. session'[t] = [session[t] EXCEPT !.state = "aborted"] /\ session[t] \in Rows
        BY <1>1, <2>1, <3>1
      <4>2. /\ session'[t] \in Rows /\ session'[t].state = "aborted"
            /\ session'[t].chunks = session[t].chunks /\ session'[t].offset = session[t].offset
        BY <4>1, RowTypes DEF Rows
      <4> QED BY <2>1, <3>1, <4>2 DEF Turned
    <3>2. CASE t \notin late
      BY <1>1, <2>1, <3>2 DEF Turned
    <3> QED BY <3>1, <3>2
  <2>3. session' \in [Sessions -> Rows]
    BY <2>1, <2>2
  <2> QED BY <2>1, <2>2, <2>3
<1> QED BY <1>2, <1>3, <1>4, <1>5

LEMMA SessionIInv ==
  ASSUME IInv,
         \/ \E s \in Sessions : CreateSession(s) \/ Expire(s)
         \/ \E p \in Procs, s \in Sessions : Cancel(p, s)
         \/ AbortExpired
  PROVE  IInv'
BY SessionSteps, TurnedIInv

(* A request finds the session expired, and aborts it, or does not.        *)
LEMMA FoundLateIInv ==
  ASSUME IInv, NEW p \in Procs, NEW s \in Sessions, FoundLate(p, s) PROVE IInv'
<1>1. /\ req[p].phase = "idle" /\ session[s].state = "open" /\ session[s].late /\ ~ Locked(s)
      /\ req' = [req EXCEPT ![p] = Begin("clean", s, session[s].chunks)]
      /\ UNCHANGED <<staged, blobs, planned>>
  BY DEF FoundLate, IsIdle
<1>2. CASE session' = session
  BY <1>1, <1>2, BeginIInv DEF Usable
<1>3. CASE session' = [session EXCEPT ![s].state = "aborted"]
  <2>1. PICK row : row = [session[s] EXCEPT !.state = "aborted"]
    OBVIOUS
  <2>2. /\ row \in Rows /\ row.state = "aborted" /\ row.chunks = session[s].chunks
        /\ row.offset = session[s].offset
    <3>1. session[s] \in Rows
      BY DEF IInv, TypeInv
    <3> QED BY <2>1, <3>1, RowTypes DEF Rows
  <2>3. session' = [session EXCEPT ![s] = row]
    BY <1>3, <2>1
  <2>4. session' \in [Sessions -> Rows] /\ session'[s] = row /\ \A t \in Sessions : Turned(t)
    BY <1>1, <2>2, <2>3 DEF IInv, TypeInv, Turned
  <2>5. Alone(p) /\ req'[p].phase = "clean" /\ req'[p].session = s /\ Named(p)' = Recorded(s)
    BY <1>1, BeginSteps DEF IInv, Phases
  <2>6. ~ Carrying(p)' /\ ~ ToRecord(p)' /\ ChunkOK(p)'
    BY <2>5 DEF Carrying, Chunking, ToRecord, ChunkOK
  <2>7. Keeps(p)
    BY <2>2, <2>4, <2>5, <2>6 DEF Keeps, Usable
  <2>8. \A q \in Procs \ {p} : req'[q] = req[q] /\ Same(q) /\ Keeps(q)
    BY <2>5, SameSteps DEF Alone, Same, Keeps
  <2>9. KeyInv'
    BY <1>1, <2>4, <2>7, <2>8, TurnedRows, KeysKept DEF IInv
  <2>10. StagedInv'
    <3>1. PICK gone : gone = {}
      OBVIOUS
    <3> QED BY <1>1, <2>4, <2>6, <2>8, <3>1, TurnedRows, StagedKept DEF IInv, Same
  <2>11. \A q \in Procs : CommitOK(q)'
    BY <1>1, <2>4, <2>5, <2>8, TurnedRows, CommitsKept DEF IInv
  <2>12. \A q \in Procs : ChunkOK(q)'
    BY <2>6, <2>8 DEF IInv, Same
  <2>13. TypeInv'
    BY <1>1, <2>4, <2>5, <2>8 DEF IInv, TypeInv, IsIdle, Alone
  <2> QED BY <1>1, <2>4, <2>9, <2>10, <2>11, <2>12, <2>13, TurnedRows DEF IInv
<1> QED BY <1>2, <1>3 DEF FoundLate

(* The session is committed, and the request is to delete its chunks.      *)
LEMMA CommitPutIInv ==
  ASSUME IInv, NEW p \in Procs, CommitPut(p) PROVE IInv'
<1>1. PICK s \in Sessions : s = req[p].session
  BY DEF IInv, TypeInv, CommitPut, IsIdle
<1>2. /\ req[p].phase = "uploaded" /\ ~ Locked(s) /\ Usable(session[s])
      /\ session' = [session EXCEPT ![s] = [@ EXCEPT !.state = "committed", !.offset = req[p].size]]
      /\ blobs' = [blobs EXCEPT ![s] = @ + 1]
      /\ req' = [req EXCEPT ![p] = [@ EXCEPT !.phase = "clean", !.chunks = session[s].chunks]]
      /\ UNCHANGED <<staged, planned>>
  BY <1>1 DEF CommitPut, MayCommit, Sess
<1>3. session[s] \in Rows /\ req[p].size \in Offsets /\ blobs[s] \in Nat
  BY Requested DEF IInv, TypeInv
<1>4. PICK row : row = [session[s] EXCEPT !.state = "committed", !.offset = req[p].size]
  OBVIOUS
<1>5. row \in Rows /\ row.state = "committed" /\ row.chunks = session[s].chunks
  BY <1>3, <1>4 DEF Rows
<1>6. /\ session' = [session EXCEPT ![s] = row] /\ session' \in [Sessions -> Rows]
      /\ session'[s] = row /\ \A t \in Sessions \ {s} : session'[t] = session[t]
  BY <1>2, <1>4, <1>5 DEF IInv, TypeInv
<1>7. /\ blobs'[s] = blobs[s] + 1 /\ blobs' \in [Sessions -> Nat]
      /\ \A t \in Sessions \ {s} : blobs'[t] = blobs[t]
  BY <1>2 DEF IInv, TypeInv
<1>8. \A t \in Sessions : Recorded(t)' = Recorded(t) /\ (Usable(session'[t]) => Usable(session[t]))
  BY <1>2, <1>5, <1>6 DEF Recorded, Usable
<1>9. \A t \in Sessions : RowOK(t)'
  <2>1. RowOK(s)'
    <3>1. RowOK(s) /\ session[s].state = "open"
      BY <1>2 DEF IInv, Usable
    <3> QED BY <1>3, <1>5, <1>6, <1>7, <3>1 DEF RowOK
  <2>2. \A t \in Sessions \ {s} : RowOK(t)'
    BY <1>6, <1>7 DEF IInv, RowOK
  <2> QED BY <2>1, <2>2
<1>10. /\ Alone(p) /\ req'[p].phase = "clean" /\ req'[p].session = s
       /\ Named(p)' = Recorded(s)
  <2>1. session[s].chunks \in Seq(Chunk)
    BY <1>3 DEF Rows
  <2> QED BY <1>1, <1>2, <2>1, ChunksSteps DEF IInv, Phases, Named, Recorded
<1>11. /\ ~ Carrying(p)' /\ ~ ToRecord(p)' /\ ChunkOK(p)' /\ Keeps(p)
       /\ \A q \in Procs \ {p} : req'[q] = req[q] /\ Same(q) /\ Keeps(q)
  <2>1. ~ Carrying(p)' /\ ~ ToRecord(p)' /\ ChunkOK(p)'
    BY <1>10 DEF Carrying, Chunking, ToRecord, ChunkOK
  <2>2. Keeps(p)
    BY <1>5, <1>6, <1>10, <2>1 DEF Keeps, Usable
  <2> QED BY <1>10, <2>1, <2>2, SameSteps DEF Alone, Same, Keeps
<1>12. KeyInv'
  BY <1>2, <1>8, <1>11, KeysKept DEF IInv
<1>13. StagedInv'
  <2>1. PICK gone : gone = {}
    OBVIOUS
  <2> QED BY <1>2, <1>8, <1>11, <2>1, StagedKept DEF IInv, Same
<1>14. \A q \in Procs : CommitOK(q)'
  <2>1. ASSUME NEW q \in Procs, req'[q].phase = "commit"
        PROVE  /\ req'[q] = req[q]
               /\ session'[req[q].session].state = session[req[q].session].state
               /\ session'[req[q].session].offset = session[req[q].session].offset
    <3>1. q # p /\ req'[q] = req[q] /\ req[q].session \in Sessions
      BY <1>10, <1>11, <2>1 DEF IInv, TypeInv, IsIdle
    <3>2. req[q].session # s
      BY <1>2, <2>1, <3>1 DEF Locked
    <3> QED BY <1>6, <3>1, <3>2
  <2> QED BY <2>1, CommitsKept DEF IInv
<1>15. \A q \in Procs : ChunkOK(q)'
  BY <1>11 DEF IInv, Same
<1>16. TypeInv'
  BY <1>2, <1>6, <1>7, <1>10, <1>11 DEF IInv, TypeInv, IsIdle, Alone
<1> QED BY <1>9, <1>12, <1>13, <1>14, <1>15, <1>16 DEF IInv

(* The reaper deletes a row that has ended.                                *)
LEMMA DeleteRowIInv ==
  ASSUME IInv, NEW p \in Procs, DeleteRow(p) PROVE IInv'
<1>1. PICK s \in Sessions : s = req[p].session
  BY DEF IInv, TypeInv, DeleteRow, IsIdle
<1>2. /\ Done(p) /\ UNCHANGED <<staged, planned, blobs>>
      /\ session' = [session EXCEPT ![s] = IF Ended(@) THEN EmptyRow("deleted") ELSE @]
  BY <1>1 DEF DeleteRow
<1>3. CASE ~ Ended(session[s])
  <2>1. session' = session
    BY <1>2, <1>3 DEF IInv, TypeInv
  <2> QED BY <1>2, <2>1, DoneIInv
<1>4. CASE Ended(session[s])
  <2>1. PICK row : row = EmptyRow("deleted")
    OBVIOUS
  <2>2. /\ row \in Rows /\ row.state = "deleted" /\ row.chunks = << >>
    BY <2>1 DEF EmptyRow, Rows, Offsets
  <2>3. /\ session' \in [Sessions -> Rows] /\ session'[s] = row
        /\ \A t \in Sessions \ {s} : session'[t] = session[t]
    BY <1>2, <1>4, <2>1, <2>2 DEF IInv, TypeInv
  <2>4. /\ Recorded(s)' = {} /\ ~ Usable(session'[s])
        /\ \A t \in Sessions \ {s} : Recorded(t)' = Recorded(t)
    BY <2>2, <2>3, NoKeys DEF Recorded, Usable
  <2>5. \A t \in Sessions : RowOK(t)'
    <3>1. RowOK(s)'
      BY <1>2, <2>2, <2>3 DEF RowOK, InPlace, IInv
    <3> QED BY <1>2, <2>3, <3>1 DEF IInv, RowOK
  <2>6. /\ Alone(p) /\ IsIdle(p)' /\ Named(p)' = {} /\ req'[p].phase = "idle"
    BY <1>2, DoneSteps DEF IInv, IsIdle
  <2>7. /\ ~ Carrying(p)' /\ ~ ToRecord(p)' /\ ChunkOK(p)' /\ Keeps(p)
        /\ \A q \in Procs \ {p} : req'[q] = req[q] /\ Same(q) /\ Keeps(q)
    <3>1. ~ Carrying(p)' /\ ~ ToRecord(p)' /\ ChunkOK(p)'
      BY <2>6 DEF Carrying, Chunking, ToRecord, ChunkOK
    <3> QED BY <2>6, <3>1, SameSteps DEF Alone, Same, Keeps
  <2>8. KeyInv'
    BY <1>2, <2>3, <2>4, <2>7, KeysKept DEF IInv
  <2>9. StagedInv'
    <3>1. PICK gone : gone = {}
      OBVIOUS
    <3> QED BY <1>2, <2>3, <2>4, <2>7, <3>1, StagedKept DEF IInv, Same
  <2>10. \A q \in Procs : CommitOK(q)'
    <3>1. ASSUME NEW q \in Procs, req'[q].phase = "commit"
          PROVE  /\ req'[q] = req[q]
                 /\ session'[req[q].session].state = session[req[q].session].state
                 /\ session'[req[q].session].offset = session[req[q].session].offset
      <4>1. q # p /\ req'[q] = req[q] /\ req[q].session \in Sessions
        BY <2>6, <2>7, <3>1 DEF IInv, TypeInv, IsIdle
      <4>2. req[q].session # s
        BY <1>4, <3>1, <4>1 DEF IInv, CommitOK, Sess, Ended
      <4> QED BY <2>3, <4>1, <4>2
    <3> QED BY <3>1, CommitsKept DEF IInv
  <2>11. \A q \in Procs : ChunkOK(q)'
    BY <2>7 DEF IInv, Same
  <2>12. TypeInv'
    BY <1>2, <2>3, <2>6, <2>7 DEF IInv, TypeInv, IsIdle, Alone
  <2> QED BY <2>5, <2>8, <2>9, <2>10, <2>11, <2>12 DEF IInv
<1> QED BY <1>3, <1>4

LEMMA PlannedSteps ==
  ASSUME IInv, NEW p \in Procs, NEW s \in Sessions, PlanChunk(p, s)
  PROVE  /\ Alone(p) /\ req'[p].phase \in {"patch", "record"} /\ req'[p].session = s
         /\ req'[p].chunk.key \in {0, planned'} /\ Named(p)' = {}
         /\ req'[p].chunk.key = 0 <=> req'[p].chunk.size = 0
         /\ req'[p].phase = "patch" <=> req'[p].chunk.key # 0
         /\ planned \in 0..MaxChunks /\ planned' = planned + 1 /\ planned' \in 1..MaxChunks
         /\ req[p].phase = "idle" /\ UNCHANGED <<session, staged, blobs>>
<1>1. PICK size \in ChunkSizes :
        req' = [req EXCEPT ![p] =
                  [Begin(IF size > 0 THEN "patch" ELSE "record", s, << >>)
                     EXCEPT !.chunk = [key |-> IF size > 0 THEN planned + 1 ELSE 0, size |-> size,
                                       start |-> session[s].offset]]]
  BY DEF PlanChunk
<1>2. /\ req[p].phase = "idle" /\ planned < MaxChunks /\ planned' = planned + 1
      /\ session[s].state = "open" /\ UNCHANGED <<session, staged, blobs>>
  BY DEF PlanChunk, IsIdle, Usable
<1>3. size \in Nat /\ planned \in 0..MaxChunks /\ planned' \in 1..MaxChunks
  BY <1>2, UploadAssumption DEF IInv, TypeInv, Keys
<1>4. session[s].offset \in Nat
  BY <1>2, EndIsOffset DEF IInv, RowOK, TypeInv, Rows
<1>5. PICK chunk : chunk = [key |-> IF size > 0 THEN planned + 1 ELSE 0, size |-> size,
                            start |-> session[s].offset]
  OBVIOUS
<1>6. /\ chunk \in Chunk /\ chunk.size = size /\ chunk.key \in {0, planned'}
      /\ chunk.key = 0 <=> size = 0
  <2>1. PICK key : key = IF size > 0 THEN planned + 1 ELSE 0
    OBVIOUS
  <2>2. key \in 0..MaxChunks /\ key \in {0, planned'} /\ (key = 0 <=> size = 0)
    BY <1>2, <1>3, <2>1, UploadAssumption
  <2>3. chunk = [key |-> key, size |-> size, start |-> session[s].offset]
    BY <1>5, <2>1
  <2> QED BY <1>3, <1>4, <2>2, <2>3 DEF Chunk, Keys
<1>7. PICK phase \in {"patch", "record"} : phase = IF size > 0 THEN "patch" ELSE "record"
  OBVIOUS
<1>8. PICK r : r = [Begin(phase, s, << >>) EXCEPT !.chunk = chunk]
  OBVIOUS
<1>9. /\ r \in Requests /\ r.phase = phase /\ r.session = s /\ r.chunk = chunk
      /\ r.chunks = << >>
  <2>1. PICK none \in Seq(Chunk) : none = << >>
    BY EmptySeq
  <2>2. phase \in Phases
    BY DEF Phases
  <2>3. /\ Begin(phase, s, none) \in Requests /\ Begin(phase, s, none).phase = phase
        /\ Begin(phase, s, none).session = s /\ Begin(phase, s, none).chunks = none
    BY <2>2, IdleRequest
  <2> QED BY <1>6, <1>8, <2>1, <2>3 DEF Requests
<1>10. req' = [req EXCEPT ![p] = r]
  BY <1>1, <1>5, <1>7, <1>8
<1>11. Alone(p) /\ req'[p] = r
  BY <1>9, <1>10, RequestSteps DEF IInv
<1>12. Named(p)' = {}
  BY <1>9, <1>11, NoKeys DEF Named
<1>13. phase = "patch" <=> chunk.key # 0
  BY <1>3, <1>6, <1>7
<1> QED BY <1>2, <1>3, <1>6, <1>9, <1>11, <1>12, <1>13

(* A new key is nobody else's.                                             *)
LEMMA PlanIInv ==
  ASSUME IInv, NEW p \in Procs, NEW s \in Sessions, PlanChunk(p, s) PROVE IInv'
<1>1. /\ Alone(p) /\ req'[p].phase \in {"patch", "record"} /\ req'[p].session = s
      /\ req'[p].chunk.key \in {0, planned'} /\ Named(p)' = {}
      /\ req'[p].chunk.key = 0 <=> req'[p].chunk.size = 0
      /\ req'[p].phase = "patch" <=> req'[p].chunk.key # 0
      /\ planned \in 0..MaxChunks /\ planned' = planned + 1 /\ planned' \in 1..MaxChunks
      /\ req[p].phase = "idle" /\ UNCHANGED <<session, staged, blobs>>
  BY PlannedSteps
<1>2. \A q \in Procs \ {p} : req'[q] = req[q] /\ Same(q)
  BY <1>1, SameSteps DEF Alone
<1>3. Named(p)' = {} /\ ~ Cleaning(p)' /\ ChunkOK(p)' /\ ~ ToRecord(p)' /\ CommitOK(p)'
  <2>1. ~ ToRecord(p)'
    BY <1>1 DEF ToRecord
  <2>2. ~ Cleaning(p)' /\ CommitOK(p)'
    BY <1>1 DEF Cleaning, CommitOK
  <2> QED BY <1>1, <2>1, <2>2 DEF ChunkOK
<1>4. Carrying(p)' => req'[p].chunk.key = planned'
  BY <1>1 DEF Carrying
<1>5. KeyInv'
  <2>1. \A t \in Sessions : Recorded(t)' = Recorded(t) /\ Recorded(t) \subseteq 1..planned
    BY <1>1 DEF IInv, KeyInv, Recorded
  <2>2. \A q \in Procs : Named(q)' \subseteq 1..planned /\ (Named(q)' = Named(q) \/ q = p)
    BY <1>2, <1>3 DEF IInv, KeyInv, Same
  <2>3. 1..planned \subseteq 1..planned' /\ planned' \in 1..planned' /\ planned' \notin 1..planned
    BY <1>1
  <2>4. ASSUME NEW q \in Procs \ {p} PROVE CarriedAlone(q)'
    <3>1. SUFFICES ASSUME Carrying(q)' PROVE CarriedAlone(q)'
      BY DEF CarriedAlone
    <3>2. Carrying(q) /\ req'[q] = req[q] /\ CarriedAlone(q)
      BY <1>2, <3>1 DEF Same, IInv, KeyInv
    <3>3. req[q].chunk.key \in 1..planned
      BY <3>2 DEF CarriedAlone
    <3>4. \A t \in Procs : req[q].chunk.key \notin Named(t)'
      BY <1>3, <2>2, <3>2 DEF CarriedAlone
    <3>5. \A t \in Procs : Carrying(t)' /\ req'[t].chunk.key = req[q].chunk.key => t = q
      <4> TAKE t \in Procs
      <4>1. CASE t = p
        BY <1>4, <2>3, <3>3, <4>1
      <4>2. CASE t # p
        BY <1>2, <3>2, <4>2 DEF Same, CarriedAlone
      <4> QED BY <4>1, <4>2
    <3> QED BY <2>1, <2>3, <3>2, <3>3, <3>4, <3>5 DEF CarriedAlone
  <2>5. CarriedAlone(p)'
    <3>1. SUFFICES ASSUME Carrying(p)' PROVE CarriedAlone(p)'
      BY DEF CarriedAlone
    <3>2. req'[p].chunk.key = planned'
      BY <1>4, <3>1
    <3>3. ASSUME NEW q \in Procs, Carrying(q)', req'[q].chunk.key = planned' PROVE q = p
      <4>1. q # p => Carrying(q) /\ req'[q] = req[q]
        BY <1>2, <3>3 DEF Same
      <4>2. q # p => req[q].chunk.key \in 1..planned
        BY <4>1 DEF IInv, KeyInv, CarriedAlone
      <4> QED BY <2>3, <3>3, <4>1, <4>2
    <3> QED BY <2>1, <2>2, <2>3, <3>2, <3>3 DEF CarriedAlone
  <2>6. \A q \in Procs, t \in Sessions :
          Cleaning(q)' /\ Usable(session'[t]) => Named(q)' \intersect Recorded(t)' = {}
    BY <1>1, <1>2, <1>3, <2>1 DEF IInv, KeyInv, Same
  <2>7. \A t, u \in Sessions : t # u => Recorded(t)' \intersect Recorded(u)' = {}
    BY <2>1 DEF IInv, KeyInv
  <2>8. /\ \A t \in Sessions : Recorded(t)' \subseteq 1..planned'
        /\ \A q \in Procs : Named(q)' \subseteq 1..planned'
    BY <2>1, <2>2, <2>3
  <2> QED BY <2>4, <2>5, <2>6, <2>7, <2>8 DEF KeyInv
<1>6. StagedInv'
  BY <1>1, <1>3, StagedMore
<1>7. \A q \in Procs : CommitOK(q)' /\ ChunkOK(q)'
  <2>1. \A q \in Procs : CommitOK(q)'
    BY <1>1, <1>2, CommitsKept DEF IInv
  <2> QED BY <1>2, <1>3, <2>1 DEF IInv, Same
<1>8. TypeInv'
  BY <1>1, <1>2 DEF IInv, TypeInv, IsIdle, Alone, Keys
<1>9. \A t \in Sessions : RowOK(t)'
  BY <1>1 DEF IInv, RowOK
<1> QED BY <1>5, <1>6, <1>7, <1>8, <1>9 DEF IInv

(* The chunk goes from the request to its session.                         *)
LEMMA RecordIInv ==
  ASSUME IInv, NEW p \in Procs, RecordChunk(p) PROVE IInv'
<1>1. PICK s \in Sessions : s = req[p].session
  BY DEF IInv, TypeInv, RecordChunk, IsIdle
<1>2. PICK chunk \in Chunk : chunk = req[p].chunk
  BY Requested DEF IInv
<1>3. /\ req[p].phase = "commit" /\ Done(p) /\ UNCHANGED <<staged, planned, blobs>>
      /\ session' = [session EXCEPT ![s] = WithChunk(session[s], chunk)]
  BY <1>1, <1>2 DEF RecordChunk
<1>4. /\ session[s] \in Rows /\ session[s].chunks \in Seq(Chunk) /\ chunk.size \in Nat
      /\ session[s].state = "open" /\ session[s].offset = chunk.start
      /\ chunk.start = End(session[s].chunks) /\ InPlace(session[s].chunks)
      /\ chunk.start \in Nat
  <2>1. session[s] \in Rows /\ session[s].chunks \in Seq(Chunk) /\ chunk.size \in Nat /\ chunk.start \in Nat
    BY DEF IInv, TypeInv, Rows, Chunk
  <2>2. session[s].state = "open" /\ session[s].offset = chunk.start
    BY <1>1, <1>2, <1>3 DEF IInv, CommitOK, Sess
  <2> QED BY <2>1, <2>2 DEF IInv, RowOK
<1>5. PICK chunks : chunks = IF chunk.size > 0 THEN Append(session[s].chunks, chunk)
                             ELSE session[s].chunks
  OBVIOUS
<1>6. /\ chunks \in Seq(Chunk) /\ InPlace(chunks) /\ End(chunks) = chunk.start + chunk.size
      /\ KeysOf(chunks) \subseteq Recorded(s) \union {chunk.key}
      /\ chunk.key = 0 => KeysOf(chunks) = Recorded(s)
  <2>1. CASE chunk.size > 0
    <3>1. chunks = Append(session[s].chunks, chunk)
      BY <1>5, <2>1
    <3>2. chunks \in Seq(Chunk) /\ KeysOf(chunks) = Recorded(s) \union ({chunk.key} \ {0})
      BY <1>4, <3>1, AppendedKeys DEF Recorded
    <3>3. InPlace(chunks) /\ End(chunks) = chunk.start + chunk.size
      BY <1>4, <3>1, AppendedInPlace
    <3> QED BY <3>2, <3>3
  <2>2. CASE ~ (chunk.size > 0)
    BY <1>4, <1>5, <2>2 DEF Recorded
  <2> QED BY <2>1, <2>2
<1>7. chunk.start + chunk.size \in Offsets
  BY <1>4 DEF Offsets
<1>8. PICK row : row = WithChunk(session[s], chunk)
  OBVIOUS
<1>9. /\ row \in Rows /\ row.state = "open" /\ row.chunks = chunks
      /\ row.offset = chunk.start + chunk.size /\ row.late = session[s].late
  BY <1>4, <1>5, <1>6, <1>7, <1>8 DEF Rows, WithChunk
<1>10. /\ session' \in [Sessions -> Rows] /\ session'[s] = row
       /\ \A t \in Sessions \ {s} : session'[t] = session[t]
  BY <1>3, <1>8, <1>9 DEF IInv, TypeInv
<1>11. /\ Recorded(s)' \subseteq Recorded(s) \union ({chunk.key} \ {0})
       /\ \A t \in Sessions \ {s} : Recorded(t)' = Recorded(t)
       /\ \A t \in Sessions : Usable(session'[t]) <=> Usable(session[t])
  <2>1. Recorded(s)' = KeysOf(chunks)
    BY <1>9, <1>10 DEF Recorded
  <2>2. \A t \in Sessions : Usable(session'[t]) <=> Usable(session[t])
    BY <1>4, <1>9, <1>10 DEF Usable
  <2> QED BY <1>6, <1>10, <2>1, <2>2 DEF Recorded
<1>12. /\ Alone(p) /\ Named(p)' = {} /\ req'[p].phase = "idle"
       /\ ~ Carrying(p)' /\ ~ ToRecord(p)' /\ ~ Cleaning(p)' /\ ChunkOK(p)'
  <2>1. Alone(p) /\ Named(p)' = {} /\ req'[p].phase = "idle"
    BY <1>3, DoneSteps DEF IInv, IsIdle
  <2> QED BY <2>1 DEF Carrying, Chunking, ToRecord, Cleaning, ChunkOK
<1>13. \A q \in Procs \ {p} : req'[q] = req[q] /\ Same(q)
  BY <1>12, SameSteps DEF Alone
<1>14. chunk.key # 0 => /\ Carrying(p) /\ ToRecord(p) /\ CarriedAlone(p) /\ chunk.key \in staged
  BY <1>2, <1>3 DEF Carrying, Chunking, ToRecord, IInv, KeyInv, StagedInv
<1>15. KeyInv'
  <2>1. \A t \in Sessions : Recorded(t)' \subseteq 1..planned
    BY <1>2, <1>11, <1>14 DEF IInv, KeyInv, CarriedAlone
  <2>2. \A t \in Sessions \ {s} : Recorded(s)' \intersect Recorded(t)' = {}
    BY <1>2, <1>11, <1>14 DEF IInv, KeyInv, CarriedAlone
  <2>3. \A t, u \in Sessions : t # u => Recorded(t)' \intersect Recorded(u)' = {}
    BY <1>11, <2>2 DEF IInv, KeyInv
  <2>4. \A q \in Procs : Named(q)' \subseteq Named(q) /\ Named(q) \subseteq 1..planned
    BY <1>12, <1>13 DEF IInv, KeyInv, Same
  <2>5. ASSUME NEW q \in Procs PROVE CarriedAlone(q)'
    <3>1. SUFFICES ASSUME Carrying(q)' PROVE CarriedAlone(q)'
      BY DEF CarriedAlone
    <3>2. q # p /\ Carrying(q) /\ req'[q] = req[q] /\ CarriedAlone(q)
      BY <1>12, <1>13, <3>1 DEF Same, IInv, KeyInv
    <3>3. chunk.key # 0 => req[q].chunk.key # chunk.key
      BY <1>2, <1>14, <3>2 DEF CarriedAlone
    <3>4. \A t \in Sessions : req[q].chunk.key \notin Recorded(t)'
      BY <1>11, <3>2, <3>3 DEF CarriedAlone
    <3>5. \A t \in Procs : Carrying(t)' /\ req'[t].chunk.key = req[q].chunk.key => t = q
      BY <1>12, <1>13, <3>2 DEF CarriedAlone, Same
    <3> QED BY <1>3, <2>4, <3>2, <3>4, <3>5 DEF CarriedAlone
  <2>6. ASSUME NEW q \in Procs, NEW t \in Sessions, Cleaning(q)', Usable(session'[t])
        PROVE  Named(q)' \intersect Recorded(t)' = {}
    <3>1. q # p /\ Cleaning(q) /\ Usable(session[t])
      BY <1>11, <1>12, <1>13, <2>6 DEF Same
    <3>2. Named(q) \intersect Recorded(t) = {}
      BY <3>1 DEF IInv, KeyInv
    <3>3. chunk.key # 0 => chunk.key \notin Named(q)
      BY <1>2, <1>14 DEF CarriedAlone
    <3> QED BY <1>11, <2>4, <3>2, <3>3
  <2> QED BY <1>3, <2>1, <2>3, <2>4, <2>5, <2>6 DEF KeyInv
<1>16. StagedInv'
  <2>1. \A t \in Sessions : Usable(session'[t]) => Recorded(t)' \subseteq staged
    BY <1>11, <1>14 DEF IInv, StagedInv, OpenSessionIsComplete, Recorded
  <2>2. \A q \in Procs : ToRecord(q)' => req'[q].chunk.key \in staged
    BY <1>12, <1>13 DEF IInv, StagedInv, Same
  <2> QED BY <1>3, <2>1, <2>2 DEF StagedInv, OpenSessionIsComplete, Recorded
<1>17. \A q \in Procs : CommitOK(q)' /\ ChunkOK(q)'
  <2>1. ASSUME NEW q \in Procs, req'[q].phase = "commit"
        PROVE  /\ req'[q] = req[q]
               /\ session'[req[q].session].state = session[req[q].session].state
               /\ session'[req[q].session].offset = session[req[q].session].offset
    <3>1. q # p /\ req'[q] = req[q] /\ req[q].session \in Sessions
      BY <1>12, <1>13, <2>1 DEF IInv, TypeInv, IsIdle
    <3>2. req[q].session # s
      BY <1>1, <1>3, <2>1, <3>1 DEF IInv, CommitOK
    <3> QED BY <1>10, <3>1, <3>2
  <2>2. \A q \in Procs : CommitOK(q)'
    BY <2>1, CommitsKept DEF IInv
  <2> QED BY <1>12, <1>13, <2>2 DEF IInv, Same
<1>18. TypeInv'
  BY <1>3, <1>10, <1>12, <1>13 DEF IInv, TypeInv, IsIdle, Alone
<1>19. \A t \in Sessions : RowOK(t)'
  <2>1. RowOK(s)'
    BY <1>3, <1>4, <1>6, <1>9, <1>10 DEF IInv, RowOK
  <2> QED BY <1>3, <1>10, <2>1 DEF IInv, RowOK
<1> QED BY <1>15, <1>16, <1>17, <1>18, <1>19 DEF IInv

-----------------------------------------------------------------------------
(* Every action.                                                           *)

LEMMA IInvInit == Init => IInv
<1> SUFFICES ASSUME Init PROVE IInv
  OBVIOUS
<1>1. /\ \A p \in Procs : req[p] = Idle
      /\ \A s \in Sessions : session[s] = EmptyRow("none") /\ blobs[s] = 0
  BY DEF Init
<1>2. TypeInv
  <2>1. EmptyRow("none") \in Rows
    BY DEF EmptyRow, Rows, Offsets
  <2>2. req \in [Procs -> Requests] /\ \A p \in Procs : IsIdle(p)
    BY <1>1, IdleRequest DEF Init, IsIdle
  <2>3. planned \in Keys
    BY UploadAssumption DEF Init, Keys
  <2> QED BY <2>1, <2>2, <2>3 DEF Init, TypeInv
<1>3. \A s \in Sessions : RowOK(s) /\ Recorded(s) = {}
  BY <1>1, NoKeys DEF RowOK, Recorded, EmptyRow, InPlace
<1>4. \A p \in Procs : /\ Named(p) = {} /\ ~ Carrying(p) /\ ~ Cleaning(p) /\ ~ ToRecord(p)
                       /\ CommitOK(p) /\ ChunkOK(p)
  BY <1>1, IdleRequest, NoKeys
  DEF Named, Carrying, Chunking, Cleaning, ToRecord, CommitOK, ChunkOK
<1>5. KeyInv
  BY <1>3, <1>4 DEF KeyInv, CarriedAlone
<1>6. StagedInv
  BY <1>3, <1>4 DEF StagedInv, OpenSessionIsComplete, Recorded
<1> QED BY <1>2, <1>3, <1>4, <1>5, <1>6 DEF IInv

LEMMA IInvStep == IInv /\ [Next]_vars => IInv'
<1> SUFFICES ASSUME IInv, [Next]_vars PROVE IInv'
  OBVIOUS
<1>1. ASSUME NEW p \in Procs, AssembleFails(p) \/ Crash(p) PROVE IInv'
  BY <1>1, DoneIInv DEF AssembleFails, Crash
<1>2. ASSUME NEW p \in Procs, NEW s \in Sessions, BeginPut(p, s) \/ PickEnded(p, s) PROVE IInv'
  BY <1>2, BeginIInv DEF BeginPut, PickEnded, Ended, Usable
<1>3. ASSUME NEW p \in Procs, Continue(p) PROVE IInv'
  BY <1>1, <1>3, StageIInv, CheckIInv, RecordIInv, ChunkRefusedIInv, DiscardIInv, AssembleIInv,
     CommitPutIInv, PutRefusedIInv, DeleteIInv, DeleteRowIInv DEF Continue
<1>4. CASE UNCHANGED vars
  <2>1. UNCHANGED <<session, staged, req, planned, blobs>>
    BY <1>4 DEF vars
  <2>2. \A s \in Sessions : Turned(s)
    BY <2>1 DEF Turned
  <2> QED BY <2>1, <2>2, TurnedIInv DEF IInv, TypeInv
<1> QED BY <1>1, <1>2, <1>3, <1>4, SessionIInv, FoundLateIInv, PlanIInv DEF Next

-----------------------------------------------------------------------------

(* A session is committed at most once and never after it was aborted,     *)
(* while it can be used the chunks that it has recorded are in storage,    *)
(* and each lies where the one before it ends, whatever requests and       *)
(* reapers race and fail: the compare-and-set of recordContentUploadChunk, *)
(* the final size check of completeContentUploadSession, and deletions     *)
(* that wait until the session has ended.                                  *)
THEOREM SessionIsAssembledOnce == Spec => []AssembledOnce
<1>1. Spec => []IInv
  BY IInvInit, IInvStep, PTL DEF Spec
<1>2. IInv => AssembledOnce
  <2> SUFFICES ASSUME IInv PROVE AssembledOnce
    OBVIOUS
  <2>1. CommittedOnce
    BY DEF IInv, RowOK, CommittedOnce
  <2>2. ChunksInPlace
    BY DEF IInv, RowOK, InPlace, ChunksInPlace
  <2>3. OpenSessionIsComplete
    BY DEF IInv, StagedInv
  <2> QED BY <2>1, <2>2, <2>3 DEF AssembledOnce
<1> QED BY <1>1, <1>2, PTL

-----------------------------------------------------------------------------
(* Staged bytes that no session and no request knows of.                   *)

TrackedBy(k) ==
  \/ \E p \in Procs : Chunking(p) /\ req[p].chunk.key = k
  \/ \E s \in Sessions : k \in Recorded(s)

(* Sessions that no request uses any more.                                 *)
ForGood(s) == session[s].state \in {"aborted", "committed", "deleted"}

(* What a reaper deletes is all that its session has ever staged.          *)
ReapOK(p) ==
  /\ req[p].phase \in {"reap", "reaped"} => ForGood(req[p].session)
  /\ req[p].phase = "reap" => Recorded(req[p].session) \subseteq Named(p)
  /\ req[p].phase = "reaped" => Recorded(req[p].session) \intersect staged = {}

StrayInv ==
  /\ faults \in Nat /\ staged \subseteq 1..MaxChunks
  /\ \A p \in Procs : ReapOK(p) /\ (req[p].phase = "patch" => req[p].chunk.key # 0)
  /\ StagedBytesTracked

Others(p) == \A q \in Procs \ {p} : req'[q] = req[q]

(* What a step does to a session that it is not the end of.                *)
Grows(s) ==
  /\ Recorded(s) \intersect staged \subseteq Recorded(s)'
  /\ ForGood(s) => ForGood(s)' /\ Recorded(s)' \subseteq Recorded(s)

(* What a step of p brings to storage: the chunk that p carries.           *)
Brought(p, k) ==
  /\ p \in Procs /\ req[p].phase = "patch" /\ k = req[p].chunk.key
  /\ Chunking(p)' /\ req'[p].chunk.key = k

(* A step of p loses track of none of the chunks but gone.                 *)
LEMMA StraysKept ==
  ASSUME NEW p, NEW gone, Others(p),
         \A s \in Sessions : Recorded(s) \intersect staged' \subseteq Recorded(s)',
         \A k \in staged' : k \in staged \/ (p \in Procs /\ Chunking(p)' /\ k = req'[p].chunk.key),
         Chunking(p) =>
           \/ Chunking(p)' /\ req'[p].chunk.key = req[p].chunk.key
           \/ req[p].chunk.key \in gone \/ req[p].chunk.key \notin staged'
           \/ \E s \in Sessions : req[p].chunk.key \in Recorded(s)'
  PROVE  (staged \ Tracked)' \subseteq (staged \ Tracked) \union gone
<1>1. \A k : k \in Tracked <=> TrackedBy(k)
  BY DEF Tracked, InFlight, TrackedBy, Chunking, Recorded
<1>2. \A k : k \in Tracked' <=> TrackedBy(k)'
  BY DEF Tracked, InFlight, TrackedBy, Chunking, Recorded
<1>3. ASSUME NEW k \in staged', ~ TrackedBy(k)', k \notin gone
      PROVE  k \in staged /\ ~ TrackedBy(k)
  <2>1. k \in staged
    BY <1>3 DEF TrackedBy
  <2>2. \A s \in Sessions : k \notin Recorded(s)
    BY <1>3 DEF TrackedBy
  <2>3. \A q \in Procs : ~ (Chunking(q) /\ req[q].chunk.key = k)
    <3> TAKE q \in Procs
    <3>1. CASE q = p
      BY <1>3, <3>1 DEF TrackedBy
    <3>2. CASE q # p
      BY <1>3, <3>2 DEF TrackedBy, Others, Chunking
    <3> QED BY <3>1, <3>2
  <2> QED BY <2>1, <2>2, <2>3 DEF TrackedBy
<1> QED BY <1>1, <1>2, <1>3

(* Every fault may add one.                                                *)
LEMMA StraysCounted ==
  ASSUME faults \in Nat, staged \subseteq 1..MaxChunks, StagedBytesTracked, NEW k, NEW gone \in SUBSET {k},
         (staged \ Tracked)' \subseteq (staged \ Tracked) \union gone,
         \/ faults' = faults /\ gone = {}
         \/ faults' = faults + 1
  PROVE  StagedBytesTracked'
<1> DEFINE Before == staged \ Tracked
<1> DEFINE After == (staged \ Tracked)'
<1>1. IsFiniteSet(Before) /\ Cardinality(Before) \in Nat /\ Cardinality(Before) <= faults
  <2>1. IsFiniteSet(1..MaxChunks)
    BY UploadAssumption, FS_Interval
  <2>2. IsFiniteSet(Before)
    BY <2>1, FS_Subset
  <2> QED BY <2>2, FS_CardinalityType DEF StagedBytesTracked
<1>2. /\ IsFiniteSet(Before \union {k})
      /\ Cardinality(Before \union {k}) \in {Cardinality(Before), Cardinality(Before) + 1}
  BY <1>1, FS_AddElement
<1>3. CASE faults' = faults /\ gone = {}
  <2>1. After \subseteq Before
    BY <1>3
  <2>2. Cardinality(After) <= Cardinality(Before) /\ Cardinality(After) \in Nat
    BY <1>1, <2>1, FS_Subset, FS_CardinalityType
  <2>3. Cardinality(After) <= faults'
    BY <1>1, <1>3, <2>2
  <2> QED BY <2>3 DEF StagedBytesTracked
<1>4. CASE faults' = faults + 1
  <2>1. After \subseteq Before \union {k}
    OBVIOUS
  <2>2. Cardinality(After) <= Cardinality(Before \union {k}) /\ Cardinality(After) \in Nat
    BY <1>2, <2>1, FS_Subset, FS_CardinalityType
  <2>3. Cardinality(After) <= faults'
    BY <1>1, <1>2, <1>4, <2>2
  <2> QED BY <2>3 DEF StagedBytesTracked
<1> QED BY <1>3, <1>4

LEMMA PlannedKeys == ASSUME TypeInv PROVE 1..planned \subseteq 1..MaxChunks
BY UploadAssumption DEF TypeInv, Keys

LEMMA StrayStep ==
  ASSUME IInv, StrayInv, NEW p, NEW gone \in SUBSET {req[p].chunk.key},
         \A q \in Procs : \/ req'[q] = req[q]
                          \/ /\ q = p /\ ReapOK(q)'
                             /\ req'[q].phase = "patch" => req'[q].chunk.key # 0,
         \A s \in Sessions : Grows(s),
         \A k \in staged' : k \in staged \/ Brought(p, k),
         Chunking(p) =>
           \/ Chunking(p)' /\ req'[p].chunk.key = req[p].chunk.key
           \/ req[p].chunk.key \in gone \/ req[p].chunk.key \notin staged'
           \/ \E s \in Sessions : req[p].chunk.key \in Recorded(s)',
         \/ faults' = faults /\ gone = {}
         \/ faults' = faults + 1
  PROVE  StrayInv'
<1>1. Others(p)
  BY DEF Others
<1>2. ASSUME NEW k, Brought(p, k)
      PROVE  k \in 1..MaxChunks /\ \A s \in Sessions : k \notin Recorded(s)
  <2>1. p \in Procs /\ Carrying(p) /\ k = req[p].chunk.key
    BY <1>2 DEF Brought, StrayInv, Carrying, Chunking
  <2>2. CarriedAlone(p)
    BY <2>1 DEF IInv, KeyInv
  <2>3. k \in 1..planned /\ \A s \in Sessions : k \notin Recorded(s)
    BY <2>1, <2>2 DEF CarriedAlone
  <2> QED BY <2>3, PlannedKeys DEF IInv
<1>3. faults' \in Nat /\ staged' \subseteq 1..MaxChunks
  <2>1. faults \in Nat /\ staged \subseteq 1..MaxChunks
    BY DEF StrayInv
  <2>2. staged' \subseteq 1..MaxChunks
    <3>1. SUFFICES ASSUME NEW k \in staged' PROVE k \in 1..MaxChunks
      OBVIOUS
    <3> QED BY <1>2, <2>1
  <2> QED BY <2>1, <2>2
<1>4. \A s \in Sessions : Recorded(s) \intersect staged' \subseteq Recorded(s) \intersect staged
  BY <1>2
<1>5. (staged \ Tracked)' \subseteq (staged \ Tracked) \union gone
  <2>1. \A s \in Sessions : Recorded(s) \intersect staged' \subseteq Recorded(s)'
    BY <1>4 DEF Grows
  <2>2. \A k \in staged' : k \in staged \/ (p \in Procs /\ Chunking(p)' /\ k = req'[p].chunk.key)
    BY DEF Brought
  <2> QED BY <1>1, <2>1, <2>2, StraysKept
<1>6. StagedBytesTracked'
  BY <1>5, StraysCounted DEF StrayInv
<1>7. ASSUME NEW q \in Procs, req'[q] = req[q] PROVE ReapOK(q)'
  <2>1. SUFFICES ASSUME req[q].phase \in {"reap", "reaped"} PROVE ReapOK(q)'
    BY <1>7 DEF ReapOK
  <2>2. PICK s \in Sessions : s = req[q].session
    BY <2>1 DEF IInv, TypeInv, IsIdle
  <2>3. ForGood(s) /\ ForGood(s)' /\ Recorded(s)' \subseteq Recorded(s)
    BY <2>1, <2>2 DEF StrayInv, ReapOK, Grows
  <2>4. Named(q)' = Named(q)
    BY <1>7 DEF Named
  <2>5. req[q].phase = "reap" => Recorded(s)' \subseteq Named(q)'
    BY <2>2, <2>3, <2>4 DEF StrayInv, ReapOK
  <2>6. req[q].phase = "reaped" => Recorded(s)' \intersect staged' = {}
    BY <1>4, <2>2, <2>3 DEF StrayInv, ReapOK
  <2> QED BY <1>7, <2>2, <2>3, <2>5, <2>6 DEF ReapOK
<1>8. \A q \in Procs : ReapOK(q)' /\ (req'[q].phase = "patch" => req'[q].chunk.key # 0)
  BY <1>7 DEF StrayInv
<1> QED BY <1>3, <1>6, <1>8 DEF StrayInv

(* A step that leaves the sessions alone.                                  *)
LEMMA SessionsSame ==
  ASSUME session' = session PROVE \A s \in Sessions : Grows(s) /\ Recorded(s)' = Recorded(s)
BY DEF Grows, Recorded, ForGood

(* A step of p that leaves the sessions alone, loses no chunk of p's but   *)
(* gone, and brings none but that one.                                     *)
LEMMA StrayRequest ==
  ASSUME IInv, StrayInv, NEW p \in Procs, NEW gone \in SUBSET {req[p].chunk.key}, Alone(p),
         session' = session, ReapOK(p)', req'[p].phase = "patch" => req'[p].chunk.key # 0,
         \A k \in staged' : k \in staged \/ Brought(p, k),
         Chunking(p) =>
           \/ Chunking(p)' /\ req'[p].chunk.key = req[p].chunk.key
           \/ req[p].chunk.key \in gone \/ req[p].chunk.key \notin staged',
         \/ faults' = faults /\ gone = {}
         \/ faults' = faults + 1
  PROVE  StrayInv'
<1>1. \A q \in Procs : \/ req'[q] = req[q]
                       \/ /\ q = p /\ ReapOK(q)'
                          /\ req'[q].phase = "patch" => req'[q].chunk.key # 0
  BY DEF Alone
<1> QED BY <1>1, SessionsSame, StrayStep

LEMMA NoReap ==
  ASSUME NEW p \in Procs, req'[p].phase \notin {"reap", "reaped"} PROVE ReapOK(p)'
BY DEF ReapOK

(* A process without a chunk, which may delete.                            *)
LEMMA StrayDelete ==
  ASSUME IInv, StrayInv, NEW p \in Procs, Alone(p), ~ Chunking(p), session' = session,
         staged' \subseteq staged, ReapOK(p)', req'[p].phase # "patch",
         faults' = faults \/ faults' = faults + 1
  PROVE  StrayInv'
<1>1. {} \in SUBSET {req[p].chunk.key}
  OBVIOUS
<1> QED BY <1>1, StrayRequest

LEMMA StrayOver ==
  ASSUME IInv, StrayInv, NEW p \in Procs, Done(p), ~ Chunking(p), session' = session,
         staged' \subseteq staged, faults' = faults \/ faults' = faults + 1
  PROVE  StrayInv'
<1>1. Alone(p) /\ req'[p].phase = "idle"
  BY DoneSteps DEF IInv, IsIdle
<1> QED BY <1>1, NoReap, StrayDelete

LEMMA StrayBegin ==
  ASSUME IInv, StrayInv, NEW p \in Procs, NEW s \in Sessions, BeginPut(p, s) \/ PickEnded(p, s)
  PROVE  StrayInv'
<1>1. ~ Chunking(p) /\ UNCHANGED <<session, staged, faults>>
  BY DEF BeginPut, PickEnded, IsIdle, Chunking
<1>2. CASE BeginPut(p, s)
  <2>1. Alone(p) /\ req'[p].phase = "assemble"
    BY <1>2, BeginSteps DEF BeginPut, IInv, Phases
  <2> QED BY <1>1, <2>1, NoReap, StrayDelete
<1>3. CASE PickEnded(p, s)
  <2>1. Alone(p) /\ req'[p].phase = "reap" /\ req'[p].session = s /\ Named(p)' = Recorded(s)
    BY <1>3, BeginSteps DEF PickEnded, IInv, Phases
  <2>2. ForGood(s)' /\ Recorded(s)' = Recorded(s)
    BY <1>1, <1>3, SessionsSame DEF PickEnded, Ended, ForGood
  <2>3. ReapOK(p)'
    BY <2>1, <2>2 DEF ReapOK
  <2> QED BY <1>1, <2>1, <2>3, StrayDelete
<1> QED BY <1>2, <1>3

LEMMA StrayAssemble ==
  ASSUME IInv, StrayInv, NEW p \in Procs, Assemble(p) \/ AssembleFails(p) PROVE StrayInv'
<1>1. ~ Chunking(p) /\ UNCHANGED <<session, staged, faults>>
  BY DEF Assemble, AssembleFails, Chunking
<1>2. CASE Assemble(p)
  <2>1. PICK body \in BodySizes :
          req' = [req EXCEPT ![p] = [@ EXCEPT !.phase = "uploaded",
                                              !.size = Total(req[p].chunks) + body]]
    BY <1>2 DEF Assemble
  <2>2. PICK size : size = Total(req[p].chunks) + body
    OBVIOUS
  <2>3. size \in Offsets
    BY <2>2, Requested DEF IInv, Offsets
  <2>4. PICK r : r = [req[p] EXCEPT !.phase = "uploaded", !.size = size]
    OBVIOUS
  <2>5. r \in Requests /\ r.phase = "uploaded"
    BY <2>3, <2>4, Requested DEF IInv, Requests, Phases
  <2>6. req' = [req EXCEPT ![p] = r]
    BY <2>1, <2>2, <2>4
  <2>7. Alone(p) /\ req'[p].phase = "uploaded"
    BY <2>5, <2>6, RequestSteps DEF IInv
  <2> QED BY <1>1, <2>7, NoReap, StrayDelete
<1>3. CASE AssembleFails(p)
  BY <1>1, <1>3, StrayOver DEF AssembleFails
<1> QED BY <1>2, <1>3

(* A chunk is refused, or the blob of a PUT.                               *)
LEMMA StrayRefused ==
  ASSUME IInv, StrayInv, NEW p \in Procs, ChunkRefused(p) \/ PutRefused(p) PROVE StrayInv'
<1>1. /\ ~ IsIdle(p) /\ Sess(p).chunks \in Seq(Chunk) /\ << >> \in Seq(Chunk)
      /\ UNCHANGED <<session, staged, faults>>
  BY Requested DEF IInv, ChunkRefused, PutRefused, IsIdle, Rows
<1>2. CASE ChunkRefused(p)
  <2>1. PICK chunks : chunks = IF Sess(p).state = "open" /\ Sess(p).late
                                 THEN Sess(p).chunks ELSE << >>
    OBVIOUS
  <2>2. /\ Alone(p) /\ req'[p].phase = "discard" /\ req'[p].chunk = req[p].chunk
    BY <1>1, <1>2, <2>1, ChunksSteps DEF ChunkRefused, IInv, Phases
  <2>3. Chunking(p)' /\ req'[p].chunk.key = req[p].chunk.key /\ ReapOK(p)'
    BY <2>2, NoReap DEF Chunking
  <2>4. {} \in SUBSET {req[p].chunk.key}
    OBVIOUS
  <2> QED BY <1>1, <2>2, <2>3, <2>4, StrayRequest
<1>3. CASE PutRefused(p)
  <2>1. ~ Chunking(p)
    BY <1>3 DEF PutRefused, Chunking
  <2>2. CASE Sess(p).state = "open" /\ Sess(p).late
    <3>1. Alone(p) /\ req'[p].phase = "clean"
      BY <1>1, <1>3, <2>2, ChunksSteps DEF PutRefused, IInv, Phases
    <3> QED BY <1>1, <2>1, <3>1, NoReap, StrayDelete
  <2>3. CASE ~ (Sess(p).state = "open" /\ Sess(p).late)
    BY <1>1, <1>3, <2>1, <2>3, StrayOver DEF PutRefused
  <2> QED BY <2>2, <2>3
<1> QED BY <1>2, <1>3

(* Deletes after the fact, and the reaper's, which come to all that its    *)
(* session has staged.                                                     *)
LEMMA StrayClean ==
  ASSUME IInv, StrayInv, NEW p \in Procs,
         CleanStaging(p) \/ DeleteStaged(p) \/ DeleteStagedFails(p)
  PROVE  StrayInv'
<1>1. /\ ~ Chunking(p) /\ session' = session /\ staged' \subseteq staged
      /\ faults' = faults \/ faults' = faults + 1
  BY DEF CleanStaging, DeleteStaged, DeleteStagedFails, Chunking, Fault
<1>2. CASE CleanStaging(p) \/ DeleteStagedFails(p)
  BY <1>1, <1>2, StrayOver DEF CleanStaging, DeleteStagedFails, KeepRow
<1>3. CASE DeleteStaged(p)
  <2>1. Alone(p) /\ req'[p].phase = "reaped" /\ req'[p].session = req[p].session
    BY <1>3, GotoSteps DEF DeleteStaged, IInv, Phases
  <2>2. PICK s \in Sessions : s = req[p].session
    BY <1>3 DEF DeleteStaged, IInv, TypeInv, IsIdle
  <2>3. ForGood(s) /\ Recorded(s) \subseteq Named(p) /\ staged' = staged \ Named(p)
    BY <1>3, <2>2 DEF DeleteStaged, StrayInv, ReapOK, Named
  <2>4. ForGood(s)' /\ Recorded(s)' = Recorded(s)
    BY <1>1, <2>3, SessionsSame DEF ForGood
  <2>5. ReapOK(p)'
    BY <2>1, <2>2, <2>3, <2>4 DEF ReapOK
  <2> QED BY <1>1, <2>1, <2>5, StrayDelete
<1> QED BY <1>2, <1>3

(* The bytes of a chunk are put, or its offset is compared.                *)
LEMMA StrayStage ==
  ASSUME IInv, StrayInv, NEW p \in Procs, StageChunk(p) \/ StageFails(p) \/ CheckChunk(p)
  PROVE  StrayInv'
<1>1. /\ session' = session /\ \E phase \in {"record", "discard", "commit"} : Goto(p, phase)
      /\ faults' = faults \/ faults' = faults + 1
      /\ req[p].phase \in {"patch", "record"}
  BY DEF StageChunk, StageFails, CheckChunk, Fault
<1>2. /\ Alone(p) /\ req'[p].phase \in {"record", "discard", "commit"}
      /\ req'[p].chunk = req[p].chunk
  BY <1>1, GotoSteps DEF IInv, Phases
<1>3. Chunking(p)' /\ req'[p].chunk.key = req[p].chunk.key /\ ReapOK(p)'
  BY <1>2, NoReap DEF Chunking
<1>4. \A k \in staged' : k \in staged \/ (req[p].phase = "patch" /\ k = req[p].chunk.key)
  BY DEF StageChunk, StageFails, CheckChunk
<1>5. \A k \in staged' : k \in staged \/ Brought(p, k)
  BY <1>3, <1>4 DEF Brought
<1>6. {} \in SUBSET {req[p].chunk.key}
  OBVIOUS
<1> QED BY <1>1, <1>2, <1>3, <1>5, <1>6, StrayRequest

(* Either the chunk is deleted, or that is what failed.                    *)
LEMMA StrayDiscard ==
  ASSUME IInv, StrayInv, NEW p \in Procs, DiscardChunk(p) PROVE StrayInv'
<1>1. Alone(p) /\ req'[p].phase = "clean" /\ ReapOK(p)' /\ session' = session
  BY GotoSteps, NoReap DEF DiscardChunk, IInv, Phases
<1>2. CASE staged' = staged \ {req[p].chunk.key} /\ faults' = faults
  <2>1. {} \in SUBSET {req[p].chunk.key}
    OBVIOUS
  <2> QED BY <1>1, <1>2, <2>1, StrayRequest
<1>3. CASE staged' = staged /\ faults' = faults + 1
  <2>1. PICK gone \in SUBSET {req[p].chunk.key} : gone = {req[p].chunk.key}
    OBVIOUS
  <2> QED BY <1>1, <1>3, <2>1, StrayRequest
<1> QED BY <1>2, <1>3 DEF DiscardChunk, Fault

(* A process ends, and nobody knows of the chunk that it had.              *)
LEMMA StrayCrash ==
  ASSUME IInv, StrayInv, NEW p \in Procs, Crash(p) PROVE StrayInv'
<1>1. Alone(p) /\ req'[p].phase = "idle" /\ ReapOK(p)'
  BY DoneSteps, NoReap DEF Crash, IInv, IsIdle
<1>2. PICK gone \in SUBSET {req[p].chunk.key} : gone = {req[p].chunk.key}
  OBVIOUS
<1> QED BY <1>1, <1>2, StrayRequest DEF Crash, Fault

LEMMA StrayPlan ==
  ASSUME IInv, StrayInv, NEW p \in Procs, NEW s \in Sessions, PlanChunk(p, s) PROVE StrayInv'
<1>1. ~ Chunking(p) /\ UNCHANGED <<session, staged, faults>>
  BY DEF PlanChunk, IsIdle, Chunking
<1>2. Alone(p) /\ ReapOK(p)' /\ (req'[p].phase = "patch" => req'[p].chunk.key # 0)
  BY PlannedSteps, NoReap
<1>3. {} \in SUBSET {req[p].chunk.key}
  OBVIOUS
<1> QED BY <1>1, <1>2, <1>3, StrayRequest

(* A step of p that changes a session, and not what is staged.             *)
LEMMA StrayTransaction ==
  ASSUME IInv, StrayInv, NEW p \in Procs, Alone(p), req'[p].phase \in {"idle", "clean"},
         \A s \in Sessions : Grows(s), UNCHANGED <<staged, faults>>,
         Chunking(p) => \/ req[p].chunk.key \notin staged'
                        \/ \E s \in Sessions : req[p].chunk.key \in Recorded(s)'
  PROVE  StrayInv'
<1>1. PICK gone \in SUBSET {req[p].chunk.key} : gone = {}
  OBVIOUS
<1>2. \A q \in Procs : \/ req'[q] = req[q]
                       \/ /\ q = p /\ ReapOK(q)'
                          /\ req'[q].phase = "patch" => req'[q].chunk.key # 0
  BY NoReap DEF Alone
<1>3. /\ \A k \in staged' : k \in staged \/ Brought(p, k)
      /\ faults' = faults /\ gone = {}
  BY <1>1
<1> QED BY <1>2, <1>3, StrayStep

(* A row goes to another state, or its chunks become more.                 *)
LEMMA RowGrows ==
  ASSUME TypeInv, NEW s \in Sessions, NEW row, session' = [session EXCEPT ![s] = row],
         KeysOf(session[s].chunks) \subseteq KeysOf(row.chunks), ~ ForGood(s)
  PROVE  \A t \in Sessions : Grows(t)
<1>1. session'[s] = row /\ \A t \in Sessions \ {s} : session'[t] = session[t]
  BY DEF TypeInv
<1>2. Grows(s)
  BY <1>1 DEF Grows, Recorded
<1>3. ASSUME NEW t \in Sessions \ {s} PROVE Grows(t)
  BY <1>1 DEF Grows, Recorded, ForGood
<1> QED BY <1>2, <1>3

LEMMA StraySession ==
  ASSUME IInv, StrayInv,
         \/ \E s \in Sessions : CreateSession(s) \/ Expire(s)
         \/ \E p \in Procs, s \in Sessions : Cancel(p, s)
         \/ AbortExpired
  PROVE  StrayInv'
<1>1. UNCHANGED <<staged, req, faults>> /\ \A s \in Sessions : Turned(s)
  BY SessionSteps
<1>2. \A s \in Sessions : Grows(s)
  BY <1>1 DEF Turned, Grows, ForGood, Recorded
<1>3. PICK p : p = 0
  OBVIOUS
<1>4. {} \in SUBSET {req[p].chunk.key} /\ (Chunking(p) => Chunking(p)')
  BY <1>1 DEF Chunking
<1> QED BY <1>1, <1>2, <1>4, StrayStep

LEMMA StrayLate ==
  ASSUME IInv, StrayInv, NEW p \in Procs, NEW s \in Sessions, FoundLate(p, s) PROVE StrayInv'
<1>1. ~ Chunking(p) /\ UNCHANGED <<staged, faults>> /\ ~ ForGood(s)
  BY DEF FoundLate, IsIdle, Chunking, ForGood
<1>2. Alone(p) /\ req'[p].phase = "clean" /\ ReapOK(p)'
  BY BeginSteps, NoReap DEF FoundLate, IInv, Phases
<1>3. CASE session' = session
  BY <1>1, <1>2, <1>3, StrayDelete
<1>4. CASE session' = [session EXCEPT ![s].state = "aborted"]
  <2>1. PICK row : row = [session[s] EXCEPT !.state = "aborted"]
    OBVIOUS
  <2>2. session' = [session EXCEPT ![s] = row] /\ row.chunks = session[s].chunks
    BY <1>4, <2>1 DEF IInv, TypeInv, Rows
  <2>3. \A t \in Sessions : Grows(t)
    BY <1>1, <2>2, RowGrows DEF IInv
  <2> QED BY <1>1, <1>2, <2>3, StrayTransaction
<1> QED BY <1>3, <1>4 DEF FoundLate

LEMMA StrayCommit ==
  ASSUME IInv, StrayInv, NEW p \in Procs, CommitPut(p) PROVE StrayInv'
<1>1. PICK s \in Sessions : s = req[p].session
  BY DEF IInv, TypeInv, CommitPut, IsIdle
<1>2. /\ ~ Chunking(p) /\ UNCHANGED <<staged, faults>> /\ ~ ForGood(s)
      /\ session' = [session EXCEPT ![s] = [@ EXCEPT !.state = "committed", !.offset = req[p].size]]
      /\ req' = [req EXCEPT ![p] = [@ EXCEPT !.phase = "clean", !.chunks = session[s].chunks]]
  BY <1>1 DEF CommitPut, MayCommit, Sess, Usable, Chunking, ForGood
<1>3. session[s] \in Rows /\ session[s].chunks \in Seq(Chunk)
  BY DEF IInv, TypeInv, Rows
<1>4. PICK row : row = [session[s] EXCEPT !.state = "committed", !.offset = req[p].size]
  OBVIOUS
<1>5. session' = [session EXCEPT ![s] = row] /\ row.chunks = session[s].chunks
  BY <1>2, <1>3, <1>4 DEF Rows
<1>6. \A t \in Sessions : Grows(t)
  BY <1>2, <1>5, RowGrows DEF IInv
<1>7. Alone(p) /\ req'[p].phase = "clean"
  BY <1>2, <1>3, ChunksSteps DEF IInv, Phases
<1> QED BY <1>2, <1>6, <1>7, StrayTransaction

(* The chunk was the request's, and is the session's.                      *)
LEMMA StrayRecord ==
  ASSUME IInv, StrayInv, NEW p \in Procs, RecordChunk(p) PROVE StrayInv'
<1>1. PICK s \in Sessions : s = req[p].session
  BY DEF IInv, TypeInv, RecordChunk, IsIdle
<1>2. PICK chunk \in Chunk : chunk = req[p].chunk
  BY Requested DEF IInv
<1>3. /\ req[p].phase = "commit" /\ Done(p) /\ UNCHANGED <<staged, faults>>
      /\ session' = [session EXCEPT ![s] = WithChunk(session[s], chunk)]
  BY <1>1, <1>2 DEF RecordChunk
<1>4. session[s] \in Rows /\ session[s].state = "open" /\ session[s].chunks \in Seq(Chunk)
  BY <1>1, <1>3 DEF IInv, TypeInv, Rows, CommitOK, Sess
<1>5. PICK row : row = WithChunk(session[s], chunk)
  OBVIOUS
<1>6. row.chunks = IF chunk.size > 0 THEN Append(session[s].chunks, chunk) ELSE session[s].chunks
  BY <1>4, <1>5 DEF Rows, WithChunk
<1>7. chunk.size \in Nat /\ (chunk.key = 0 <=> chunk.size = 0)
  BY <1>2, <1>3 DEF Chunk, IInv, ChunkOK, Chunking
<1>8. KeysOf(row.chunks) = Recorded(s) \union ({chunk.key} \ {0})
  <2>1. CASE chunk.size > 0
    BY <1>4, <1>6, <2>1, AppendedKeys DEF Recorded
  <2>2. CASE ~ (chunk.size > 0)
    BY <1>6, <1>7, <2>2 DEF Recorded
  <2> QED BY <2>1, <2>2
<1>9. session' = [session EXCEPT ![s] = row] /\ session'[s] = row
  BY <1>3, <1>5 DEF IInv, TypeInv
<1>10. \A t \in Sessions : Grows(t)
  BY <1>4, <1>8, <1>9, RowGrows DEF IInv, Recorded, ForGood
<1>11. chunk.key \in Recorded(s)' \/ chunk.key \notin staged'
  <2>1. chunk.key # 0 => chunk.key \in Recorded(s)'
    BY <1>8, <1>9 DEF Recorded
  <2>2. staged' \subseteq 1..MaxChunks
    BY <1>3 DEF StrayInv
  <2> QED BY <2>1, <2>2
<1>12. Alone(p) /\ req'[p].phase = "idle"
  BY <1>3, DoneSteps DEF IInv, IsIdle
<1> QED BY <1>2, <1>3, <1>10, <1>11, <1>12, StrayTransaction

(* The row goes when its bytes are gone.                                   *)
LEMMA StrayRow ==
  ASSUME IInv, StrayInv, NEW p \in Procs, DeleteRow(p) PROVE StrayInv'
<1>1. PICK s \in Sessions : s = req[p].session
  BY DEF IInv, TypeInv, DeleteRow, IsIdle
<1>2. /\ ~ Chunking(p) /\ Done(p) /\ UNCHANGED <<staged, faults>>
      /\ session' = [session EXCEPT ![s] = IF Ended(@) THEN EmptyRow("deleted") ELSE @]
      /\ Recorded(s) \intersect staged = {}
  BY <1>1 DEF DeleteRow, Chunking, StrayInv, ReapOK
<1>3. session'[s] = IF Ended(session[s]) THEN EmptyRow("deleted") ELSE session[s]
  BY <1>2 DEF IInv, TypeInv
<1>4. \A t \in Sessions \ {s} : session'[t] = session[t]
  BY <1>2 DEF IInv, TypeInv
<1>5. \A t \in Sessions : Grows(t)
  <2>1. Grows(s)
    <3>1. CASE Ended(session[s])
      <4>1. ForGood(s)' /\ Recorded(s)' = {}
        BY <1>3, <3>1, NoKeys DEF EmptyRow, ForGood, Recorded
      <4> QED BY <1>2, <4>1 DEF Grows
    <3>2. CASE ~ Ended(session[s])
      BY <1>3, <3>2 DEF Grows, ForGood, Recorded
    <3> QED BY <3>1, <3>2
  <2>2. ASSUME NEW t \in Sessions \ {s} PROVE Grows(t)
    BY <1>4 DEF Grows, ForGood, Recorded
  <2> QED BY <2>1, <2>2
<1>6. Alone(p) /\ req'[p].phase = "idle"
  BY <1>2, DoneSteps DEF IInv, IsIdle
<1> QED BY <1>2, <1>5, <1>6, StrayTransaction

LEMMA StrayInit == Init => StrayInv
<1> SUFFICES ASSUME Init PROVE StrayInv
  OBVIOUS
<1>1. \A p \in Procs : req[p].phase = "idle"
  BY IdleRequest DEF Init
<1>2. \A p \in Procs : ReapOK(p)
  BY <1>1 DEF ReapOK
<1>3. staged \ Tracked = {}
  BY DEF Init
<1>4. StagedBytesTracked
  BY <1>3, FS_EmptySet DEF StagedBytesTracked, Init
<1> QED BY <1>1, <1>2, <1>4 DEF Init, StrayInv

LEMMA StrayNext == IInv /\ StrayInv /\ [Next]_vars => StrayInv'
<1> SUFFICES ASSUME IInv, StrayInv, [Next]_vars PROVE StrayInv'
  OBVIOUS
<1>1. ASSUME NEW p \in Procs, Continue(p) PROVE StrayInv'
  BY <1>1, StrayStage, StrayRecord, StrayRefused, StrayDiscard, StrayAssemble, StrayCommit,
     StrayClean, StrayRow DEF Continue
<1>2. ASSUME NEW p \in Procs, NEW s \in Sessions,
             FoundLate(p, s) \/ PlanChunk(p, s) \/ BeginPut(p, s) \/ PickEnded(p, s)
      PROVE  StrayInv'
  BY <1>2, StrayLate, StrayPlan, StrayBegin
<1>3. CASE UNCHANGED vars
  <2>1. UNCHANGED <<session, staged, req, faults>>
    BY <1>3 DEF vars
  <2>2. PICK p : p = 0
    OBVIOUS
  <2>3. {} \in SUBSET {req[p].chunk.key} /\ (Chunking(p) => Chunking(p)')
    BY <2>1 DEF Chunking
  <2> QED BY <2>1, <2>3, SessionsSame, StrayStep
<1> QED BY <1>1, <1>2, <1>3, StraySession, StrayCrash DEF Next

(* Bytes in storage that no session names and no request carries are at    *)
(* most as many as there were crashes and failed calls: a row is deleted   *)
(* only after its bytes, deletes that failed leave it for the next reap,   *)
(* and a chunk that is not recorded is deleted by its own request.         *)
THEOREM NothingStranded == Spec => []StagedBytesTracked
<1>1. Spec => [](IInv /\ StrayInv)
  <2>1. Init => IInv /\ StrayInv
    BY IInvInit, StrayInit
  <2>2. IInv /\ StrayInv /\ [Next]_vars => IInv' /\ StrayInv'
    BY IInvStep, StrayNext
  <2> QED BY <2>1, <2>2, PTL DEF Spec
<1>2. StrayInv => StagedBytesTracked
  BY DEF StrayInv
<1> QED BY <1>1, <1>2, PTL

-----------------------------------------------------------------------------
(* The staging budget.                                                     *)

Committing(p) == req[p].phase = "commit"

(* Whoever is about to record a chunk has the only transaction that may,   *)
(* and room for it.                                                        *)
BudgetInv ==
  Metered =>
    /\ IsFiniteSet(OpenBytes(Sessions)) /\ Cardinality(OpenBytes(Sessions)) <= MaxStaged
    /\ \A p \in Procs : Committing(p) =>
         /\ Cardinality(OpenBytes(Sessions)) + req[p].chunk.size <= MaxStaged
         /\ \A q \in Procs : Committing(q) => q = p

(* The row of a session takes no more of the budget than it did.           *)
TakesNoMore(s) ==
  session'[s].state = "open" =>
    \/ session'[s].offset = 0
    \/ session[s].state = "open" /\ session'[s].offset = session[s].offset

LEMMA BudgetKept ==
  ASSUME IInv, BudgetInv, \A s \in Sessions : TakesNoMore(s),
         \A p \in Procs : Committing(p)' => Committing(p) /\ req'[p].chunk = req[p].chunk
  PROVE  BudgetInv'
<1> SUFFICES ASSUME Metered PROVE BudgetInv'
  BY DEF BudgetInv
<1>1. PICK B, A : B = OpenBytes(Sessions) /\ A = OpenBytes(Sessions)'
  OBVIOUS
<1>2. A \in SUBSET B
  <2>1. ASSUME NEW x \in A PROVE x \in B
    <3>1. PICK s \in Sessions : session'[s].state = "open" /\ x \in {s} \X (1..session'[s].offset)
      BY <1>1, <2>1 DEF OpenBytes
    <3>2. session'[s].offset # 0
      <4>1. 1..0 = {}
        OBVIOUS
      <4> QED BY <3>1, <4>1
    <3>3. session[s].state = "open" /\ session'[s].offset = session[s].offset
      BY <3>1, <3>2 DEF TakesNoMore
    <3> QED BY <1>1, <3>1, <3>3 DEF OpenBytes
  <2> QED BY <2>1
<1>3. IsFiniteSet(B) /\ Cardinality(B) <= MaxStaged
  BY <1>1 DEF BudgetInv
<1>4. IsFiniteSet(A) /\ Cardinality(A) <= Cardinality(B)
  BY <1>2, <1>3, FS_Subset
<1>5. Cardinality(A) \in Nat /\ Cardinality(B) \in Nat
  BY <1>3, <1>4, FS_CardinalityType
<1>6. ASSUME NEW p \in Procs, Committing(p)'
      PROVE  /\ Cardinality(A) + req'[p].chunk.size <= MaxStaged
             /\ \A q \in Procs : Committing(q)' => q = p
  <2>1. /\ Cardinality(B) + req[p].chunk.size <= MaxStaged /\ req'[p].chunk = req[p].chunk
        /\ req[p].chunk.size \in Nat
    BY <1>1, <1>6, Requested DEF BudgetInv, IInv
  <2>2. Cardinality(A) + req'[p].chunk.size <= MaxStaged
    BY <1>4, <1>5, <2>1, UploadAssumption
  <2> QED BY <1>6, <2>2 DEF BudgetInv
<1> QED BY <1>1, <1>3, <1>4, <1>5, <1>6, UploadAssumption DEF BudgetInv

(* A step of p that does not leave it ready to record.                     *)
LEMMA BudgetOthers ==
  ASSUME IInv, BudgetInv, NEW p \in Procs, Alone(p), req'[p].phase # "commit",
         \A s \in Sessions : TakesNoMore(s)
  PROVE  BudgetInv'
BY BudgetKept DEF Alone, Committing

LEMMA BudgetRequest ==
  ASSUME IInv, BudgetInv, NEW p \in Procs, Alone(p), req'[p].phase # "commit", session' = session
  PROVE  BudgetInv'
<1>1. \A s \in Sessions : TakesNoMore(s)
  BY DEF TakesNoMore
<1> QED BY <1>1, BudgetOthers

LEMMA BudgetDone ==
  ASSUME IInv, BudgetInv, NEW p \in Procs, Done(p), session' = session
  PROVE  BudgetInv'
<1>1. Alone(p) /\ req'[p].phase # "commit"
  BY DoneSteps DEF IInv, IsIdle
<1> QED BY <1>1, BudgetRequest

(* A row goes to a state in which it counts no more.                       *)
LEMMA EndedTakesNone ==
  ASSUME IInv, NEW s \in Sessions, NEW row, row.state # "open", session' = [session EXCEPT ![s] = row]
  PROVE  \A t \in Sessions : TakesNoMore(t)
<1>1. session'[s] = row /\ \A t \in Sessions \ {s} : session'[t] = session[t]
  BY DEF IInv, TypeInv
<1> QED BY <1>1 DEF TakesNoMore

(* The bytes of an open session are as many as its offset.                 *)
LEMMA OffsetCounted ==
  ASSUME NEW s \in Sessions, NEW size \in Nat, NEW B, IsFiniteSet(B), B \intersect ({s} \X (1..size)) = {}
  PROVE  /\ IsFiniteSet(B \union ({s} \X (1..size)))
         /\ Cardinality(B \union ({s} \X (1..size))) = Cardinality(B) + size
         /\ Cardinality(B) \in Nat
<1>1. PICK A : A = {s} \X (1..size)
  OBVIOUS
<1>2. IsFiniteSet({s}) /\ Cardinality({s}) = 1
  BY FS_Singleton
<1>i. IsFiniteSet(1..size) /\ Cardinality(1..size) = size
  BY FS_Interval
<1>3. IsFiniteSet(A) /\ Cardinality(A) = Cardinality({s}) * Cardinality(1..size)
  BY <1>1, <1>2, <1>i, FS_Product
<1>4. IsFiniteSet(A) /\ Cardinality(A) = size
  BY <1>2, <1>3, <1>i
<1>5. /\ IsFiniteSet(B \union A)
      /\ Cardinality(B \union A) = Cardinality(B) + Cardinality(A) - Cardinality(B \intersect A)
  BY <1>4, FS_Union
<1>6. Cardinality(B \intersect A) = 0 /\ Cardinality(B) \in Nat
  BY <1>1, FS_EmptySet, FS_CardinalityType
<1> QED BY <1>1, <1>4, <1>5, <1>6

(* The budget is what the other sessions have and the session's offset.    *)
LEMMA BudgetSplit ==
  ASSUME IInv, Metered, BudgetInv, NEW s \in Sessions, session[s].state = "open"
  PROVE  /\ session[s].offset \in Nat
         /\ IsFiniteSet(OpenBytes(Sessions \ {s})) /\ OpenBytesElsewhere(s) \in Nat
         /\ Cardinality(OpenBytes(Sessions)) = OpenBytesElsewhere(s) + session[s].offset
<1>1. session[s].offset \in Nat
  BY EndIsOffset DEF IInv, RowOK, TypeInv, Rows
<1>2. PICK size, B : size = session[s].offset /\ B = OpenBytes(Sessions \ {s})
  OBVIOUS
<1>3. OpenBytes(Sessions) = B \union ({s} \X (1..size)) /\ B \intersect ({s} \X (1..size)) = {}
  BY <1>2 DEF OpenBytes
<1>4. IsFiniteSet(B)
  <2>1. B \in SUBSET OpenBytes(Sessions) /\ IsFiniteSet(OpenBytes(Sessions))
    BY <1>3 DEF BudgetInv
  <2> QED BY <2>1, FS_Subset
<1>5. Cardinality(OpenBytes(Sessions)) = Cardinality(B) + size /\ Cardinality(B) \in Nat
  BY <1>1, <1>2, <1>3, <1>4, OffsetCounted
<1> QED BY <1>1, <1>2, <1>4, <1>5 DEF OpenBytesElsewhere

(* The check is made when nobody is about to record.                       *)
LEMMA BudgetCheck ==
  ASSUME IInv, BudgetInv, NEW p \in Procs, CheckChunk(p) PROVE BudgetInv'
<1> SUFFICES ASSUME Metered PROVE BudgetInv'
  BY DEF BudgetInv
<1>1. PICK s \in Sessions : s = req[p].session
  BY DEF IInv, TypeInv, CheckChunk, IsIdle
<1>2. /\ session[s].state = "open" /\ session' = session
      /\ OpenBytesElsewhere(s) + (session[s].offset + req[p].chunk.size) <= MaxStaged
      /\ \A q \in Procs : ~ Committing(q)
  BY <1>1 DEF CheckChunk, MayRecord, Usable, BudgetAllows, QuotaLocked, Sess, Committing
<1>3. Alone(p) /\ req'[p].phase = "commit" /\ req'[p].chunk = req[p].chunk
  BY GotoSteps DEF CheckChunk, IInv, Phases
<1>4. Cardinality(OpenBytes(Sessions)) + req[p].chunk.size <= MaxStaged
  <2>1. /\ session[s].offset \in Nat /\ OpenBytesElsewhere(s) \in Nat
        /\ Cardinality(OpenBytes(Sessions)) = OpenBytesElsewhere(s) + session[s].offset
    BY <1>2, BudgetSplit
  <2>2. req[p].chunk.size \in Nat
    BY Requested DEF IInv
  <2> QED BY <1>2, <2>1, <2>2
<1>5. OpenBytes(Sessions)' = OpenBytes(Sessions)
  BY <1>2 DEF OpenBytes
<1>6. \A q \in Procs : Committing(q)' => q = p
  BY <1>2, <1>3 DEF Alone, Committing
<1> QED BY <1>3, <1>4, <1>5, <1>6 DEF BudgetInv

(* What is recorded is what was checked.                                   *)
LEMMA BudgetRecord ==
  ASSUME IInv, BudgetInv, NEW p \in Procs, RecordChunk(p) PROVE BudgetInv'
<1> SUFFICES ASSUME Metered PROVE BudgetInv'
  BY DEF BudgetInv
<1>1. PICK s \in Sessions : s = req[p].session
  BY DEF IInv, TypeInv, RecordChunk, IsIdle
<1>2. PICK size \in Nat : size = req[p].chunk.size
  BY Requested DEF IInv
<1>3. session[s].state = "open" /\ session[s] \in Rows /\ Committing(p)
  BY <1>1 DEF IInv, TypeInv, RecordChunk, CommitOK, Sess, Committing
<1>4. PICK row : row = WithChunk(session[s], req[p].chunk)
  OBVIOUS
<1>5. row.state = "open" /\ row.offset = session[s].offset + size
  BY <1>2, <1>3, <1>4 DEF WithChunk, Rows
<1>6. session'[s] = row /\ \A t \in Sessions \ {s} : session'[t] = session[t]
  BY <1>1, <1>4 DEF RecordChunk, IInv, TypeInv
<1>7. PICK B : B = OpenBytes(Sessions \ {s})
  OBVIOUS
<1>8. /\ session[s].offset \in Nat /\ IsFiniteSet(B) /\ Cardinality(B) \in Nat
      /\ Cardinality(OpenBytes(Sessions)) = Cardinality(B) + session[s].offset
  BY <1>3, <1>7, BudgetSplit DEF OpenBytesElsewhere
<1>9. PICK total \in Nat : total = session[s].offset + size
  BY <1>8
<1>10. OpenBytes(Sessions)' = B \union ({s} \X (1..total)) /\ B \intersect ({s} \X (1..total)) = {}
  <2>1. OpenBytes(Sessions \ {s})' = B
    BY <1>6, <1>7 DEF OpenBytes
  <2>2. session'[s].state = "open" /\ session'[s].offset = total
    BY <1>5, <1>6, <1>9
  <2>3. OpenBytes(Sessions)' = OpenBytes(Sessions \ {s})' \union ({s} \X (1..total))
    BY <2>2 DEF OpenBytes
  <2> QED BY <1>7, <2>1, <2>3 DEF OpenBytes
<1>11. /\ IsFiniteSet(OpenBytes(Sessions)')
       /\ Cardinality(OpenBytes(Sessions)') = Cardinality(B) + total
  <2>1. /\ IsFiniteSet(B \union ({s} \X (1..total)))
        /\ Cardinality(B \union ({s} \X (1..total))) = Cardinality(B) + total
    BY <1>8, <1>10, OffsetCounted
  <2> QED BY <1>10, <2>1
<1>12. Cardinality(OpenBytes(Sessions)) + size <= MaxStaged
  BY <1>2, <1>3 DEF BudgetInv
<1>13. Cardinality(OpenBytes(Sessions)') <= MaxStaged
  BY <1>8, <1>9, <1>11, <1>12
<1>14. \A q \in Procs : ~ Committing(q)'
  <2>1. Alone(p) /\ req'[p].phase = "idle"
    BY DoneSteps DEF RecordChunk, IInv, IsIdle
  <2> QED BY <1>3, <2>1 DEF BudgetInv, Alone, Committing
<1> QED BY <1>11, <1>13, <1>14 DEF BudgetInv

(* The other steps of a request leave the sessions alone or end one.       *)
LEMMA BudgetContinue ==
  ASSUME IInv, BudgetInv, NEW p \in Procs, Continue(p), ~ CheckChunk(p), ~ RecordChunk(p)
  PROVE  BudgetInv'
<1>r. TypeInv
  BY DEF IInv
<1>1. CASE StageChunk(p) \/ StageFails(p) \/ DiscardChunk(p) \/ DeleteStaged(p)
  <2>1. session' = session /\ \E phase \in Phases \ {"commit"} : Goto(p, phase)
    BY <1>1 DEF StageChunk, StageFails, DiscardChunk, DeleteStaged, Phases
  <2>2. Alone(p) /\ req'[p].phase # "commit"
    BY <1>r, <2>1, GotoSteps
  <2> QED BY <2>1, <2>2, BudgetRequest
<1>2. CASE AssembleFails(p) \/ CleanStaging(p) \/ DeleteStagedFails(p)
  BY <1>2, BudgetDone DEF AssembleFails, CleanStaging, DeleteStagedFails, KeepRow
<1>3. CASE ChunkRefused(p)
  <2>1. PICK chunks : chunks = IF Sess(p).state = "open" /\ Sess(p).late
                                 THEN Sess(p).chunks ELSE << >>
    OBVIOUS
  <2>2. chunks \in Seq(Chunk)
    BY <1>r, <1>3, <2>1, Requested DEF ChunkRefused, IsIdle, Rows
  <2>3. Alone(p) /\ req'[p].phase = "discard" /\ session' = session
    BY <1>r, <1>3, <2>1, <2>2, ChunksSteps DEF ChunkRefused, Phases
  <2> QED BY <2>3, BudgetRequest
<1>4. CASE Assemble(p)
  <2>1. PICK body \in BodySizes :
          req' = [req EXCEPT ![p] = [@ EXCEPT !.phase = "uploaded",
                                              !.size = Total(req[p].chunks) + body]]
    BY <1>4 DEF Assemble
  <2>2. PICK size \in Offsets : size = Total(req[p].chunks) + body
    BY <1>r, Requested DEF Offsets
  <2>3. PICK r : r = [req[p] EXCEPT !.phase = "uploaded", !.size = size]
    OBVIOUS
  <2>4. r \in Requests /\ r.phase = "uploaded" /\ req' = [req EXCEPT ![p] = r]
    BY <1>r, <2>1, <2>2, <2>3, Requested DEF Requests, Phases
  <2>5. Alone(p) /\ req'[p].phase = "uploaded" /\ session' = session
    BY <1>r, <1>4, <2>4, RequestSteps DEF Assemble
  <2> QED BY <2>5, BudgetRequest
<1>5. CASE CommitPut(p)
  <2>1. PICK s \in Sessions : s = req[p].session
    BY <1>5 DEF IInv, TypeInv, CommitPut, IsIdle
  <2>2. PICK row : row = [session[s] EXCEPT !.state = "committed", !.offset = req[p].size]
    OBVIOUS
  <2>3. /\ row.state # "open" /\ session' = [session EXCEPT ![s] = row]
        /\ session[s].chunks \in Seq(Chunk)
    BY <1>5, <2>1, <2>2 DEF CommitPut, IInv, TypeInv, Rows
  <2>4. Alone(p) /\ req'[p].phase = "clean"
    BY <1>r, <1>5, <2>1, <2>3, ChunksSteps DEF CommitPut, Sess, Phases
  <2> QED BY <2>3, <2>4, EndedTakesNone, BudgetOthers
<1>6. CASE PutRefused(p)
  <2>1. CASE Sess(p).state = "open" /\ Sess(p).late
    <3>1. Sess(p).chunks \in Seq(Chunk)
      BY <1>r, <1>6, Requested DEF PutRefused, IsIdle, Rows
    <3>2. Alone(p) /\ req'[p].phase = "clean" /\ session' = session
      BY <1>r, <1>6, <2>1, <3>1, ChunksSteps DEF PutRefused, Phases
    <3> QED BY <3>2, BudgetRequest
  <2>2. CASE ~ (Sess(p).state = "open" /\ Sess(p).late)
    BY <1>6, <2>2, BudgetDone DEF PutRefused
  <2> QED BY <2>1, <2>2
<1>7. CASE DeleteRow(p)
  <2>1. PICK s \in Sessions : s = req[p].session
    BY <1>7 DEF IInv, TypeInv, DeleteRow, IsIdle
  <2>2. /\ session'[s] = (IF Ended(session[s]) THEN EmptyRow("deleted") ELSE session[s])
        /\ \A t \in Sessions \ {s} : session'[t] = session[t]
    BY <1>r, <1>7, <2>1 DEF DeleteRow, TypeInv
  <2>3. \A t \in Sessions : TakesNoMore(t)
    BY <2>2 DEF TakesNoMore, EmptyRow
  <2>4. Alone(p) /\ req'[p].phase # "commit"
    BY <1>r, <1>7, DoneSteps DEF DeleteRow, IsIdle
  <2> QED BY <2>3, <2>4, BudgetOthers
<1> QED BY <1>1, <1>2, <1>3, <1>4, <1>5, <1>6, <1>7 DEF Continue

LEMMA BudgetNext == IInv /\ BudgetInv /\ [Next]_vars => BudgetInv'
<1> SUFFICES ASSUME IInv, BudgetInv, [Next]_vars PROVE BudgetInv'
  OBVIOUS
<1>r. TypeInv
  BY DEF IInv
<1>1. CASE \/ \E s \in Sessions : CreateSession(s) \/ Expire(s)
           \/ \E p \in Procs, s \in Sessions : Cancel(p, s)
           \/ AbortExpired
  <2>1. req' = req /\ \A s \in Sessions : Turned(s) /\ RowOK(s)
    BY <1>1, SessionSteps DEF IInv
  <2>2. \A s \in Sessions : TakesNoMore(s)
    BY <2>1 DEF Turned, TakesNoMore, RowOK
  <2>3. \A p \in Procs : Committing(p)' => Committing(p) /\ req'[p].chunk = req[p].chunk
    BY <2>1 DEF Committing
  <2> QED BY <2>2, <2>3, BudgetKept
<1>2. ASSUME NEW p \in Procs, NEW s \in Sessions, BeginPut(p, s) \/ PickEnded(p, s) PROVE BudgetInv'
  <2>1. session' = session /\ \E phase \in {"assemble", "reap"} :
          req' = [req EXCEPT ![p] = Begin(phase, s, session[s].chunks)]
    BY <1>2 DEF BeginPut, PickEnded
  <2>2. Alone(p) /\ req'[p].phase # "commit"
    BY <1>r, <2>1, BeginSteps DEF Phases
  <2> QED BY <2>1, <2>2, BudgetRequest
<1>3. ASSUME NEW p \in Procs, NEW s \in Sessions, FoundLate(p, s) PROVE BudgetInv'
  <2>1. Alone(p) /\ req'[p].phase # "commit"
    BY <1>r, <1>3, BeginSteps DEF FoundLate, Phases
  <2>2. CASE session' = session
    BY <2>1, <2>2, BudgetRequest
  <2>3. CASE session' = [session EXCEPT ![s].state = "aborted"]
    <3>1. PICK row : row = [session[s] EXCEPT !.state = "aborted"]
      OBVIOUS
    <3>2. row.state # "open" /\ session' = [session EXCEPT ![s] = row]
      BY <2>3, <3>1 DEF IInv, TypeInv, Rows
    <3> QED BY <2>1, <3>2, EndedTakesNone, BudgetOthers
  <2> QED BY <1>3, <2>2, <2>3 DEF FoundLate
<1>4. ASSUME NEW p \in Procs, NEW s \in Sessions, PlanChunk(p, s) PROVE BudgetInv'
  <2>1. Alone(p) /\ req'[p].phase # "commit" /\ session' = session
    BY <1>4, PlannedSteps DEF PlanChunk
  <2> QED BY <2>1, BudgetRequest
<1>5. ASSUME NEW p \in Procs, Crash(p) PROVE BudgetInv'
  BY <1>5, BudgetDone DEF Crash
<1>6. CASE UNCHANGED vars
  <2>1. session' = session /\ req' = req
    BY <1>6 DEF vars
  <2> QED BY <2>1, BudgetKept DEF TakesNoMore, Committing
<1> QED BY <1>1, <1>2, <1>3, <1>4, <1>5, <1>6, BudgetContinue, BudgetCheck, BudgetRecord DEF Next

(* The staged bytes of an organisation with a quota row stay within the    *)
(* budget, however many PATCHes of however many sessions race: the lock on *)
(* that row, from the check to the commit of recordContentUploadChunk, and *)
(* staged bytes beyond what is tracked stay few.                           *)
THEOREM StagingIsBounded == Spec => []StagedBytesAccounted
<1>1. Spec => [](IInv /\ BudgetInv)
  <2>1. Init => BudgetInv
    <3>1. SUFFICES ASSUME Init PROVE BudgetInv
      OBVIOUS
    <3>2. OpenBytes(Sessions) = {} /\ \A p \in Procs : ~ Committing(p)
      BY <3>1, IdleRequest DEF Init, EmptyRow, OpenBytes, Committing
    <3> QED BY <3>2, FS_EmptySet, UploadAssumption DEF BudgetInv
  <2> QED BY <2>1, IInvInit, IInvStep, BudgetNext, PTL DEF Spec
<1>2. BudgetInv => BudgetRespected
  BY DEF BudgetInv, BudgetRespected
<1>3. BudgetRespected /\ StagedBytesTracked => StagedBytesAccounted
  BY DEF StagedBytesAccounted
<1> QED BY <1>1, <1>2, <1>3, NothingStranded, PTL
=============================================================================
