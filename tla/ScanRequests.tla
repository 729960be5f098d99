---------------------------- MODULE ScanRequests ----------------------------
(***************************************************************************)
(* What a publisher may rely on: its request for a scan stays open until a *)
(* verdict has been given since it asked, or until MaxAttempts tries are   *)
(* spent; and what is settled stays so until somebody asks again.  Claims, *)
(* workers, crashes and timeouts do not show.  ScanOutbox implements this. *)
(***************************************************************************)
EXTENDS Naturals

CONSTANTS Artifacts, MaxAttempts

VARIABLES
  request,       (* of each artifact: absent, open, succeeded or failed     *)
  scanned,       (* the artifacts judged since they were last asked for     *)
  tries          (* how often a scan of each artifact was begun             *)

vars == <<request, scanned, tries>>

Open == {a \in Artifacts : request[a] = "open"}
Spent == {a \in Open : tries[a] >= MaxAttempts}

Init ==
  /\ request = [a \in Artifacts |-> "absent"]
  /\ scanned = {}
  /\ tries = [a \in Artifacts |-> 0]

(* Earlier verdicts do not count for a new request.                        *)
Ask(a) ==
  /\ request' = [request EXCEPT ![a] = "open"]
  /\ scanned' = scanned \ {a}
  /\ UNCHANGED tries

Try(S) ==
  /\ tries' = [a \in Artifacts |-> IF a \in S THEN tries[a] + 1 ELSE tries[a]]
  /\ UNCHANGED <<request, scanned>>

(* A verdict may come at any time, and more than once.                     *)
Judge(a) ==
  /\ request[a] # "absent"
  /\ scanned' = scanned \union {a}
  /\ UNCHANGED <<request, tries>>

Succeed(a) ==
  /\ a \in Open \cap scanned
  /\ request' = [request EXCEPT ![a] = "succeeded"]
  /\ UNCHANGED <<scanned, tries>>

GiveUp(S) ==
  /\ request' = [a \in Artifacts |-> IF a \in S THEN "failed" ELSE request[a]]
  /\ UNCHANGED <<scanned, tries>>

Next ==
  \/ \E a \in Artifacts : Ask(a) \/ Judge(a) \/ Succeed(a)
  \/ \E S \in SUBSET Open : Try(S)
  \/ \E S \in SUBSET Spent : GiveUp(S)

Spec == Init /\ [][Next]_vars
=============================================================================
