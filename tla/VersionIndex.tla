---------------------------- MODULE VersionIndex ----------------------------
(***************************************************************************)
(* What the clients of a package see: a version appears in one step, with  *)
(* its content there to be downloaded, keeps it, and is retired for ever.  *)
(* Locks, transactions, references, aborted publishes and crashes do not   *)
(* show.  Publishing implements this.                                      *)
(***************************************************************************)
EXTENDS Naturals, FiniteSets

CONSTANTS
  Versions, Digests,
  Fixed,         (* the versions of adapters that only publish              *)
  Absent,        (* the entry of a version that was never published         *)
  KeepLastN

VARIABLES
  entry,         (* what the package lists of each version                  *)
  served         (* the Fixed versions whose content can be downloaded      *)

vars == <<entry, served>>

Live == {v \in Versions : entry[v].state = "live"}

Init == entry = [v \in Versions |-> Absent] /\ served = {}

Publish(v, d) ==
  /\ v \in Fixed /\ entry[v].state = "none"
  /\ entry' = [entry EXCEPT ![v] = [state |-> "live", digest |-> d]]
  /\ served' = served \union {v}

(* Nothing is promised of the content of a version that may be rewritten.  *)
Write(v, d) ==
  /\ v \notin Fixed
  /\ entry' = [entry EXCEPT ![v] = [state |-> "live", digest |-> d]]
  /\ UNCHANGED served

Retire(S) ==
  /\ Cardinality(Live \ S) >= KeepLastN
  /\ entry' = [v \in Versions |->
                 IF v \in S THEN [entry[v] EXCEPT !.state = "deleted"] ELSE entry[v]]
  /\ served' = served \ S

Next ==
  \/ \E v \in Versions, d \in Digests : Publish(v, d) \/ Write(v, d)
  \/ \E S \in SUBSET Live : Retire(S)

Spec == Init /\ [][Next]_vars
=============================================================================
