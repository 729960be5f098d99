---------------------------- MODULE MCPublishing ----------------------------
(* Instances of Publishing for TLC.  Three teams of processes, of which    *)
(* one is at work in a behaviour: a sets the quota in two of them, and the *)
(* third one meets crashes.                                                *)
EXTENDS Publishing

CONSTANTS v1, v2, v3, v4, v5, p1, p2, q1, q2, r, a

VARIABLE team

Upload(kind, v, contents) == [op : {kind}, version : {v}, digest : contents]

(* p1 and p2 compete for v1 with bytes of their own while r applies        *)
(* retention; with v2 and v5 live, v1 is one too many.  q1 and q2 replace  *)
(* v3; q1 updates the metadata of v3 and of v4, which q2 uploads.          *)
Rivals ==
  [p \in Procs |->
     CASE p = p1 -> Upload("publish", v1, {1})
       [] p = p2 -> Upload("publish", v1, {3}) \union Upload("publish", v2, {4})
                      \union Upload("publish", v5, {2})
       [] p = q1 -> Upload("replace", v3, {1, 2}) \union Upload("touch", v3, {3})
                      \union Upload("touch", v4, {3})
       [] p = q2 -> Upload("replace", v3, {1, 2}) \union Upload("upsert", v4, {3})
                      \union Upload("publish", v5, {3})
       [] OTHER -> {}]

(* The same version with the same bytes, by every publisher.              *)
Twins == [p \in Procs |-> Upload("publish", v1, {1})]

Teams == {{p1, p2, r, a}, {q1, q2, a}, {p1, p2, r}}

MCInit == Init /\ team \in {t \cap Procs : t \in Teams} \ {{}}
MCNext ==
  /\ \E p \in team : Step(p)
  /\ crashes' # crashes => team = {p1, p2, r}
  /\ UNCHANGED team
MCSpec == MCInit /\ [][MCNext]_<<vars, team>>
=============================================================================
