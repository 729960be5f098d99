----------------------------- MODULE ContentStore -----------------------------
(***************************************************************************)
(* What the blob store promises the registry formats: the bytes of a       *)
(* digest stay readable from the moment it is referenced until its last    *)
(* reference is dropped.  Bytes nobody references may come and go.         *)
(***************************************************************************)
CONSTANTS
  Digests,
  Ref       (* records with a digest *)

VARIABLES refs, readable

vars == <<refs, readable>>

Referenced == {x.digest : x \in refs}

Init == refs = {} /\ readable = {}

Write(d) == readable' = readable \union {d} /\ UNCHANGED refs

Erase(d) ==
  /\ d \notin Referenced
  /\ readable' = readable \ {d}
  /\ UNCHANGED refs

(* Reference x, in place of what it replaces.                              *)
Reference(x, replaced) ==
  /\ x.digest \in readable
  /\ refs' = (refs \ replaced) \union {x}
  /\ UNCHANGED readable

Release(x) == refs' = refs \ {x} /\ UNCHANGED readable

Next ==
  \/ \E d \in Digests : Write(d) \/ Erase(d)
  \/ \E x \in Ref : Release(x) \/ \E replaced \in SUBSET Ref :
                      /\ \A y, z \in replaced : y = z
                      /\ Reference(x, replaced)

Spec == Init /\ [][Next]_vars
=============================================================================
