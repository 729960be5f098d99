---------------------------- MODULE MCManifests ----------------------------
(* Two images of a repository; m1 and m2 have the same layer, and index     *)
(* names m1.                                                                *)
EXTENDS Manifests

CONSTANTS A, B, m1, m2, index, t, p1, p2

Push(image, digest, tags) == [op |-> "push", image |-> image, digest |-> digest, tags |-> tags]
Delete(image, digest) == [op |-> "delete", image |-> image, digest |-> digest]

MCLayers == [d \in Digests |-> IF d = m1 THEN {"b"} ELSE IF d = m2 THEN {"b"} ELSE {}]
MCChildren == [d \in Digests |-> IF d = index THEN {m1} ELSE {}]

MCRequests ==
  [p \in Procs |->
     IF p = p1
       THEN {Push(A, m1, {t}), Push(B, m1, {t}), Delete(A, m1), Push(A, index, {})}
       ELSE {Delete(A, m1), Push(A, m2, {t})}]
============================================================================
