---------------------------- MODULE MCBlobStore ----------------------------
(* Instances of BlobStore for TLC: r1 and r2 belong to the limited org  *)
(* o1, r3 to o2; blobs of 1 and 2 bytes under a limit of 2 bytes.          *)
EXTENDS BlobStore, TLC

CONSTANTS o1, o2, r1, r2, r3, p1, p2, p3

MCOrgOf == [r \in Repos |-> IF r = r3 THEN o2 ELSE o1]
MCSize == [d \in Digests |-> d]
MCMaxStorage == [o \in Orgs |-> 2]
ProcSymmetry == Permutations(Procs)
============================================================================
