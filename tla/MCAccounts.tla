----------------------------- MODULE MCAccounts -----------------------------
(* Two organisations, one with a local group and one with a mapped group.  *)
EXTENDS Accounts, TLC

CONSTANTS o1, o2, staff, sso, s1, k, l1, l2, p1, p2

MCGroupOrg == [g \in Groups |-> IF g = staff THEN o1 ELSE o2]
Symmetry == Permutations({p1, p2}) \union Permutations({l1, l2})
MCCredentials == [c \in {s1, k} |-> IF c = k THEN "token" ELSE "session"]
=============================================================================
