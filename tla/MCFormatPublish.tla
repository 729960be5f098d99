--------------------------- MODULE MCFormatPublish ---------------------------
(* Instances of FormatPublish for TLC.                                     *)
EXTENDS FormatPublish

Coordinate(c, m, a, t, v, d) ==
    [caps |-> c, meta |-> m, arch |-> a, part |-> t, version |-> v, digest |-> d]

(* A NAR's file hash is its digest: other bytes, other path.               *)
(* Maven, Ivy and Conan have files that are not scanned.                   *)
Parts(f, d) == CASE f = "nix_nar" -> {d}
                 [] f \in PathStore \union {"conan"} -> {"x", "y", "z"}
                 [] OTHER -> {"x", "y"}
Base(f, d) ==
    Coordinate(FALSE, FALSE, "x", IF f = "nix_nar" THEN d ELSE "x", 1, d)

(* One upload at the base coordinates and one at any coordinates, with      *)
(* other bytes.                                                            *)
Pairs(f) ==
    {<<Base(f, "d1"), Coordinate(c, m, a, t, v, "d2")>> :
        c \in BOOLEAN, m \in BOOLEAN, a \in {"x", "y"}, t \in Parts(f, "d2"), v \in {1, 2}}

(* Three uploads: two of one address and one of the same address, another  *)
(* file, or another version.                                               *)
Triples(f) ==
    {<<Base(f, "d1"), Base(f, "d2"), Coordinate(FALSE, FALSE, a, t, v, "d3")>> :
        a \in {"x", "y"}, t \in Parts(f, "d3"), v \in {1, 2}}

Signature(d) == [d1 |-> "s1", d2 |-> "s2", d3 |-> "s3"][d]

PairsAndTriples(f) == Pairs(f) \union Triples(f)
=============================================================================
