--------------------------- MODULE MCScanPipeline ---------------------------
(* Values for ScanPipeline.  One worker scans a file, an index of an image *)
(* and of a second index that names it again, beside an image that shares  *)
(* its layer, or a manifest without contents, with scanners for each       *)
(* gating type, or without any; or two workers scan a file or an image,    *)
(* with findings that differ in severity.                                  *)
EXTENDS ScanPipeline

CONSTANTS a, b, c, nested, index, m1, m2, scratch, grype, clamav, w1, w2, c1, c2

MCLayers == [m \in Manifests |->
  CASE m = m1 -> {a} [] m = m2 -> {a, b, c} [] OTHER -> {}]
MCChildren == [m \in Manifests |->
  CASE m = nested -> <<m1, index>> [] m = index -> <<m1, m2>> [] OTHER -> <<>>]
MCGraph == [m \in Manifests |->
  CASE m = nested -> {nested, index, m1, m2} [] m = index -> {index, m1, m2} [] OTHER -> {m}]

MCDeclares == [s \in {grype, clamav} |-> IF s = clamav THEN {"malware"} ELSE {"vuln"}]

Finding(k, t, s) == [key |-> k, type |-> t, severity |-> s]
low == Finding("cve", "vuln", 2)
high == Finding("cve", "vuln", 4)
virus == Finding("virus", "malware", 5)

Alone(scanners, asked) ==
  [workers |-> {w1}, content |-> scanners, requested |-> asked,
   stream |-> {{}, {virus}}, reports |-> {{}}, dependencies |-> {{}}]
Together ==
  [workers |-> {w1, w2}, content |-> {grype}, requested |-> TRUE,
   stream |-> {{}}, reports |-> {{}, {low}, {high}}, dependencies |-> {{}, {high}}]

MCSettings ==
  [root : {a, nested, scratch},
   runtime : {Alone({grype, clamav}, TRUE), Alone({}, TRUE), Alone({}, FALSE)}]
  \union [root : {a, m1}, runtime : {Together}]

MCPolicies == {[mode |-> "audit", threshold |-> 2], [mode |-> "enforce", threshold |-> 4]}
=============================================================================
