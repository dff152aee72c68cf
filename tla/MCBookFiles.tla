------------------------------ MODULE MCBookFiles ------------------------------
(* Small instances of BookFiles for TLC. *)
EXTENDS BookFiles, TLC

CONSTANTS b1, b2, w1, w2

MCBooks == {b1, b2}
MCWorkers == {w1, w2}
OneWorker == {w1}
SymmetricWorkers == Permutations(MCWorkers)

\* A .cbr, the .cbz it is converted to, and another .cbz.
MCPaths == {"cbr", "cbz", "other"}
MCZip == {"cbz", "other"}
MCChangeExt == [p \in MCPaths |-> IF p = "cbr" THEN "cbz" ELSE p]

MCFirst(n) == [id |-> n, pages |-> n, meta |-> "a"]
MCFirstFile == [p \in MCPaths |-> IF p = "cbr" THEN MCFirst(10) ELSE NoFile]
TwoFirstFiles == [p \in MCPaths |->
    CASE p = "cbr" -> MCFirst(10) [] p = "other" -> MCFirst(11) [] OTHER -> NoFile]
MCFirstPath == [b \in MCBooks |-> IF b = b1 THEN "cbr" ELSE Absent]
TwoFirstPaths == [b \in MCBooks |-> IF b = b1 THEN "cbr" ELSE "other"]
================================================================================
