------------------------------ MODULE MCDesktop ------------------------------
(* d is shared as a folder with two files in it, one of which hides the    *)
(* other in current/.  The contents share a chunk, one is empty, and the   *)
(* cache cannot hold all chunks.                                           *)
EXTENDS Desktop

MCNames == {"d/a", "d/a/b"}
MCDirsOf == [n \in MCNames |-> IF n = "d/a" THEN {} ELSE {"d/a"}]
MCPaths == {"d", "d/a"}
MCUnder == [p \in MCPaths |-> IF p = "d" THEN MCNames ELSE {"d/a/b"}]

MCChunksOf == [c1 |-> <<"k1", "k2">>, c2 |-> <<"k2">>, c0 |-> << >>]
MCContents == DOMAIN MCChunksOf
MCLenOf == [k1 |-> 2, k2 |-> 1]
MCChunks == DOMAIN MCLenOf

OneVersion(c) == [latest |-> 1, versions |-> <<[version |-> 1, content |-> c]>>]
MCFilesAtStart == ("d/a" :> OneVersion("c1")) @@ ("d/a/b" :> OneVersion("c2"))

Nothing == [k \in Kinds |-> 0]
MCBudgets ==
  { [Nothing EXCEPT !["requests"] = 1, !["changes"] = 2],
    [Nothing EXCEPT !["requests"] = 2, !["changes"] = 1, !["faults"] = 1],
    [Nothing EXCEPT !["requests"] = 3],
    [Nothing EXCEPT !["shareCalls"] = 3, !["faults"] = 1, !["crashes"] = 1],
    [Nothing EXCEPT !["shareCalls"] = 1, !["downloads"] = 1, !["changes"] = 2,
                    !["faults"] = 1],
    [Nothing EXCEPT !["watchCalls"] = 3, !["faults"] = 1, !["crashes"] = 1],
    [Nothing EXCEPT !["requests"] = 1, !["shareCalls"] = 1, !["watchCalls"] = 1,
                    !["crashes"] = 1] }
=============================================================================
