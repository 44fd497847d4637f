----------------------------- MODULE MCWatcher -----------------------------
EXTENDS Watcher

CONSTANTS c1, c2

\* Two directories, each with room for one file; the first one has a file.
TwoPaths == {<<"d", "x">>, <<"e", "x">>}
TwoDirs == {<<"d">>, <<"e">>}
OneFile == {[p \in Paths |-> IF p = <<"d", "x">> THEN c1 ELSE NoFile]}
=============================================================================
