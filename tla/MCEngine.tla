------------------------------ MODULE MCEngine ------------------------------
EXTENDS EngineRefinement, TLC

CONSTANTS c1, c2, k1, k2, k3, t1, t2, f, g, s1

\* Two contents that share a chunk.
MCChunksOf == (c1 :> {k1, k2}) @@ (c2 :> {k2, k3})

\* The threads are interchangeable (only used where no liveness is checked).
ClientSymmetry == Permutations(Clients)

\* The bound of engine_crash on crashes, edits and I/O errors taken together: for
\* example two edits and a crash, an edit and two crashes, or one of each.
MaxEvents == 3

EventsBounded == spent.crashes + spent.edits + spent.faults =< MaxEvents

\* The bound of engine_live: two threads call the engine until the first crash,
\* one after it.  It only leaves out calls, which nothing has to make.
OneCallerAfterCrash ==
  spent.crashes > 0 => \A p \in Clients \ {t1} : pc[p] = "idle"
=============================================================================
