-------------------------- MODULE MCSegmentStore --------------------------
EXTENDS SegmentRefinement, TLC

CONSTANTS k1, k2, k3

\* The chunks are interchangeable.
ChunkSymmetry == Permutations(Chunks)
===========================================================================
