----------------------------- MODULE ChunkStore -----------------------------
(***************************************************************************)
(* What the segment store promises to the engine above it: a set of chunks *)
(* of which an fsync has made some durable.  There are no files, records,  *)
(* indexes or recovery here; module SegmentStore has them and is shown to  *)
(* implement this one, and module Engine is shown to use the store in no   *)
(* other way.                                                              *)
(***************************************************************************)
CONSTANT Chunks   \* chunk ids

VARIABLES
  stored,    \* the chunks that can be read
  synced,    \* the chunks of them that an fsync has made durable
  live       \* what the caller of a collection wants kept; only the caller
             \* changes it

chunkVars == <<stored, synced>>

ChunkInit == stored = {} /\ synced = {}

\* put_chunk, or several of them.
StoreChunks ==
  /\ \E S \in SUBSET Chunks : stored' = stored \cup S
  /\ UNCHANGED synced

\* sync, and every operation that fsyncs the segment being written.
SyncAll ==
  /\ synced' = stored
  /\ UNCHANGED stored

\* compact_and_reclaim: in one step exactly what is live is kept, durably.
Collect ==
  /\ stored' = stored \cap live
  /\ synced' = stored'

\* A crash may lose what no fsync covers and nothing else; a machine that lost
\* power finds what is left on its disk.
LoseUnsynced ==
  /\ synced \subseteq synced'
  /\ synced' \subseteq stored'
  /\ stored' \subseteq stored

ChunkNext == StoreChunks \/ SyncAll \/ Collect \/ LoseUnsynced

ChunkSpec == ChunkInit /\ [][ChunkNext]_chunkVars
=============================================================================
