-------------------------- MODULE SegmentRefinement --------------------------
(***************************************************************************)
(* The segment store implements ChunkStore: through appends, rotations,    *)
(* the file swaps of a compaction, crashes between any two of their steps  *)
(* and the recovery after them, its caller sees a set of chunks.           *)
(***************************************************************************)
EXTENDS SegmentStore

ChunksIn(f) == {f.recs[i] : i \in DOMAIN f.recs} \ {Torn}

\* What get_chunk finds: while the store is open what the index has, which is
\* replaced after the swap; otherwise what the next open will find.
ChunksStored ==
  IF pc \in {"closed", "recover", "scan", "failed"}
  THEN UNION {ChunksIn(Recoverable[s]) : s \in SegIds}
  ELSE IF pc \in {"dropOld", "attach"} THEN Indexed(newIndex) ELSE Indexed(index)

ChunksSynced == UNION {DurableChunks(Recoverable[s]) \ {Torn} : s \in SegIds}

Store == INSTANCE ChunkStore
           WITH stored <- ChunksStored, synced <- ChunksSynced, live <- kept

(* As long as no I/O error joins the crashes, every step of the segment    *)
(* store is a step of ChunkStore or changes nothing its caller can see: a  *)
(* compaction takes effect at once, when its marker is written, keeps      *)
(* exactly what it was asked to, and is undone by a crash before that; a   *)
(* scan indexes exactly the chunks the files hold (compact_and_reclaim,    *)
(* recover_and_index).                                                     *)
ImplementsChunkStore ==
  /\ Store!ChunkInit
  /\ [][Faults' > 0 \/ Store!ChunkNext]_(Store!chunkVars)
=============================================================================
