-------------------------- MODULE EngineRefinement --------------------------
(***************************************************************************)
(* The storage engine implements VersionedStore: behind the locks, the     *)
(* log, the transactions, the collections and the crashes, its clients see *)
(* an atomic map from names to histories.  Below it, it uses ChunkStore.   *)
(***************************************************************************)
EXTENDS Engine

\* What list_named_objects and get_versions show.
FilesSeen == [n \in Names |-> IF names[n] = 0 THEN NoRecord ELSE objects[names[n]]]

\* What list_snapshots shows.
SnapshotsSeen ==
  {[label |-> s.label,
    entries |-> {[name |-> e.name, version |-> e.version, content |-> e.content] :
                   e \in s.entries}] : s \in snapshots}

\* What extract_manifest_to_file can reconstruct after a power loss.
ContentsReadable == {c \in manifests : ChunksOf[c] \subseteq synced}

Store == INSTANCE VersionedStore
           WITH files <- FilesSeen, snaps <- SnapshotsSeen,
                readable <- ContentsReadable

\* The segment store as the engine uses it: a collection keeps what it marked.
Segments == INSTANCE ChunkStore WITH live <- ChunksOfAll(gcLive)

-----------------------------------------------------------------------------
(* Several crashes.  A crash forgets a checkpoint when it leaves a record  *)
(* in the log that the next open replays although its put had returned:    *)
(* checkpoint.meta, truncated or never synced, is behind that record, and  *)
(* the truncation of the log is not there to hide it.                      *)

\* From the append of the record to the truncation of the log.
LoggedPcs == {"walSync", "manifest", "object", "bind", "checkpoint", "metaWrite",
              "metaSync", "logTruncate", "logSync"}

\* The records that a put or the replay works on.
InUse == {job[p].lsn : p \in {q \in Procs : pc[q] \in LoggedPcs}}

\* Of the others none may be replayed; before the replay has begun those above
\* the checkpoint may.
Settled(l) ==
  /\ l \notin InUse
  /\ status = "up" \/ InUse # {} \/ l <= meta \/ l <= metaSynced

ForgetsCheckpoint ==
  \E i \in DOMAIN walLog' : walLog'[i].lsn > meta' /\ Settled(walLog'[i].lsn)

\* A call that fails may leave its record in the log: then any crash may happen.
KeepsCheckpoint == spent.faults = 0 => ~ForgetsCheckpoint

KeptNext ==
  \/ \E p \in Clients : ClientStep(p)
  \/ OpenerStep
  \/ Kill /\ KeepsCheckpoint
  \/ PowerLoss /\ KeepsCheckpoint

\* The behaviours with any number of crashes of which none forgets a checkpoint
\* as long as no call has failed.
KeptSpec == Init /\ [][KeptNext]_vars

-----------------------------------------------------------------------------
(* Concurrent puts, reads, renames, rollbacks, prunes, snapshots, deletes  *)
(* and collections, some of them failing half way, look to every client    *)
(* like atomic operations one after the other, and whatever a name or a    *)
(* snapshot leads to can be read: the engine implements VersionedStore.    *)
ImplementsVersionedStore == Store!StoreSpec

(* A crash at any step and the replay after it are invisible, or complete  *)
(* the interrupted put as if it had been made then (open_internal); a put  *)
(* that failed before the crash and left its record in the log is excluded *)
(* (the replay may apply it over later changes).                           *)
CrashesAreInvisible ==
  [][(spent'.faults > 0 /\ spent'.crashes > 0) \/ Store!StoreNext]_(Store!storeVars)

(* Without such a failed put, replay finds names and histories in order,   *)
(* brings no deleted file back, and the next open has all the chunks it    *)
(* needs.                                                                  *)
ReplayIsExact ==
  spent.faults = 0 => NamesResolve /\ VersionsIncreasing /\ DeletedStaysDeleted
                        /\ (status = "down" => OpenSucceeds)

(* Whatever its threads, its crashes and its recoveries do to the segment  *)
(* store, they only store chunks, sync them all, collect all but what was  *)
(* marked, or lose some that were not synced: the operations which         *)
(* SegmentRefinement shows the segment files to implement.                 *)
UsesChunkStore == Segments!ChunkSpec
=============================================================================
