---------------------------- MODULE SegmentStore ----------------------------
(***************************************************************************)
(* The segment store (core/src/segment): chunks are appended to numbered   *)
(* segment files, an in-memory index says where each one is, and garbage   *)
(* collection compacts the live chunks into a staging directory and swaps  *)
(* the files in by renaming.  Opening the store first finishes or undoes a *)
(* swap that a crash interrupted and then rebuilds the index by scanning   *)
(* the files.                                                              *)
(*                                                                         *)
(* A segment file is its header and its sequence of records.  Whether a    *)
(* record still fits into the current segment depends on sizes that the    *)
(* model leaves out, so it may or may not.  All of append, sync and        *)
(* compaction run under the writer mutex, and every file operation of them *)
(* is a step, so that a crash can fall between any two.  Renames, removals *)
(* and creations take effect in the order they are made.                   *)
(***************************************************************************)
EXTENDS Integers, Sequences, FiniteSets

CONSTANTS
  Chunks,          \* chunk ids
  Torn,            \* a record whose bytes are incomplete
  NoChunk,         \* "no append is under way"
  MaxSegments,     \* bound: segment ids
  MaxAppends,      \* bound: put_chunk calls that write
  MaxCompactions,  \* bound: compact_and_reclaim calls
  MaxCrashes,      \* bound: crashes
  MaxFaults,       \* bound: I/O errors
  FaultKinds       \* which I/O errors may happen: subset of
                   \* {"append", "remove", "rename"}

ASSUME ChunkAssumption == Torn \notin Chunks /\ NoChunk \notin Chunks

ASSUME BoundAssumption ==
  /\ MaxSegments \in Nat \ {0}
  /\ {MaxAppends, MaxCompactions, MaxCrashes, MaxFaults} \subseteq Nat
  /\ FaultKinds \subseteq {"append", "remove", "rename"}

VARIABLES
  \* --- the segments directory
  active,    \* segment_N.seg
  old,       \* segment_N.seg.old
  staged,    \* .compact_tmp_*/segment_N.seg
  marker,    \* .compact_done: "none", "empty" or "done"
  \* --- memory
  index,     \* chunk -> location
  writer,    \* the segment being written, the record count it believes in and
             \* whether it has the file open
  newIndex,  \* the index of the staged segments
  newWriter, \* the writer of the staged segments
  toStage,   \* live chunks still to be copied
  toDrop,    \* .seg.old files still to be removed
  pending,   \* the chunk being appended
  pc,
  \* --- history
  kept,      \* chunks that were synced, that no collection gave up and that no
             \* open cut off behind a fragment
  spent

fileVars  == <<active, old, staged, marker>>
stageVars == <<newIndex, newWriter, toStage, toDrop>>
vars == <<fileVars, stageVars, index, writer, pending, pc, kept, spent>>

-----------------------------------------------------------------------------
SegIds == 1..MaxSegments

\* durable counts the records that an fsync covers.
File    == [present : BOOLEAN, header : BOOLEAN, recs : Seq(Chunks \cup {Torn}),
            durable : Nat]
NoFile  == [present |-> FALSE, header |-> FALSE, recs |-> << >>, durable |-> 0]
Created == [NoFile EXCEPT !.present = TRUE]
NoFiles == [s \in SegIds |-> NoFile]

Location == [seg : 0..MaxSegments, pos : Nat]
NoLoc    == [seg |-> 0, pos |-> 0]
NoIndex  == [c \in Chunks |-> NoLoc]
Closed   == [seg |-> 0, count |-> 0, open |-> FALSE]

Indexed(ix) == {c \in Chunks : ix[c] # NoLoc}

Present(files) == {s \in SegIds : files[s].present}

Newest(files) == CHOOSE s \in Present(files) : \A t \in Present(files) : t <= s

AddRecord(f, r) == [f EXCEPT !.recs = Append(@, r)]

Synced(f) == [f EXCEPT !.durable = Len(f.recs)]

RecordAt(l) == active[l.seg].recs[l.pos]

\* Mutant: the content hash of what was read is not compared.
ReadOkMutant(c) ==
  LET l == index[c] IN
  l.seg \in SegIds /\ l.pos \in DOMAIN active[l.seg].recs

\* read_chunk checks that the record at the location is the chunk it wants.
ReadOk(c) ==
  LET l == index[c] IN
  l.seg \in SegIds /\ l.pos \in DOMAIN active[l.seg].recs /\ RecordAt(l) = c

Spend(kind) == spent' = [spent EXCEPT ![kind] = @ + 1]

Faults == spent.append + spent.remove + spent.rename

\* An I/O error of one of the kinds.
Fault(kind) == kind \in FaultKinds /\ Faults < MaxFaults /\ Spend(kind)

-----------------------------------------------------------------------------
Init ==
  /\ active = NoFiles /\ old = NoFiles /\ staged = NoFiles /\ marker = "none"
  /\ index = NoIndex /\ writer = Closed
  /\ newIndex = NoIndex /\ newWriter = Closed /\ toStage = {} /\ toDrop = {}
  /\ pending = NoChunk
  /\ pc = "closed"
  /\ kept = {}
  /\ spent = [appends |-> 0, compactions |-> 0, crashes |-> 0, append |-> 0,
               remove |-> 0, rename |-> 0, overBackups |-> 0]

-----------------------------------------------------------------------------
(* put_chunk and sync                                                      *)

\* A chunk that the index has is not written again.  A record always fits into
\* an empty segment.  A writer that a failed swap has left closed refuses, but
\* for a record that does not fit it opens the next segment.
PutChunk ==
  /\ pc = "ready" /\ spent.appends < MaxAppends /\ Spend("appends")
  /\ \E c \in Chunks \ Indexed(index) : pending' = c
  /\ \/ pc' = "append" /\ writer.open
     \/ pc' = "rotate" /\ writer.seg < MaxSegments /\ writer.count > 0
  /\ UNCHANGED <<fileVars, stageVars, index, writer, kept>>

\* Mutant: the new writer is numbered one too high.
RotateMutant ==
  /\ pc = "rotate"
  /\ active' = [active EXCEPT ![writer.seg] = Synced(@), ![writer.seg + 1] = Created]
  /\ writer' = [seg |-> writer.seg + 2, count |-> 0, open |-> TRUE]
  /\ pc' = "header"
  /\ UNCHANGED <<old, staged, marker, stageVars, index, pending, kept, spent>>

\* rotate: the full segment is synced and the next file is created ...
Rotate ==
  /\ pc = "rotate"
  /\ active' = [active EXCEPT ![writer.seg] = Synced(@), ![writer.seg + 1] = Created]
  /\ writer' = [seg |-> writer.seg + 1, count |-> 0, open |-> TRUE]
  /\ pc' = "header"
  /\ UNCHANGED <<old, staged, marker, stageVars, index, pending, kept, spent>>

\* ... and gets its header, written and fsynced by SegmentWriter::open.
WriteHeader ==
  /\ pc = "header"
  /\ active' = [active EXCEPT ![writer.seg].header = TRUE]
  /\ pc' = IF pending = NoChunk THEN "ready" ELSE "append"
  /\ UNCHANGED <<old, staged, marker, stageVars, index, writer, pending, kept,
                 spent>>

\* append_chunk: offset and index advance only after the write has succeeded.
AppendChunk ==
  /\ pc = "append"
  /\ active' = [active EXCEPT ![writer.seg] = AddRecord(@, pending)]
  /\ index' = [index EXCEPT ![pending] = [seg |-> writer.seg,
                                          pos |-> writer.count + 1]]
  /\ writer' = [writer EXCEPT !.count = @ + 1]
  /\ pending' = NoChunk
  /\ pc' = "ready"
  /\ UNCHANGED <<old, staged, marker, stageVars, kept, spent>>

\* The disk fills up in the middle of a record: the call returns an error and the
\* writer keeps its offset.  The rest of a large record is lost and the file keeps
\* the fragment; the rest of a small one stays in the BufWriter, and the next flush
\* completes the record.
AppendFails ==
  /\ pc = "append" /\ Fault("append")
  /\ \E r \in {Torn, pending} :
       active' = [active EXCEPT ![writer.seg] = AddRecord(@, r)]
  /\ pending' = NoChunk
  /\ pc' = "ready"
  /\ UNCHANGED <<old, staged, marker, stageVars, index, writer, kept>>

\* Callers log a put only after sync(): from here on its chunks must be kept.
Sync ==
  /\ pc = "ready"
  /\ active' = [active EXCEPT ![writer.seg] = Synced(@)]
  /\ kept' = kept \cup Indexed(index)
  /\ UNCHANGED <<old, staged, marker, stageVars, index, writer, pending, pc, spent>>

-----------------------------------------------------------------------------
(* compact_and_reclaim(reachable)                                          *)

\* The writer is synced; when there is something dead a staging directory is
\* created, with its first segment.  (When there is not, the call is a Sync.)
BeginCompact ==
  /\ pc = "ready" /\ spent.compactions < MaxCompactions
  /\ spent' = [spent EXCEPT !.compactions = @ + 1,
                            !.overBackups = IF Present(old) = {} THEN @ ELSE @ + 1]
  /\ active' = [active EXCEPT ![writer.seg] = Synced(@)]
  /\ \E reachable \in SUBSET Indexed(index) :
       /\ reachable # Indexed(index)
       /\ kept' = reachable
       /\ toStage' = reachable
  /\ staged' = [NoFiles EXCEPT ![1] = [Created EXCEPT !.header = TRUE]]
  /\ newIndex' = NoIndex
  /\ newWriter' = [seg |-> 1, count |-> 0, open |-> TRUE]
  /\ pc' = "stage"
  /\ UNCHANGED <<old, marker, toDrop, index, writer, pending>>

\* One live chunk, in the order of a hash map, is read and appended to the
\* current staged segment or to a new one.
StageChunk ==
  /\ pc = "stage"
  /\ \E c \in toStage, s \in SegIds :
       /\ ReadOk(c)
       /\ \/ s = newWriter.seg
          \/ s = newWriter.seg + 1 /\ newWriter.count > 0
       /\ LET n == IF s = newWriter.seg THEN newWriter.count ELSE 0
              f == IF s = newWriter.seg THEN staged[s]
                   ELSE [Created EXCEPT !.header = TRUE]
          IN  /\ staged' = [staged EXCEPT ![s] = AddRecord(f, RecordAt(index[c]))]
              /\ newIndex' = [newIndex EXCEPT ![c] = [seg |-> s, pos |-> n + 1]]
              /\ newWriter' = [seg |-> s, count |-> n + 1, open |-> TRUE]
       /\ toStage' = toStage \ {c}
  /\ UNCHANGED <<active, old, marker, toDrop, index, writer, pending, pc, kept,
                 spent>>

\* A chunk that cannot be read back ends the compaction before any rename; the
\* staging directory is left over but never looked at again.
StageFails ==
  /\ pc = "stage" /\ \E c \in toStage : ~ReadOk(c)
  /\ staged' = NoFiles /\ newIndex' = NoIndex /\ newWriter' = Closed
  /\ toStage' = {}
  /\ pc' = "ready"
  /\ UNCHANGED <<active, old, marker, toDrop, index, writer, pending, kept, spent>>

\* Mutant: the staged segments are not synced.
FinishStageMutant ==
  /\ pc = "stage" /\ toStage = {}
  /\ writer' = [writer EXCEPT !.open = FALSE]
  /\ toDrop' = {}
  /\ pc' = "renameOld"
  /\ UNCHANGED <<active, old, marker, staged, newIndex, newWriter, toStage, index,
                 pending, kept, spent>>

\* The staged segments are synced, the writer and the cached handles closed.
FinishStage ==
  /\ pc = "stage" /\ toStage = {}
  /\ staged' = [s \in SegIds |-> Synced(staged[s])]
  /\ writer' = [writer EXCEPT !.open = FALSE]
  /\ toDrop' = {}
  /\ pc' = "renameOld"
  /\ UNCHANGED <<active, old, marker, newIndex, newWriter, toStage, index, pending,
                 kept, spent>>

\* Phase 5a: every active segment is renamed to .seg.old, in directory order.
RenameToOld ==
  /\ pc = "renameOld"
  /\ \E s \in Present(active) :
       /\ old' = [old EXCEPT ![s] = active[s]]
       /\ active' = [active EXCEPT ![s] = NoFile]
       /\ toDrop' = toDrop \cup {s}
  /\ UNCHANGED <<staged, marker, newIndex, newWriter, toStage, index, writer,
                 pending, pc, kept, spent>>

\* With nothing retained the staging directory is dropped.
FinishRename ==
  /\ pc = "renameOld" /\ Present(active) = {}
  /\ IF Indexed(newIndex) = {}
     THEN staged' = NoFiles /\ pc' = "marker"
     ELSE UNCHANGED staged /\ pc' = "moveIn"
  /\ UNCHANGED <<active, old, marker, stageVars, index, writer, pending, kept, spent>>

\* Phase 5b: the staged segments are renamed in.
MoveIn ==
  /\ pc = "moveIn"
  /\ \E s \in Present(staged) :
       /\ active' = [active EXCEPT ![s] = staged[s]]
       /\ staged' = [staged EXCEPT ![s] = NoFile]
  /\ UNCHANGED <<old, marker, stageVars, index, writer, pending, pc, kept, spent>>

FinishMoveIn ==
  /\ pc = "moveIn" /\ Present(staged) = {}
  /\ pc' = "marker"
  /\ UNCHANGED <<fileVars, stageVars, index, writer, pending, kept, spent>>

\* A rename of the swap fails, or the marker cannot be created or written: the
\* error returns with the files half renamed, the old index in place and the writer
\* closed; nothing is undone before the next open.  (Bound: no segment above the
\* writer's has been moved in, into which a rotation would write.)
SwapFails ==
  /\ \/ pc = "renameOld" /\ Present(active) # {}
     \/ pc = "moveIn" /\ Present(staged) # {}
     \/ pc \in {"marker", "markerWrite"}
  /\ \A s \in Present(active) : s <= writer.seg
  /\ Fault("rename")
  /\ staged' = NoFiles /\ newIndex' = NoIndex /\ newWriter' = Closed
  /\ toDrop' = {}
  /\ pc' = "ready"
  /\ UNCHANGED <<active, old, marker, toStage, index, writer, pending, kept>>

\* The completion marker is created, then written and fsynced.
CreateMarker ==
  /\ pc = "marker"
  /\ marker' = "empty"
  /\ pc' = "markerWrite"
  /\ UNCHANGED <<active, old, staged, stageVars, index, writer, pending, kept, spent>>

WriteMarker ==
  /\ pc = "markerWrite"
  /\ marker' = "done"
  /\ pc' = "dropOld"
  /\ UNCHANGED <<active, old, staged, stageVars, index, writer, pending, kept, spent>>

\* Phase 5c: the backups are removed; `let _ =` ignores a failure.
DropOld ==
  /\ pc = "dropOld"
  /\ \E s \in toDrop :
       /\ toDrop' = toDrop \ {s}
       /\ \/ old' = [old EXCEPT ![s] = NoFile] /\ UNCHANGED spent
          \/ Fault("remove") /\ UNCHANGED old
  /\ UNCHANGED <<active, staged, marker, newIndex, newWriter, toStage, index,
                 writer, pending, pc, kept>>

DropMarker ==
  /\ pc = "dropOld" /\ toDrop = {}
  /\ \/ marker' = "none" /\ UNCHANGED spent
     \/ Fault("remove") /\ UNCHANGED marker
  /\ pc' = "attach"
  /\ UNCHANGED <<active, old, staged, stageVars, index, writer, pending, kept>>

\* Mutant: the files are swapped but the index is not.
AttachMutant ==
  /\ pc = "attach"
  /\ writer' = newWriter /\ pc' = "ready"
  /\ newIndex' = NoIndex /\ newWriter' = Closed
  /\ UNCHANGED <<fileVars, index, toStage, toDrop, pending, kept, spent>>

\* The new index replaces the old one and the writer is reopened: at the end of
\* the last staged segment, or on a fresh segment 1 when nothing was retained.
Attach ==
  /\ pc = "attach"
  /\ index' = newIndex
  /\ IF Indexed(newIndex) # {}
     THEN writer' = newWriter /\ pc' = "ready" /\ UNCHANGED active
     ELSE /\ active' = [active EXCEPT ![1] = Created]
          /\ writer' = [seg |-> 1, count |-> 0, open |-> TRUE]
          /\ pc' = "header"
  /\ newIndex' = NoIndex /\ newWriter' = Closed
  /\ UNCHANGED <<old, staged, marker, toStage, toDrop, pending, kept, spent>>

-----------------------------------------------------------------------------
(* A crash, and recover_and_index                                          *)

\* Records that no fsync covers may be gone, and the last write may be cut
\* short: the newest file ends after any of them, perhaps in a fragment.
Crash ==
  /\ pc # "closed" /\ spent.crashes < MaxCrashes /\ Spend("crashes")
  /\ IF Present(active) = {} THEN UNCHANGED active
     ELSE LET n == Newest(active)
              f == active[n]
          IN \E k \in f.durable..Len(f.recs) :
               \/ active' = [active EXCEPT ![n].recs = SubSeq(@, 1, k)]
               \/ /\ k < Len(f.recs) \/ (pc = "append" /\ writer.seg = n)
                  /\ active' = [active EXCEPT ![n].recs = Append(SubSeq(@, 1, k), Torn)]
  /\ index' = NoIndex /\ writer' = Closed
  /\ newIndex' = NoIndex /\ newWriter' = Closed /\ toStage' = {} /\ toDrop' = {}
  /\ pending' = NoChunk
  /\ pc' = "closed"
  /\ UNCHANGED <<old, staged, marker, kept>>

\* Leftover staging directories are removed.
Open ==
  /\ pc \in {"closed", "failed"}
  /\ staged' = NoFiles
  /\ pc' = "recover"
  /\ UNCHANGED <<active, old, marker, stageVars, index, writer, pending, kept, spent>>

\* The swap was complete: the remaining backups are removed.
RecoverDropOld ==
  /\ pc = "recover" /\ marker = "done"
  /\ \E s \in Present(old) : old' = [old EXCEPT ![s] = NoFile]
  /\ UNCHANGED <<active, staged, marker, stageVars, index, writer, pending, pc,
                 kept, spent>>

\* Mutant: every segment is removed, also those that have no backup.
RecoverRemoveActiveMutant ==
  /\ pc = "recover" /\ marker # "done" /\ Present(old) # {}
  /\ \E s \in Present(active) : active' = [active EXCEPT ![s] = NoFile]
  /\ UNCHANGED <<old, staged, marker, stageVars, index, writer, pending, pc, kept,
                 spent>>

\* The swap was interrupted: each backup takes the place of the segment of the
\* same number; first that segment is removed ...
RecoverRemoveActive ==
  /\ pc = "recover" /\ marker # "done"
  /\ \E s \in Present(old) \cap Present(active) :
       active' = [active EXCEPT ![s] = NoFile]
  /\ UNCHANGED <<old, staged, marker, stageVars, index, writer, pending, pc, kept,
                 spent>>

\* ... then the backup is renamed.
RecoverRestoreOld ==
  /\ pc = "recover" /\ marker # "done"
  /\ \E s \in Present(old) \ Present(active) :
       /\ active' = [active EXCEPT ![s] = old[s]]
       /\ old' = [old EXCEPT ![s] = NoFile]
  /\ UNCHANGED <<staged, marker, stageVars, index, writer, pending, pc, kept, spent>>

RecoverDropMarker ==
  /\ pc = "recover" /\ Present(old) = {}
  /\ marker' = "none"
  /\ pc' = "scan"
  /\ UNCHANGED <<active, old, staged, stageVars, index, writer, pending, kept, spent>>

TornAt(f) == {i \in DOMAIN f.recs : f.recs[i] = Torn}

\* Every file must have a header, and only the newest may have fragments.
ScanOk ==
  \A s \in Present(active) :
    active[s].header /\ (s # Newest(active) => TornAt(active[s]) = {})

\* What is left of a file that the scan takes to end at its first fragment
\* (set_len, sync_all), and what was behind the fragment.
WithoutTornTail(f) ==
  IF TornAt(f) = {} THEN f
  ELSE LET first == CHOOSE i \in TornAt(f) : \A j \in TornAt(f) : i <= j
       IN  Synced([f EXCEPT !.recs = SubSeq(@, 1, first - 1)])

BehindFragment(f) ==
  {f.recs[i] : i \in {j \in DOMAIN f.recs : \E h \in TornAt(f) : h < j}}

\* The last record of a chunk, in file and record order, is the one indexed.
IsLastLocation(files, c, l) ==
  /\ l.seg \in SegIds /\ l.pos \in DOMAIN files[l.seg].recs
  /\ files[l.seg].recs[l.pos] = c
  /\ \A s \in SegIds : \A i \in DOMAIN files[s].recs :
       files[s].recs[i] = c => s < l.seg \/ (s = l.seg /\ i <= l.pos)

ScannedIndex(files) ==
  [c \in Chunks |->
     IF \E s \in SegIds : \E i \in DOMAIN files[s].recs : files[s].recs[i] = c
     THEN CHOOSE l \in [seg : SegIds, pos : UNION {DOMAIN files[s].recs : s \in SegIds}] :
            IsLastLocation(files, c, l)
     ELSE NoLoc]

\* Every segment is read.  A record of the newest that passes the end of the file
\* is taken for its end and cut off, with all that is behind it: a fragment that a
\* crash left at the end, but also one that a failed append left before others.
Scan ==
  /\ pc = "scan" /\ Present(active) # {} /\ ScanOk
  /\ LET n == Newest(active) IN
     /\ active' = [active EXCEPT ![n] = WithoutTornTail(@)]
     /\ writer' = [seg |-> n, count |-> Len(active'[n].recs), open |-> TRUE]
     /\ kept' = kept \ BehindFragment(active[n])
  /\ index' = ScannedIndex(active')
  /\ pc' = "ready"
  /\ UNCHANGED <<old, staged, marker, stageVars, pending, spent>>

\* A new store: segment 1 is created.
ScanNothing ==
  /\ pc = "scan" /\ Present(active) = {}
  /\ active' = [active EXCEPT ![1] = Created]
  /\ writer' = [seg |-> 1, count |-> 0, open |-> TRUE]
  /\ pc' = "header"
  /\ UNCHANGED <<old, staged, marker, stageVars, index, pending, kept, spent>>

\* CorruptedSegment: the store does not open.  With a fragment before other records
\* the scan may also read on into those: the header or the checksum is then wrong.
ScanFails ==
  /\ pc = "scan" /\ Present(active) # {}
  /\ ~ScanOk \/ BehindFragment(active[Newest(active)]) # {}
  /\ pc' = "failed"
  /\ UNCHANGED <<fileVars, stageVars, index, writer, pending, kept, spent>>

-----------------------------------------------------------------------------
WriteStep   == PutChunk \/ Rotate \/ WriteHeader \/ AppendChunk \/ AppendFails \/ Sync
CompactStep == \/ StageChunk \/ StageFails \/ FinishStage \/ RenameToOld
               \/ FinishRename \/ MoveIn \/ FinishMoveIn \/ SwapFails \/ CreateMarker
               \/ WriteMarker \/ DropOld \/ DropMarker \/ Attach
RecoverStep == \/ Open \/ RecoverDropOld \/ RecoverRemoveActive \/ RecoverRestoreOld
               \/ RecoverDropMarker \/ Scan \/ ScanNothing \/ ScanFails

Next == WriteStep \/ BeginCompact \/ CompactStep \/ Crash \/ RecoverStep

Spec == Init /\ [][Next]_vars

-----------------------------------------------------------------------------
Pcs == {"closed", "recover", "scan", "failed", "header", "ready", "append", "rotate",
        "stage", "renameOld", "moveIn", "marker", "markerWrite", "dropOld", "attach"}

\* Every variable has the type the code gives it.
TypeOK ==
  /\ active \in [SegIds -> File]
  /\ old \in [SegIds -> File]
  /\ staged \in [SegIds -> File]
  /\ marker \in {"none", "empty", "done"}
  /\ index \in [Chunks -> Location]
  /\ newIndex \in [Chunks -> Location]
  /\ writer \in [seg : 0..MaxSegments, count : Nat, open : BOOLEAN]
  /\ newWriter \in [seg : 0..MaxSegments, count : Nat, open : BOOLEAN]
  /\ toStage \subseteq Chunks
  /\ toDrop \subseteq SegIds
  /\ pending \in Chunks \cup {NoChunk}
  /\ pc \in Pcs
  /\ kept \subseteq Chunks
  /\ spent \in [appends : Nat, compactions : Nat, crashes : Nat, append : Nat,
                remove : Nat, rename : Nat, overBackups : Nat]

\* The files recovery would build the store from if the process died now.
Recoverable ==
  IF Present(old) # {} /\ marker # "done"
  THEN [s \in SegIds |-> IF old[s].present THEN old[s] ELSE active[s]]
  ELSE active

\* The chunks of a file that a scan is sure to find: durable and before any
\* fragment.
ScannableChunks(f) ==
  {f.recs[i] : i \in {j \in DOMAIN f.recs :
                        j <= f.durable /\ \A h \in 1..j : f.recs[h] # Torn}}

DurableChunks(f) == {f.recs[i] : i \in {j \in DOMAIN f.recs : j <= f.durable}}

(* A chunk that was synced and that no collection gave up survives a crash *)
(* at any step of append, rotation, compaction or of recovery itself: the  *)
(* files that recovery would keep hold it, fsynced and ahead of any        *)
(* fragment (compact_and_reclaim, recover_and_index).                      *)
KeptChunksRecoverable ==
  kept \subseteq UNION {ScannableChunks(Recoverable[s]) : s \in SegIds}

(* The same in executions whose crashes are not joined by I/O errors.      *)
CrashesLoseNothing == Faults = 0 => KeptChunksRecoverable

(* While the store is open every indexed chunk is at its location, after   *)
(* appends, after a swap of all the files under the index, also one whose  *)
(* leftovers could not be removed, and when a scan has rebuilt the index;  *)
(* only a failed swap leaves it pointing into files that moved             *)
(* (SegmentIndex::replace_with, append_chunk, recover_and_index).          *)
IndexLocatesChunks ==
  pc \in {"ready", "append", "rotate"} /\ spent.append + spent.rename = 0 =>
    \A c \in Chunks : index[c] # NoLoc => ReadOk(c)

(* Failed appends and swaps that fail with the files half renamed destroy  *)
(* no bytes of a synced chunk until an open cuts the newest segment at a   *)
(* fragment: a compaction stops at the first chunk it cannot read back,    *)
(* the next open finds the backups, and a cut takes only what is behind    *)
(* the fragment, which then no longer counts as kept.  A compaction that   *)
(* succeeds over the backups of a failed one, and failed removals, are     *)
(* excluded (compact_and_reclaim, read_chunk, recover_and_index).          *)
KeptBytesPresent ==
  spent.remove = 0 /\ spent.overBackups = 0 =>
    kept \subseteq UNION {DurableChunks(Recoverable[s]) : s \in SegIds}

(* A crash never leaves the store in a state that the next open refuses    *)
(* (SegmentWriter::open, recover_and_index).                               *)
OpenNeverRefuses == pc # "failed"

=============================================================================
