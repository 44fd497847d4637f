# oos-lite: a TLA+ model of the store and of what runs on it

oos-lite is a local, versioned, deduplicating object store. A file is cut into
chunks, chunks are appended to segment files, a manifest lists the chunks of a
content, an object record lists the versions of a file, and names point to
objects. A write-ahead log (WAL) makes a put survive a crash; mark-and-sweep
garbage collection reclaims what no version and no snapshot refers to. A
watcher keeps a directory stored, and a desktop process shows the store as a
drive and shares files from it.

This directory holds a formal model of the system, checked with TLC on small
instances. Every safety property of its passing runs is also proved with TLAPS
for every instance: the invariants of the engine, of the segment files, of
opening a store, of the watcher and of the desktop process; that the engine
implements the abstract store its clients see, and the segment files the set of
chunks that the engine uses.

| file | what it is |
|---|---|
| `Engine.tla` | `StorageEngine`, the WAL, the metadata tables, garbage collection, crashes and recovery |
| `EngineProofs.tla` | the inductive invariant of `Engine`, with machine-checked proofs |
| `VersionedStore.tla` | the abstract specification: what a client of the engine sees |
| `EngineRefinement.tla` | `Engine` implements `VersionedStore`, crashes included |
| `SegmentStore.tla` | the segment files: append, rotation, compaction by renames, recovery by scanning |
| `ChunkStore.tla` | the abstract segment store: a set of chunks, some of them durable |
| `SegmentRefinement.tla` | `SegmentStore` implements `ChunkStore`, crashes included |
| `SegmentStoreProofs.tla` | proofs: the index, the kept bytes, crashes without I/O errors, and the refinement |
| `EngineHistoryProofs.tla` | proofs: acknowledged versions, names, histories, recovery, the refinement, and that `Engine` uses `ChunkStore` |
| `StoreOpen.tla` | opening a store: process lock, vault key, migration of the metadata from sled to redb |
| `StoreOpenProofs.tla` | proofs: no row is lost by opening or migrating, one key per store |
| `Watcher.tla` | the directory watcher: events, rename halves, worker, scans, retries |
| `WatcherProofs.tla` | proofs: types, a removal takes only what is gone, histories follow renames |
| `Mount.tla` | the mounted tree, its refresh, ranged reads and the chunk cache |
| `Shares.tla` | shares, `shares.json` and the public download server |
| `Desktop.tla` | the desktop process: `Mount`, `Shares` and the watcher controller over one `VersionedStore` |
| `MountProofs.tla`, `DesktopProofs.tla` | proofs: reads, the cache, shares, archives and the one watcher |
| `SequenceFacts.tla` | induction over naturals and sequences, for the other proofs |
| `MC*.tla`, `*.cfg` | instances for TLC |
| `PROJECT.json` | components, runs, mutants, source map, findings, hazards, theorems |

How they are put together: `EngineRefinement` instantiates `VersionedStore` with
what `Engine` shows, and `ChunkStore` with what it uses, which
`SegmentRefinement` shows `SegmentStore` to provide; `Mount` and `Shares` extend `VersionedStore` and so stand
on the promise that `Engine` is shown to keep; `Desktop` composes the two.
`StoreOpen` and `SegmentStore` are what happens below and before `Engine`;
`Watcher` has its own small view of the metadata (a name, an object, the
object's content) because it needs the object's identity.

Check a run with `tlc -workers 2 -config engine_crash.cfg MCEngine` (the module
of each run is in section 3), the proofs of a module with `tlapm M.tla`
(`SegmentStoreProofs`, `EngineHistoryProofs` and `WatcherProofs` take some
minutes each).

## 1. The system

### Components, their state and their operations

**StorageEngine** (`core/src/engine.rs`) owns three locks: the mutex `put_lock`
(one writer), the read-write lock `op_lock` (puts and reads share it, deletes,
snapshots and collections take it alone) and the mutex `gc_lock`. Operations:
`put_file`, `get_file*`, `rename_file`, `prune_file_versions`, `prune_all`,
`rollback_file`, `create_snapshot`, `restore_snapshot`, `delete_snapshot`,
`unbind_file`, `delete_file`, `delete_prefix`, `gc`, `open`,
`update_watched_prefix`.
*Correct when* no acknowledged version is lost or replaced, version numbers of
an object increase, names lead to records, and nothing that is referred to is
missing.

**Write-ahead log** (`core/src/wal`) keeps `wal.log`, `checkpoint.meta` and two
LSNs in memory. Operations: append and fsync a record, checkpoint an LSN (write
the meta, empty the log when nothing newer is in it), open (read the meta, cut
a torn tail off), read the records above the checkpoint.
*Correct when* exactly the puts that were logged and not finished are replayed.

**Metadata store** (`core/src/index`) keeps the redb tables `NAME_INDEX`,
`OBJECT_INDEX`, `MANIFESTS`, `SNAPSHOTS`, `WATCHER_FILES` and the watcher's
configuration; each operation is one transaction, durable at commit.
**Migration** (`index/migration.rs`) moves an old sled database over with a
protocol of marker files.
*Correct when* a row that any version of the program reported as written is in
the database that is opened, however often the move was interrupted.

**Garbage collector** (`core/src/gc`) has no state: `mark` walks all versions
and snapshots, `sweep` removes the other manifests one transaction at a time
and compacts the segments.
*Correct when* it removes nothing that a put, a reader or a snapshot needs.

**Segment store** (`core/src/segment`) keeps the `.seg` files, the in-memory
index from chunk to location and the writer's offset, under one writer mutex.
Operations: `put_chunk`, `get_chunk`, `sync`, `compact_and_reclaim`,
`recover_and_index`.
*Correct when* a chunk that was synced and not reclaimed can be read after any
crash, and the index always points at the right record.

**Encryption** (`core/src/crypto`) keeps `vault.key`, the master key wrapped by
a passphrase. *Correct when* everything in a store is written with one key.

**Directory watcher** (`core/src/watcher`) keeps queues of changed paths and of
renames, unpaired rename halves, errors and retry times. One thread receives
file-system events, one works them off and scans the directory at intervals.
Operations: start, stop, manual scan, ingest, apply a rename, scan.
*Correct when* the store comes to agree with the directory, histories follow
renames, and a file that has been there ever since it was last read keeps its
name.

**Virtual file system and mounts** (`core/src/vfs`, `cli/src/mount`) keep a
point-in-time tree of the store and a byte-bounded chunk cache; WebDAV refreshes
the tree at listings, FUSE never does.
*Correct when* a read returns the bytes of the content it resolved to, and a
read that has begun completes.

**Share manager** (`cli/src/share.rs`) keeps the shares in memory and in
`shares.json`, and serves downloads of files and of folders packed as archives.
*Correct when* an acknowledged share outlives a restart and an archive holds
what the files held.

**Desktop server** (`cli/src/ui/server.rs`) routes HTTP requests to single
engine calls and owns the watcher controller.
*Correct when* there is never a second watcher and every request is answered.

**Chunking** (`core/src/chunk`): content-defined boundaries, in memory and as a
stream. **fsck** (`core/src/fsck`): a consistency check that takes no lock.
**Command line** (`cli/src/main.rs`): commands over single engine calls.

### How they interact

A client thread calls the engine. A put takes `put_lock`, then `op_lock` for
reading; it appends chunks to the segment store, syncs it, resolves the name,
appends a record to the WAL and fsyncs it, commits three transactions
(manifest, object record, name) and checkpoints the WAL. A collection takes
`gc_lock`, then `op_lock` for writing, reads the metadata, deletes manifests and
compacts the segments. `open` takes the lock of the store directory, unlocks
the vault, opens the segments, opens or migrates the metadata, and applies each
WAL record above the checkpoint with the same three transactions. The watcher
puts files and moves bindings; the mount reads chunks under `op_lock`; the
share server reads whole files; the desktop process runs all of these threads
over one engine, while a FUSE mount is a process that has the store to itself.

### What is hard here

The order of five kinds of durable writes in a put, with a crash between any
two; a crash in recovery; a collection, a delete and a reader of the same
content; a put that returns an error after its record is durable; a swap of all
segment files by single renames, any of which may fail; a checkpoint file that
is rewritten in place; a migration cut at any file operation, next to an older
program; renames that are reported in halves, twice, late, or not at all, while
files change under the thread that reads them; a tree that is older than the store it
shows; a list of shares that is written after the lock on it was released; two
callers that replace one watcher. `PROJECT.json` lists each hazard at its line.

## 2. The modules and the code

### Engine

The variables come in groups: what is on disk (`stored`, `synced`, the four
tables), the WAL files (`walLog`, `meta`, each with the part that an fsync
covers), the memory of the process (locks, LSNs, `pc` and `job` of each
thread), and history (`acked`, `deleted`, `spent`).

* A **content** stands for the bytes of a file and for its manifest, since a
  manifest id is a hash of the content; `ChunksOf` gives its chunks. Contents
  may share chunks. The engine's view of the segment store is the set of chunks
  it holds and the subset that is durable; `SegmentStore` has the files.
* **Every lock acquisition, transaction, write, truncate and fsync is a step.**
  A put is `BeginPut`, `PutAcquireOp`, `ReadStable` or `ReadUnstable` (three
  attempts, as the code has), `SyncAndResolve`, `AppendWal`, `SyncWal`,
  `SaveManifest`, `PutObject`, `BindName`, the five steps of `Wal::checkpoint`,
  and `FinishPut`. Recovery is `OpenWal`, `ReplayRecord` and the same three
  transactions per record, `FinishReplay`, the checkpoint, `FinishOpen`; the
  thread `Opener` runs it.
* Operations whose effect is a single transaction under locks that exclude
  every other writer are one step (`RenameFile`, `PruneFileVersions`,
  `CreateSnapshot`, ...). `RollbackFile` is a transaction followed by an
  extraction with the locks held, so it ends in the state of a reader.
* **Errors**: `PutFails`, `AppendWalFails` and `GcFails` are the `?` returns;
  `ReadUnstable` is a source that keeps changing.
* **Crashes**: `Kill` keeps what was written (the page cache survives a
  process), `PowerLoss` keeps what was fsynced and any part of the rest, with
  an empty `checkpoint.meta` when it was being rewritten. Both are possible at
  any step, of recovery too.
* An object id is numbered as it is generated; `0` in `names` means unbound. An
  object record exists while `latest > 0`, also when a prune has emptied its
  history.

### VersionedStore and EngineRefinement

`VersionedStore` is what a client may rely on: `files`, a history per name;
`snaps`, labelled sets of entries; `readable`, the contents that can be
reconstructed. Adding a version, renaming, removing, pruning, taking and
dropping a snapshot, storing and reclaiming contents are one step each; a
version is added only of a readable content, and only contents that nothing
refers to are reclaimed. `EngineRefinement` maps `Engine` to it: `files` is the
record a name leads to, `snaps` the snapshots without object ids, `readable` the
manifests whose chunks are all synced. A put that takes a dozen steps becomes
visible in one of them (`PutObject` for a bound name, `BindName` for a new one),
and a collection is a sequence of `Reclaim` steps.

`ImplementsVersionedStore` is the refinement without crashes, with I/O errors.
`CrashesAreInvisible` is its step part with crashes: a crash changes nothing a
client can see, and replay is a stutter or completes the interrupted put. It
excludes the combination of finding 2 (an error and a crash), as
`ReplayIsExact` does for the invariants. Both are checked and proved of `KeptSpec`,
which leaves out the crashes of finding 1.

### SegmentStore

A segment file is a header flag, a sequence of records and how many of them an
fsync covers. A record is a chunk or `Torn`. Sizes are left out, so a record may
or may not fit the current segment. `active`, `old` and `staged` are the three
places a segment of a given number can be in; `marker` is `.compact_done`.
Every rename, removal, creation and write of `compact_and_reclaim` and
`recover_and_index` is a step, in the order of the code and, where the code
follows the directory, in any order. `Crash` cuts unsynced records off the
newest file, perhaps in the middle of one.

A failed append leaves a fragment in the file, and the writer keeps its offset
and appends behind it. What a later `recover_and_index` makes of it depends on
the length that the fragment's header declares: when it passes the end of the
file, and the file is the newest, `set_len` (`segment/store.rs:174`) cuts the
file off before the fragment, with all records behind it; when it does not, the
scan reads on into those records and the checksum or the next header is wrong.
So for a fragment with records behind it both `Scan` (which cuts:
`WithoutTornTail`) and `ScanFails` (`CorruptedSegment`) are possible, and in an
older segment only `ScanFails`. `kept` is the history variable of the chunks that
must not be lost: `Sync` adds to it, a collection restricts it to what it was
asked to keep, and a scan that cuts takes what was behind the fragment out
(`BehindFragment`).

Other I/O errors: a removal whose failure the code ignores, and a swap that
fails, at a rename or at the creation or writing of the marker (`SwapFails`):
`compact_and_reclaim` then returns with the segments half renamed, the old index
and a closed writer. A closed writer refuses appends, but a record that does not
fit its segment makes it rotate to a new file and go on; the model has both. A
swap fails only while no segment above the writer's number has been moved in:
otherwise that rotation would write into an existing segment. A failed fsync of
a marker that was written completely is left out.

### ChunkStore and SegmentRefinement

What the engine has of the segment store is two sets: the chunks it can read
(`stored`) and those of them that are durable (`synced`). `ChunkStore` has four
operations on them: store chunks, make all durable, keep exactly what a
collection asked to keep, and lose some that are not durable. `SegmentRefinement`
maps the files to it: while the store is open, the readable chunks are those of
the index (of the new one as soon as the marker `.compact_done` has been
written); while it is closed, those in the files that the next open would use;
durable are the records in those files that an fsync covers. So a compaction is
seen in one step, the writing of its marker, an append when its record is
indexed, and the whole recovery not at all: a scan must index exactly what the
files hold, which is more than what `CrashesLoseNothing` asks (nothing that was
removed may come back). It holds as long as no I/O error joined
(`Faults' > 0` ends it): a failed append leaves a fragment, a failed removal or
rename leaves backups (finding 4).

`EngineRefinement` has the other side: `UsesChunkStore` says that every step of
`Engine`, with its crashes and failed calls, is one of these four operations on
its `stored` and `synced`, or none; what it wants kept are the chunks of `gcLive`.
After a power loss `Engine` takes what is left as durable, since it is on the
disk; `SegmentStore` counts as durable only what an fsync covered, and lets the
next crash cut it, which `LoseUnsynced` allows as well. The finding runs of
`SegmentStore` show where that contract ends.

### StoreOpen

The state is what a store directory holds (layout, `meta/conf`, the sled and the
redb databases, the two markers, the backup of `conf`, `vault.key`, the keys the
segments are written with) and, per process, where its `open` is. A database is
absent, created and empty, damaged, or valid with a set of rows. `Init` ranges
over the directories a user may have: a new one, a sled store (perhaps with a
staging file that no marker explains), a nested redb store without markers, the
earlier single-file layout, and an archive whose database is gone.

Each file operation of `migration::open`, `block_sled`, the vault functions and
the creation of the first segment (`CreateSegment`, `WriteHeader`) is a step, and
a process may stop after any of them; the scan of segments that are there is
`SegmentStore`'s. Stopping is a kill, so what was written stays: the code writes
its markers with an fsync of file and directory before the step that relies on
them. A stop between the first segment file and its header leaves the file
`bare`, and every later open refuses it (`RefuseSegments`, finding 3): `Reopens`
names this case, and the ones that need a person, as its exceptions. A rotation
of the open store that is cut at the same place is in `SegmentStore` only.

An older program (`OldWrite`) writes to sled while `conf` is its own, or absent
where it makes a new store, and nobody holds the lock. It does so, too, beside a
redb database without markers (the first nested version wrote none), where
nothing has blocked it yet. `migration::open` adopts such a database without a
look at sled (`migration.rs:181-188`), so those rows are not taken over. They are
kept in `stray`, and `NothingLost` speaks of all others.

`DamageDb`, `LoseConf` and `RestoreDb` are accidents and a person's repair. The
content of the WAL is folded into `segments` (a store with
either is not empty). The migrating marker is never removed by the code, so it
means "a migration began here"; `src/README.md:273` describes it as present
while one is in progress. Nothing in the code depends on the difference.

### Watcher

A path is a sequence of components; a directory exists while a file is below
it. The state is the directory (`disk`), the channel of events, the queues of
the service (`updates`, `renames`, `froms`), the status it shows, the rows it
keeps in the store (`names`, `objects`, `tracked`), and the position of the
worker. History variables say which files were missing since they were last
read (`gone`) and which object each file had when all was settled (`home`).

* `MoveEvents` is what `receive_event` gets for a rename from notify 6.1.1, by
  platform (`Styles`): two halves with a tracker and then the whole rename with
  the same tracker (Linux, "tracked"), two halves without a tracker (Windows,
  "untracked"), only that both names have changed (macOS, "any"), or one whole
  event, as the tests send it ("both"). A write to a file that is there may be
  reported between the two halves (`LastTo`, the order of the test at
  `watcher/tests.rs:337`). Events may be lost, which the code learns of.
* On Linux a rename is thus queued twice. The second application moves nothing,
  because the first one has left no name at the old path, with one exception:
  when a new file has been created there and a scan has stored it between the
  two, its new object is moved over the history of the renamed file
  (`MovesAgain`, `PutFile`). Without that exception TLC finds
  `HistoryFollowsRename` violated in a trace of 35 states; the store and the
  directory agree again later, so `EventuallyInSync` is not affected.
* After an "any" rename the file at the new path is a new object by design:
  `home` forgets it.
* The event thread is `Receive...` and `ExpireRename`; a manual scan expires
  halves, too. The worker is `RenamesDone` ... `RenameApply` (apply_rename and
  `update_watched_prefix` in one transaction), `StartScan`, `Visit...`, `Sweep`, `PickUpdate`, the steps of
  an ingest, and `FinishWork`. What the code reads without a lock and uses
  later is two steps: the look at a path before a removal, the walk before the
  sweep, the read of a file before its row is written.
* Times are left out: any wait may be over at any time, and fairness says that
  it ends. The generation counter, which the code compares with an earlier
  value, is the flag `moved`. The phase shown is derived from the errors.
  `MaxFaults` also bounds the cool-downs after failures, and the halves that
  expire although the other one is in the channel already.
* A row of `WATCHER_FILES` stays when another client unbinds the name of a file
  that is gone; `InSync` counts only rows whose name is bound.
* A removal that the watcher concludes itself, by a sweep or from a rename half
  that stayed alone (`Conclude`), may be concluded too late: while other events
  are still in the channel, or when something is at the path again. The name may
  then be taken from a file that was moved there, or in and out, meanwhile, and
  the file goes on as a new object: `home` forgets in these cases.
  (With three changes of the directory TLC shows such a removal from a lone
  half.) This is a limit of the design that `HistoryFollowsRename` makes explicit.
* Only the existence of a path is looked at before its removal, so a file that is
  replaced by a directory of the same name keeps its binding and its row.
* Two bounds keep a rename among the paths of an instance: a directory is moved
  only where the files in it have room (`HasRoom`), and a rename is applied only
  if the names and updates it moves have a place (`Fits`). The instance has a
  place for each of them, so neither holds anything up there.
* `.oosignore` is a constant set of paths; the instance ignores none.

### Mount, Shares and Desktop

`Mount`: a worker of the WebDAV server receives a request (`Receive`), and
either lists (`Propfind`, after a refresh when the tree is old) or reads a range
(`GetFile`, `BeginRead`, then one step per chunk: `SkipChunk`, `CachedChunk`, or
`FetchChunk` and `InsertChunk`). The chunk lookup and the insertion are two
steps because the cache is not locked between them. A refresh takes
the mutex `last_refresh`, reads names and snapshots in separate
transactions and then waits for the lock of the tree, which each worker holds
for reading until its response is sent: a slow client delays the refresh, and
with it every later request, since the `RwLock` prefers the waiting writer. A chunk that cannot be read (`FetchFails`)
ends the call with the locks released. FUSE
is a mode of its own: another process, one request at a time, no refresh. Bytes
are pairs of chunk and offset, so that a slice of the wrong place or of the
wrong chunk shows. Some behaviour of the code that the model shows and no
property forbids: an error while the tree is built gives an empty drive
(`unwrap_or_default`); a file `a` hides the files below `a/` in `current/`, though
`src/README.md:169` shows every file there. A range
without bytes (any range of an empty file, `bytes=-0`) reads nothing; the
unsigned `start + length - 1` of the header that answers it (`webdav.rs:372` and
`webdav.rs:395`) underflows, which the model leaves out with the other headers.

`Shares`: `AddShare` and `RevokeShare` change the map under the write lock of it;
`save` then takes the read lock and keeps it while the list is serialised and
`shares.json` emptied and written (`BeginSave`, `Truncate`, `WriteShares`). Between
the two locks another caller may change and save the map, and two callers may
save at once. A crash between the truncation and the write loses the file, and with it all
shares, and a failed write goes unnoticed: after a restart in such a state,
`kept` starts again from what was loaded, so that `AckedSharesLast` says nothing
of the shares lost that way. A download of a folder lists the names first and packs one file per step;
one that is gone by then is left out, and so is one that was renamed within the
folder. Expiry is left out; at the moment `expires_at == now` the list hides a
share that the public server still serves (`share.rs:67` and `share.rs:281`).

`Desktop` composes both over one `VersionedStore` whose steps are those of every
other client, with the watcher controller: a request that starts or stops the
watcher locks the controller, stops the old one and waits for its threads,
starts the new one and saves the directory. The flag `is_running` is left out,
since every status request computes it again. `Restart` ends the process at any
step and starts it again: the controller shows the saved directory, and no
watcher runs until a request starts one (`server.rs:412-430`).

## 3. Runs

| run (module) | instance | what it shows |
|---|---|---|
| `engine_concurrent` (`MCEngine`) | 2 threads, 2 names, 2 contents sharing a chunk, 2 puts, 2 other edits, 1 I/O error; 994 361 states | `TypeOK`, `NoDanglingReferences`, `ReadersFindChunks`, `NamesResolve`, `VersionsIncreasing`, `AckedVersionsSurvive`, and the refinement `ImplementsVersionedStore`, under all interleavings |
| `engine_crash` (`MCEngine`) | 1 thread, 2 puts, 2 edits, 2 kills or power losses at any step, which forget no checkpoint (`KeptSpec`), 1 I/O error, at most 3 of these edits, crashes and errors in one behaviour (`EventsBounded`); 990 518 states | `AckedVersionsSurvive`, `ReplayIsExact`, `CrashesAreInvisible`, and `IndInv`, the invariant the proofs use |
| `engine_live` (`MCEngine`) | 2 threads until the first crash, one after it (`OneCallerAfterCrash`), 2 puts, 2 other edits, 2 kills or power losses, fairness; 185 240 states | `PutsReturn`, `CollectionsReturn`, `StoreComesBack` |
| `segment_crash` (`MCSegmentStore`) | 3 chunks, 3 segments, 4 appends, 2 compactions, 2 crashes, 1 I/O error of any kind; 566 872 states | `TypeOK`, `CrashesLoseNothing`, `IndexLocatesChunks`, `KeptBytesPresent`, and the refinement `ImplementsChunkStore` |
| `watcher` (`MCWatcher`) | 2 directories with room for a file each, any 2 of: changes of the directory, 1 change by another client, 1 error or loss of events, 1 stop or kill; renames as on Linux, fairness; 468 560 states | `TypeOK`, `RemovesOnlyWhatIsGone`, `HistoryFollowsRename`, `EventuallyInSync` |
| `store_open` (`MCStoreOpen`) | 2 processes, 2 rows, 2 passphrases, none and one that is too short, every layout, 2 stops, 2 writes, 1 accident, fairness; 233 774 states | `TypeOK`, `NothingLost`, `OneKey`, `Reopens` |
| `desktop` (`MCDesktop`) | 2 workers, 2 callers, 2 names, 3 contents, a cache smaller than the chunks, fairness; 205 330 states | `TypeOK`, `ReadsAreExact`, `CacheIsConsistent`, `ReadsComplete`, `AckedSharesLast`, `ArchiveIsTrue`, `OneWatcher`, `RequestsAnswered` |
| `engine_torn_checkpoint` (`MCEngine`) | 2 kills | violated `DeletedStaysDeleted` (finding 1) |
| `engine_failed_put` (`MCEngine`) | 1 I/O error, 1 kill | violated `OpenSucceeds` (finding 2) |
| `segment_torn_header` (`MCSegmentStore`) | 2 crashes | violated `OpenNeverRefuses` (finding 3) |
| `segment_stale_backup` (`MCSegmentStore`) | 1 failed removal, 1 crash | violated `KeptChunksRecoverable` (finding 4) |
| `watcher_lost_update` (`MCWatcher`) | 2 changes, renames reported whole or as changes | violated `SavedWhenSettled` (finding 5) |

**Bounds.** In `Engine`, `MaxObjects` = puts and `MaxVersion` = puts + edits, so
that neither ever blocks a step; two names are needed for a rename onto a bound
name, two contents with a common chunk for deduplication against collection,
two edits for delete-then-collect and prune-then-put, two puts for a second
version and for a put after recovery. Two threads are enough for each pair of
operations to interleave; the theorems remove that bound for the properties
they cover. In `SegmentStore` two compactions reuse segment numbers under a
backup of the first, and two crashes interrupt a recovery. In `engine_live` two
puts, two edits and two crashes leave a log of two records that is not
checkpointed (by a torn `checkpoint.meta`), also one whose chunks are gone;
`OneCallerAfterCrash` only leaves calls out, which nothing has to make, so it
takes no fair behaviour of the one remaining thread away. In `Watcher` two
directories make room for a rename of a directory, of a file between
directories and onto a file; `MaxDisturbances` bounds what happens from outside
to any two (a rename and a write, a removal and a kill, a change and a lost
event), while the two threads take any number of steps. The
renames of `watcher` are those of Linux ("tracked"), the style with the most
events; with `Styles` set to {"untracked"}, {"any"} or {"both"} the same cfg
passes too (298 430, 284 596 and 220 733 states), and the theorems are about all
four. In `StoreOpen` two stops
cut a migration and its resumption. In `Desktop`, `Budgets` is a set of
scenarios, one of which bounds a behaviour: reads against two changes of the
store (prune and reclaim), two requests with a change and an error, three
requests (two readers and a refresher), share calls with an error and a
restart, a download against two changes, controller calls with an error and a
restart, and one request of each kind. Each scenario gives one group of threads
room to meet the store; the groups share nothing but the store and the process.
`engine_concurrent` is reduced by the symmetry of the threads and
`segment_crash` by that of the chunks; neither run checks liveness. `desktop`
does not check deadlock: once a scenario is used up and all is answered, the
servers are idle.

**Errors and crashes together.** A put that fails after its record is durable
stays in the log; if the process is then killed, the record is replayed although
the put reported an error. With deletes, renames, prunes or a collection in
between, `NamesResolve`, `VersionsIncreasing`, `DeletedStaysDeleted` and
`OpenSucceeds` do not hold: that is finding 2. `engine_crash` therefore has both,
and `ReplayIsExact` and `CrashesAreInvisible` say what holds in the behaviours
with a crash and no such error; `engine_concurrent` has errors and no crash.
`AckedVersionsSurvive` and the invariants in `IndInv` hold with any number of
crashes and errors: this is proved, and so are the restricted ones (section 5).

**Crashes that forget a checkpoint.** Two crashes reach finding 1. The second one
leaves a record in the log that the next open replays although its put had
returned long before: `checkpoint.meta` is empty, or goes back to what an earlier
fsync wrote, and the emptied log is not there either. `ForgetsCheckpoint` in
`EngineRefinement` says this of a crash: it leaves a record above the checkpoint
that neither a put nor the replay was working on, and that was not waiting to be
replayed. `KeptSpec` is `Spec` without such crashes as long as no call has failed
(after a failed call any crash may happen, which is finding 2); `engine_crash`
checks two of the others, in a put, in the recovery from the first, or after
later calls. The first crash never forgets a checkpoint
(`FirstCrashForgetsNothing`), so the restriction to `KeptSpec` leaves nothing of
what one crash can do out. `engine_torn_checkpoint` shows a crash that does
forget one. The bound `MaxEvents` keeps the run small: two edits with one crash,
one edit with two crashes, or one error with any two of them; the proofs have no
such bound.

**Fairness.** In each run no call has to be made, and no crash, error or change
has to happen.

* `engine_live`: a thread inside a call keeps running and the next `open` is
  eventually made (weak fairness). `PutsReturn` counts a put from the moment it
  has `put_lock`: a mutex that promises no order lets nothing be said of a thread
  that waits for it. `StoreComesBack` has one exception, a record to be replayed
  whose chunks are gone (`~OpenSucceeds`, findings 1 and 2): then every open fails. Acquiring `op_lock` has strong fairness:
  Rust's futex `RwLock` admits no new reader while a writer waits, so readers
  that come and go cannot keep a collection out for ever.
* `watcher`: the two threads run and a rename half that is too old expires (weak
  fairness); the reconcile interval elapses again and again, and an update that
  stays in the queue becomes due (strong fairness, since the worker's loop
  leaves and re-enters the place where it looks). The property assumes that the
  watcher is not stopped for ever.
* `store_open`: an open that has begun goes on; somebody keeps trying with the
  store's own passphrase; a database that was damaged is restored. Without the
  last two nothing can be promised of any store.
* `desktop`: while some thread can run, some thread runs; clients read the
  responses they asked for. This is weaker than fairness of each thread, and
  enough because the number of requests is bounded.

**Mutants.** Each property of a passing run is paired with a plausible bug (a
forgotten sync, a shared instead of an exclusive lock, a replay that writes a
version twice, a version numbered by counting, rename halves paired without
their tracker, a sweep that ignores renames, a marker that is not looked at, a
lock released before the file is written, ...) that makes TLC report it
violated. They are the `...Mutant` operators, used nowhere in the specifications.

## 4. Findings

1. `Wal::checkpoint` truncates `checkpoint.meta` before writing it. Killed in
   between, the next open reads LSN 0, and a log that still holds finished
   records (a kill between meta and log truncation leaves one) is replayed: a
   deleted file comes back. The comment there says "atomically".
2. A put that fails after its WAL append leaves its record in the log. A
   collection does not count it as a root and reclaims its chunks; after a
   kill `open` fails with "WAL manifest references missing durable chunk".
3. A crash between creating a segment file and writing its header makes the
   next open fail with `CorruptedSegment`, although the file is only a torn
   tail of the newest segment. In a new store this is the creation of the first
   segment (`StoreOpen`).
4. A `.seg.old` whose removal failed is taken, at the next open, for an
   interrupted swap: the stale backup replaces the live segment. A swap that
   stopped at a failed rename leaves such backups too.
5. `apply_rename` drops or moves every pending update below the old path,
   whether it was reported before or after the rename. A file created again at
   that path, between the look at it (`service.rs:703`) and the lock
   (`service.rs:727`), loses its update: it is not stored, nothing is pending,
   and `last_sync_at` is set. A later reconcile scan finds it, so
   `EventuallyInSync` holds.

Not runs of their own:

* A partly written append (`writer.rs:141`) leaves a fragment and the writer's
  offset behind it. Later chunks in that file are reported durable, contrary to
  the comment at `engine.rs:645`, but reads do not find them, and the next open
  refuses the segment or cuts it off before the fragment, synced records
  included (`segment/store.rs:167-176`). `src/README.md:210` says that recovery
  "truncates only an incomplete tail write in the newest segment". `segment_crash`
  has such appends and such cuts; `KeptBytesPresent` says what stays until the
  cut.
* Rows that an older program writes to sled beside a redb database without
  markers are not adopted (`migration.rs:181-188`; `stray` in `StoreOpen`).
* A rename that is reported in halves and then whole is applied twice
  (`service.rs:442-479`); a new file stored at the old path between the two is
  moved over the renamed one's history (`PutFile` in `Watcher`).

## 5. Proofs

A theorem holds for any sets of threads, names, contents, chunks, rows and
paths, and for any bounds, under the named assumptions of the modules
(`ProcessAssumption`, `DataAssumption`, `BoundAssumption`, `ChunkAssumption`,
`OpenAssumption`, `MountAssumption`, `SharesAssumption`, `DesktopAssumption`,
`PathAssumption`): bounds are natural numbers, constants that stand for "nobody"
or "nothing" are not members of the sets they are used beside, tables given as
constants have their types. One of them is a fact about the program: no chunk is
larger than the chunk cache (the smallest cache is 1 MiB, the largest chunk
256 KiB). Every invariant below was checked by TLC before it was proved.

| theorem | states |
|---|---|
| `TypeCorrect`, `Invariance`, `NothingDangles`, `ReadersAreSafe` (`EngineProofs`) | `TypeOK`, `IndInv`, `NoDanglingReferences`, `ReadersFindChunks` |
| `AckedVersionsAreSafe` (`EngineHistoryProofs`) | `AckedVersionsSurvive`, with any number of crashes and errors |
| `NamesLeadToObjects`, `HistoriesAreSorted` | `NamesResolve`, `VersionsIncreasing`, while `Clean` |
| `OneCrashIsExact` | `ReplayIsExact`, through one crash |
| `FirstCrashForgetsNothing` | the first crash leaves only the put that it cut to be replayed |
| `AnyCrashIsExact`, `ReplayNeverFails` | `ReplayIsExact`, and no `OpenFails` step before a call has failed, through any number of crashes that forget no checkpoint (`KeptSpec`) |
| `EveryStepIsAtomic` | every step is a step of `VersionedStore` or invisible, while `Clean` |
| `EngineImplementsVersionedStore`, `OneCrashIsInvisible` | `ImplementsVersionedStore` without crashes; `CrashesAreInvisible` with at most one |
| `CrashesStayInvisible` | `CrashesAreInvisible`, through any number of crashes that forget no checkpoint |
| `SegmentTypeCorrect`, `IndexIsExact`, `BytesAreKept`, `CrashSafety` (`SegmentStoreProofs`) | `TypeOK`; `IndexLocatesChunks`, without a failed append or swap; `KeptBytesPresent`, until an open cuts behind a fragment; `CrashesLoseNothing` |
| `SegmentsImplementChunkStore` | `ImplementsChunkStore`, with any number of crashes and no I/O error |
| `EngineUsesChunkStore` (`EngineHistoryProofs`) | `UsesChunkStore`, with any number of crashes and errors |
| `OpenTypeCorrect`, `OneKeyPerStore`, `NothingIsLost` (`StoreOpenProofs`) | `TypeOK`, `OneKey`; `NothingLost`, but for rows written to sled beside a redb database without markers |
| `DesktopTypeCorrect`, `ReadsExact`, `CacheConsistent`, `ReadsFindTheirChunks`, `AckedSharesStay`, `ArchivesAreTrue`, `WatcherIsUnique` (`DesktopProofs`) | `TypeOK`, `ReadsAreExact`, `CacheIsConsistent`, `ReadsComplete`, `AckedSharesLast`, `ArchiveIsTrue`, `OneWatcher` |
| `RemovalsAreSafe` (`WatcherProofs`) | the action property `RemovesOnlyWhatIsGone` |
| `WatcherTypeCorrect`, `HistoriesFollow` | `TypeOK`; `HistoryFollowsRename`, with all four styles of rename events |

### Engine: nothing dangles

`NoDanglingReferences` is not inductive: that `PutObject` refers to a manifest in
the table depends on what the thread did two steps earlier, that a sweep
removes no live manifest on what nobody did since the mark. `IndInv` adds this
in three layers, each proved with the ones before it.

1. `TypeInv`: the types, and `JobsResolved`: from the resolution of the name on,
   a put (and a replayed record) has an object and a version. Inductive alone.
2. `LocksHeld`: a thread at a step of a call holds the locks of that call; a
   writer of `op_lock` excludes readers; recovery runs alone. `LocksClient`
   shows it once for the four ways a client moves (with its locks, taking
   `op_lock` for reading or writing, releasing all), and each action is an
   instance.
3. `DataInv`: `synced` is stored; `JobsBacked`, the chunks of a put are stored,
   then durable, and then its manifest is in the table; `MarkIsExact`, between
   mark and compaction the live set is what mark would find now; and the two
   goals. `DataGrow` treats every step that takes nothing away. The steps that
   do are a sweep and a compaction, where `LocksHeld` leaves no other thread
   with a claim and `MarkIsExact` keeps what is referred to, and a crash, which
   takes only what was not synced, and every claim with it.

The lemmas on records (`PushVersionType`, `PruneType`, `MarkedUpdate`) say what
an operation on a history does to the set of contents it refers to.

### Engine: histories and the refinement

`AckedVersionsSurvive` needs four facts that hold in every behaviour: a put past
its lock has `put_lock` (`PutLockHeld`), object ids in use have been generated
(`OidsGenerated`), the version numbers of one object differ, and a put finds its
number unused before `PutObject` and its entry in place after it (`PutClaims`).
Replay can add a stale record, even to a deleted object, but never one whose
number the object has, so what was acknowledged is not replaced.

`NamesResolve` and `VersionsIncreasing` are false in general: a crash that forgets
a checkpoint (finding 1) or an error and a crash (finding 2) break them. Without
either, through any number of crashes, `Exact` holds:

* names and histories are in order, and a running put claims the object of its
  name or a new one, with the next version number before `PutObject` and the last
  one after it (`ClientClaims`). The record of an unfinished put keeps its claim
  because `put_lock` and `op_lock` keep renames, deletes, prunes and rollbacks out;
* whatever the files hold, the numbering goes on above it, and `checkpoint.meta`
  is behind what was synced only while it is being written (`LogSettled`);
* the put that is logged has the last record, above the durable checkpoint until
  it has synced its own (`PutRecords`);
* while the store is down or opening, at most one record is pending, it is the
  put that a crash has cut, its chunks are durable and its claim stands
  (`PendingCut`), and recovery is where it should be with it (`RecoveryAt`).

The pending record is what changes hands. A crash of a running store may leave
records of finished puts in the log, but only the record in use is above the
checkpoint (`CrashOfPut`); a crash of a recovery adds none (`CrashOfRecovery`),
and once recovery has synced its checkpoint none is left (`KeptSyncsMeta`). Log
and checkpoint need not agree: a synced log of an older put survives behind the
synced checkpoint, and the next put is numbered above both.

For `Spec`, which has all crashes, `OrderInv` says what holds up to the second
crash: `Exact` if no call failed, and names, histories and claims if there was no
crash (`Clean`). Before the first crash the log holds at most the record of the
running put (`LogOfPut`: `LsnsAgree` makes the checkpoint of a put cover its own
record, so the log is emptied before the next put), so that crash forgets
nothing.

The refinement follows step by step (`SeenClient`, `SeenOpener`). By
`NoDanglingReferences` the readable contents are exactly the manifests in the
table, so chunks and fsyncs drop out. A put is seen at `PutObject` if its name is
bound and at `BindName` if it is new: `Claimed` says which, and that the new
version is the next one. A sweep is a `Reclaim`, because what `MarkIsExact` keeps
includes everything the client can refer to. Dropping a snapshot is one step
because labels are unique (`UniqueLabels`).

### SegmentStore

Four layers, each with exactly the assumption on I/O errors it needs. `WriteInv`
(none): the writer's segment is the newest, files that are absent are empty, and
the staged segments, wherever the swap has moved them, are what the new index
says. `IndexInv` (no failed append or rename): the index is right and the
writer's count is the length of its file. `ByteInv` (no failed removal, and no
compaction over the backups of a failed swap): the kept chunks are durable in
the file that recovery would choose for each number. That needs where the
marker can be, which backups exist at each step (`BackupsOK`), and that only the
newest file has records no fsync covers (`TailsOK`). `CleanInv` (no error at
all): no fragment lies in front of a durable record, and no backup is left while
the store is open. A scan that cuts the newest segment keeps `ByteInv` because it
removes no other record than those behind the first fragment, which leave
`kept`, and fsyncs the rest. The exceptions are not artefacts: failed removals
are finding 4, fragments are described after the findings.

The refinement of `ChunkStore` needs the other direction of `IndexInv`, too.
`Complete` says that no file recovery would use holds a chunk which the index
that goes with it does not have, that the staged segments hold nothing but what
the new index has, and that until the marker is written all that is to be kept
is in the old index. Each file operation of a swap is then a stutter: it moves a
file from one of the three places to another, and `FileFor`, the file that
recovery would choose for a number, stays the same or trades old files for the
new ones all at once. A crash in the swap shows the old chunks before the marker
is written and the kept ones after it.

### StoreOpen

`TypeOK` contains that whoever is past the lock holds it, so a step of one
process meets no other. `OneKey` needs `KeysAgree`, what each process took from
the vault. `NothingLost` needs `RowsKept`, where the rows that are due (`owed` but
not `stray`) are at each stage: in the database that is there, else in sled,
before the commit marker, then in the staging database, in the active one,
or in the copy that a person will restore; and `StepsDone`, what each step of the
migration may rely on after it was cut and resumed.

### Mount, Shares and Desktop

`MountInv` follows each worker through its read: how much it has delivered
(`Looping`), that it holds `op_lock` for reading and so keeps its content
readable, and that exactly the refreshing worker holds `last_refresh`. That the
slices of the chunks add up to the requested range is induction over the chunks
of a content: `SequenceFacts` derives it from the least element of a set of
naturals, since the library's induction theorems take an operator that the
provers cannot instantiate. For the same reason the lengths and bytes of a content are
recursive functions, which `IterationExists` shows to exist. `ShareInv` adds that
a caller who saves holds the lock, so that what it serialised is still the map;
`ArchiveInv` that the names packed and the names to come are different;
`CtrlInv` that the controller's mutex belongs to whoever starts or stops.

### Watcher

`RemovesOnlyWhatIsGone` is about two steps: the worker looks at a path, and later
changes the bindings below it. `LookedAt` carries what it saw; nothing in
between makes it false, because a file that has been missing stays in `gone`
until the watcher itself reads it again. `GoneKnown`, that every missing file is
in `gone`, is false of a directory that nobody has touched yet, where nothing
has been reported either: hence `GoneKnown \/ Untouched`.

`HistoryFollowsRename` speaks of the moments when all is settled; its invariant
`HistoryInv` speaks of all others. As long as some file is remembered in `home`,
there is for each remembered file a *trail*: the object is bound to some place,
the renames of the queue lead from there, one step each, to a second place
(`QueueLeads`), and the notifications in the channel lead from there to where the
file is now (`ChannelLeads`). A step of a trail moves what is below `from` to below
`to` and leaves what is below neither of the two where it is (`Follows`). A move
of the directory adds a step at the end of the channel, receiving turns the
first step of the channel into the last one of the queue, and applying a rename
takes the first one off the queue and moves the bindings (`BindingFollows`: two
names never meet at one target, and what the rename does not concern stays). When
all is settled both parts of the trail are empty, and the binding is where the
file is. Four more facts carry this:

* A half alone does not say where its path went. `PairsMeet`: halves that wait
  have different trackers; between each second half in the channel and the first
  half it was sent with there are only changes, whether that one is still in the
  channel or is the last that waits; a half without tracker is still to be
  completed. So the half that `receive_event` finds (`Mates`) is the right one,
  and one that expires, with nothing on its way and nothing at its path, moves no
  file.
* A rename reported in halves and then whole is in the trail once: its repetition
  leaves every place where it is (`Passes`). `ChannelTwins` and `QueueTwins` say
  why it may: it comes right behind the rename it repeats, in the channel or in
  the queue, or that one has been applied and no name is bound below the old
  path. `PutFile` is the one step that could bind one, which is the exception
  named above.
* `apply_rename` may fail after its transaction, in the last look at the target.
  The rename stays in the queue and is applied again. `HeadApplied` says that the
  first rename has no name left to move; the trail may then stay at its target.
  The second application is harmless because nothing can be bound below the old
  path in between: files are not ingested while renames wait.
* A scan removes names only when no rename waits, and only below paths where
  nothing is, so no trail begins there.

`TypeOK` needs `Fits` for one step only, the transaction of a rename, and from
`RemovalInv` that what a scan queues is finite and that the worker applies a
rename only when there is one.

### Model-checked only

* Liveness (`PutsReturn`, `CollectionsReturn`, `StoreComesBack`, `Reopens`,
  `EventuallyInSync`, `RequestsAnswered`): fairness is out of the prover's reach.
* With a crash that forgets a checkpoint, or an error and a crash, names, histories
  and the refinement: false, see findings 1 and 2.

## 6. Not modelled, and why

* The bytes of records, compression, ciphers, key derivation, hashing and its
  collisions: outside what the properties tell apart.
* Chunk boundaries (`core/src/chunk`): a pure function around an external rolling
  hash; the modules take the chunks of a content as a constant.
* `fsck`: read-only, without a lock; what it may report while a collection runs
  is listed as a hazard.
* The tunnel of the shares (a child process whose output is read for a URL),
  HTML pages, XML and listings, drive letters, mounting and unmounting by
  platform commands, the command line: input and output around single calls.
* `ManifestStore` and `FsChunkStore`: the engine does not use them.
* Read-only queries change nothing and have no action. The u32 of a version
  number is a natural number: 2^32 versions of one file are out of reach.

Components with their status are in `PROJECT.json`.

## 7. Plan

Done: the models of `Engine`, `SegmentStore`, `VersionedStore`, `ChunkStore` and
the two refinements, `Watcher`, `StoreOpen`, `Mount`, `Shares` and `Desktop`, and the
proofs of section 5.

1. `SegmentStore`: the refinement of `ChunkStore` with failed appends, where a chunk
   behind a fragment is lost although it was reported durable, as a promise of
   its own; a run that shows the cut of such records.
2. Models: `fsck` as a reader without a lock, `StreamChunker` against `Chunker`
   with the cut as a parameter.
