------------------------------- MODULE Engine -------------------------------
(***************************************************************************)
(* The storage engine of oos-lite: StorageEngine (core/src/engine.rs), its *)
(* write-ahead log (core/src/wal), the metadata tables it keeps in redb    *)
(* (core/src/index), and mark-and-sweep garbage collection (core/src/gc).  *)
(*                                                                         *)
(* Client threads call the engine concurrently; every lock acquisition,    *)
(* every redb transaction and every write, truncate or fsync of a file is  *)
(* a step of its own.  The process may be killed or the machine may lose   *)
(* power between any two steps; the next open replays the WAL step by step *)
(* and may itself be interrupted.                                          *)
(*                                                                         *)
(* Data is abstracted to what the properties tell apart: a content stands  *)
(* for the bytes of a file and for the manifest that describes them (the   *)
(* manifest id is the content's hash), ChunksOf gives its chunks, and the  *)
(* segment store is the set of chunks it holds (module SegmentStore has    *)
(* its files).                                                             *)
(***************************************************************************)
EXTENDS Integers, Sequences, FiniteSets

CONSTANTS
  Clients,       \* threads that call the engine
  Opener,        \* the thread that runs StorageEngine::open
  NoOne,         \* "lock is free"
  Names,         \* logical file names
  Prefixes,      \* the sets of names a prefix of delete_prefix selects
  Contents,      \* file contents, and the manifests they give
  Chunks,        \* chunk ids
  ChunksOf,      \* the chunks of each content
  Labels,        \* snapshot labels
  MaxObjects,    \* bound: object ids that ObjectId::generate may return
  MaxVersion,    \* bound: version numbers (u32 in the code)
  MaxKeep,       \* bound: keep_last_n arguments of prune
  MaxPuts,       \* bound: put_file calls
  MaxEdits,      \* bound: calls of the other mutating operations
  MaxCrashes,    \* bound: kills and power losses
  PowerMayFail,  \* whether power losses are among the crashes
  MaxFaults      \* bound: I/O errors returned to a running operation

ASSUME ProcessAssumption ==
  /\ Opener \notin Clients
  /\ NoOne \notin Clients

ASSUME DataAssumption ==
  /\ Names # {}
  /\ Contents # {}
  /\ Prefixes \subseteq SUBSET Names
  /\ ChunksOf \in [Contents -> SUBSET Chunks]

ASSUME BoundAssumption ==
  /\ MaxObjects \in Nat
  /\ MaxVersion \in Nat
  /\ MaxKeep \in Nat
  /\ PowerMayFail \in BOOLEAN
  /\ {MaxPuts, MaxEdits, MaxCrashes, MaxFaults} \subseteq Nat

VARIABLES
  \* --- segment files
  stored,        \* chunks written and indexed
  synced,        \* the chunks of them that an fsync has made durable
  \* --- redb tables; every transaction is durable when it commits
  manifests,     \* contents whose manifest is in the MANIFESTS table
  objects,       \* OBJECT_INDEX: object id -> record
  names,         \* NAME_INDEX: name -> object id, 0 when unbound
  snapshots,     \* SNAPSHOTS
  \* --- wal.log and checkpoint.meta: what a reader of the file sees now,
  \* --- and what the last fsync made durable
  walLog, walLogSynced,
  meta, metaSynced,
  \* --- memory of the running process
  status,        \* "down", "opening" or "up"
  currentLsn, checkpointLsn,
  replayPos,     \* next record of walLog that recovery looks at
  putLock, gcLock, opWriter, opReaders,
  pc,            \* where each thread is
  job,           \* the put (or replayed record) each thread works on
  attempts,      \* stable-read attempts of the put that holds put_lock
  reading,       \* contents a thread is extracting
  unlinking,     \* names the running delete still has to remove
  gcLive,        \* manifests the running collection marked
  \* --- history
  generated,     \* object ids generated so far
  spent,         \* how much of each bound is used
  acked,         \* versions reported to a caller and not pruned or deleted since
  deleted        \* objects that a completed transaction deleted

diskVars == <<stored, synced, manifests, objects, names, snapshots>>
walVars  == <<walLog, walLogSynced, meta, metaSynced>>
lsnVars  == <<currentLsn, checkpointLsn, replayPos>>
lockVars == <<putLock, gcLock, opWriter, opReaders>>
callVars == <<attempts, reading, unlinking, gcLive>>
histVars == <<generated, acked, deleted>>
vars == <<diskVars, walVars, lsnVars, lockVars, callVars, histVars,
          status, pc, job, spent>>

-----------------------------------------------------------------------------
Procs     == Clients \cup {Opener}
ObjectIds == 1..MaxObjects
Versions  == 1..MaxVersion

VersionEntry == [version : Versions, content : Contents]
ObjectRecord == [latest : 0..MaxVersion, versions : Seq(VersionEntry)]
NoRecord     == [latest |-> 0, versions |-> << >>]

SnapshotEntry == [name : Names, oid : ObjectIds, version : Versions,
                  content : Contents]
Snapshot      == [label : Labels, entries : SUBSET SnapshotEntry]

\* A put, and the WAL record that logs it.  A record with lsn 0 in the log is
\* one whose bytes are incomplete: its checksum does not match.
WalPut == [lsn : Nat, name : Names, oid : 0..MaxObjects, version : 0..MaxVersion,
           content : Contents]
WalRecord == [lsn : Nat, name : Names, oid : ObjectIds, version : Versions,
              content : Contents]
NoJob  == [lsn |-> 0, name |-> CHOOSE n \in Names : TRUE, oid |-> 0,
           version |-> 0, content |-> CHOOSE c \in Contents : TRUE]

Ack == [oid : ObjectIds, version : Versions, content : Contents]

MaxStableReadAttempts == 3

\* An object record exists once a version was written to it, even if prune has
\* since emptied its history.
Exists(o) == objects[o].latest > 0

\* Mutant: the replay does not look whether the version is already there.
HasVersionMutant(rec, v) == FALSE

HasVersion(rec, v) == \E i \in DOMAIN rec.versions : rec.versions[i].version = v

\* Mutant: versions are numbered by how many there are.
IsNextVersionMutant(rec, v) == v = Len(rec.versions) + 1

\* v is one more than the largest version number the record knows.
IsNextVersion(rec, v) ==
  /\ v > rec.latest
  /\ \A i \in DOMAIN rec.versions : v > rec.versions[i].version
  /\ v - 1 = rec.latest \/ HasVersion(rec, v - 1)

\* Mutant: the new version replaces the history.
PushVersionMutant(rec, v, c) ==
  [latest |-> v, versions |-> <<[version |-> v, content |-> c]>>]

PushVersion(rec, v, c) ==
  [latest |-> v, versions |-> Append(rec.versions, [version |-> v, content |-> c])]

ContentsOf(rec) == {rec.versions[i].content : i \in DOMAIN rec.versions}

\* The manifests that mark() reaches: every version of every object record,
\* bound to a name or not, and every snapshot entry.
MarkedIn(objs, snaps) ==
  (UNION {ContentsOf(objs[o]) : o \in ObjectIds})
    \cup (UNION {{e.content : e \in s.entries} : s \in snaps})

Marked == MarkedIn(objects, snapshots)

ChunksOfAll(S) == UNION {ChunksOf[c] : c \in S}

\* Wal::open decodes the first k records and stops at the first it cannot.
DecodesUpTo(log, k) ==
  /\ \A i \in 1..k : log[i].lsn # 0
  /\ k < Len(log) => log[k + 1].lsn = 0

IsMaxOf(l, S) == l \in S /\ \A k \in S : k <= l

LsnsOf(log) == {log[i].lsn : i \in DOMAIN log}

Spend(kind) == spent' = [spent EXCEPT ![kind] = @ + 1]

\* segment_store.sync(): everything appended so far becomes durable.
SyncSegmentsMutant == UNCHANGED synced  \* mutant: the sync is forgotten

SyncSegments == synced' = stored

\* op_lock can be taken for reading.
OpReadFreeMutant == TRUE  \* mutant: the caller takes no lock

OpReadFree == opWriter = NoOne

\* op_lock can be taken for writing.
OpWriteFreeMutant == opWriter = NoOne  \* mutant: a read lock is taken instead

OpWriteFree == opWriter = NoOne /\ opReaders = {}

\* Mutants: a path out of a call keeps op_lock.
ReleaseLocksKeepWriter(p) ==
  /\ putLock' = IF putLock = p THEN NoOne ELSE putLock
  /\ gcLock' = IF gcLock = p THEN NoOne ELSE gcLock
  /\ opReaders' = opReaders \ {p}
  /\ UNCHANGED opWriter

ReleaseLocksKeepReader(p) ==
  /\ putLock' = IF putLock = p THEN NoOne ELSE putLock
  /\ gcLock' = IF gcLock = p THEN NoOne ELSE gcLock
  /\ opWriter' = IF opWriter = p THEN NoOne ELSE opWriter
  /\ UNCHANGED opReaders

\* Dropping the guards of a call: every lock the thread holds is released.
ReleaseLocks(p) ==
  /\ putLock' = IF putLock = p THEN NoOne ELSE putLock
  /\ gcLock' = IF gcLock = p THEN NoOne ELSE gcLock
  /\ opWriter' = IF opWriter = p THEN NoOne ELSE opWriter
  /\ opReaders' = opReaders \ {p}

Goto(p, l) == pc' = [pc EXCEPT ![p] = l]

\* The call returns to its caller.
Return(p) ==
  /\ ReleaseLocks(p)
  /\ Goto(p, "idle")
  /\ job' = [job EXCEPT ![p] = NoJob]

-----------------------------------------------------------------------------
Init ==
  /\ stored = {} /\ synced = {}
  /\ manifests = {}
  /\ objects = [o \in ObjectIds |-> NoRecord]
  /\ names = [n \in Names |-> 0]
  /\ snapshots = {}
  /\ walLog = << >> /\ walLogSynced = << >>
  /\ meta = 0 /\ metaSynced = 0
  /\ status = "up"
  /\ currentLsn = 0 /\ checkpointLsn = 0 /\ replayPos = 1
  /\ putLock = NoOne /\ gcLock = NoOne /\ opWriter = NoOne /\ opReaders = {}
  /\ pc = [p \in Procs |-> "idle"]
  /\ job = [p \in Procs |-> NoJob]
  /\ attempts = 0
  /\ reading = [p \in Clients |-> {}]
  /\ unlinking = {}
  /\ gcLive = {}
  /\ generated = 0
  /\ spent = [puts |-> 0, edits |-> 0, crashes |-> 0, faults |-> 0]
  /\ acked = {} /\ deleted = {}

Idle(p) == status = "up" /\ pc[p] = "idle"
-----------------------------------------------------------------------------
(* put_file_named                                                          *)

\* The single-writer mutex is taken first ...
BeginPut(p) ==
  /\ Idle(p) /\ putLock = NoOne
  /\ spent.puts < MaxPuts /\ Spend("puts")
  /\ \E n \in Names, c \in Contents :
       job' = [job EXCEPT ![p] = [NoJob EXCEPT !.name = n, !.content = c]]
  /\ putLock' = p
  /\ Goto(p, "putOp")
  /\ UNCHANGED <<diskVars, walVars, lsnVars, callVars, histVars, status,
                 gcLock, opWriter, opReaders>>

\* ... and then op_lock for reading, which a running collection or delete holds.
PutAcquireOp(p) ==
  /\ pc[p] = "putOp" /\ OpReadFree
  /\ opReaders' = opReaders \cup {p}
  /\ attempts' = 1
  /\ Goto(p, "read")
  /\ UNCHANGED <<diskVars, walVars, lsnVars, histVars, status, job, spent,
                 putLock, gcLock, opWriter, reading, unlinking, gcLive>>

\* The source did not change while it was read: all its chunks were appended
\* to the segment store or already there.
ReadStable(p) ==
  /\ pc[p] = "read"
  /\ stored' = stored \cup ChunksOf[job[p].content]
  /\ Goto(p, "sync")
  /\ UNCHANGED <<walVars, lsnVars, lockVars, callVars, histVars, status, job,
                 spent, synced, manifests, objects, names, snapshots>>

MayRetryMutant == attempts <= MaxStableReadAttempts  \* mutant: one too many

MayRetry == attempts < MaxStableReadAttempts

\* The source changed: whatever chunks were read stay in the store as garbage,
\* and the third failure returns WouldBlock.
ReadUnstable(p) ==
  /\ pc[p] = "read"
  /\ \E S \in SUBSET Chunks : stored' = stored \cup S
  /\ IF MayRetry
     THEN /\ attempts' = attempts + 1
          /\ UNCHANGED <<lockVars, pc, job>>
     ELSE /\ attempts' = 0
          /\ Return(p)
  /\ UNCHANGED <<walVars, lsnVars, histVars, status, spent, synced, manifests,
                 objects, names, snapshots, reading, unlinking, gcLive>>

\* segment_store.sync(), then the name is resolved to the object and version
\* that this put will write.
SyncAndResolve(p) ==
  /\ pc[p] = "sync" /\ p \in Clients
  /\ SyncSegments
  /\ LET o == names[job[p].name] IN
     \/ /\ o # 0 /\ Exists(o)
        /\ \E v \in Versions :
             /\ IsNextVersion(objects[o], v)
             /\ job' = [job EXCEPT ![p] = [@ EXCEPT !.oid = o, !.version = v]]
        /\ UNCHANGED generated
     \/ /\ o = 0 /\ generated < MaxObjects /\ MaxVersion > 0
        /\ generated' = generated + 1
        /\ job' = [job EXCEPT ![p] = [@ EXCEPT !.oid = generated + 1,
                                              !.version = 1]]
  /\ Goto(p, "wal")
  /\ UNCHANGED <<walVars, lsnVars, lockVars, callVars, status, spent, stored,
                 manifests, objects, names, snapshots, acked, deleted>>

\* append_put_and_sync: the record is written ...
AppendWal(p) ==
  /\ pc[p] = "wal"
  /\ currentLsn' = currentLsn + 1
  /\ job' = [job EXCEPT ![p].lsn = currentLsn + 1]
  /\ walLog' = Append(walLog, job'[p])
  /\ Goto(p, "walSync")
  /\ UNCHANGED <<diskVars, lockVars, callVars, histVars, status, spent,
                 walLogSynced, meta, metaSynced, checkpointLsn, replayPos>>

\* ... and fsynced.
SyncWal(p) ==
  /\ pc[p] = "walSync"
  /\ walLogSynced' = walLog
  /\ Goto(p, "manifest")
  /\ UNCHANGED <<diskVars, lsnVars, lockVars, callVars, histVars, status, job,
                 spent, walLog, meta, metaSynced>>

-----------------------------------------------------------------------------
(* Applying a logged put to the metadata tables: the same three            *)
(* transactions in put_file_named and in the replay of open_internal.      *)

SaveManifest(p) ==
  /\ pc[p] = "manifest"
  /\ manifests' = manifests \cup {job[p].content}
  /\ Goto(p, "object")
  /\ UNCHANGED <<walVars, lsnVars, lockVars, callVars, histVars, status, job,
                 spent, stored, synced, objects, names, snapshots>>

\* A version the record already has is not written again.
PutObject(p) ==
  /\ pc[p] = "object"
  /\ LET j == job[p] IN
     objects' = IF HasVersion(objects[j.oid], j.version) THEN objects
                ELSE [objects EXCEPT ![j.oid] =
                        PushVersion(@, j.version, j.content)]
  /\ Goto(p, "bind")
  /\ UNCHANGED <<walVars, lsnVars, lockVars, callVars, histVars, status, job,
                 spent, stored, synced, manifests, names, snapshots>>

BindName(p) ==
  /\ pc[p] = "bind"
  /\ names' = [names EXCEPT ![job[p].name] = job[p].oid]
  /\ Goto(p, IF p = Opener THEN "replay" ELSE "checkpoint")
  /\ UNCHANGED <<walVars, lsnVars, lockVars, callVars, histVars, status, job,
                 spent, stored, synced, manifests, objects, snapshots>>

-----------------------------------------------------------------------------
(* Wal::checkpoint(lsn), for a put and for recovery.                       *)

\* checkpoint.meta is opened with truncate(true): until the eight bytes are
\* written it is empty, and an open reads an empty file as LSN 0.
TruncateMeta(p) ==
  /\ pc[p] = "checkpoint"
  /\ checkpointLsn' = job[p].lsn
  /\ meta' = 0
  /\ Goto(p, "metaWrite")
  /\ UNCHANGED <<diskVars, lockVars, callVars, histVars, status, job, spent,
                 walLog, walLogSynced, metaSynced, currentLsn, replayPos>>

WriteMeta(p) ==
  /\ pc[p] = "metaWrite"
  /\ meta' = checkpointLsn
  /\ Goto(p, "metaSync")
  /\ UNCHANGED <<diskVars, lsnVars, lockVars, callVars, histVars, status, job,
                 spent, walLog, walLogSynced, metaSynced>>

SyncMeta(p) ==
  /\ pc[p] = "metaSync"
  /\ metaSynced' = meta
  /\ Goto(p, IF checkpointLsn >= currentLsn THEN "logTruncate" ELSE "done")
  /\ UNCHANGED <<diskVars, lsnVars, lockVars, callVars, histVars, status, job,
                 spent, walLog, walLogSynced, meta>>

TruncateLog(p) ==
  /\ pc[p] = "logTruncate"
  /\ walLog' = << >>
  /\ Goto(p, "logSync")
  /\ UNCHANGED <<diskVars, lsnVars, lockVars, callVars, histVars, status, job,
                 spent, walLogSynced, meta, metaSynced>>

SyncLog(p) ==
  /\ pc[p] = "logSync"
  /\ walLogSynced' = walLog
  /\ Goto(p, "done")
  /\ UNCHANGED <<diskVars, lsnVars, lockVars, callVars, histVars, status, job,
                 spent, walLog, meta, metaSynced>>

\* put_file_named returns its PutSummary: the version is acknowledged.
FinishPut(p) ==
  /\ pc[p] = "done" /\ p \in Clients
  /\ acked' = acked \cup {[oid |-> job[p].oid, version |-> job[p].version,
                           content |-> job[p].content]}
  /\ attempts' = 0
  /\ Return(p)
  /\ UNCHANGED <<diskVars, walVars, lsnVars, status, spent, generated, deleted,
                 reading, unlinking, gcLive>>

PutSteps == {"read", "sync", "wal", "walSync", "manifest", "object", "bind",
             "checkpoint", "metaWrite", "metaSync", "logTruncate", "logSync"}

\* An I/O error at one of the `?` of put_file_named: the call returns Err and
\* what it had done so far stays.  A name bound to a missing object record is
\* an error too.
PutFails(p) ==
  /\ p \in Clients /\ pc[p] \in PutSteps
  /\ \/ spent.faults < MaxFaults /\ Spend("faults")
     \/ /\ pc[p] = "sync" /\ names[job[p].name] # 0
        /\ ~Exists(names[job[p].name])
        /\ UNCHANGED spent
  /\ attempts' = 0
  /\ Return(p)
  /\ UNCHANGED <<diskVars, walVars, lsnVars, histVars, status, reading,
                 unlinking, gcLive>>

\* write_all of the record fails half way (a full disk): the LSN is used up and
\* an incomplete record may stay at the end of the log.
AppendWalFails(p) ==
  /\ pc[p] = "wal" /\ spent.faults < MaxFaults /\ Spend("faults")
  /\ currentLsn' = currentLsn + 1
  /\ walLog' \in {walLog, Append(walLog, job[p])}
  /\ attempts' = 0
  /\ Return(p)
  /\ UNCHANGED <<diskVars, histVars, status, walLogSynced, meta, metaSynced,
                 checkpointLsn, replayPos, reading, unlinking, gcLive>>

-----------------------------------------------------------------------------
(* Reads hold op_lock for reading from the lookup to the last chunk.       *)

BeginRead(p, S) ==
  /\ Idle(p) /\ OpReadFree
  /\ opReaders' = opReaders \cup {p}
  /\ reading' = [reading EXCEPT ![p] = S]
  /\ Goto(p, "reading")
  /\ UNCHANGED <<diskVars, walVars, lsnVars, histVars, status, job, spent,
                 putLock, gcLock, opWriter, attempts, unlinking, gcLive>>

\* get_file_version: a manifest found by name and version, object id or
\* manifest id, or an error when the target does not resolve.
GetFile(p) ==
  \/ BeginRead(p, {})
  \/ \E c \in manifests : BeginRead(p, {c})

\* restore_snapshot: the manifests of all the entries.
RestoreSnapshot(p) ==
  \E s \in snapshots : BeginRead(p, {e.content : e \in s.entries})

\* extract_manifest_to_file has copied the last chunk, or met an error.
FinishRead(p) ==
  /\ pc[p] = "reading"
  /\ reading' = [reading EXCEPT ![p] = {}]
  /\ Return(p)
  /\ UNCHANGED <<diskVars, walVars, lsnVars, histVars, status, spent, attempts,
                 unlinking, gcLive>>

-----------------------------------------------------------------------------
(* Operations whose effect is one redb transaction made while the locks    *)
(* that exclude every other writer are held.                               *)

MayEditShared(p) == Idle(p) /\ putLock = NoOne /\ OpReadFree

MayEditAlone(p) == Idle(p) /\ OpWriteFree

SpendEdit == spent.edits < MaxEdits /\ Spend("edits")

\* rename_name_binding moves the binding in one transaction.
RebindMutant(old, new) == [names EXCEPT ![new] = names[old]]  \* mutant: a copy

Rebind(old, new) == [names EXCEPT ![old] = 0, ![new] = names[old]]

\* rename_file: a name already bound to another object loses that binding.
RenameFile(p) ==
  /\ MayEditShared(p) /\ SpendEdit
  /\ \E old \in Names, new \in Names :
       /\ old # new /\ names[old] # 0
       /\ names' = Rebind(old, new)
  /\ UNCHANGED <<walVars, lsnVars, lockVars, callVars, histVars, status, pc, job,
                 stored, synced, manifests, objects, snapshots>>

\* prune_file_versions: the oldest entries go, latest_version stays.
PruneFileVersions(p) ==
  /\ MayEditShared(p) /\ SpendEdit
  /\ \E n \in Names, keep \in 0..MaxKeep :
       /\ names[n] # 0 /\ Exists(names[n])
       /\ LET o    == names[n]
              vs   == objects[o].versions
              kept == SubSeq(vs, Len(vs) - keep + 1, Len(vs))
          IN  /\ Len(vs) > keep
              /\ objects' = [objects EXCEPT ![o].versions = kept]
              /\ acked' = {a \in acked : \/ a.oid # o
                                         \/ \E i \in DOMAIN kept :
                                              kept[i].version = a.version}
  /\ UNCHANGED <<walVars, lsnVars, lockVars, callVars, status, pc, job, generated,
                 deleted, stored, synced, manifests, names, snapshots>>

\* rollback_file: a new version with the manifest of an old one; it is then
\* extracted while the locks are still held.
RollbackFile(p) ==
  /\ MayEditShared(p) /\ SpendEdit
  /\ \E n \in Names :
       LET o == names[n] IN
       /\ o # 0
       /\ \E i \in DOMAIN objects[o].versions, v \in Versions :
            LET c == objects[o].versions[i].content IN
            /\ c \in manifests
            /\ IsNextVersion(objects[o], v)
            /\ objects' = [objects EXCEPT ![o] = PushVersion(@, v, c)]
            /\ acked' = acked \cup {[oid |-> o, version |-> v, content |-> c]}
            /\ reading' = [reading EXCEPT ![p] = {c}]
  /\ putLock' = p
  /\ opReaders' = opReaders \cup {p}
  /\ Goto(p, "reading")
  /\ UNCHANGED <<walVars, lsnVars, status, job, generated, deleted, stored,
                 synced, manifests, names, snapshots, gcLock, opWriter,
                 attempts, unlinking, gcLive>>

\* create_snapshot: the last version of every bound name.
CreateSnapshot(p) ==
  /\ MayEditAlone(p) /\ SpendEdit
  /\ \E l \in Labels :
       /\ \A s \in snapshots : s.label # l
       /\ LET Last(n)  == objects[names[n]].versions[Len(objects[names[n]].versions)]
              Taken(n) == names[n] # 0 /\ objects[names[n]].versions # << >>
          IN snapshots' = snapshots \cup
               {[label |-> l,
                 entries |-> {[name |-> n, oid |-> names[n],
                               version |-> Last(n).version,
                               content |-> Last(n).content] :
                                 n \in {m \in Names : Taken(m)}}]}
  /\ UNCHANGED <<walVars, lsnVars, lockVars, callVars, histVars, status, pc, job,
                 stored, synced, manifests, objects, names>>

DeleteSnapshot(p) ==
  /\ MayEditAlone(p) /\ SpendEdit
  /\ \E s \in snapshots : snapshots' = snapshots \ {s}
  /\ UNCHANGED <<walVars, lsnVars, lockVars, callVars, histVars, status, pc, job,
                 stored, synced, manifests, objects, names>>

\* unbind_file: the object record and its history stay.
UnbindFile(p) ==
  /\ MayEditAlone(p) /\ SpendEdit
  /\ \E n \in Names : names[n] # 0 /\ names' = [names EXCEPT ![n] = 0]
  /\ UNCHANGED <<walVars, lsnVars, lockVars, callVars, histVars, status, pc, job,
                 stored, synced, manifests, objects, snapshots>>

-----------------------------------------------------------------------------
(* delete_file and delete_prefix: one transaction per name under op_lock.  *)

BeginDelete(p) ==
  /\ MayEditAlone(p) /\ SpendEdit
  /\ \/ \E n \in Names : unlinking' = {n}
     \/ \E S \in Prefixes :
          unlinking' = {n \in S : names[n] # 0 /\ Exists(names[n])}
  /\ opWriter' = p
  /\ Goto(p, "unlink")
  /\ UNCHANGED <<diskVars, walVars, lsnVars, histVars, status, job, putLock,
                 gcLock, opReaders, attempts, reading, gcLive>>

\* delete_named_object removes the binding and the record together.
DeleteNamedObject(p) ==
  /\ pc[p] = "unlink"
  /\ \E n \in unlinking :
       LET o == names[n] IN
       /\ unlinking' = unlinking \ {n}
       /\ names' = [names EXCEPT ![n] = 0]
       /\ IF o = 0 THEN UNCHANGED <<objects, acked, deleted>>
          ELSE /\ objects' = [objects EXCEPT ![o] = NoRecord]
               /\ acked' = {a \in acked : a.oid # o}
               /\ deleted' = deleted \cup {o}
  /\ UNCHANGED <<walVars, lsnVars, lockVars, status, pc, job, spent, generated,
                 stored, synced, manifests, snapshots, attempts, reading, gcLive>>

FinishDelete(p) ==
  /\ pc[p] = "unlink" /\ unlinking = {}
  /\ Return(p)
  /\ UNCHANGED <<diskVars, walVars, lsnVars, histVars, callVars, status, spent>>

-----------------------------------------------------------------------------
(* gc                                                                      *)

BeginGc(p) ==
  /\ Idle(p) /\ gcLock = NoOne /\ SpendEdit
  /\ gcLock' = p
  /\ Goto(p, "gcOp")
  /\ UNCHANGED <<diskVars, walVars, lsnVars, callVars, histVars, status, job,
                 putLock, opWriter, opReaders>>

GcAcquireOp(p) ==
  /\ pc[p] = "gcOp" /\ OpWriteFree
  /\ opWriter' = p
  /\ Goto(p, "gcMark")
  /\ UNCHANGED <<diskVars, walVars, lsnVars, callVars, histVars, status, job,
                 spent, putLock, gcLock, opReaders>>

\* mark() refuses to go on when a manifest it reaches is missing.
GcMark(p) ==
  /\ pc[p] = "gcMark" /\ Marked \subseteq manifests
  /\ gcLive' = Marked
  /\ Goto(p, "gcSweep")
  /\ UNCHANGED <<diskVars, walVars, lsnVars, lockVars, histVars, status, job,
                 spent, attempts, reading, unlinking>>

\* One transaction per dead manifest.
GcSweepManifest(p) ==
  /\ pc[p] = "gcSweep"
  /\ \E m \in manifests \ gcLive : manifests' = manifests \ {m}
  /\ UNCHANGED <<walVars, lsnVars, lockVars, callVars, histVars, status, pc, job,
                 spent, stored, synced, objects, names, snapshots>>

\* compact_and_reclaim: the chunks of the marked manifests are kept, durably.
GcCompact(p) ==
  /\ pc[p] = "gcSweep" /\ manifests \subseteq gcLive
  /\ stored' = stored \cap ChunksOfAll(gcLive)
  /\ synced' = stored'
  /\ gcLive' = {}
  /\ Return(p)
  /\ UNCHANGED <<walVars, lsnVars, histVars, status, spent, manifests, objects,
                 names, snapshots, attempts, reading, unlinking>>

\* An I/O error, or a missing manifest, ends the collection where it is.
GcFails(p) ==
  /\ pc[p] \in {"gcMark", "gcSweep"}
  /\ \/ spent.faults < MaxFaults /\ Spend("faults")
     \/ pc[p] = "gcMark" /\ ~(Marked \subseteq manifests) /\ UNCHANGED spent
  /\ gcLive' = {}
  /\ Return(p)
  /\ UNCHANGED <<diskVars, walVars, lsnVars, histVars, status, attempts, reading,
                 unlinking>>

-----------------------------------------------------------------------------
(* The process dies, and is started again.                                 *)

LoseMemory ==
  /\ status' = "down"
  /\ currentLsn' = 0 /\ checkpointLsn' = 0 /\ replayPos' = 1
  /\ putLock' = NoOne /\ gcLock' = NoOne /\ opWriter' = NoOne /\ opReaders' = {}
  /\ pc' = [p \in Procs |-> "idle"]
  /\ job' = [p \in Procs |-> NoJob]
  /\ attempts' = 0
  /\ reading' = [p \in Clients |-> {}]
  /\ unlinking' = {}
  /\ gcLive' = {}

\* The process is killed: what it had written stays in the page cache.
Kill ==
  /\ status # "down" /\ spent.crashes < MaxCrashes /\ Spend("crashes")
  /\ LoseMemory
  /\ UNCHANGED <<diskVars, walVars, histVars>>

\* The machine loses power: any part of what was not fsynced may be gone.
PowerLoss ==
  /\ PowerMayFail /\ spent.crashes < MaxCrashes /\ Spend("crashes")
  /\ LoseMemory
  /\ \E S \in SUBSET (stored \ synced) :
       stored' = synced \cup S /\ synced' = synced \cup S
  /\ \E log \in {walLog, walLogSynced} : walLog' = log /\ walLogSynced' = log
  /\ \E m \in {meta, metaSynced} \cup (IF meta # metaSynced THEN {0} ELSE {}) :
       meta' = m /\ metaSynced' = m
  /\ UNCHANGED <<histVars, manifests, objects, names, snapshots>>

\* Wal::open: the checkpoint is read, a torn tail of the log is cut off, and
\* numbering continues after the largest LSN found.
OpenWal ==
  /\ status = "down"
  /\ status' = "opening"
  /\ checkpointLsn' = meta
  /\ \E k \in 0..Len(walLog) : DecodesUpTo(walLog, k)
                               /\ walLog' = SubSeq(walLog, 1, k)
  /\ \E l \in {meta} \cup LsnsOf(walLog') :
       /\ IsMaxOf(l, {meta} \cup LsnsOf(walLog'))
       /\ currentLsn' = l
  /\ replayPos' = 1
  /\ Goto(Opener, "replay")
  /\ UNCHANGED <<diskVars, lockVars, callVars, histVars, job, spent,
                 walLogSynced, meta, metaSynced>>

Unreplayed == {i \in replayPos..Len(walLog) : walLog[i].lsn > checkpointLsn}

\* Mutant: the loop does not move on.
ReplayRecordMutant ==
  /\ pc[Opener] = "replay"
  /\ \E i \in Unreplayed :
       /\ ChunksOf[walLog[i].content] \subseteq stored
       /\ job' = [job EXCEPT ![Opener] = walLog[i]]
  /\ SyncSegments
  /\ Goto(Opener, "manifest")
  /\ UNCHANGED <<walVars, lockVars, callVars, histVars, status, spent, stored,
                 manifests, objects, names, snapshots, lsnVars>>

\* The next record above the checkpoint: segments are synced, and its chunks
\* must all be there.
ReplayRecord ==
  /\ pc[Opener] = "replay"
  /\ \E i \in Unreplayed :
       /\ \A k \in Unreplayed : i <= k
       /\ ChunksOf[walLog[i].content] \subseteq stored
       /\ job' = [job EXCEPT ![Opener] = walLog[i]]
       /\ replayPos' = i + 1
  /\ SyncSegments
  /\ Goto(Opener, "manifest")
  /\ UNCHANGED <<walVars, lockVars, callVars, histVars, status, spent, stored,
                 manifests, objects, names, snapshots, currentLsn, checkpointLsn>>

\* "WAL manifest references missing durable chunk": open returns an error.
OpenFails ==
  /\ pc[Opener] = "replay"
  /\ \E i \in Unreplayed :
       /\ \A k \in Unreplayed : i <= k
       /\ ~(ChunksOf[walLog[i].content] \subseteq stored)
  /\ LoseMemory
  /\ UNCHANGED <<diskVars, walVars, histVars, spent>>

\* All records are applied: they are checkpointed, unless there were none.
FinishReplay ==
  /\ pc[Opener] = "replay" /\ Unreplayed = {}
  /\ IF replayPos = 1
     THEN /\ Goto(Opener, "done")
          /\ UNCHANGED job
     ELSE /\ \E l \in LsnsOf(walLog) :
               /\ IsMaxOf(l, LsnsOf(walLog))
               /\ job' = [job EXCEPT ![Opener].lsn = l]
          /\ Goto(Opener, "checkpoint")
  /\ UNCHANGED <<diskVars, walVars, lsnVars, lockVars, callVars, histVars, status,
                 spent>>

FinishOpen ==
  /\ pc[Opener] = "done"
  /\ status' = "up"
  /\ Goto(Opener, "idle")
  /\ job' = [job EXCEPT ![Opener] = NoJob]
  /\ replayPos' = 1
  /\ UNCHANGED <<diskVars, walVars, lockVars, callVars, histVars, spent,
                 currentLsn, checkpointLsn>>

-----------------------------------------------------------------------------
\* What a thread does once its call has begun.
PutStep(p) ==
  \/ ReadStable(p) \/ SyncAndResolve(p) \/ AppendWal(p) \/ SyncWal(p)
  \/ SaveManifest(p) \/ PutObject(p) \/ BindName(p)
  \/ TruncateMeta(p) \/ WriteMeta(p) \/ SyncMeta(p) \/ TruncateLog(p)
  \/ SyncLog(p) \/ FinishPut(p)

OtherStep(p) ==
  \/ FinishRead(p) \/ DeleteNamedObject(p) \/ FinishDelete(p)
  \/ GcMark(p) \/ GcSweepManifest(p) \/ GcCompact(p)

AcquireStep(p) == PutAcquireOp(p) \/ GcAcquireOp(p)

FailStep(p) == PutFails(p) \/ AppendWalFails(p) \/ GcFails(p) \/ ReadUnstable(p)

CallStep(p) ==
  \/ BeginPut(p) \/ GetFile(p) \/ RestoreSnapshot(p)
  \/ RenameFile(p) \/ PruneFileVersions(p) \/ RollbackFile(p)
  \/ CreateSnapshot(p) \/ DeleteSnapshot(p) \/ UnbindFile(p)
  \/ BeginDelete(p) \/ BeginGc(p)

OpenerStep ==
  \/ OpenWal \/ ReplayRecord \/ OpenFails \/ FinishReplay \/ FinishOpen
  \/ SaveManifest(Opener) \/ PutObject(Opener) \/ BindName(Opener)
  \/ TruncateMeta(Opener) \/ WriteMeta(Opener) \/ SyncMeta(Opener)
  \/ TruncateLog(Opener) \/ SyncLog(Opener)

ClientStep(p) ==
  PutStep(p) \/ OtherStep(p) \/ AcquireStep(p) \/ FailStep(p) \/ CallStep(p)

Next ==
  \/ \E p \in Clients : ClientStep(p)
  \/ OpenerStep
  \/ Kill
  \/ PowerLoss

Spec == Init /\ [][Next]_vars

-----------------------------------------------------------------------------
(* Properties                                                              *)

PutPcs == {"putOp", "done"} \cup PutSteps
Pcs    == {"idle", "reading", "unlink", "gcOp", "gcMark", "gcSweep", "replay"}
            \cup PutPcs

StoreTypeOK ==
  /\ stored \subseteq Chunks /\ synced \subseteq Chunks
  /\ manifests \subseteq Contents
  /\ objects \in [ObjectIds -> ObjectRecord]
  /\ names \in [Names -> 0..MaxObjects]
  /\ snapshots \subseteq Snapshot

WalTypeOK ==
  /\ walLog \in Seq(WalRecord) /\ walLogSynced \in Seq(WalRecord)
  /\ meta \in Nat /\ metaSynced \in Nat
  /\ currentLsn \in Nat /\ checkpointLsn \in Nat /\ replayPos \in Nat \ {0}

ThreadTypeOK ==
  /\ status \in {"down", "opening", "up"}
  /\ putLock \in Clients \cup {NoOne}
  /\ gcLock \in Clients \cup {NoOne}
  /\ opWriter \in Clients \cup {NoOne}
  /\ opReaders \subseteq Clients
  /\ pc \in [Procs -> Pcs]

CallTypeOK ==
  /\ job \in [Procs -> WalPut]
  /\ attempts \in 0..MaxStableReadAttempts
  /\ reading \in [Clients -> SUBSET Contents]
  /\ unlinking \subseteq Names
  /\ gcLive \subseteq Contents

HistoryTypeOK ==
  /\ generated \in 0..MaxObjects
  /\ spent \in [puts : Nat, edits : Nat, crashes : Nat, faults : Nat]
  /\ acked \subseteq Ack
  /\ deleted \subseteq ObjectIds

\* Every variable has the type the code gives it.
TypeOK == StoreTypeOK /\ WalTypeOK /\ ThreadTypeOK /\ CallTypeOK /\ HistoryTypeOK

(* Garbage collection, crashes and failed calls never leave a reference to *)
(* something that is not there: every version of every object and every    *)
(* snapshot entry has its manifest (gc::mark, sweep), and every manifest   *)
(* in the table has all its chunks on durable storage (the sync before the *)
(* WAL append in put_file_named; the order of sweep and compaction).       *)
ReferencesResolve == Marked \subseteq manifests
ManifestsBacked == ChunksOfAll(manifests) \subseteq synced
NoDanglingReferences == ReferencesResolve /\ ManifestsBacked

(* A reader that has resolved a manifest under op_lock finds every chunk of *)
(* it until it is done, whatever collections and deletes wait or run       *)
(* (get_file_version, restore_snapshot, rollback_file).                    *)
ReadersFindChunks ==
  \A p \in Clients : pc[p] = "reading" =>
    /\ reading[p] \subseteq manifests
    /\ ChunksOfAll(reading[p]) \subseteq stored

(* A bound name leads to an object record, so put_file_named never meets   *)
(* its "Name points to non-existing Object" error and list_named_objects   *)
(* drops nothing; and no two names share an object, so deleting one file   *)
(* cannot take the history of another with it (delete_named_object).       *)
NamesResolve ==
  /\ \A n \in Names : names[n] # 0 => Exists(names[n])
  /\ \A m, n \in Names : names[m] # 0 /\ names[m] = names[n] => m = n

(* The history of an object is in the order its versions were written and  *)
(* no number is given twice, through puts, rollbacks, prunes and replays;  *)
(* the last entry, which reads and snapshots take for the latest, is the   *)
(* one latest_version names.                                               *)
VersionsIncreasing ==
  \A o \in ObjectIds :
    LET vs == objects[o].versions IN
    /\ \A i, j \in DOMAIN vs : i < j => vs[i].version < vs[j].version
    /\ vs # << >> => vs[Len(vs)].version = objects[o].latest

(* A version that put_file or rollback_file reported stays, with the       *)
(* content it was written with, until it is pruned or its file deleted: no *)
(* crash, replay, collection or concurrent put loses or replaces it.       *)
AckedVersionsSurvive ==
  \A a \in acked : \E i \in DOMAIN objects[a.oid].versions :
    objects[a.oid].versions[i] = [version |-> a.version, content |-> a.content]

(* A deleted object does not come back: replaying the log after a crash    *)
(* applies the put that was interrupted and never one that was finished    *)
(* (Wal::checkpoint, open_internal).                                       *)
DeletedStaysDeleted == \A o \in deleted : ~Exists(o)

(* Wherever a crash cut a put, a collection or a recovery, the chunks of   *)
(* each record the next open has to replay are there, so it does not fail  *)
(* with "WAL manifest references missing durable chunk" (open_internal).   *)
OpenSucceeds ==
  status # "up" =>
    \A i \in DOMAIN walLog :
      (\A k \in 1..i : walLog[k].lsn # 0) /\ walLog[i].lsn > meta =>
        ChunksOf[walLog[i].content] \subseteq stored

-----------------------------------------------------------------------------
(* A thread that runs goes on (weak fairness); a thread that waits for     *)
(* op_lock is not overtaken for ever (strong fairness: the futex RwLock of *)
(* std admits no new reader while a writer waits); the store is reopened   *)
(* after a crash.  Nobody has to call the engine.                          *)
Fairness ==
  /\ \A p \in Clients : /\ WF_vars(PutStep(p))
                        /\ WF_vars(OtherStep(p))
                        /\ SF_vars(AcquireStep(p))
  /\ WF_vars(OpenerStep)

FairSpec == Spec /\ Fairness

(* A put that has the writer mutex returns, unless the process dies: the   *)
(* lock order put_lock, op_lock (put) and gc_lock, op_lock (gc) has no     *)
(* cycle and no path out of a call keeps a guard.                          *)
PutsReturn == \A p \in Clients : pc[p] \in PutPcs ~> pc[p] = "idle"

(* A collection that waits for running operations gets its turn and ends.  *)
CollectionsReturn ==
  \A p \in Clients : pc[p] \in {"gcOp", "gcMark", "gcSweep"} ~> pc[p] = "idle"

(* However crashes interrupt puts and recoveries, the store is open again  *)
(* in the end, with several records in the log as well: the replay loop    *)
(* and its checkpoint terminate (open_internal).  The exception is a       *)
(* record to be replayed that has lost its chunks: then every open fails   *)
(* (a torn checkpoint.meta, or a put that failed after its record, and a   *)
(* collection); without these OpenSucceeds holds throughout.               *)
StoreComesBack == []<>(status = "up" \/ ~OpenSucceeds)

-----------------------------------------------------------------------------
(* The inductive invariant behind NoDanglingReferences and                 *)
(* ReadersFindChunks.                                                      *)

ReaderPcs == PutSteps \cup {"done", "reading"}
WriterPcs == {"unlink", "gcMark", "gcSweep"}
SyncedPcs == {"wal", "walSync", "manifest", "object", "bind"}
CheckpointPcs == {"checkpoint", "metaWrite", "metaSync", "logTruncate", "logSync",
                  "done"}

\* Who is where in a call holds the lock the call takes; readers and a writer
\* of op_lock exclude each other; only recovery runs while the store opens.
LocksHeld ==
  /\ \A p \in Clients : pc[p] \in ReaderPcs => p \in opReaders
  /\ \A p \in Clients : pc[p] \in WriterPcs => opWriter = p
  /\ opWriter # NoOne => opReaders = {}
  /\ \A p \in Clients : pc[p] # "replay"
  /\ pc[Opener] # "idle" => \A p \in Clients : pc[p] = "idle"
  /\ pc[Opener] \in {"idle", "replay", "manifest", "object", "bind", "checkpoint",
                     "metaWrite", "metaSync", "logTruncate", "logSync", "done"}
  /\ status # "up" => \A p \in Clients : pc[p] = "idle"
  /\ status = "up" => pc[Opener] = "idle"

\* A put knows its object and version from the resolution of its name to its
\* end, a replayed record as long as it is applied.
JobsResolved ==
  \A p \in Procs :
    pc[p] \in (IF p = Opener THEN SyncedPcs ELSE SyncedPcs \cup CheckpointPcs) =>
      job[p] \in WalRecord

\* The chunks of a put are in the store once they were read, durable past the
\* sync, and past save_manifest its manifest is in the table.
JobsBacked ==
  \A p \in Procs :
    /\ pc[p] = "sync" => ChunksOf[job[p].content] \subseteq stored
    /\ pc[p] \in SyncedPcs =>
         ChunksOf[job[p].content] \subseteq synced
    /\ pc[p] = "object" => job[p].content \in manifests

\* From mark to compaction nothing new becomes reachable.
MarkIsExact ==
  \A p \in Clients : pc[p] = "gcSweep" => gcLive = Marked

\* What the theorems prove by induction; every conjunct also holds in the
\* presence of I/O errors and of any number of crashes.
IndInv ==
  /\ TypeOK
  /\ JobsResolved
  /\ LocksHeld
  /\ synced \subseteq stored
  /\ JobsBacked
  /\ MarkIsExact
  /\ NoDanglingReferences
  /\ ReadersFindChunks
=============================================================================
