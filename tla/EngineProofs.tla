---------------------------- MODULE EngineProofs ----------------------------
(***************************************************************************)
(* Proofs about the storage engine: its types, its locks, and that neither *)
(* collections nor crashes nor failed calls leave a dangling reference or  *)
(* take a chunk away from a reader.                                        *)
(*                                                                         *)
(* IndInv (module Engine) is proved inductive in three layers.  TypeInv    *)
(* needs nothing else.  LocksHeld, mutual exclusion, needs TypeInv.  Data  *)
(* is about the store itself and needs both: where it could be disturbed,  *)
(* a lock held elsewhere excludes the step.                                *)
(***************************************************************************)
EXTENDS Engine, SequenceTheorems, TLAPS

TypeInv == TypeOK /\ JobsResolved

DataInv ==
  /\ synced \subseteq stored
  /\ JobsBacked
  /\ MarkIsExact
  /\ NoDanglingReferences
  /\ ReadersFindChunks

-----------------------------------------------------------------------------
(* Helpers                                                                 *)

\* The placeholder of a thread that works on no put is a put.
LEMMA NoJobType == NoJob \in WalPut
BY DataAssumption, BoundAssumption DEF NoJob, WalPut

\* Filling in the fields of a put gives a put, and a record once its object and
\* version are known.
LEMMA JobFields ==
  ASSUME NEW j \in WalPut, NEW o \in ObjectIds, NEW v \in Versions
  PROVE  /\ [j EXCEPT !.oid = o, !.version = v] \in WalRecord
         /\ [j EXCEPT !.oid = o, !.version = v].content = j.content
BY BoundAssumption DEF WalPut, WalRecord, ObjectIds, Versions

LEMMA RecordFields ==
  ASSUME NEW r \in WalRecord, NEW l \in Nat
  PROVE  /\ [r EXCEPT !.lsn = l] \in WalRecord
         /\ [r EXCEPT !.lsn = l].content = r.content
         /\ r \in WalPut
BY BoundAssumption DEF WalPut, WalRecord, ObjectIds, Versions

\* A record of an object stays one when a version is pushed.
LEMMA PushVersionType ==
  ASSUME NEW r \in ObjectRecord, NEW v \in Versions, NEW c \in Contents
  PROVE  /\ PushVersion(r, v, c) \in ObjectRecord
         /\ ContentsOf(PushVersion(r, v, c)) = ContentsOf(r) \cup {c}
<1> DEFINE e == [version |-> v, content |-> c]
           s == Append(r.versions, e)
<1>1. e \in VersionEntry /\ r.versions \in Seq(VersionEntry) /\ v \in 0..MaxVersion
  BY BoundAssumption DEF VersionEntry, ObjectRecord, Versions
<1>2. /\ s \in Seq(VersionEntry)
      /\ Len(s) = Len(r.versions) + 1
      /\ \A i \in 1..Len(r.versions) : s[i] = r.versions[i]
      /\ s[Len(r.versions) + 1] = e
  BY <1>1
<1>3. PushVersion(r, v, c) \in ObjectRecord
  BY <1>1, <1>2 DEF PushVersion, ObjectRecord
<1>4. DOMAIN s = DOMAIN r.versions \cup {Len(r.versions) + 1}
  BY <1>1, <1>2
<1>5. ContentsOf(PushVersion(r, v, c)) = ContentsOf(r) \cup {c}
  BY <1>1, <1>2, <1>4 DEF PushVersion, ContentsOf
<1> QED BY <1>3, <1>5

\* A history from some entry on is a history, and has no content of its own.
LEMMA PruneType ==
  ASSUME NEW r \in ObjectRecord, NEW k \in Nat, k < Len(r.versions)
  PROVE  LET kept == SubSeq(r.versions, Len(r.versions) - k + 1, Len(r.versions))
         IN  /\ [r EXCEPT !.versions = kept] \in ObjectRecord
             /\ ContentsOf([r EXCEPT !.versions = kept]) \subseteq ContentsOf(r)
<1> DEFINE n == Len(r.versions)
           m == n - k + 1
           kept == SubSeq(r.versions, m, n)
<1>1. r.versions \in Seq(VersionEntry) /\ n \in Nat /\ m \in 1..(n + 1)
  BY DEF ObjectRecord
<1>2. \A i \in m..n : r.versions[i] \in VersionEntry
  BY <1>1
<1>3. /\ kept \in Seq(VersionEntry)
      /\ Len(kept) = IF m <= n THEN n - m + 1 ELSE 0
      /\ \A i \in 1..(n - m + 1) : kept[i] = r.versions[m + i - 1]
  <2> HIDE DEF n, m
  <2> QED BY SMTT(30), <1>1, <1>2, SubSeqProperties
<1>4. [r EXCEPT !.versions = kept] \in ObjectRecord
  BY <1>3 DEF ObjectRecord
<1>5. ASSUME NEW i \in DOMAIN kept
      PROVE  \E j \in DOMAIN r.versions : r.versions[j] = kept[i]
  <2> HIDE DEF kept, m, n
  <2>1. i \in 1..(n - m + 1) /\ m + i - 1 \in 1..n
    BY <1>1, <1>3
  <2>2. DOMAIN r.versions = 1..n
    BY <1>1 DEF n
  <2> QED BY <1>3, <2>1, <2>2
<1>6. ContentsOf([r EXCEPT !.versions = kept]) \subseteq ContentsOf(r)
  BY <1>5 DEF ContentsOf, ObjectRecord
<1> QED BY <1>4, <1>6

\* The empty record of an object that was never written, or deleted.
LEMMA NoRecordType == NoRecord \in ObjectRecord /\ ContentsOf(NoRecord) = {}
BY BoundAssumption DEF NoRecord, ObjectRecord, ContentsOf

-----------------------------------------------------------------------------
(* Types                                                                   *)

\* What a returning call does to the locks, the program counter and the job.
LEMMA ReturnType ==
  ASSUME TypeInv, NEW p \in Clients, Return(p)
  PROVE  /\ putLock' \in Clients \cup {NoOne}
         /\ gcLock' \in Clients \cup {NoOne}
         /\ opWriter' \in Clients \cup {NoOne}
         /\ opReaders' \subseteq Clients
         /\ pc' \in [Procs -> Pcs]
         /\ job' \in [Procs -> WalPut]
         /\ JobsResolved'
<1> USE DEF TypeInv, TypeOK, Procs, Goto, Return, ReleaseLocks
<1>1. /\ putLock' \in Clients \cup {NoOne}
      /\ gcLock' \in Clients \cup {NoOne}
      /\ opWriter' \in Clients \cup {NoOne}
      /\ opReaders' \subseteq Clients
      /\ pc' \in [Procs -> Pcs]
  BY DEF ThreadTypeOK, Pcs
<1>2. job' \in [Procs -> WalPut]
  BY NoJobType DEF CallTypeOK
<1>3. JobsResolved'
  BY DEF JobsResolved, ThreadTypeOK, CallTypeOK, SyncedPcs, CheckpointPcs
<1> QED BY <1>1, <1>2, <1>3

\* Using up a bound keeps the counters numbers.
LEMMA SpendType ==
  ASSUME HistoryTypeOK,
         Spend("puts") \/ Spend("edits") \/ Spend("crashes") \/ Spend("faults")
  PROVE  spent' \in [puts : Nat, edits : Nat, crashes : Nat, faults : Nat]
<1> USE DEF HistoryTypeOK, Spend
<1>1. CASE Spend("puts") BY <1>1
<1>2. CASE Spend("edits") BY <1>2
<1>3. CASE Spend("crashes") BY <1>3
<1>4. CASE Spend("faults") BY <1>4
<1> QED BY <1>1, <1>2, <1>3, <1>4

\* The put knows its object and version once its name is resolved.
LEMMA ResolvedJob ==
  ASSUME TypeInv, NEW p \in Clients, SyncAndResolve(p)
  PROVE  \E j \in WalRecord : /\ job' = [job EXCEPT ![p] = j]
                              /\ j.content = job[p].content
                              /\ generated' \in 0..MaxObjects
<1> USE DEF TypeInv, TypeOK, Procs
<1> DEFINE o == names[job[p].name]
<1>1. job[p] \in WalPut /\ o \in 0..MaxObjects
  BY DEF CallTypeOK, StoreTypeOK, WalPut
<1>2. CASE o # 0 /\ Exists(o)
  <2>1. PICK v \in Versions :
          job' = [job EXCEPT ![p] = [@ EXCEPT !.oid = o, !.version = v]]
    BY <1>2 DEF SyncAndResolve
  <2>2. o \in ObjectIds
    BY <1>1, <1>2, BoundAssumption DEF ObjectIds
  <2> DEFINE j == [job[p] EXCEPT !.oid = o, !.version = v]
  <2>3. j \in WalRecord /\ j.content = job[p].content
    <3> HIDE DEF o
    <3> QED BY <1>1, <2>2, JobFields
  <2>4. generated' \in 0..MaxObjects
    BY <1>2 DEF SyncAndResolve, HistoryTypeOK
  <2>5. job' = [job EXCEPT ![p] = j]
    BY <2>1
  <2> HIDE DEF j
  <2> QED BY <2>3, <2>4, <2>5
<1>3. CASE ~(o # 0 /\ Exists(o))
  <2>1. /\ generated < MaxObjects /\ MaxVersion > 0
        /\ generated' = generated + 1
        /\ job' = [job EXCEPT ![p] = [@ EXCEPT !.oid = generated + 1,
                                              !.version = 1]]
    BY <1>3 DEF SyncAndResolve
  <2>2. generated + 1 \in ObjectIds /\ 1 \in Versions
    BY <2>1, BoundAssumption DEF ObjectIds, Versions, HistoryTypeOK
  <2> DEFINE j == [job[p] EXCEPT !.oid = generated + 1, !.version = 1]
  <2>3. j \in WalRecord /\ j.content = job[p].content
    BY <1>1, <2>2, JobFields
  <2>4. generated' \in 0..MaxObjects
    BY <2>1, <2>2, BoundAssumption DEF ObjectIds
  <2>5. job' = [job EXCEPT ![p] = j]
    BY <2>1
  <2> HIDE DEF j
  <2> QED BY <2>3, <2>4, <2>5
<1> QED BY <1>2, <1>3

\* The steps of put_file_named up to the WAL.
LEMMA TypePut ==
  ASSUME TypeInv, NEW p \in Clients,
         BeginPut(p) \/ PutAcquireOp(p) \/ ReadStable(p) \/ ReadUnstable(p)
           \/ SyncAndResolve(p) \/ FinishPut(p) \/ PutFails(p)
  PROVE  TypeInv'
<1> USE DEF TypeInv, TypeOK, Procs, Goto
<1>1. CASE BeginPut(p)
  <2>1. StoreTypeOK' /\ WalTypeOK'
    BY <1>1 DEF BeginPut, StoreTypeOK, WalTypeOK, diskVars, walVars, lsnVars
  <2>2. ThreadTypeOK'
    BY <1>1 DEF BeginPut, ThreadTypeOK, Pcs, PutPcs, PutSteps
  <2>7. HistoryTypeOK'
    BY <1>1, SpendType DEF BeginPut, HistoryTypeOK, histVars
  <2>3. PICK n \in Names, c \in Contents :
          job' = [job EXCEPT ![p] = [NoJob EXCEPT !.name = n, !.content = c]]
    BY <1>1 DEF BeginPut
  <2>4. [NoJob EXCEPT !.name = n, !.content = c] \in WalPut
    BY NoJobType DEF WalPut
  <2>5. CallTypeOK'
    BY <1>1, <2>3, <2>4 DEF BeginPut, CallTypeOK, callVars
  <2>6. JobsResolved'
    BY <1>1, <2>3 DEF BeginPut, JobsResolved, ThreadTypeOK, CallTypeOK, SyncedPcs,
       CheckpointPcs
  <2> QED BY <2>1, <2>2, <2>5, <2>6, <2>7
<1>2. CASE PutAcquireOp(p)
  <2>1. TypeOK'
    BY <1>2 DEF PutAcquireOp, StoreTypeOK, WalTypeOK, ThreadTypeOK, CallTypeOK,
       HistoryTypeOK, diskVars, walVars, lsnVars, histVars, Pcs, PutPcs, PutSteps,
       MaxStableReadAttempts
  <2>2. JobsResolved'
    BY <1>2 DEF PutAcquireOp, JobsResolved, ThreadTypeOK, SyncedPcs, CheckpointPcs
  <2> QED BY <2>1, <2>2
<1>3. CASE ReadStable(p)
  <2>1. job[p].content \in Contents
    BY DEF CallTypeOK, WalPut
  <2>2. TypeOK'
    BY <1>3, <2>1, DataAssumption DEF ReadStable, StoreTypeOK, WalTypeOK,
       ThreadTypeOK, CallTypeOK, HistoryTypeOK, walVars, lsnVars, lockVars,
       callVars, histVars, Pcs, PutPcs, PutSteps
  <2>3. JobsResolved'
    BY <1>3 DEF ReadStable, JobsResolved, ThreadTypeOK, SyncedPcs, CheckpointPcs
  <2> QED BY <2>2, <2>3
<1>4. CASE ReadUnstable(p)
  <2>1. StoreTypeOK' /\ WalTypeOK' /\ HistoryTypeOK'
    BY <1>4 DEF ReadUnstable, StoreTypeOK, WalTypeOK, HistoryTypeOK, walVars,
       lsnVars, histVars
  <2>2. CASE MayRetry
    <3>1. ThreadTypeOK' /\ CallTypeOK'
      BY <1>4, <2>2 DEF ReadUnstable, ThreadTypeOK, CallTypeOK, MayRetry, lockVars,
         MaxStableReadAttempts
    <3>2. JobsResolved'
      BY <1>4, <2>2 DEF ReadUnstable, JobsResolved, SyncedPcs, CheckpointPcs
    <3> QED BY <2>1, <3>1, <3>2
  <2>3. CASE ~MayRetry
    <3>1. Return(p) /\ attempts' = 0
      BY <1>4, <2>3 DEF ReadUnstable
    <3>2. ThreadTypeOK' /\ CallTypeOK' /\ JobsResolved'
      BY <1>4, <3>1, ReturnType DEF ReadUnstable, ThreadTypeOK, CallTypeOK,
         MaxStableReadAttempts
    <3> QED BY <2>1, <3>2
  <2> QED BY <2>2, <2>3
<1>5. CASE SyncAndResolve(p)
  <2>1. PICK j \in WalRecord :
          job' = [job EXCEPT ![p] = j] /\ generated' \in 0..MaxObjects
    BY <1>5, ResolvedJob
  <2>2. StoreTypeOK' /\ WalTypeOK' /\ HistoryTypeOK'
    BY <1>5, <2>1 DEF SyncAndResolve, SyncSegments, StoreTypeOK, WalTypeOK,
       HistoryTypeOK, walVars, lsnVars
  <2>3. ThreadTypeOK' /\ CallTypeOK'
    BY <1>5, <2>1, RecordFields DEF SyncAndResolve, ThreadTypeOK, CallTypeOK,
       lockVars, callVars, Pcs, PutPcs, PutSteps
  <2>4. JobsResolved'
    BY <1>5, <2>1 DEF SyncAndResolve, JobsResolved, ThreadTypeOK, CallTypeOK,
       SyncedPcs, CheckpointPcs
  <2> QED BY <2>2, <2>3, <2>4
<1>6. CASE FinishPut(p)
  <2>1. job[p] \in WalRecord
    BY <1>6, ProcessAssumption DEF FinishPut, JobsResolved, CheckpointPcs
  <2>2. StoreTypeOK' /\ WalTypeOK' /\ HistoryTypeOK'
    BY <1>6, <2>1 DEF FinishPut, StoreTypeOK, WalTypeOK, HistoryTypeOK, diskVars,
       walVars, lsnVars, WalRecord, Ack
  <2>3. ThreadTypeOK' /\ CallTypeOK' /\ JobsResolved'
    BY <1>6, ReturnType DEF FinishPut, ThreadTypeOK, CallTypeOK,
       MaxStableReadAttempts
  <2> QED BY <2>2, <2>3
<1>7. CASE PutFails(p)
  <2>1. StoreTypeOK' /\ WalTypeOK'
    BY <1>7 DEF PutFails, StoreTypeOK, WalTypeOK, diskVars, walVars, lsnVars
  <2>3. HistoryTypeOK'
    BY <1>7, SpendType DEF PutFails, HistoryTypeOK, histVars
  <2>2. ThreadTypeOK' /\ CallTypeOK' /\ JobsResolved'
    BY <1>7, ReturnType DEF PutFails, ThreadTypeOK, CallTypeOK,
       MaxStableReadAttempts
  <2> QED BY <2>1, <2>2, <2>3
<1> QED BY <1>1, <1>2, <1>3, <1>4, <1>5, <1>6, <1>7

\* The WAL, the three transactions and the checkpoint, in a put or in recovery.
LEMMA TypeApply ==
  ASSUME TypeInv, NEW p \in Procs,
         AppendWal(p) \/ SyncWal(p) \/ SaveManifest(p) \/ PutObject(p) \/ BindName(p)
           \/ TruncateMeta(p) \/ WriteMeta(p) \/ SyncMeta(p) \/ TruncateLog(p)
           \/ SyncLog(p)
  PROVE  TypeInv'
<1> USE DEF TypeInv, TypeOK, Goto
<1>a. pc[p] \in SyncedPcs => job[p] \in WalRecord
  BY DEF JobsResolved, SyncedPcs
<1>b. job[p] \in WalPut /\ p \in Procs
  BY DEF CallTypeOK
<1>1. CASE AppendWal(p)
  <2> DEFINE j == [job[p] EXCEPT !.lsn = currentLsn + 1]
  <2>1. j \in WalRecord /\ j \in WalPut
    <3>1. job[p] \in WalRecord /\ currentLsn + 1 \in Nat
      BY <1>1, <1>a DEF AppendWal, SyncedPcs, WalTypeOK
    <3> QED BY <3>1, RecordFields
  <2>2. job' = [job EXCEPT ![p] = j]
    BY <1>1 DEF AppendWal, CallTypeOK
  <2>3. job'[p] = j
    BY <2>2 DEF CallTypeOK
  <2> HIDE DEF j
  <2>4. StoreTypeOK' /\ HistoryTypeOK'
    BY <1>1 DEF AppendWal, StoreTypeOK, HistoryTypeOK, diskVars, histVars
  <2>7. walLog' \in Seq(WalRecord)
    BY SMTT(30), <1>1, <2>1, <2>3 DEF AppendWal, WalTypeOK
  <2>8. WalTypeOK'
    BY <1>1, <2>7 DEF AppendWal, WalTypeOK
  <2>5. ThreadTypeOK' /\ CallTypeOK'
    BY <1>1, <2>1, <2>2 DEF AppendWal, ThreadTypeOK, CallTypeOK, lockVars, callVars,
       Pcs, PutPcs, PutSteps
  <2>6. JobsResolved'
    BY <1>1, <2>1, <2>2 DEF AppendWal, JobsResolved, ThreadTypeOK, CallTypeOK
  <2> QED BY <2>4, <2>5, <2>6, <2>8
<1>2. CASE SyncWal(p)
  <2>1. TypeOK'
    BY <1>2 DEF SyncWal, StoreTypeOK, WalTypeOK, ThreadTypeOK, CallTypeOK,
       HistoryTypeOK, diskVars, lsnVars, lockVars, callVars, histVars, Pcs, PutPcs,
       PutSteps
  <2>2. JobsResolved'
    BY <1>2, <1>a DEF SyncWal, JobsResolved, ThreadTypeOK, SyncedPcs, CheckpointPcs
  <2> QED BY <2>1, <2>2
<1>3. CASE SaveManifest(p)
  <2>1. job[p].content \in Contents
    BY <1>b DEF WalPut
  <2>2. TypeOK'
    BY <1>3, <2>1 DEF SaveManifest, StoreTypeOK, WalTypeOK, ThreadTypeOK, CallTypeOK,
       HistoryTypeOK, walVars, lsnVars, lockVars, callVars, histVars, Pcs, PutPcs,
       PutSteps
  <2>3. JobsResolved'
    BY <1>3, <1>a DEF SaveManifest, JobsResolved, ThreadTypeOK, SyncedPcs,
       CheckpointPcs
  <2> QED BY <2>2, <2>3
<1>4. CASE PutObject(p)
  <2>1. job[p].oid \in ObjectIds /\ job[p].version \in Versions
        /\ job[p].content \in Contents
    BY <1>4, <1>a DEF PutObject, WalRecord, SyncedPcs
  <2>2. PushVersion(objects[job[p].oid], job[p].version, job[p].content)
          \in ObjectRecord
    BY <2>1, PushVersionType DEF StoreTypeOK
  <2>3. objects' \in [ObjectIds -> ObjectRecord]
    BY <1>4, <2>1, <2>2 DEF PutObject, StoreTypeOK
  <2>4. TypeOK'
    BY <1>4, <2>3 DEF PutObject, StoreTypeOK, WalTypeOK, ThreadTypeOK, CallTypeOK,
       HistoryTypeOK, walVars, lsnVars, lockVars, callVars, histVars, Pcs, PutPcs,
       PutSteps
  <2>5. JobsResolved'
    BY <1>4, <1>a DEF PutObject, JobsResolved, ThreadTypeOK, SyncedPcs, CheckpointPcs
  <2> QED BY <2>4, <2>5
<1>5. CASE BindName(p)
  <2>1. job[p].name \in Names /\ job[p].oid \in 0..MaxObjects
    BY <1>b DEF WalPut
  <2>2. TypeOK'
    BY <1>5, <2>1 DEF BindName, StoreTypeOK, WalTypeOK, ThreadTypeOK, CallTypeOK,
       HistoryTypeOK, walVars, lsnVars, lockVars, callVars, histVars, Pcs, PutPcs,
       PutSteps
  <2>3. JobsResolved'
    BY <1>5, <1>a DEF BindName, JobsResolved, ThreadTypeOK, SyncedPcs, CheckpointPcs
  <2> QED BY <2>2, <2>3
<1>6. CASE TruncateMeta(p)
  <2>1. job[p].lsn \in Nat
    BY <1>b DEF WalPut
  <2>2. TypeOK'
    BY <1>6, <2>1 DEF TruncateMeta, StoreTypeOK, WalTypeOK, ThreadTypeOK, CallTypeOK,
       HistoryTypeOK, diskVars, lockVars, callVars, histVars, Pcs, PutPcs, PutSteps
  <2>3. JobsResolved'
    BY <1>6 DEF TruncateMeta, JobsResolved, ThreadTypeOK, SyncedPcs, CheckpointPcs
  <2> QED BY <2>2, <2>3
<1>7. CASE WriteMeta(p)
  <2>1. TypeOK'
    BY <1>7 DEF WriteMeta, StoreTypeOK, WalTypeOK, ThreadTypeOK, CallTypeOK,
       HistoryTypeOK, diskVars, lsnVars, lockVars, callVars, histVars, Pcs, PutPcs,
       PutSteps
  <2>2. JobsResolved'
    BY <1>7 DEF WriteMeta, JobsResolved, ThreadTypeOK, SyncedPcs, CheckpointPcs
  <2> QED BY <2>1, <2>2
<1>8. CASE SyncMeta(p)
  <2>1. TypeOK'
    BY <1>8 DEF SyncMeta, StoreTypeOK, WalTypeOK, ThreadTypeOK, CallTypeOK,
       HistoryTypeOK, diskVars, lsnVars, lockVars, callVars, histVars, Pcs, PutPcs,
       PutSteps
  <2>2. JobsResolved'
    BY <1>8 DEF SyncMeta, JobsResolved, ThreadTypeOK, SyncedPcs, CheckpointPcs
  <2> QED BY <2>1, <2>2
<1>9. CASE TruncateLog(p)
  <2>1. TypeOK'
    BY <1>9 DEF TruncateLog, StoreTypeOK, WalTypeOK, ThreadTypeOK, CallTypeOK,
       HistoryTypeOK, diskVars, lsnVars, lockVars, callVars, histVars, Pcs, PutPcs,
       PutSteps
  <2>2. JobsResolved'
    BY <1>9 DEF TruncateLog, JobsResolved, ThreadTypeOK, SyncedPcs, CheckpointPcs
  <2> QED BY <2>1, <2>2
<1>10. CASE SyncLog(p)
  <2>1. TypeOK'
    BY <1>10 DEF SyncLog, StoreTypeOK, WalTypeOK, ThreadTypeOK, CallTypeOK,
       HistoryTypeOK, diskVars, lsnVars, lockVars, callVars, histVars, Pcs, PutPcs,
       PutSteps
  <2>2. JobsResolved'
    BY <1>10 DEF SyncLog, JobsResolved, ThreadTypeOK, SyncedPcs, CheckpointPcs
  <2> QED BY <2>1, <2>2
<1> QED BY <1>1, <1>2, <1>3, <1>4, <1>5, <1>6, <1>7, <1>8, <1>9, <1>10

\* A record that could not be written completely.
LEMMA TypeAppendFails ==
  ASSUME TypeInv, NEW p \in Clients, AppendWalFails(p)
  PROVE  TypeInv'
<1> USE DEF TypeInv, TypeOK, Procs
<1>1. job[p] \in WalRecord
  BY DEF AppendWalFails, JobsResolved, SyncedPcs
<1>2. Append(walLog, job[p]) \in Seq(WalRecord)
  BY <1>1 DEF WalTypeOK
<1>3. WalTypeOK'
  BY <1>2 DEF AppendWalFails, WalTypeOK
<1>4. StoreTypeOK' /\ HistoryTypeOK'
  BY SpendType DEF AppendWalFails, StoreTypeOK, HistoryTypeOK, diskVars, histVars
<1>5. ThreadTypeOK' /\ CallTypeOK' /\ JobsResolved'
  BY ReturnType DEF AppendWalFails, ThreadTypeOK, CallTypeOK, MaxStableReadAttempts
<1> QED BY <1>3, <1>4, <1>5

\* Reads.
LEMMA TypeRead ==
  ASSUME TypeInv, NEW p \in Clients,
         GetFile(p) \/ RestoreSnapshot(p) \/ FinishRead(p)
  PROVE  TypeInv'
<1> USE DEF TypeInv, TypeOK, Procs
<1>1. ASSUME NEW S \in SUBSET Contents, BeginRead(p, S)
      PROVE  TypeInv'
  <2>1. StoreTypeOK' /\ WalTypeOK' /\ HistoryTypeOK'
    BY <1>1 DEF BeginRead, StoreTypeOK, WalTypeOK, HistoryTypeOK, diskVars, walVars,
       lsnVars, histVars
  <2>2. ThreadTypeOK' /\ CallTypeOK'
    BY <1>1 DEF BeginRead, ThreadTypeOK, CallTypeOK, Goto, Pcs
  <2>3. JobsResolved'
    BY <1>1 DEF BeginRead, JobsResolved, ThreadTypeOK, Goto, SyncedPcs, CheckpointPcs
  <2> QED BY <2>1, <2>2, <2>3
<1>2. CASE GetFile(p)
  BY <1>1, <1>2 DEF GetFile, StoreTypeOK
<1>3. CASE RestoreSnapshot(p)
  <2>1. PICK s \in snapshots : BeginRead(p, {e.content : e \in s.entries})
    BY <1>3 DEF RestoreSnapshot
  <2>2. {e.content : e \in s.entries} \subseteq Contents
    BY DEF StoreTypeOK, Snapshot, SnapshotEntry
  <2> QED BY <1>1, <2>1, <2>2
<1>4. CASE FinishRead(p)
  <2>1. StoreTypeOK' /\ WalTypeOK' /\ HistoryTypeOK'
    BY <1>4 DEF FinishRead, StoreTypeOK, WalTypeOK, HistoryTypeOK, diskVars, walVars,
       lsnVars, histVars
  <2>2. ThreadTypeOK' /\ CallTypeOK' /\ JobsResolved'
    BY <1>4, ReturnType DEF FinishRead, ThreadTypeOK, CallTypeOK
  <2> QED BY <2>1, <2>2
<1> QED BY <1>2, <1>3, <1>4

\* Operations on names and snapshots, one transaction each.
LEMMA TypeNames ==
  ASSUME TypeInv, NEW p \in Clients,
         RenameFile(p) \/ UnbindFile(p) \/ CreateSnapshot(p) \/ DeleteSnapshot(p)
  PROVE  TypeInv'
<1> USE DEF TypeInv, TypeOK
<1>1. /\ UNCHANGED <<walVars, lsnVars, lockVars, callVars, histVars, status, pc, job,
                     stored, synced, manifests, objects>>
      /\ Spend("edits")
  BY DEF RenameFile, UnbindFile, CreateSnapshot, DeleteSnapshot, SpendEdit
<1>2. WalTypeOK' /\ ThreadTypeOK' /\ CallTypeOK' /\ JobsResolved'
  BY <1>1 DEF WalTypeOK, ThreadTypeOK, CallTypeOK, JobsResolved, walVars, lsnVars,
     lockVars, callVars
<1>3. HistoryTypeOK'
  BY <1>1, SpendType DEF HistoryTypeOK, histVars
<1>4. names' \in [Names -> 0..MaxObjects] /\ snapshots' \subseteq Snapshot
  <2>1. CASE RenameFile(p)
    <3>1. PICK old \in Names, new \in Names : names' = Rebind(old, new)
      BY <2>1 DEF RenameFile
    <3>2. names' \in [Names -> 0..MaxObjects]
      BY <3>1, BoundAssumption DEF Rebind, StoreTypeOK
    <3> QED BY <2>1, <3>2 DEF RenameFile, StoreTypeOK
  <2>2. CASE UnbindFile(p)
    BY <2>2, BoundAssumption DEF UnbindFile, StoreTypeOK
  <2>3. CASE DeleteSnapshot(p)
    BY <2>3 DEF DeleteSnapshot, StoreTypeOK
  <2>4. CASE CreateSnapshot(p)
    <3> DEFINE Last(n) == objects[names[n]].versions[Len(objects[names[n]].versions)]
               Taken(n) == names[n] # 0 /\ objects[names[n]].versions # << >>
               Entries == {[name |-> n, oid |-> names[n], version |-> Last(n).version,
                            content |-> Last(n).content] :
                              n \in {m \in Names : Taken(m)}}
    <3>1. PICK l \in Labels :
            snapshots' = snapshots \cup {[label |-> l, entries |-> Entries]}
      BY <2>4 DEF CreateSnapshot
    <3>2. ASSUME NEW n \in Names, Taken(n)
          PROVE  /\ names[n] \in ObjectIds
                 /\ Last(n) \in VersionEntry
      <4>1. names[n] \in ObjectIds
        BY <3>2, BoundAssumption DEF StoreTypeOK, ObjectIds
      <4>2. objects[names[n]].versions \in Seq(VersionEntry)
        BY <4>1 DEF StoreTypeOK, ObjectRecord
      <4>3. Len(objects[names[n]].versions) \in DOMAIN objects[names[n]].versions
        BY <3>2, <4>2
      <4> QED BY <4>1, <4>2, <4>3
    <3>3. Entries \subseteq SnapshotEntry
      <4> HIDE DEF Last, Taken
      <4> QED BY <3>2 DEF VersionEntry, SnapshotEntry
    <3> HIDE DEF Entries
    <3>4. [label |-> l, entries |-> Entries] \in Snapshot
      BY <3>3 DEF Snapshot
    <3>5. names' = names
      BY <2>4 DEF CreateSnapshot
    <3> QED BY <3>1, <3>4, <3>5 DEF StoreTypeOK
  <2> QED BY <2>1, <2>2, <2>3, <2>4
<1>5. StoreTypeOK'
  BY <1>1, <1>4 DEF StoreTypeOK
<1> QED BY <1>2, <1>3, <1>5

\* Pruning a history and rolling it back.
LEMMA TypeHistory ==
  ASSUME TypeInv, NEW p \in Clients, PruneFileVersions(p) \/ RollbackFile(p)
  PROVE  TypeInv'
<1> USE DEF TypeInv, TypeOK
<1>1. CASE PruneFileVersions(p)
  <2>1. PICK n \in Names, keep \in 0..MaxKeep :
          /\ names[n] # 0
          /\ Len(objects[names[n]].versions) > keep
          /\ objects' = [objects EXCEPT ![names[n]].versions =
               SubSeq(objects[names[n]].versions,
                      Len(objects[names[n]].versions) - keep + 1,
                      Len(objects[names[n]].versions))]
          /\ acked' \subseteq acked
    BY <1>1 DEF PruneFileVersions
  <2> DEFINE o == names[n]
             r == objects[o]
             kept == SubSeq(r.versions, Len(r.versions) - keep + 1, Len(r.versions))
  <2>2. o \in ObjectIds /\ keep \in Nat
    BY <2>1, BoundAssumption DEF StoreTypeOK, ObjectIds
  <2>3. r \in ObjectRecord
    BY <2>2 DEF StoreTypeOK
  <2>4. objects' = [objects EXCEPT ![o] = [r EXCEPT !.versions = kept]]
    BY <2>1
  <2>5. [r EXCEPT !.versions = kept] \in ObjectRecord
    <3>1. keep < Len(r.versions)
      BY <2>1, <2>2, <2>3 DEF ObjectRecord
    <3> HIDE DEF r
    <3> QED BY <2>2, <2>3, <3>1, PruneType
  <2> HIDE DEF kept, r
  <2>6. StoreTypeOK'
    BY <1>1, <2>2, <2>4, <2>5 DEF PruneFileVersions, StoreTypeOK
  <2>7. WalTypeOK' /\ ThreadTypeOK' /\ CallTypeOK' /\ JobsResolved'
    BY <1>1 DEF PruneFileVersions, WalTypeOK, ThreadTypeOK, CallTypeOK, JobsResolved,
       walVars, lsnVars, lockVars, callVars
  <2>8. HistoryTypeOK'
    BY <1>1, <2>1, SpendType DEF PruneFileVersions, HistoryTypeOK, SpendEdit
  <2> QED BY <2>6, <2>7, <2>8
<1>2. CASE RollbackFile(p)
  <2>1. PICK n \in Names, v \in Versions, c \in manifests :
          /\ names[n] # 0
          /\ objects' = [objects EXCEPT ![names[n]] =
                           PushVersion(objects[names[n]], v, c)]
          /\ acked' = acked \cup {[oid |-> names[n], version |-> v, content |-> c]}
          /\ reading' = [reading EXCEPT ![p] = {c}]
    BY <1>2 DEF RollbackFile
  <2>2. names[n] \in ObjectIds /\ c \in Contents
    BY <2>1, BoundAssumption DEF StoreTypeOK, ObjectIds
  <2>3. PushVersion(objects[names[n]], v, c) \in ObjectRecord
    BY <2>2, PushVersionType DEF StoreTypeOK
  <2>4. objects' \in [ObjectIds -> ObjectRecord]
    BY <2>1, <2>2, <2>3 DEF StoreTypeOK
  <2>5. StoreTypeOK' /\ WalTypeOK'
    BY <1>2, <2>4 DEF RollbackFile, StoreTypeOK, WalTypeOK, walVars, lsnVars
  <2>6. ThreadTypeOK' /\ CallTypeOK'
    BY <1>2, <2>1, <2>2 DEF RollbackFile, ThreadTypeOK, CallTypeOK, Goto, Pcs, Procs
  <2>7. JobsResolved'
    BY <1>2 DEF RollbackFile, JobsResolved, ThreadTypeOK, Goto, Procs, SyncedPcs,
       CheckpointPcs
  <2>8. acked' \subseteq Ack
    BY <2>1, <2>2 DEF HistoryTypeOK, Ack
  <2>9. HistoryTypeOK'
    BY <1>2, <2>8, SpendType DEF RollbackFile, HistoryTypeOK, SpendEdit
  <2> QED BY <2>5, <2>6, <2>7, <2>9
<1> QED BY <1>1, <1>2

\* delete_file and delete_prefix.
LEMMA TypeDelete ==
  ASSUME TypeInv, NEW p \in Clients,
         BeginDelete(p) \/ DeleteNamedObject(p) \/ FinishDelete(p)
  PROVE  TypeInv'
<1> USE DEF TypeInv, TypeOK, Procs
<1>1. CASE BeginDelete(p)
  <2>1. unlinking' \subseteq Names
    BY <1>1, DataAssumption DEF BeginDelete
  <2>2. StoreTypeOK' /\ WalTypeOK'
    BY <1>1 DEF BeginDelete, StoreTypeOK, WalTypeOK, diskVars, walVars, lsnVars
  <2>3. ThreadTypeOK' /\ CallTypeOK'
    BY <1>1, <2>1 DEF BeginDelete, ThreadTypeOK, CallTypeOK, Goto, Pcs
  <2>4. JobsResolved'
    BY <1>1 DEF BeginDelete, JobsResolved, ThreadTypeOK, Goto, SyncedPcs,
       CheckpointPcs
  <2>5. HistoryTypeOK'
    BY <1>1, SpendType DEF BeginDelete, HistoryTypeOK, SpendEdit, histVars
  <2> QED BY <2>2, <2>3, <2>4, <2>5
<1>2. CASE DeleteNamedObject(p)
  <2>1. PICK n \in unlinking :
          /\ unlinking' = unlinking \ {n}
          /\ names' = [names EXCEPT ![n] = 0]
          /\ IF names[n] = 0 THEN UNCHANGED <<objects, acked, deleted>>
             ELSE /\ objects' = [objects EXCEPT ![names[n]] = NoRecord]
                  /\ acked' = {a \in acked : a.oid # names[n]}
                  /\ deleted' = deleted \cup {names[n]}
    BY <1>2 DEF DeleteNamedObject
  <2>2. n \in Names /\ (names[n] # 0 => names[n] \in ObjectIds)
    BY BoundAssumption DEF CallTypeOK, StoreTypeOK, ObjectIds
  <2>3. StoreTypeOK'
    BY <1>2, <2>1, <2>2, NoRecordType, BoundAssumption
       DEF DeleteNamedObject, StoreTypeOK
  <2>4. WalTypeOK' /\ ThreadTypeOK' /\ CallTypeOK' /\ JobsResolved'
    BY <1>2, <2>1 DEF DeleteNamedObject, WalTypeOK, ThreadTypeOK, CallTypeOK,
       JobsResolved, walVars, lsnVars, lockVars
  <2>5. HistoryTypeOK'
    BY <1>2, <2>1, <2>2 DEF DeleteNamedObject, HistoryTypeOK
  <2> QED BY <2>3, <2>4, <2>5
<1>3. CASE FinishDelete(p)
  <2>1. StoreTypeOK' /\ WalTypeOK' /\ HistoryTypeOK'
    BY <1>3 DEF FinishDelete, StoreTypeOK, WalTypeOK, HistoryTypeOK, diskVars,
       walVars, lsnVars, histVars
  <2>2. ThreadTypeOK' /\ CallTypeOK' /\ JobsResolved'
    BY <1>3, ReturnType DEF FinishDelete, ThreadTypeOK, CallTypeOK, callVars
  <2> QED BY <2>1, <2>2
<1> QED BY <1>1, <1>2, <1>3

\* What mark() reaches, element by element.
LEMMA MarkedMember ==
  ASSUME NEW objs, NEW snaps, NEW c
  PROVE  c \in MarkedIn(objs, snaps) <=>
           \/ \E o \in ObjectIds : c \in ContentsOf(objs[o])
           \/ \E s \in snaps : \E e \in s.entries : c = e.content
<1> DEFINE A == {ContentsOf(objs[o]) : o \in ObjectIds}
           B == {{e.content : e \in s.entries} : s \in snaps}
<1>1. c \in UNION A <=> \E o \in ObjectIds : c \in ContentsOf(objs[o])
  OBVIOUS
<1>2. c \in UNION B <=> \E s \in snaps : c \in {e.content : e \in s.entries}
  OBVIOUS
<1>3. MarkedIn(objs, snaps) = (UNION A) \cup (UNION B)
  BY DEF MarkedIn
<1> HIDE DEF A, B
<1> QED BY <1>1, <1>2, <1>3

\* What mark() collects are contents.
LEMMA MarkedType ==
  ASSUME StoreTypeOK
  PROVE  Marked \subseteq Contents
<1>1. ASSUME NEW o \in ObjectIds, NEW c \in ContentsOf(objects[o])
      PROVE  c \in Contents
  <2>1. objects[o].versions \in Seq(VersionEntry)
    BY DEF StoreTypeOK, ObjectRecord
  <2>2. PICK i \in DOMAIN objects[o].versions : c = objects[o].versions[i].content
    BY <1>1 DEF ContentsOf
  <2>3. objects[o].versions[i] \in VersionEntry
    BY <2>1, <2>2
  <2> QED BY <2>2, <2>3 DEF VersionEntry
<1>2. ASSUME NEW s \in snapshots, NEW e \in s.entries
      PROVE  e.content \in Contents
  BY DEF StoreTypeOK, Snapshot, SnapshotEntry
<1> QED BY <1>1, <1>2, MarkedMember DEF Marked

\* Garbage collection.
LEMMA TypeGc ==
  ASSUME TypeInv, NEW p \in Clients,
         BeginGc(p) \/ GcAcquireOp(p) \/ GcMark(p) \/ GcSweepManifest(p)
           \/ GcCompact(p) \/ GcFails(p)
  PROVE  TypeInv'
<1> USE DEF TypeInv, TypeOK, Procs
<1>1. CASE BeginGc(p)
  <2>1. StoreTypeOK' /\ WalTypeOK' /\ ThreadTypeOK' /\ CallTypeOK'
    BY <1>1 DEF BeginGc, StoreTypeOK, WalTypeOK, ThreadTypeOK, CallTypeOK, diskVars,
       walVars, lsnVars, callVars, Goto, Pcs
  <2>2. HistoryTypeOK'
    BY <1>1, SpendType DEF BeginGc, HistoryTypeOK, SpendEdit, histVars
  <2>3. JobsResolved'
    BY <1>1 DEF BeginGc, JobsResolved, ThreadTypeOK, Goto, SyncedPcs, CheckpointPcs
  <2> QED BY <2>1, <2>2, <2>3
<1>2. CASE GcAcquireOp(p)
  <2>1. TypeOK'
    BY <1>2 DEF GcAcquireOp, StoreTypeOK, WalTypeOK, ThreadTypeOK, CallTypeOK,
       HistoryTypeOK, diskVars, walVars, lsnVars, callVars, histVars, Goto, Pcs
  <2>2. JobsResolved'
    BY <1>2 DEF GcAcquireOp, JobsResolved, ThreadTypeOK, Goto, SyncedPcs,
       CheckpointPcs
  <2> QED BY <2>1, <2>2
<1>3. CASE GcMark(p)
  <2>1. TypeOK'
    BY <1>3, MarkedType DEF GcMark, StoreTypeOK, WalTypeOK, ThreadTypeOK, CallTypeOK,
       HistoryTypeOK, diskVars, walVars, lsnVars, lockVars, histVars, Goto, Pcs
  <2>2. JobsResolved'
    BY <1>3 DEF GcMark, JobsResolved, ThreadTypeOK, Goto, SyncedPcs, CheckpointPcs
  <2> QED BY <2>1, <2>2
<1>4. CASE GcSweepManifest(p)
  BY <1>4 DEF GcSweepManifest, StoreTypeOK, WalTypeOK, ThreadTypeOK, CallTypeOK,
     HistoryTypeOK, JobsResolved, walVars, lsnVars, lockVars, callVars, histVars
<1>5. CASE GcCompact(p)
  <2>1. StoreTypeOK' /\ WalTypeOK' /\ HistoryTypeOK'
    BY <1>5 DEF GcCompact, StoreTypeOK, WalTypeOK, HistoryTypeOK, walVars, lsnVars,
       histVars
  <2>2. ThreadTypeOK' /\ CallTypeOK' /\ JobsResolved'
    BY <1>5, ReturnType DEF GcCompact, ThreadTypeOK, CallTypeOK
  <2> QED BY <2>1, <2>2
<1>6. CASE GcFails(p)
  <2>1. StoreTypeOK' /\ WalTypeOK'
    BY <1>6 DEF GcFails, StoreTypeOK, WalTypeOK, diskVars, walVars, lsnVars
  <2>2. HistoryTypeOK'
    BY <1>6, SpendType DEF GcFails, HistoryTypeOK, histVars
  <2>3. ThreadTypeOK' /\ CallTypeOK' /\ JobsResolved'
    BY <1>6, ReturnType DEF GcFails, ThreadTypeOK, CallTypeOK
  <2> QED BY <2>1, <2>2, <2>3
<1> QED BY <1>1, <1>2, <1>3, <1>4, <1>5, <1>6

\* A process that died holds nothing.
LEMMA LoseMemoryType ==
  ASSUME TypeInv, LoseMemory
  PROVE  /\ ThreadTypeOK' /\ CallTypeOK' /\ JobsResolved'
         /\ currentLsn' = 0 /\ checkpointLsn' = 0 /\ replayPos' = 1
<1>1. ThreadTypeOK'
  BY DEF LoseMemory, ThreadTypeOK, Pcs
<1>2. CallTypeOK'
  BY NoJobType DEF LoseMemory, CallTypeOK, MaxStableReadAttempts
<1>3. JobsResolved'
  BY DEF LoseMemory, JobsResolved, SyncedPcs, CheckpointPcs
<1> QED BY <1>1, <1>2, <1>3 DEF LoseMemory

\* A kill, a power loss, and a recovery that gives up.
LEMMA TypeCrash ==
  ASSUME TypeInv, Kill \/ PowerLoss \/ OpenFails
  PROVE  TypeInv'
<1> USE DEF TypeInv, TypeOK
<1>1. LoseMemory
  BY DEF Kill, PowerLoss, OpenFails
<1>2. HistoryTypeOK'
  BY SpendType DEF Kill, PowerLoss, OpenFails, HistoryTypeOK, histVars
<1>3. StoreTypeOK' /\ WalTypeOK'
  <2>1. CASE Kill \/ OpenFails
    BY <1>1, <2>1, LoseMemoryType DEF Kill, OpenFails, StoreTypeOK, WalTypeOK,
       diskVars, walVars
  <2>2. CASE PowerLoss
    <3>1. StoreTypeOK'
      BY <2>2 DEF PowerLoss, StoreTypeOK
    <3>2. walLog' \in Seq(WalRecord) /\ walLogSynced' \in Seq(WalRecord)
      BY <2>2 DEF PowerLoss, WalTypeOK
    <3>3. meta' \in Nat /\ metaSynced' \in Nat
      BY <2>2 DEF PowerLoss, WalTypeOK
    <3> QED BY <1>1, <3>1, <3>2, <3>3, LoseMemoryType DEF WalTypeOK
  <2> QED BY <2>1, <2>2
<1> QED BY <1>1, <1>2, <1>3, LoseMemoryType

\* The LSNs of a log are numbers.
LEMMA LsnsType ==
  ASSUME NEW log \in Seq(WalRecord)
  PROVE  LsnsOf(log) \subseteq Nat
<1>1. ASSUME NEW i \in DOMAIN log
      PROVE  log[i].lsn \in Nat
  <2>1. log[i] \in WalRecord
    OBVIOUS
  <2> QED BY <2>1 DEF WalRecord
<1> QED BY <1>1 DEF LsnsOf

\* Recovery.
LEMMA TypeOpen ==
  ASSUME TypeInv, OpenWal \/ ReplayRecord \/ FinishReplay \/ FinishOpen
  PROVE  TypeInv'
<1> USE DEF TypeInv, TypeOK, Procs, Goto
<1>1. CASE OpenWal
  <2>1. PICK k \in 0..Len(walLog) : walLog' = SubSeq(walLog, 1, k)
    BY <1>1 DEF OpenWal
  <2>2. walLog' \in Seq(WalRecord)
    <3>1. \A i \in 1..k : walLog[i] \in WalRecord
      BY <2>1 DEF WalTypeOK
    <3> QED BY <2>1, <3>1, SubSeqProperties DEF WalTypeOK
  <2>3. currentLsn' \in Nat
    <3>1. LsnsOf(walLog') \subseteq Nat
      BY <2>2, LsnsType
    <3> QED BY <1>1, <3>1 DEF OpenWal, WalTypeOK
  <2>4. WalTypeOK'
    BY <1>1, <2>2, <2>3 DEF OpenWal, WalTypeOK
  <2>5. StoreTypeOK' /\ HistoryTypeOK' /\ ThreadTypeOK' /\ CallTypeOK'
    BY <1>1 DEF OpenWal, StoreTypeOK, HistoryTypeOK, ThreadTypeOK, CallTypeOK,
       diskVars, lockVars, callVars, histVars, Pcs
  <2>6. JobsResolved'
    BY <1>1 DEF OpenWal, JobsResolved, ThreadTypeOK, SyncedPcs, CheckpointPcs
  <2> QED BY <2>4, <2>5, <2>6
<1>2. CASE ReplayRecord
  <2>1. PICK i \in Unreplayed :
          job' = [job EXCEPT ![Opener] = walLog[i]] /\ replayPos' = i + 1
    BY <1>2 DEF ReplayRecord
  <2>2. i \in 1..Len(walLog)
    BY <2>1 DEF Unreplayed, WalTypeOK
  <2>3. walLog[i] \in WalRecord /\ walLog[i] \in WalPut
    <3>1. walLog[i] \in WalRecord
      BY <2>2 DEF WalTypeOK
    <3>2. walLog[i] \in WalPut
      BY <3>1, RecordFields, 0 \in Nat
    <3> QED BY <3>1, <3>2
  <2>4. StoreTypeOK' /\ HistoryTypeOK'
    BY <1>2 DEF ReplayRecord, SyncSegments, StoreTypeOK, HistoryTypeOK, histVars
  <2>5. WalTypeOK'
    BY <1>2, <2>1, <2>2 DEF ReplayRecord, WalTypeOK, walVars
  <2>6. ThreadTypeOK' /\ CallTypeOK'
    BY <1>2, <2>1, <2>3 DEF ReplayRecord, ThreadTypeOK, CallTypeOK, lockVars,
       callVars, Pcs, PutPcs, PutSteps
  <2>7. JobsResolved'
    BY <1>2, <2>1, <2>3 DEF ReplayRecord, JobsResolved, ThreadTypeOK, CallTypeOK
  <2> QED BY <2>4, <2>5, <2>6, <2>7
<1>3. CASE FinishReplay
  <2>1. StoreTypeOK' /\ WalTypeOK' /\ HistoryTypeOK'
    BY <1>3 DEF FinishReplay, StoreTypeOK, WalTypeOK, HistoryTypeOK, diskVars,
       walVars, lsnVars, histVars
  <2>2. ThreadTypeOK'
    BY <1>3 DEF FinishReplay, ThreadTypeOK, lockVars, Pcs, PutPcs, PutSteps
  <2>3. job' \in [Procs -> WalPut]
    <3>1. CASE replayPos = 1
      BY <1>3, <3>1 DEF FinishReplay, CallTypeOK
    <3>2. CASE replayPos # 1
      <4>1. PICK l \in LsnsOf(walLog) : job' = [job EXCEPT ![Opener].lsn = l]
        BY <1>3, <3>2 DEF FinishReplay
      <4>2. l \in Nat
        BY <4>1, LsnsType DEF WalTypeOK
      <4>3. [job[Opener] EXCEPT !.lsn = l] \in WalPut
        BY <4>2 DEF CallTypeOK, WalPut
      <4> QED BY <4>1, <4>3 DEF CallTypeOK
    <3> QED BY <3>1, <3>2
  <2>4. CallTypeOK'
    BY <1>3, <2>3 DEF FinishReplay, CallTypeOK, callVars
  <2>5. JobsResolved'
    <3>1. ASSUME NEW q \in Procs, q # Opener
          PROVE  pc'[q] = pc[q] /\ job'[q] = job[q]
      BY <1>3, <3>1 DEF FinishReplay, ThreadTypeOK, CallTypeOK
    <3>2. pc'[Opener] \notin SyncedPcs
      BY <1>3 DEF FinishReplay, ThreadTypeOK, SyncedPcs
    <3> QED BY <3>1, <3>2 DEF JobsResolved
  <2> QED BY <2>1, <2>2, <2>4, <2>5
<1>4. CASE FinishOpen
  <2>1. TypeOK'
    BY <1>4, NoJobType DEF FinishOpen, StoreTypeOK, WalTypeOK, ThreadTypeOK,
       CallTypeOK, HistoryTypeOK, diskVars, walVars, lockVars, callVars, histVars,
       Pcs
  <2>2. JobsResolved'
    BY <1>4 DEF FinishOpen, JobsResolved, ThreadTypeOK, CallTypeOK, SyncedPcs,
       CheckpointPcs
  <2> QED BY <2>1, <2>2
<1> QED BY <1>1, <1>2, <1>3, <1>4

LEMMA TypeInit == Init => TypeInv
<1> SUFFICES ASSUME Init PROVE TypeInv
  OBVIOUS
<1> USE DEF Init
<1>1. StoreTypeOK
  BY NoRecordType, BoundAssumption DEF StoreTypeOK
<1>2. WalTypeOK /\ ThreadTypeOK /\ HistoryTypeOK
  BY BoundAssumption DEF WalTypeOK, ThreadTypeOK, HistoryTypeOK, Pcs
<1>3. CallTypeOK
  BY NoJobType DEF CallTypeOK, MaxStableReadAttempts
<1>4. JobsResolved
  BY DEF JobsResolved, SyncedPcs, CheckpointPcs
<1> QED BY <1>1, <1>2, <1>3, <1>4 DEF TypeInv, TypeOK

\* Every step keeps the types.
LEMMA TypeNext == TypeInv /\ [Next]_vars => TypeInv'
<1> SUFFICES ASSUME TypeInv, [Next]_vars PROVE TypeInv'
  OBVIOUS
<1>1. CASE UNCHANGED vars
  BY <1>1 DEF vars, diskVars, walVars, lsnVars, lockVars, callVars, histVars, TypeInv,
     TypeOK, StoreTypeOK, WalTypeOK, ThreadTypeOK, CallTypeOK, HistoryTypeOK,
     JobsResolved
<1>2. ASSUME NEW p \in Clients, ClientStep(p)
      PROVE  TypeInv'
  <2>1. p \in Procs
    BY DEF Procs
  <2>2. CASE PutStep(p)
    BY <2>1, <2>2, TypePut, TypeApply DEF PutStep
  <2>3. CASE OtherStep(p)
    BY <2>3, TypeRead, TypeDelete, TypeGc DEF OtherStep
  <2>4. CASE AcquireStep(p)
    BY <2>4, TypePut, TypeGc DEF AcquireStep
  <2>5. CASE FailStep(p)
    BY <2>5, TypePut, TypeAppendFails, TypeGc DEF FailStep
  <2>6. CASE CallStep(p)
    BY <2>6, TypePut, TypeRead, TypeNames, TypeHistory, TypeDelete, TypeGc
       DEF CallStep
  <2> QED BY <1>2, <2>2, <2>3, <2>4, <2>5, <2>6 DEF ClientStep
<1>3. CASE OpenerStep
  <2>1. Opener \in Procs
    BY DEF Procs
  <2> QED BY <1>3, <2>1, TypeApply, TypeOpen, TypeCrash DEF OpenerStep
<1>4. CASE Kill \/ PowerLoss
  BY <1>4, TypeCrash
<1> QED BY <1>1, <1>2, <1>3, <1>4 DEF Next

\* Every variable of the engine keeps its type, whatever the threads, the crashes
\* and the I/O errors do.
THEOREM TypeCorrect == Spec => []TypeOK
<1>1. Spec => []TypeInv
  BY TypeInit, TypeNext, PTL DEF Spec
<1>2. TypeInv => TypeOK
  BY DEF TypeInv
<1> QED BY <1>1, <1>2, PTL

-----------------------------------------------------------------------------
(* Locks                                                                   *)

\* A client inside a call runs while the store is up.
LEMMA ClientUp ==
  ASSUME LocksHeld, NEW p \in Clients, pc[p] # "idle"
  PROVE  status = "up" /\ pc[Opener] = "idle"
BY DEF LocksHeld

\* The four ways in which a client moves: with the locks it has, or by taking
\* op_lock for reading or for writing, or by releasing everything.
LEMMA LocksClient ==
  ASSUME TypeInv, LocksHeld, NEW p \in Clients, NEW l,
         status = "up", status' = status, pc' = [pc EXCEPT ![p] = l], l # "replay",
         \/ /\ UNCHANGED <<opWriter, opReaders>>
            /\ l \in ReaderPcs => p \in opReaders
            /\ l \in WriterPcs => opWriter = p
         \/ /\ OpReadFree /\ opReaders' = opReaders \cup {p} /\ UNCHANGED opWriter
            /\ l \notin WriterPcs
         \/ /\ OpWriteFree /\ opWriter' = p /\ UNCHANGED opReaders
            /\ l \notin ReaderPcs
         \/ ReleaseLocks(p) /\ l = "idle"
  PROVE  LocksHeld'
<1> USE DEF LocksHeld
<1>1. pc \in [Procs -> Pcs] /\ p \in Procs /\ Opener \in Procs /\ p # Opener
      /\ \A q \in Clients : q \in Procs /\ q # NoOne
  BY ProcessAssumption DEF TypeInv, TypeOK, ThreadTypeOK, Procs
<1>2. /\ pc'[p] = l
      /\ \A q \in Procs \ {p} : pc'[q] = pc[q]
  BY <1>1
<1>3. /\ "idle" \notin ReaderPcs /\ "idle" \notin WriterPcs
      /\ pc'[Opener] = "idle"
  BY <1>1, <1>2 DEF ReaderPcs, WriterPcs, PutSteps
<1>4. \A q \in Clients : pc'[q] \in ReaderPcs => q \in opReaders'
  BY <1>1, <1>2, <1>3 DEF ReleaseLocks
<1>5. \A q \in Clients : pc'[q] \in WriterPcs => opWriter' = q
  BY <1>1, <1>2, <1>3 DEF ReleaseLocks, OpWriteFree
<1>6. opWriter' # NoOne => opReaders' = {}
  BY DEF ReleaseLocks, OpWriteFree, OpReadFree
<1>7. \A q \in Clients : pc'[q] # "replay"
  BY <1>1, <1>2
<1> QED BY <1>3, <1>4, <1>5, <1>6, <1>7

\* Nothing that LocksHeld speaks about changes.
LEMMA LocksSame ==
  ASSUME LocksHeld, UNCHANGED <<opWriter, opReaders, status, pc>>
  PROVE  LocksHeld'
BY DEF LocksHeld

\* Recovery moves, and takes no lock.
LEMMA LocksOpener ==
  ASSUME TypeInv, LocksHeld, NEW l, pc' = [pc EXCEPT ![Opener] = l],
         UNCHANGED <<opWriter, opReaders>>,
         status # "up",
         l \in {"idle", "replay", "manifest", "object", "bind", "checkpoint",
                "metaWrite", "metaSync", "logTruncate", "logSync", "done"},
         status' = "up" => l = "idle"
  PROVE  LocksHeld'
<1>1. pc \in [Procs -> Pcs] /\ Opener \in Procs /\ Opener \notin Clients
      /\ \A q \in Clients : q \in Procs
  BY ProcessAssumption DEF TypeInv, TypeOK, ThreadTypeOK, Procs
<1>2. pc'[Opener] = l /\ \A q \in Clients : pc'[q] = "idle"
  BY <1>1 DEF LocksHeld
<1> QED BY <1>2 DEF LocksHeld, ReaderPcs, WriterPcs, PutSteps

LEMMA LocksInit == Init => LocksHeld
BY DEF Init, LocksHeld, ReaderPcs, WriterPcs, PutSteps, Procs

\* A dead process holds no lock.
LEMMA LocksLost ==
  ASSUME LoseMemory
  PROVE  LocksHeld'
BY DEF LoseMemory, LocksHeld, ReaderPcs, WriterPcs, PutSteps, Procs

\* Steps of a put, from its lock to its return.
LEMMA LocksPut ==
  ASSUME TypeInv, LocksHeld, NEW p \in Clients,
         PutStep(p) \/ AcquireStep(p) \/ FailStep(p)
  PROVE  LocksHeld'
<1>1. /\ status = "up" /\ status' = status
      /\ pc[p] \in ReaderPcs => p \in opReaders
      /\ pc[p] \in WriterPcs => opWriter = p
  <2>1. pc[p] # "idle"
    BY DEF PutStep, AcquireStep, FailStep, ReadStable, SyncAndResolve, AppendWal,
       SyncWal, SaveManifest, PutObject, BindName, TruncateMeta, WriteMeta, SyncMeta,
       TruncateLog, SyncLog, FinishPut, PutAcquireOp, GcAcquireOp, PutFails,
       AppendWalFails, GcFails, ReadUnstable, PutSteps
  <2>2. status' = status
    BY DEF PutStep, AcquireStep, FailStep, ReadStable, SyncAndResolve, AppendWal,
       SyncWal, SaveManifest, PutObject, BindName, TruncateMeta, WriteMeta, SyncMeta,
       TruncateLog, SyncLog, FinishPut, PutAcquireOp, GcAcquireOp, PutFails,
       AppendWalFails, GcFails, ReadUnstable
  <2> QED BY <2>1, <2>2, ClientUp DEF LocksHeld
<1>2. CASE PutStep(p) /\ ~FinishPut(p)
  <2>1. PICK l \in PutSteps \cup {"done"} : pc' = [pc EXCEPT ![p] = l]
    BY <1>2, ProcessAssumption DEF PutStep, ReadStable, SyncAndResolve, AppendWal,
       SyncWal, SaveManifest, PutObject, BindName, TruncateMeta, WriteMeta, SyncMeta,
       TruncateLog, SyncLog, Goto, PutSteps
  <2>2. UNCHANGED <<opWriter, opReaders>>
    BY <1>2 DEF PutStep, ReadStable, SyncAndResolve, AppendWal,
       SyncWal, SaveManifest, PutObject, BindName, TruncateMeta, WriteMeta, SyncMeta,
       TruncateLog, SyncLog, lockVars
  <2>3. pc[p] \in ReaderPcs
    BY <1>2 DEF PutStep, ReadStable, SyncAndResolve, AppendWal,
       SyncWal, SaveManifest, PutObject, BindName, TruncateMeta, WriteMeta, SyncMeta,
       TruncateLog, SyncLog, ReaderPcs, PutSteps
  <2>4. l # "replay" /\ l \notin WriterPcs
    BY <2>1 DEF PutSteps, WriterPcs
  <2> QED BY <1>1, <2>1, <2>2, <2>3, <2>4, LocksClient
<1>3. CASE FinishPut(p) \/ PutFails(p) \/ AppendWalFails(p) \/ GcFails(p)
  <2>1. ReleaseLocks(p) /\ pc' = [pc EXCEPT ![p] = "idle"]
    BY <1>3 DEF FinishPut, PutFails, AppendWalFails, GcFails, Return, Goto
  <2> QED BY <1>1, <2>1, LocksClient
<1>4. CASE ReadUnstable(p)
  <2>1. CASE MayRetry
    BY <1>1, <1>4, <2>1, LocksSame DEF ReadUnstable, lockVars
  <2>2. CASE ~MayRetry
    <3>1. ReleaseLocks(p) /\ pc' = [pc EXCEPT ![p] = "idle"]
      BY <1>4, <2>2 DEF ReadUnstable, Return, Goto
    <3> QED BY <1>1, <3>1, LocksClient
  <2> QED BY <2>1, <2>2
<1>5. CASE PutAcquireOp(p)
  <2>1. /\ OpReadFree /\ opReaders' = opReaders \cup {p} /\ UNCHANGED opWriter
        /\ pc' = [pc EXCEPT ![p] = "read"]
    BY <1>5 DEF PutAcquireOp, Goto
  <2>2. "read" \notin WriterPcs
    BY DEF WriterPcs
  <2> QED BY <1>1, <2>1, <2>2, LocksClient
<1>6. CASE GcAcquireOp(p)
  <2>1. /\ OpWriteFree /\ opWriter' = p /\ UNCHANGED opReaders
        /\ pc' = [pc EXCEPT ![p] = "gcMark"]
    BY <1>6 DEF GcAcquireOp, Goto
  <2>2. "gcMark" \notin ReaderPcs
    BY DEF ReaderPcs, PutSteps
  <2> QED BY <1>1, <2>1, <2>2, LocksClient
<1> QED BY <1>2, <1>3, <1>4, <1>5, <1>6 DEF AcquireStep, FailStep

\* Reads, deletes and collections, once they run.
LEMMA LocksOther ==
  ASSUME TypeInv, LocksHeld, NEW p \in Clients, OtherStep(p)
  PROVE  LocksHeld'
<1>1. pc[p] # "idle" /\ status' = status
  BY DEF OtherStep, FinishRead, DeleteNamedObject, FinishDelete, GcMark,
     GcSweepManifest, GcCompact
<1>2. status = "up" /\ (pc[p] \in WriterPcs => opWriter = p)
  BY <1>1, ClientUp DEF LocksHeld
<1>3. CASE FinishRead(p) \/ FinishDelete(p) \/ GcCompact(p)
  <2>1. ReleaseLocks(p) /\ pc' = [pc EXCEPT ![p] = "idle"]
    BY <1>3 DEF FinishRead, FinishDelete, GcCompact, Return, Goto
  <2> QED BY <1>1, <1>2, <2>1, LocksClient
<1>4. CASE DeleteNamedObject(p) \/ GcSweepManifest(p)
  BY <1>4, LocksSame DEF DeleteNamedObject, GcSweepManifest, lockVars
<1>5. CASE GcMark(p)
  <2>1. /\ UNCHANGED <<opWriter, opReaders>> /\ pc' = [pc EXCEPT ![p] = "gcSweep"]
        /\ opWriter = p /\ "gcSweep" \notin ReaderPcs
    BY <1>2, <1>5 DEF GcMark, lockVars, Goto, ReaderPcs, WriterPcs, PutSteps
  <2> QED BY <1>1, <1>2, <2>1, LocksClient
<1> QED BY <1>3, <1>4, <1>5 DEF OtherStep

\* New calls.
LEMMA LocksCall ==
  ASSUME TypeInv, LocksHeld, NEW p \in Clients, CallStep(p)
  PROVE  LocksHeld'
<1>1. CASE RenameFile(p) \/ PruneFileVersions(p) \/ CreateSnapshot(p)
             \/ DeleteSnapshot(p) \/ UnbindFile(p)
  BY <1>1, LocksSame DEF RenameFile, PruneFileVersions, CreateSnapshot,
     DeleteSnapshot, UnbindFile, lockVars
<1>2. CASE BeginPut(p)
  <2>1. /\ status = "up" /\ status' = status /\ UNCHANGED <<opWriter, opReaders>>
        /\ pc' = [pc EXCEPT ![p] = "putOp"]
        /\ "putOp" \notin ReaderPcs /\ "putOp" \notin WriterPcs
    BY <1>2 DEF BeginPut, Idle, Goto, ReaderPcs, WriterPcs, PutSteps
  <2> QED BY <2>1, LocksClient
<1>3. CASE GetFile(p) \/ RestoreSnapshot(p) \/ RollbackFile(p)
  <2>1. /\ status = "up" /\ status' = status
        /\ OpReadFree /\ opReaders' = opReaders \cup {p} /\ UNCHANGED opWriter
        /\ pc' = [pc EXCEPT ![p] = "reading"]
    BY <1>3 DEF GetFile, RestoreSnapshot, RollbackFile, BeginRead, MayEditShared,
       Idle, Goto
  <2>2. "reading" \notin WriterPcs
    BY DEF WriterPcs
  <2> QED BY <2>1, <2>2, LocksClient
<1>4. CASE BeginDelete(p)
  <2>1. /\ status = "up" /\ status' = status
        /\ OpWriteFree /\ opWriter' = p /\ UNCHANGED opReaders
        /\ pc' = [pc EXCEPT ![p] = "unlink"]
        /\ "unlink" \notin ReaderPcs
    BY <1>4 DEF BeginDelete, MayEditAlone, Idle, Goto, ReaderPcs, PutSteps
  <2> QED BY <2>1, LocksClient
<1>5. CASE BeginGc(p)
  <2>1. /\ status = "up" /\ status' = status /\ UNCHANGED <<opWriter, opReaders>>
        /\ pc' = [pc EXCEPT ![p] = "gcOp"]
        /\ "gcOp" \notin ReaderPcs /\ "gcOp" \notin WriterPcs
    BY <1>5 DEF BeginGc, Idle, Goto, ReaderPcs, WriterPcs, PutSteps
  <2> QED BY <2>1, LocksClient
<1> QED BY <1>1, <1>2, <1>3, <1>4, <1>5 DEF CallStep

\* Every step keeps the locks.
LEMMA LocksNext == TypeInv /\ LocksHeld /\ [Next]_vars => LocksHeld'
<1> SUFFICES ASSUME TypeInv, LocksHeld, [Next]_vars PROVE LocksHeld'
  OBVIOUS
<1>1. CASE UNCHANGED vars
  BY <1>1, LocksSame DEF vars, lockVars
<1>2. ASSUME NEW p \in Clients, ClientStep(p)
      PROVE  LocksHeld'
  BY <1>2, LocksPut, LocksOther, LocksCall DEF ClientStep
<1>3. CASE Kill \/ PowerLoss \/ OpenFails
  BY <1>3, LocksLost DEF Kill, PowerLoss, OpenFails
<1>4. CASE OpenerStep /\ ~OpenFails
  <2>1. /\ UNCHANGED <<opWriter, opReaders>>
        /\ status # "up"
    BY <1>4 DEF OpenerStep, OpenWal, ReplayRecord, FinishReplay, FinishOpen,
       SaveManifest, PutObject, BindName, TruncateMeta, WriteMeta, SyncMeta,
       TruncateLog, SyncLog, lockVars, LocksHeld
  <2>2. PICK l \in {"idle", "replay", "manifest", "object", "bind", "checkpoint",
                    "metaWrite", "metaSync", "logTruncate", "logSync", "done"} :
          pc' = [pc EXCEPT ![Opener] = l] /\ (status' = "up" => l = "idle")
    BY <1>4, <2>1 DEF OpenerStep, OpenWal, ReplayRecord, FinishReplay, FinishOpen,
       SaveManifest, PutObject, BindName, TruncateMeta, WriteMeta, SyncMeta,
       TruncateLog, SyncLog, Goto
  <2> QED BY <2>1, <2>2, LocksOpener
<1> QED BY <1>1, <1>2, <1>3, <1>4 DEF Next, OpenerStep

-----------------------------------------------------------------------------
(* The store                                                               *)

\* The chunks of a set of contents, element by element, and monotone.
LEMMA ChunksOfAllFacts ==
  /\ \A S, x : x \in ChunksOfAll(S) <=> \E c \in S : x \in ChunksOf[c]
  /\ \A S, T : S \subseteq T => ChunksOfAll(S) \subseteq ChunksOfAll(T)
<1>1. \A S, x : x \in ChunksOfAll(S) <=> \E c \in S : x \in ChunksOf[c]
  BY DEF ChunksOfAll
<1> QED BY <1>1

\* Readers of op_lock, its writer and recovery exclude each other.
LEMMA Exclusion ==
  ASSUME TypeInv, LocksHeld
  PROVE  /\ opWriter = NoOne => \A q \in Clients : pc[q] \notin WriterPcs
         /\ \A p, q \in Clients :
              pc[p] \in ReaderPcs => pc[q] \notin WriterPcs
         /\ \A p, q \in Clients :
              pc[p] \in WriterPcs /\ q # p => pc[q] \notin WriterPcs
         /\ \A p \in Clients : pc[p] # "idle" => pc[Opener] = "idle"
<1>1. NoOne \notin Clients
  BY ProcessAssumption
<1> QED BY <1>1 DEF LocksHeld

\* A step of p that takes nothing away: only p's own claims, the marks and the
\* references are left to look at.
LEMMA DataGrow ==
  ASSUME TypeInv, DataInv, NEW p \in Procs, NEW l, pc' = [pc EXCEPT ![p] = l],
         \A q \in Procs \ {p} : job'[q] = job[q],
         \A q \in Clients \ {p} : reading'[q] = reading[q],
         stored \subseteq stored', synced \subseteq synced', synced' \subseteq stored',
         manifests \subseteq manifests', NoDanglingReferences',
         l = "sync" => ChunksOf[job'[p].content] \subseteq stored',
         l \in SyncedPcs => ChunksOf[job'[p].content] \subseteq synced',
         l = "object" => job'[p].content \in manifests',
         l = "reading" => /\ reading'[p] \subseteq manifests'
                          /\ ChunksOfAll(reading'[p]) \subseteq stored',
         l = "gcSweep" => gcLive' = Marked',
         \/ UNCHANGED <<gcLive, objects, snapshots>>
         \/ \A q \in Clients \ {p} : pc[q] # "gcSweep"
  PROVE  DataInv'
<1>1. /\ pc'[p] = l
      /\ \A q \in Procs \ {p} : pc'[q] = pc[q]
      /\ \A q \in Clients \ {p} : q \in Procs /\ pc'[q] = pc[q]
  BY DEF TypeInv, TypeOK, ThreadTypeOK, Procs
<1>2. JobsBacked'
  <2> SUFFICES ASSUME NEW q \in Procs
               PROVE  /\ pc'[q] = "sync" => ChunksOf[job'[q].content] \subseteq stored'
                      /\ pc'[q] \in SyncedPcs =>
                           ChunksOf[job'[q].content] \subseteq synced'
                      /\ pc'[q] = "object" => job'[q].content \in manifests'
    BY DEF JobsBacked, SyncedPcs
  <2>1. CASE q = p
    BY <1>1, <2>1
  <2>2. CASE q # p
    <3>1. pc'[q] = pc[q] /\ job'[q] = job[q]
      BY <1>1, <2>2
    <3>2. /\ pc[q] = "sync" => ChunksOf[job[q].content] \subseteq stored
          /\ pc[q] \in SyncedPcs => ChunksOf[job[q].content] \subseteq synced
          /\ pc[q] = "object" => job[q].content \in manifests
      BY DEF DataInv, JobsBacked
    <3> QED BY <3>1, <3>2
  <2> QED BY <2>1, <2>2
<1>3. MarkIsExact'
  BY <1>1 DEF DataInv, MarkIsExact, Marked
<1>4. ReadersFindChunks'
  <2> SUFFICES ASSUME NEW q \in Clients, pc'[q] = "reading"
               PROVE  /\ reading'[q] \subseteq manifests'
                      /\ ChunksOfAll(reading'[q]) \subseteq stored'
    BY DEF ReadersFindChunks, ChunksOfAll
  <2>1. CASE q = p
    BY <1>1, <2>1
  <2>2. CASE q # p
    <3>1. pc[q] = "reading" /\ reading'[q] = reading[q]
      BY <1>1, <2>2
    <3>2. /\ reading[q] \subseteq manifests
          /\ ChunksOfAll(reading[q]) \subseteq stored
      BY <3>1 DEF DataInv, ReadersFindChunks
    <3> QED BY <3>1, <3>2
  <2> QED BY <2>1, <2>2
<1> QED BY <1>2, <1>3, <1>4 DEF DataInv

\* The references do not change with what they rest on.
LEMMA RefsSame ==
  ASSUME NoDanglingReferences, UNCHANGED <<manifests, objects, snapshots>>,
         synced \subseteq synced'
  PROVE  NoDanglingReferences'
<1>1. ReferencesResolve'
  BY DEF NoDanglingReferences, ReferencesResolve, Marked
<1>2. ManifestsBacked'
  BY DEF NoDanglingReferences, ManifestsBacked, ChunksOfAll
<1> QED BY <1>1, <1>2 DEF NoDanglingReferences

\* A step of p that leaves the store alone and claims nothing new.
LEMMA DataQuiet ==
  ASSUME TypeInv, DataInv, NEW p \in Procs, NEW l, pc' = [pc EXCEPT ![p] = l],
         \A q \in Procs \ {p} : job'[q] = job[q],
         \A q \in Clients \ {p} : reading'[q] = reading[q],
         UNCHANGED <<stored, synced, manifests, objects, snapshots>>,
         l \notin {"sync", "object", "reading", "gcSweep"},
         l \in SyncedPcs => /\ pc[p] \in SyncedPcs
                            /\ job'[p].content = job[p].content,
         \/ UNCHANGED gcLive
         \/ \A q \in Clients \ {p} : pc[q] # "gcSweep"
  PROVE  DataInv'
<1>1. NoDanglingReferences'
  BY RefsSame DEF DataInv
<1>2. l \in SyncedPcs => ChunksOf[job'[p].content] \subseteq synced'
  BY DEF DataInv, JobsBacked
<1>3. synced' \subseteq stored'
  BY DEF DataInv
<1> QED BY <1>1, <1>2, <1>3, DataGrow

\* Calls that begin or end, and wait.
LEMMA DataCalls ==
  ASSUME TypeInv, LocksHeld, DataInv, NEW p \in Clients,
         BeginPut(p) \/ PutAcquireOp(p) \/ FinishPut(p) \/ PutFails(p)
           \/ AppendWalFails(p) \/ FinishRead(p) \/ BeginDelete(p) \/ FinishDelete(p)
           \/ BeginGc(p) \/ GcAcquireOp(p) \/ GcFails(p)
  PROVE  DataInv'
<1>1. p \in Procs /\ Clients \subseteq Procs
  BY DEF Procs
<1>2. \A q \in Procs \ {p} : job'[q] = job[q]
  BY DEF BeginPut, PutAcquireOp, FinishPut, PutFails, AppendWalFails, FinishRead,
     BeginDelete, FinishDelete, BeginGc, GcAcquireOp, GcFails, Return, TypeInv,
     TypeOK, CallTypeOK
<1>3. \A q \in Clients \ {p} : reading'[q] = reading[q]
  BY DEF BeginPut, PutAcquireOp, FinishPut, PutFails, AppendWalFails, FinishRead,
     BeginDelete, FinishDelete, BeginGc, GcAcquireOp, GcFails, callVars, TypeInv,
     TypeOK, CallTypeOK
<1>4. UNCHANGED <<stored, synced, manifests, objects, snapshots>>
  BY DEF BeginPut, PutAcquireOp, FinishPut, PutFails, AppendWalFails, FinishRead,
     BeginDelete, FinishDelete, BeginGc, GcAcquireOp, GcFails, diskVars
<1>5. PICK l \in {"idle", "putOp", "read", "unlink", "gcOp", "gcMark"} :
        pc' = [pc EXCEPT ![p] = l]
  BY DEF BeginPut, PutAcquireOp, FinishPut, PutFails, AppendWalFails, FinishRead,
     BeginDelete, FinishDelete, BeginGc, GcAcquireOp, GcFails, Return, Goto
<1>6. l \notin {"sync", "object", "reading", "gcSweep"} /\ l \notin SyncedPcs
  BY DEF SyncedPcs
<1>7. \/ UNCHANGED gcLive
      \/ \A q \in Clients \ {p} : pc[q] # "gcSweep"
  <2>1. CASE GcFails(p)
    BY <2>1, Exclusion DEF GcFails, WriterPcs
  <2>2. CASE ~GcFails(p)
    BY <2>2 DEF BeginPut, PutAcquireOp, FinishPut, PutFails, AppendWalFails,
       FinishRead, BeginDelete, FinishDelete, BeginGc, GcAcquireOp, callVars
  <2> QED BY <2>1, <2>2
<1> QED BY <1>1, <1>2, <1>3, <1>4, <1>5, <1>6, <1>7, DataQuiet

\* The log and the checkpoint, in a put or in recovery.
LEMMA DataLog ==
  ASSUME TypeInv, LocksHeld, DataInv, NEW p \in Procs,
         AppendWal(p) \/ SyncWal(p) \/ BindName(p) \/ TruncateMeta(p) \/ WriteMeta(p)
           \/ SyncMeta(p) \/ TruncateLog(p) \/ SyncLog(p)
  PROVE  DataInv'
<1>1. UNCHANGED <<stored, synced, manifests, objects, snapshots, reading, gcLive>>
  BY DEF AppendWal, SyncWal, BindName, TruncateMeta, WriteMeta, SyncMeta,
     TruncateLog, SyncLog, diskVars, callVars
<1>2. \A q \in Procs \ {p} : job'[q] = job[q]
  BY DEF AppendWal, SyncWal, BindName, TruncateMeta, WriteMeta, SyncMeta,
     TruncateLog, SyncLog, TypeInv, TypeOK, CallTypeOK
<1>3. job'[p].content = job[p].content
  <2>1. CASE AppendWal(p)
    BY <2>1 DEF AppendWal, TypeInv, TypeOK, CallTypeOK, WalPut
  <2>2. CASE ~AppendWal(p)
    BY <2>2 DEF SyncWal, BindName, TruncateMeta, WriteMeta, SyncMeta, TruncateLog,
       SyncLog
  <2> QED BY <2>1, <2>2
<1>4. PICK l \in {"walSync", "manifest", "replay"} \cup CheckpointPcs :
        pc' = [pc EXCEPT ![p] = l] /\ (l \in SyncedPcs => pc[p] \in SyncedPcs)
  BY DEF AppendWal, SyncWal, BindName, TruncateMeta, WriteMeta, SyncMeta,
     TruncateLog, SyncLog, Goto, CheckpointPcs, SyncedPcs
<1>5. l \notin {"sync", "object", "reading", "gcSweep"}
  BY <1>4 DEF CheckpointPcs
<1> QED BY <1>1, <1>2, <1>3, <1>4, <1>5, DataQuiet

\* The steps of recovery that leave the store alone.
LEMMA DataOpen ==
  ASSUME TypeInv, LocksHeld, DataInv, OpenWal \/ FinishReplay \/ FinishOpen
  PROVE  DataInv'
<1>1. Opener \in Procs
  BY DEF Procs
<1>2. UNCHANGED <<stored, synced, manifests, objects, snapshots, reading, gcLive>>
  BY DEF OpenWal, FinishReplay, FinishOpen, diskVars, callVars
<1>3. \A q \in Procs \ {Opener} : job'[q] = job[q]
  BY DEF OpenWal, FinishReplay, FinishOpen, TypeInv, TypeOK, CallTypeOK
<1>4. PICK l \in {"replay", "checkpoint", "done", "idle"} :
        pc' = [pc EXCEPT ![Opener] = l]
  BY DEF OpenWal, FinishReplay, FinishOpen, Goto
<1>5. l \notin {"sync", "object", "reading", "gcSweep"} /\ l \notin SyncedPcs
  BY <1>4 DEF SyncedPcs
<1> QED BY <1>1, <1>2, <1>3, <1>4, <1>5, DataQuiet

\* Chunks are stored, and synced before the WAL record or the replay of one.
LEMMA DataChunks ==
  ASSUME TypeInv, LocksHeld, DataInv, NEW p \in Clients,
         ReadStable(p) \/ ReadUnstable(p) \/ SyncAndResolve(p)
  PROVE  DataInv'
<1>1. p \in Procs
  BY DEF Procs
<1>2. CASE ReadStable(p)
  <2>1. /\ stored' = stored \cup ChunksOf[job[p].content]
        /\ pc' = [pc EXCEPT ![p] = "sync"]
        /\ UNCHANGED <<synced, manifests, objects, snapshots, job, reading, gcLive>>
    BY <1>2 DEF ReadStable, Goto, callVars
  <2>2. NoDanglingReferences'
    BY <2>1, RefsSame DEF DataInv
  <2>3. "sync" \notin SyncedPcs /\ synced' \subseteq stored'
    BY <2>1 DEF SyncedPcs, DataInv
  <2> QED BY <1>1, <2>1, <2>2, <2>3, DataGrow
<1>3. CASE ReadUnstable(p)
  <2>1. /\ stored \subseteq stored'
        /\ UNCHANGED <<synced, manifests, objects, snapshots, reading, gcLive>>
    BY <1>3 DEF ReadUnstable
  <2>2. NoDanglingReferences'
    BY <2>1, RefsSame DEF DataInv
  <2>3. synced' \subseteq stored'
    BY <2>1 DEF DataInv
  <2>4. PICK l \in {"read", "idle"} : pc' = [pc EXCEPT ![p] = l]
    <3>1. CASE MayRetry
      <4>1. pc' = [pc EXCEPT ![p] = "read"]
        BY <1>1, <1>3, <3>1 DEF ReadUnstable, TypeInv, TypeOK, ThreadTypeOK
      <4> QED BY <4>1
    <3>2. CASE ~MayRetry
      BY <1>3, <3>2 DEF ReadUnstable, Return, Goto
    <3> QED BY <3>1, <3>2
  <2>5. \A q \in Procs \ {p} : job'[q] = job[q]
    BY <1>3 DEF ReadUnstable, Return, TypeInv, TypeOK, CallTypeOK
  <2>6. l \notin {"sync", "object", "reading", "gcSweep"} /\ l \notin SyncedPcs
    BY <2>4 DEF SyncedPcs
  <2> QED BY <1>1, <2>1, <2>2, <2>3, <2>4, <2>5, <2>6, DataGrow
<1>4. CASE SyncAndResolve(p)
  <2>1. PICK j \in WalRecord :
          job' = [job EXCEPT ![p] = j] /\ j.content = job[p].content
    BY <1>4, ResolvedJob
  <2>2. /\ synced' = stored /\ stored' = stored
        /\ pc' = [pc EXCEPT ![p] = "wal"]
        /\ UNCHANGED <<manifests, objects, snapshots, reading, gcLive>>
    BY <1>4 DEF SyncAndResolve, SyncSegments, Goto, callVars
  <2>3. synced \subseteq synced'
    BY <2>2 DEF DataInv
  <2>4. NoDanglingReferences'
    BY <2>2, <2>3, RefsSame DEF DataInv
  <2>5. job'[p] = j /\ \A q \in Procs \ {p} : job'[q] = job[q]
    BY <1>1, <2>1 DEF TypeInv, TypeOK, CallTypeOK
  <2>6. ChunksOf[job'[p].content] \subseteq synced'
    BY <1>1, <1>4, <2>1, <2>2, <2>5 DEF SyncAndResolve, DataInv, JobsBacked
  <2> QED BY <1>1, <2>2, <2>3, <2>4, <2>5, <2>6, DataGrow
<1> QED BY <1>2, <1>3, <1>4

LEMMA DataReplay ==
  ASSUME TypeInv, LocksHeld, DataInv, ReplayRecord
  PROVE  DataInv'
<1>1. Opener \in Procs
  BY DEF Procs
<1>2. PICK i \in Unreplayed : /\ ChunksOf[walLog[i].content] \subseteq stored
                              /\ job' = [job EXCEPT ![Opener] = walLog[i]]
  BY DEF ReplayRecord
<1>3. /\ synced' = stored /\ stored' = stored
      /\ pc' = [pc EXCEPT ![Opener] = "manifest"]
      /\ UNCHANGED <<manifests, objects, snapshots, reading, gcLive>>
  BY DEF ReplayRecord, SyncSegments, Goto, callVars
<1>4. synced \subseteq synced'
  BY <1>3 DEF DataInv
<1>5. NoDanglingReferences'
  BY <1>3, <1>4, RefsSame DEF DataInv
<1>6. job'[Opener] = walLog[i] /\ \A q \in Procs \ {Opener} : job'[q] = job[q]
  BY <1>1, <1>2 DEF TypeInv, TypeOK, CallTypeOK
<1> QED BY <1>1, <1>2, <1>3, <1>4, <1>5, <1>6, DataGrow

\* While somebody holds op_lock, or recovery runs, nobody else is between mark
\* and compaction.
LEMMA NoOtherSweep ==
  ASSUME TypeInv, LocksHeld, NEW p \in Procs,
         \/ opWriter = NoOne
         \/ p \in Clients /\ pc[p] \in ReaderPcs \cup WriterPcs
         \/ p = Opener /\ pc[p] # "idle"
  PROVE  \A q \in Clients \ {p} : pc[q] # "gcSweep"
<1>1. "gcSweep" \in WriterPcs /\ "idle" \notin WriterPcs
  BY DEF WriterPcs
<1>2. CASE opWriter = NoOne
  BY <1>1, <1>2, Exclusion
<1>3. CASE p \in Clients /\ pc[p] \in ReaderPcs \cup WriterPcs
  BY <1>1, <1>3, Exclusion
<1>4. CASE p = Opener /\ pc[p] # "idle"
  BY <1>4 DEF LocksHeld
<1> QED BY <1>2, <1>3, <1>4

\* What replacing one record does to the marked manifests.
LEMMA MarkedUpdate ==
  ASSUME StoreTypeOK, NEW o \in ObjectIds, NEW r, NEW X,
         ContentsOf(r) \subseteq ContentsOf(objects[o]) \cup X
  PROVE  MarkedIn([objects EXCEPT ![o] = r], snapshots) \subseteq Marked \cup X
<1> DEFINE objs == [objects EXCEPT ![o] = r]
<1>1. /\ objs[o] = r
      /\ \A k \in ObjectIds \ {o} : objs[k] = objects[k]
  BY DEF StoreTypeOK
<1> HIDE DEF objs
<1>2. ASSUME NEW c \in MarkedIn(objs, snapshots)
      PROVE  c \in Marked \cup X
  <2>1. \/ \E k \in ObjectIds : c \in ContentsOf(objs[k])
        \/ \E s \in snapshots : \E e \in s.entries : c = e.content
    BY MarkedMember
  <2>2. \/ \E k \in ObjectIds : c \in ContentsOf(objects[k])
        \/ \E s \in snapshots : \E e \in s.entries : c = e.content
        \/ c \in X
    BY <1>1, <2>1
  <2>3. c \in MarkedIn(objects, snapshots) \/ c \in X
    BY <2>2, MarkedMember
  <2> QED BY <2>3 DEF Marked
<1>3. MarkedIn(objs, snapshots) \subseteq Marked \cup X
  BY <1>2
<1> QED BY <1>3 DEF objs

\* A transaction that gives the marks nothing whose manifest is not there.
LEMMA RefsUpdate ==
  ASSUME DataInv, NEW X \in SUBSET manifests,
         MarkedIn(objects', snapshots') \subseteq Marked \cup X,
         UNCHANGED <<manifests, synced>>
  PROVE  NoDanglingReferences'
<1>1. ReferencesResolve'
  BY DEF DataInv, NoDanglingReferences, ReferencesResolve, Marked
<1>2. ManifestsBacked'
  BY DEF DataInv, NoDanglingReferences, ManifestsBacked, ChunksOfAll
<1> QED BY <1>1, <1>2 DEF NoDanglingReferences

\* The manifest, and then the version that refers to it.
LEMMA DataApply ==
  ASSUME TypeInv, LocksHeld, DataInv, NEW p \in Procs, SaveManifest(p) \/ PutObject(p)
  PROVE  DataInv'
<1>1. CASE SaveManifest(p)
  <2>1. /\ manifests' = manifests \cup {job[p].content}
        /\ pc' = [pc EXCEPT ![p] = "object"]
        /\ UNCHANGED <<stored, synced, objects, snapshots, job, reading, gcLive>>
    BY <1>1 DEF SaveManifest, Goto, callVars
  <2>2. ChunksOf[job[p].content] \subseteq synced
    BY <1>1 DEF SaveManifest, DataInv, JobsBacked, SyncedPcs
  <2>3. ReferencesResolve'
    BY <2>1 DEF DataInv, NoDanglingReferences, ReferencesResolve, Marked
  <2>4. ChunksOfAll(manifests') \subseteq synced
    BY <2>1, <2>2, ChunksOfAllFacts DEF DataInv, NoDanglingReferences,
       ManifestsBacked
  <2>5. NoDanglingReferences'
    BY <2>1, <2>3, <2>4 DEF NoDanglingReferences, ManifestsBacked, ChunksOfAll
  <2>6. synced' \subseteq stored'
    BY <2>1 DEF DataInv
  <2> QED BY <2>1, <2>2, <2>5, <2>6, DataGrow
<1>2. CASE PutObject(p)
  <2>1. /\ pc[p] = "object"
        /\ pc' = [pc EXCEPT ![p] = "bind"]
        /\ UNCHANGED <<stored, synced, manifests, snapshots, job, reading, gcLive>>
    BY <1>2 DEF PutObject, Goto, callVars
  <2>2. /\ job[p].content \in manifests
        /\ ChunksOf[job[p].content] \subseteq synced
    BY <2>1 DEF DataInv, JobsBacked, SyncedPcs
  <2>3. job[p] \in WalRecord
    BY <2>1 DEF TypeInv, JobsResolved, SyncedPcs
  <2> DEFINE o == job[p].oid
             r == PushVersion(objects[o], job[p].version, job[p].content)
  <2>4. /\ o \in ObjectIds
        /\ ContentsOf(r) = ContentsOf(objects[o]) \cup {job[p].content}
    BY <2>3, PushVersionType DEF WalRecord, TypeInv, TypeOK, StoreTypeOK
  <2>5. \/ objects' = objects
        \/ objects' = [objects EXCEPT ![o] = r]
    BY <1>2 DEF PutObject
  <2> HIDE DEF o, r
  <2>6. MarkedIn(objects', snapshots') \subseteq Marked \cup {job[p].content}
    <3>1. StoreTypeOK
      BY DEF TypeInv, TypeOK
    <3>2. MarkedIn([objects EXCEPT ![o] = r], snapshots)
            \subseteq Marked \cup {job[p].content}
      BY <2>4, <3>1, MarkedUpdate
    <3>3. CASE objects' = objects
      BY <2>1, <3>3 DEF Marked
    <3>4. CASE objects' = [objects EXCEPT ![o] = r]
      BY <2>1, <3>2, <3>4
    <3> QED BY <2>5, <3>3, <3>4
  <2>7. NoDanglingReferences'
    BY <2>1, <2>2, <2>6, RefsUpdate
  <2>8. \A q \in Clients \ {p} : pc[q] # "gcSweep"
    <3>1. "object" \in ReaderPcs
      BY DEF ReaderPcs, PutSteps
    <3> QED BY <2>1, <3>1, NoOtherSweep DEF Procs
  <2>9. synced' \subseteq stored'
    BY <2>1 DEF DataInv
  <2> QED BY <2>1, <2>2, <2>7, <2>8, <2>9, DataGrow
<1> QED BY <1>1, <1>2

\* Reads begin with manifests of the table.
LEMMA DataRead ==
  ASSUME TypeInv, LocksHeld, DataInv, NEW p \in Clients,
         GetFile(p) \/ RestoreSnapshot(p)
  PROVE  DataInv'
<1>1. p \in Procs
  BY DEF Procs
<1>2. PICK S : BeginRead(p, S) /\ S \subseteq manifests
  <2>1. CASE GetFile(p)
    <3>1. CASE BeginRead(p, {})
      BY <3>1
    <3>2. CASE \E c \in manifests : BeginRead(p, {c})
      <4>1. PICK c \in manifests : BeginRead(p, {c})
        BY <3>2
      <4>2. {c} \subseteq manifests
        OBVIOUS
      <4> QED BY <4>1, <4>2
    <3> QED BY <2>1, <3>1, <3>2 DEF GetFile
  <2>2. CASE RestoreSnapshot(p)
    <3>1. PICK s \in snapshots : BeginRead(p, {e.content : e \in s.entries})
      BY <2>2 DEF RestoreSnapshot
    <3>2. {e.content : e \in s.entries} \subseteq MarkedIn(objects, snapshots)
      BY MarkedMember
    <3> QED BY <3>1, <3>2 DEF DataInv, NoDanglingReferences, ReferencesResolve,
       Marked
  <2> QED BY <2>1, <2>2
<1>3. /\ pc' = [pc EXCEPT ![p] = "reading"]
      /\ reading' = [reading EXCEPT ![p] = S]
      /\ UNCHANGED <<stored, synced, manifests, objects, snapshots, job, gcLive>>
  BY <1>2 DEF BeginRead, Goto, diskVars
<1>4. NoDanglingReferences'
  BY <1>3, RefsSame DEF DataInv
<1>5. reading'[p] = S /\ \A q \in Clients \ {p} : reading'[q] = reading[q]
  BY <1>3 DEF TypeInv, TypeOK, CallTypeOK
<1>6. ChunksOfAll(S) \subseteq stored
  BY <1>2, ChunksOfAllFacts DEF DataInv, NoDanglingReferences, ManifestsBacked
<1>7. "reading" \notin SyncedPcs /\ synced' \subseteq stored'
  BY <1>3 DEF SyncedPcs, DataInv
<1> QED BY <1>1, <1>2, <1>3, <1>4, <1>5, <1>6, <1>7, DataGrow

\* Names, histories and snapshots are edited while nobody collects; the marks
\* lose manifests, or gain one that is in the table.
LEMMA DataEdit ==
  ASSUME TypeInv, LocksHeld, DataInv, NEW p \in Clients,
         RenameFile(p) \/ UnbindFile(p) \/ PruneFileVersions(p) \/ CreateSnapshot(p)
           \/ DeleteSnapshot(p) \/ DeleteNamedObject(p)
  PROVE  DataInv'
<1>1. /\ UNCHANGED <<stored, synced, manifests, pc, job, reading, gcLive>>
      /\ p \in Procs
  BY DEF RenameFile, UnbindFile, PruneFileVersions, CreateSnapshot, DeleteSnapshot,
     DeleteNamedObject, callVars, Procs
<1>2. /\ pc[p] \in {"idle", "unlink"}
      /\ opWriter = NoOne \/ pc[p] = "unlink"
  BY DEF RenameFile, UnbindFile, PruneFileVersions, CreateSnapshot, DeleteSnapshot,
     DeleteNamedObject, MayEditShared, MayEditAlone, OpReadFree, OpWriteFree, Idle
<1>3. StoreTypeOK
  BY DEF TypeInv, TypeOK
<1>4. MarkedIn(objects', snapshots') \subseteq Marked
  <2>1. CASE RenameFile(p) \/ UnbindFile(p)
    BY <2>1 DEF RenameFile, UnbindFile, Marked
  <2>2. CASE PruneFileVersions(p)
    <3>1. PICK n \in Names, keep \in 0..MaxKeep :
            /\ names[n] # 0
            /\ Len(objects[names[n]].versions) > keep
            /\ objects' = [objects EXCEPT ![names[n]].versions =
                 SubSeq(objects[names[n]].versions,
                        Len(objects[names[n]].versions) - keep + 1,
                        Len(objects[names[n]].versions))]
      BY <2>2 DEF PruneFileVersions
    <3> DEFINE o == names[n]
               r == objects[o]
               kept == SubSeq(r.versions, Len(r.versions) - keep + 1, Len(r.versions))
               new == [r EXCEPT !.versions = kept]
    <3>2. o \in ObjectIds /\ keep \in Nat
      BY <3>1, BoundAssumption, <1>3 DEF StoreTypeOK, ObjectIds
    <3>3. r \in ObjectRecord
      BY <3>2, <1>3 DEF StoreTypeOK
    <3>4. ContentsOf(new) \subseteq ContentsOf(r)
      <4>1. keep < Len(r.versions)
        BY <3>1, <3>2, <3>3 DEF ObjectRecord
      <4> HIDE DEF r
      <4> QED BY <3>2, <3>3, <4>1, PruneType
    <3>5. objects' = [objects EXCEPT ![o] = new]
      BY <3>1
    <3>6. ContentsOf(new) \subseteq ContentsOf(objects[o]) \cup {}
      BY <3>4
    <3> HIDE DEF new, o
    <3>7. MarkedIn([objects EXCEPT ![o] = new], snapshots) \subseteq Marked \cup {}
      BY <1>3, <3>2, <3>6, MarkedUpdate
    <3>8. snapshots' = snapshots
      BY <2>2 DEF PruneFileVersions
    <3> QED BY <3>5, <3>7, <3>8
  <2>3. CASE DeleteNamedObject(p)
    <3>1. PICK n \in unlinking :
            IF names[n] = 0 THEN objects' = objects
            ELSE objects' = [objects EXCEPT ![names[n]] = NoRecord]
      BY <2>3 DEF DeleteNamedObject
    <3>2. snapshots' = snapshots
      BY <2>3 DEF DeleteNamedObject
    <3>3. CASE names[n] = 0
      BY <3>1, <3>2, <3>3 DEF Marked
    <3>4. CASE names[n] # 0
      <4>1. names[n] \in ObjectIds
        BY <3>4, BoundAssumption, <1>3 DEF TypeInv, TypeOK, CallTypeOK, StoreTypeOK,
           ObjectIds
      <4>2. ContentsOf(NoRecord) \subseteq ContentsOf(objects[names[n]]) \cup {}
        BY NoRecordType
      <4>3. MarkedIn([objects EXCEPT ![names[n]] = NoRecord], snapshots)
              \subseteq Marked \cup {}
        BY <1>3, <4>1, <4>2, MarkedUpdate
      <4> QED BY <3>1, <3>2, <3>4, <4>3
    <3> QED BY <3>3, <3>4
  <2>4. CASE DeleteSnapshot(p)
    <3>1. objects' = objects /\ snapshots' \subseteq snapshots
      BY <2>4 DEF DeleteSnapshot
    <3> QED BY <3>1, MarkedMember DEF Marked
  <2>5. CASE CreateSnapshot(p)
    <3> DEFINE Last(n) == objects[names[n]].versions[Len(objects[names[n]].versions)]
               Taken(n) == names[n] # 0 /\ objects[names[n]].versions # << >>
               Entries == {[name |-> n, oid |-> names[n], version |-> Last(n).version,
                            content |-> Last(n).content] :
                              n \in {m \in Names : Taken(m)}}
    <3>1. /\ \E l \in Labels :
               snapshots' = snapshots \cup {[label |-> l, entries |-> Entries]}
          /\ objects' = objects
      BY <2>5 DEF CreateSnapshot
    <3>2. ASSUME NEW e \in Entries
          PROVE  \E o \in ObjectIds : e.content \in ContentsOf(objects[o])
      <4>1. PICK n \in Names : Taken(n) /\ e.content = Last(n).content
        BY <3>2
      <4>2. names[n] \in ObjectIds
        BY <1>3, <4>1, BoundAssumption DEF StoreTypeOK, ObjectIds
      <4>3. objects[names[n]].versions \in Seq(VersionEntry)
        BY <1>3, <4>2 DEF StoreTypeOK, ObjectRecord
      <4>4. Len(objects[names[n]].versions) \in DOMAIN objects[names[n]].versions
        BY <4>1, <4>3
      <4>5. e.content \in ContentsOf(objects[names[n]])
        BY <4>1, <4>4 DEF ContentsOf
      <4> QED BY <4>2, <4>5
    <3> HIDE DEF Entries
    <3>3. ASSUME NEW c \in MarkedIn(objects', snapshots')
          PROVE  c \in MarkedIn(objects, snapshots)
      <4>1. \/ \E k \in ObjectIds : c \in ContentsOf(objects[k])
            \/ \E s \in snapshots' : \E e \in s.entries : c = e.content
        BY <3>1, MarkedMember
      <4>2. \/ \E k \in ObjectIds : c \in ContentsOf(objects[k])
            \/ \E s \in snapshots : \E e \in s.entries : c = e.content
        BY <3>1, <3>2, <4>1
      <4> QED BY <4>2, MarkedMember
    <3> QED BY <3>3 DEF Marked
  <2> QED BY <2>1, <2>2, <2>3, <2>4, <2>5
<1>5. NoDanglingReferences'
  BY <1>1, <1>4, RefsUpdate
<1>6. \A q \in Clients \ {p} : pc[q] # "gcSweep"
  <2>1. "unlink" \in WriterPcs
    BY DEF WriterPcs
  <2> QED BY <1>1, <1>2, <2>1, NoOtherSweep
<1>7. pc' = [pc EXCEPT ![p] = pc[p]]
  BY <1>1 DEF TypeInv, TypeOK, ThreadTypeOK
<1>8. pc[p] \notin SyncedPcs \cup {"sync", "object", "reading", "gcSweep"}
  BY <1>2 DEF SyncedPcs
<1>9. synced' \subseteq stored'
  BY <1>1 DEF DataInv
<1> QED BY <1>1, <1>5, <1>6, <1>7, <1>8, <1>9, DataGrow

\* A rollback takes its content from a version whose manifest it has just read.
LEMMA DataRollback ==
  ASSUME TypeInv, LocksHeld, DataInv, NEW p \in Clients, RollbackFile(p)
  PROVE  DataInv'
<1>1. /\ pc' = [pc EXCEPT ![p] = "reading"] /\ opWriter = NoOne
      /\ UNCHANGED <<stored, synced, manifests, snapshots, job, gcLive>>
      /\ p \in Procs
  BY DEF RollbackFile, MayEditShared, OpReadFree, Goto, Procs
<1>2. PICK n \in Names, v \in Versions, c \in manifests :
        /\ names[n] # 0
        /\ objects' = [objects EXCEPT ![names[n]] =
                         PushVersion(objects[names[n]], v, c)]
        /\ reading' = [reading EXCEPT ![p] = {c}]
  BY DEF RollbackFile
<1>3. StoreTypeOK /\ names[n] \in ObjectIds /\ c \in Contents
  BY <1>2, BoundAssumption DEF TypeInv, TypeOK, StoreTypeOK, ObjectIds
<1>4. ContentsOf(PushVersion(objects[names[n]], v, c))
        = ContentsOf(objects[names[n]]) \cup {c}
  BY <1>3, PushVersionType DEF StoreTypeOK
<1>5. MarkedIn(objects', snapshots') \subseteq Marked \cup {c}
  BY <1>1, <1>2, <1>3, <1>4, MarkedUpdate
<1>6. NoDanglingReferences'
  BY <1>1, <1>2, <1>5, RefsUpdate
<1>7. reading'[p] = {c} /\ \A q \in Clients \ {p} : reading'[q] = reading[q]
  BY <1>2 DEF TypeInv, TypeOK, CallTypeOK
<1>8. ChunksOfAll({c}) \subseteq stored
  BY <1>2, ChunksOfAllFacts DEF DataInv, NoDanglingReferences, ManifestsBacked
<1>9. "reading" \notin SyncedPcs /\ synced' \subseteq stored'
  BY <1>1 DEF SyncedPcs, DataInv
<1>10. \A q \in Clients \ {p} : pc[q] # "gcSweep"
  BY <1>1, NoOtherSweep
<1> QED BY <1>1, <1>2, <1>6, <1>7, <1>8, <1>9, <1>10, DataGrow

\* mark() finds what sweep() keeps.
LEMMA DataMark ==
  ASSUME TypeInv, LocksHeld, DataInv, NEW p \in Clients, GcMark(p)
  PROVE  DataInv'
<1>1. /\ pc' = [pc EXCEPT ![p] = "gcSweep"] /\ pc[p] = "gcMark" /\ gcLive' = Marked
      /\ UNCHANGED <<stored, synced, manifests, objects, snapshots, job, reading>>
      /\ p \in Procs
  BY DEF GcMark, Goto, diskVars, Procs
<1>2. NoDanglingReferences'
  BY <1>1, RefsSame DEF DataInv
<1>3. \A q \in Clients \ {p} : pc[q] # "gcSweep"
  <2>1. "gcMark" \in WriterPcs
    BY DEF WriterPcs
  <2> QED BY <1>1, <2>1, NoOtherSweep
<1>4. Marked' = Marked
  BY <1>1 DEF Marked
<1>5. "gcSweep" \notin SyncedPcs /\ synced' \subseteq stored'
  BY <1>1 DEF SyncedPcs, DataInv
<1> QED BY <1>1, <1>2, <1>3, <1>4, <1>5, DataGrow

\* While a collection sweeps nobody else reads, applies a put or sweeps.
LEMMA SweepAlone ==
  ASSUME TypeInv, LocksHeld, NEW p \in Clients, pc[p] = "gcSweep"
  PROVE  /\ \A q \in Procs : pc[q] \notin {"sync", "object", "reading"} \cup SyncedPcs
         /\ \A q \in Clients \ {p} : pc[q] # "gcSweep"
<1>1. "gcSweep" \in WriterPcs
  BY DEF WriterPcs
<1>2. {"sync", "object", "reading"} \cup SyncedPcs \subseteq ReaderPcs
  BY DEF ReaderPcs, SyncedPcs, PutSteps
<1>3. \A q \in Clients : pc[q] \notin ReaderPcs
  BY <1>1, Exclusion
<1>4. pc[Opener] = "idle" /\ "idle" \notin ReaderPcs
  BY Exclusion DEF ReaderPcs, PutSteps
<1>5. \A q \in Clients \ {p} : pc[q] # "gcSweep"
  BY <1>1, Exclusion
<1> QED BY <1>2, <1>3, <1>4, <1>5 DEF Procs

\* A manifest that was not marked goes.
LEMMA DataSweep ==
  ASSUME TypeInv, LocksHeld, DataInv, NEW p \in Clients, GcSweepManifest(p)
  PROVE  DataInv'
<1>1. /\ pc[p] = "gcSweep"
      /\ UNCHANGED <<pc, stored, synced, objects, snapshots, job, reading, gcLive>>
  BY DEF GcSweepManifest, callVars
<1>2. PICK m \in manifests \ gcLive : manifests' = manifests \ {m}
  BY DEF GcSweepManifest
<1>3. gcLive = Marked
  BY <1>1 DEF DataInv, MarkIsExact
<1>4. ReferencesResolve'
  BY <1>1, <1>2, <1>3 DEF DataInv, NoDanglingReferences, ReferencesResolve, Marked
<1>5. ManifestsBacked'
  <2>1. ChunksOfAll(manifests') \subseteq ChunksOfAll(manifests)
    BY <1>2, ChunksOfAllFacts
  <2>2. ChunksOfAll(manifests') \subseteq synced'
    BY <1>1, <2>1 DEF DataInv, NoDanglingReferences, ManifestsBacked
  <2> QED BY <2>2 DEF ManifestsBacked, ChunksOfAll
<1>6. JobsBacked' /\ ReadersFindChunks'
  BY <1>1, SweepAlone DEF JobsBacked, ReadersFindChunks, Procs
<1>7. MarkIsExact'
  BY <1>1 DEF DataInv, MarkIsExact, Marked
<1> QED BY <1>1, <1>4, <1>5, <1>6, <1>7 DEF DataInv, NoDanglingReferences

\* Compaction keeps the chunks of the marked manifests, and those are all that
\* are left.
LEMMA DataCompact ==
  ASSUME TypeInv, LocksHeld, DataInv, NEW p \in Clients, GcCompact(p)
  PROVE  DataInv'
<1>1. /\ pc[p] = "gcSweep" /\ manifests \subseteq gcLive
      /\ stored' = stored \cap ChunksOfAll(gcLive) /\ synced' = stored'
      /\ pc' = [pc EXCEPT ![p] = "idle"]
      /\ UNCHANGED <<manifests, objects, snapshots>>
  BY DEF GcCompact, Return, Goto
<1>2. \A q \in Procs : /\ pc'[q] \notin {"sync", "object", "reading"} \cup SyncedPcs
                       /\ q \in Clients => pc'[q] # "gcSweep"
  <2>1. "idle" \notin {"sync", "object", "reading"} \cup SyncedPcs
    BY DEF SyncedPcs
  <2> QED BY <1>1, <2>1, SweepAlone DEF TypeInv, TypeOK, ThreadTypeOK, Procs
<1>3. JobsBacked' /\ MarkIsExact' /\ ReadersFindChunks'
  BY <1>2 DEF JobsBacked, MarkIsExact, ReadersFindChunks, Procs
<1>4. ReferencesResolve'
  BY <1>1 DEF DataInv, NoDanglingReferences, ReferencesResolve, Marked
<1>5. ChunksOfAll(manifests) \subseteq synced'
  <2>1. ChunksOfAll(manifests) \subseteq ChunksOfAll(gcLive)
    BY <1>1, ChunksOfAllFacts
  <2>2. ChunksOfAll(manifests) \subseteq stored
    BY DEF DataInv, NoDanglingReferences, ManifestsBacked
  <2> QED BY <1>1, <2>1, <2>2
<1>6. ManifestsBacked'
  BY <1>1, <1>5 DEF ManifestsBacked, ChunksOfAll
<1> QED BY <1>1, <1>3, <1>4, <1>6 DEF DataInv, NoDanglingReferences

\* A crash takes at most what was not synced, and every claim with it.
LEMMA DataCrash ==
  ASSUME TypeInv, DataInv, Kill \/ PowerLoss \/ OpenFails
  PROVE  DataInv'
<1>1. LoseMemory /\ UNCHANGED <<manifests, objects, snapshots>>
  BY DEF Kill, PowerLoss, OpenFails, diskVars
<1>2. synced \subseteq synced' /\ synced' \subseteq stored'
  BY DEF Kill, PowerLoss, OpenFails, diskVars, DataInv
<1>3. \A q \in Procs : pc'[q] = "idle"
  BY <1>1 DEF LoseMemory
<1>4. JobsBacked' /\ MarkIsExact' /\ ReadersFindChunks'
  BY <1>3 DEF JobsBacked, MarkIsExact, ReadersFindChunks, Procs, SyncedPcs
<1>5. NoDanglingReferences'
  BY <1>1, <1>2, RefsSame DEF DataInv
<1> QED BY <1>2, <1>4, <1>5 DEF DataInv

LEMMA DataInit == Init => DataInv
<1> SUFFICES ASSUME Init PROVE DataInv
  OBVIOUS
<1>1. JobsBacked /\ MarkIsExact /\ ReadersFindChunks
  BY DEF Init, JobsBacked, MarkIsExact, ReadersFindChunks, Procs, SyncedPcs
<1>2. \A c : c \notin Marked
  <2>1. \A o \in ObjectIds : ContentsOf(objects[o]) = {}
    BY NoRecordType DEF Init
  <2> QED BY <2>1, MarkedMember DEF Init, Marked
<1>3. NoDanglingReferences
  BY <1>2, ChunksOfAllFacts DEF Init, NoDanglingReferences, ReferencesResolve,
     ManifestsBacked
<1> QED BY <1>1, <1>3 DEF Init, DataInv

\* Every step keeps the store whole.
LEMMA DataNext == TypeInv /\ LocksHeld /\ DataInv /\ [Next]_vars => DataInv'
<1> SUFFICES ASSUME TypeInv, LocksHeld, DataInv, [Next]_vars PROVE DataInv'
  OBVIOUS
<1>1. CASE UNCHANGED vars
  BY <1>1 DEF vars, diskVars, callVars, DataInv, JobsBacked, MarkIsExact, Marked,
     NoDanglingReferences, ReferencesResolve, ManifestsBacked, ReadersFindChunks,
     ChunksOfAll
<1>2. ASSUME NEW p \in Clients, ClientStep(p)
      PROVE  DataInv'
  <2>1. p \in Procs
    BY DEF Procs
  <2>2. CASE PutStep(p)
    BY <2>1, <2>2, DataChunks, DataLog, DataApply, DataCalls DEF PutStep
  <2>3. CASE OtherStep(p)
    BY <2>3, DataCalls, DataEdit, DataMark, DataSweep, DataCompact DEF OtherStep
  <2>4. CASE AcquireStep(p)
    BY <2>4, DataCalls DEF AcquireStep
  <2>5. CASE FailStep(p)
    BY <2>5, DataCalls, DataChunks DEF FailStep
  <2>6. CASE CallStep(p)
    BY <2>6, DataCalls, DataRead, DataEdit, DataRollback DEF CallStep
  <2> QED BY <1>2, <2>2, <2>3, <2>4, <2>5, <2>6 DEF ClientStep
<1>3. CASE OpenerStep
  <2>1. Opener \in Procs
    BY DEF Procs
  <2> QED BY <1>3, <2>1, DataOpen, DataReplay, DataCrash, DataApply, DataLog
        DEF OpenerStep
<1>4. CASE Kill \/ PowerLoss
  BY <1>4, DataCrash
<1> QED BY <1>1, <1>2, <1>3, <1>4 DEF Next

-----------------------------------------------------------------------------
\* The inductive invariant: in every reachable state of the engine the types are
\* right, a thread holds the locks of the call it is in, and the store is whole.
THEOREM Invariance == Spec => []IndInv
<1>1. Init => TypeInv /\ LocksHeld /\ DataInv
  BY TypeInit, LocksInit, DataInit
<1>2. TypeInv /\ LocksHeld /\ DataInv /\ [Next]_vars
        => (TypeInv /\ LocksHeld /\ DataInv)'
  BY TypeNext, LocksNext, DataNext
<1>3. TypeInv /\ LocksHeld /\ DataInv => IndInv
  BY DEF TypeInv, DataInv, IndInv
<1> QED BY <1>1, <1>2, <1>3, PTL DEF Spec

\* Whatever collections, deletes, crashes and I/O errors do, every version and
\* every snapshot entry has its manifest, and every manifest in the table has all
\* its chunks on durable storage (put_file_named, open_internal, gc).
THEOREM NothingDangles == Spec => []NoDanglingReferences
<1>1. IndInv => NoDanglingReferences
  BY DEF IndInv
<1> QED BY <1>1, Invariance, PTL

\* A reader that has resolved a manifest under op_lock finds all its chunks until
\* it is done, for any number of threads (get_file_version, restore_snapshot,
\* rollback_file against gc and delete_file).
THEOREM ReadersAreSafe == Spec => []ReadersFindChunks
<1>1. IndInv => ReadersFindChunks
  BY DEF IndInv
<1> QED BY <1>1, Invariance, PTL

=============================================================================
