------------------------- MODULE EngineHistoryProofs -------------------------
(***************************************************************************)
(* Proofs about the histories the storage engine keeps: an acknowledged    *)
(* version survives any number of crashes and errors; names and histories  *)
(* stay in order, and recovery completes exactly the interrupted put,      *)
(* wherever the findings do not say otherwise; and the engine implements   *)
(* VersionedStore and uses the segment store as ChunkStore allows.         *)
(*                                                                         *)
(* Three layers above IndInv.  AckInv holds in every behaviour: one put at *)
(* a time has put_lock, object ids are never given twice, version numbers  *)
(* of an object differ, and what a put will acknowledge is there.  Exact   *)
(* holds through any number of crashes as long as no call fails and no     *)
(* crash forgets a checkpoint: names lead to objects, histories are        *)
(* sorted, and at most the put that a crash has cut is to be replayed.     *)
(* OrderInv is what Spec alone gives: its first crash forgets nothing.     *)
(***************************************************************************)
EXTENDS EngineRefinement, EngineProofs

BeforeObject == {"wal", "walSync", "manifest", "object"}

HasEntry(rec, v, c) ==
  \E i \in DOMAIN rec.versions : rec.versions[i] = [version |-> v, content |-> c]

-----------------------------------------------------------------------------
(* What holds in every behaviour                                           *)

PutLockHeld == \A p \in Clients : pc[p] \in PutPcs => putLock = p

OidsGenerated ==
  /\ \A o \in ObjectIds : o > generated => objects[o] = NoRecord
  /\ \A n \in Names : names[n] <= generated
  /\ \A p \in Procs : job[p].oid <= generated
  /\ \A i \in DOMAIN walLog : walLog[i].oid <= generated
  /\ \A i \in DOMAIN walLogSynced : walLogSynced[i].oid <= generated

NumbersDiffer(rec) ==
  \A i, j \in DOMAIN rec.versions : rec.versions[i].version = rec.versions[j].version => i = j

\* What a put of a client will find, and has left, in its object.
PutClaims ==
  \A p \in Clients :
    LET j == job[p] IN
    /\ pc[p] \in BeforeObject => ~HasVersion(objects[j.oid], j.version)
    /\ pc[p] \in {"bind"} \cup CheckpointPcs => HasEntry(objects[j.oid], j.version, j.content)

AckInv ==
  /\ \A o \in ObjectIds : NumbersDiffer(objects[o])
  /\ PutClaims
  /\ AckedVersionsSurvive

-----------------------------------------------------------------------------
(* What holds while no call fails, or no crash happens                     *)

Clean == spent.crashes = 0 \/ (spent.crashes = 1 /\ spent.faults = 0)

Unapplied(r) == r.version = objects[r.oid].latest + 1
Applied(r)   == /\ r.version = objects[r.oid].latest
                /\ HasEntry(objects[r.oid], r.version, r.content)

\* The object of a put is that of its name, or a new one.
Claimed(r) ==
  /\ r.oid \notin deleted
  /\ \/ names[r.name] = r.oid
     \/ /\ names[r.name] = 0 /\ (\A n \in Names : names[n] # r.oid)
        /\ r.version = 1
        /\ objects[r.oid] \in {NoRecord, PushVersion(NoRecord, 1, r.content)}

Ordered == NamesResolve /\ VersionsIncreasing /\ DeletedStaysDeleted

ClientClaims ==
  \A p \in Clients :
    /\ pc[p] \in BeforeObject => Claimed(job[p]) /\ Unapplied(job[p])
    /\ pc[p] \in {"bind"} \cup CheckpointPcs => Claimed(job[p]) /\ Applied(job[p])
    /\ pc[p] \in CheckpointPcs => names[job[p].name] = job[p].oid

\* A put has the last LSN, and checkpoints it.
LsnsAgree ==
  \A p \in Clients :
    /\ pc[p] \in LoggedPcs => job[p].lsn = currentLsn
    /\ pc[p] \in {"metaWrite", "metaSync"} => checkpointLsn = currentLsn

\* As long as nothing went wrong the log holds at most the running put.
LogOfPut ==
  /\ \A log \in {walLog, walLogSynced} :
       log = << >> \/ \E p \in Clients : pc[p] \in LoggedPcs /\ log = <<job[p]>>
  /\ \A p \in Clients : pc[p] = "logSync" => walLog = << >>

\* What a crash leaves of a put can be completed.
Replayable(r) ==
  /\ Claimed(r) /\ (Unapplied(r) \/ Applied(r))
  /\ ChunksOf[r.content] \subseteq synced

-----------------------------------------------------------------------------
(* Records                                                                 *)

\* The history is sorted and ends with the latest version.
InOrder(rec) ==
  /\ \A i, j \in DOMAIN rec.versions : i < j => rec.versions[i].version < rec.versions[j].version
  /\ rec.versions # << >> => rec.versions[Len(rec.versions)].version = rec.latest

(* A pushed version is the last entry, and the others stay where they are. *)
LEMMA PushEntries ==
  ASSUME NEW r \in ObjectRecord, NEW v \in Versions, NEW c \in Contents
  PROVE  LET s == PushVersion(r, v, c) IN
         /\ s.latest = v /\ Len(r.versions) \in Nat
         /\ DOMAIN r.versions = 1..Len(r.versions)
         /\ DOMAIN s.versions = 1..(Len(r.versions) + 1)
         /\ Len(s.versions) = Len(r.versions) + 1
         /\ \A i \in 1..Len(r.versions) : s.versions[i] = r.versions[i]
         /\ s.versions[Len(r.versions) + 1] = [version |-> v, content |-> c]
<1> DEFINE e == [version |-> v, content |-> c]
           h == r.versions
<1>1. e \in VersionEntry /\ h \in Seq(VersionEntry)
  BY DEF VersionEntry, ObjectRecord
<1> HIDE DEF h
<1>2. /\ Append(h, e) \in Seq(VersionEntry)
      /\ Len(Append(h, e)) = Len(h) + 1
      /\ \A i \in 1..Len(h) : Append(h, e)[i] = h[i]
      /\ Append(h, e)[Len(h) + 1] = e
  <2> HIDE DEF e
  <2> QED  BY <1>1, AppendProperties
<1>3. /\ Len(h) \in Nat /\ DOMAIN h = 1..Len(h)
      /\ DOMAIN Append(h, e) = 1..(Len(h) + 1)
  BY <1>1, <1>2, LenProperties
<1> QED  BY <1>2, <1>3 DEF PushVersion, h

LEMMA PushKeeps ==
  ASSUME NEW r \in ObjectRecord, NEW v \in Versions, NEW c \in Contents
  PROVE  /\ HasEntry(PushVersion(r, v, c), v, c)
         /\ \A w, d : HasEntry(r, w, d) => HasEntry(PushVersion(r, v, c), w, d)
         /\ NumbersDiffer(r) /\ ~HasVersion(r, v) => NumbersDiffer(PushVersion(r, v, c))
<1> DEFINE s == PushVersion(r, v, c)
           n == Len(r.versions)
<1>1. /\ n \in Nat /\ DOMAIN r.versions = 1..n /\ DOMAIN s.versions = 1..(n + 1)
      /\ \A i \in 1..n : s.versions[i] = r.versions[i]
      /\ s.versions[n + 1] = [version |-> v, content |-> c]
  BY PushEntries
<1> HIDE DEF s, n
<1>2. HasEntry(s, v, c)
  BY <1>1 DEF HasEntry
<1>3. \A w, d : HasEntry(r, w, d) => HasEntry(s, w, d)
  BY <1>1 DEF HasEntry
<1>4. ASSUME NumbersDiffer(r), ~HasVersion(r, v) PROVE NumbersDiffer(s)
  <2>1. \A i \in 1..n : r.versions[i].version # v
    BY <1>1, <1>4 DEF HasVersion
  <2>2. s.versions[n + 1].version = v
    BY <1>1
  <2> SUFFICES ASSUME NEW i \in 1..(n + 1), NEW j \in 1..(n + 1),
                      s.versions[i].version = s.versions[j].version
               PROVE  i = j
    BY <1>1 DEF NumbersDiffer
  <2>3. CASE i \in 1..n /\ j \in 1..n
    BY <1>1, <1>4, <2>3 DEF NumbersDiffer
  <2>4. CASE i = n + 1 /\ j \in 1..n
    BY <1>1, <2>1, <2>2, <2>4
  <2>5. CASE j = n + 1 /\ i \in 1..n
    BY <1>1, <2>1, <2>2, <2>5
  <2> QED  BY <1>1, <2>3, <2>4, <2>5
<1> QED  BY <1>2, <1>3, <1>4 DEF s

LEMMA PushInOrder ==
  ASSUME NEW r \in ObjectRecord, NEW v \in Versions, NEW c \in Contents,
         InOrder(r), v = r.latest + 1
  PROVE  InOrder(PushVersion(r, v, c))
<1> DEFINE s == PushVersion(r, v, c)
           n == Len(r.versions)
<1>1. /\ n \in Nat /\ DOMAIN r.versions = 1..n /\ DOMAIN s.versions = 1..(n + 1)
      /\ Len(s.versions) = n + 1 /\ s.latest = v
      /\ \A i \in 1..n : s.versions[i] = r.versions[i]
      /\ s.versions[n + 1] = [version |-> v, content |-> c]
  BY PushEntries
<1>2. r.versions \in Seq(VersionEntry) /\ r.latest \in Nat
  BY BoundAssumption DEF ObjectRecord
<1>3. ASSUME NEW i \in 1..n PROVE r.versions[i].version \in Nat
  <2>1. r.versions[i] \in VersionEntry
    BY <1>1, <1>2, <1>3, ElementOfSeq
  <2>2. r.versions[i].version \in Versions
    BY <2>1 DEF VersionEntry
  <2> QED  BY <2>2, BoundAssumption DEF Versions
<1>4. ASSUME NEW i \in 1..n PROVE r.versions[i].version < v
  <2>1. r.versions # << >> /\ n \in 1..n
    BY <1>1, <1>2
  <2>2. r.versions[n].version = r.latest
    BY <2>1 DEF InOrder
  <2>3. i = n \/ r.versions[i].version < r.versions[n].version
    BY <1>1, <2>1 DEF InOrder
  <2>4. r.versions[i].version \in Nat
    BY <1>3
  <2> HIDE DEF n
  <2> QED  BY <1>2, <2>2, <2>3, <2>4
<1>5. ASSUME NEW i \in 1..(n + 1), NEW j \in 1..(n + 1), i < j
      PROVE  s.versions[i].version < s.versions[j].version
  <2> HIDE DEF s, n
  <2>1. i \in 1..n
    BY <1>1, <1>5
  <2>2. CASE j \in 1..n
    BY <1>1, <1>5, <2>1, <2>2 DEF InOrder
  <2>3. CASE j = n + 1
    BY <1>1, <1>4, <2>1, <2>3
  <2> QED  BY <1>1, <2>2, <2>3
<1>6. s.versions[Len(s.versions)].version = s.latest
  <2> HIDE DEF s, n
  <2> QED  BY <1>1
<1>7. \A i, j \in DOMAIN s.versions : i < j => s.versions[i].version < s.versions[j].version
  <2> HIDE DEF s, n
  <2> QED  BY <1>1, <1>5
<1>8. InOrder(s)
  <2> HIDE DEF s, n
  <2> QED  BY <1>6, <1>7 DEF InOrder
<1> QED  BY <1>8

\* What prune leaves of a record.
Pruned(r, k) ==
  [r EXCEPT !.versions = SubSeq(r.versions, Len(r.versions) - k + 1, Len(r.versions))]

(* The kept entries are the last ones, in their order.                     *)
LEMMA PrunedEntries ==
  ASSUME NEW r \in ObjectRecord, NEW k \in Nat, k < Len(r.versions)
  PROVE  LET s == Pruned(r, k)
             d == Len(r.versions) - k IN
         /\ s.latest = r.latest /\ d \in Nat /\ Len(r.versions) = d + k
         /\ DOMAIN r.versions = 1..(d + k)
         /\ DOMAIN s.versions = 1..k /\ Len(s.versions) = k
         /\ \A i \in 1..k : s.versions[i] = r.versions[d + i]
<1> DEFINE h == r.versions
           n == Len(h)
           m == n - k + 1
           kept == SubSeq(h, m, n)
<1>1. h \in Seq(VersionEntry) /\ n \in Nat /\ m \in 1..(n + 1) /\ n \in Int /\ m \in Int
      /\ DOMAIN h = 1..n
  BY DEF ObjectRecord
<1>2. \A i \in m..n : h[i] \in VersionEntry
  BY <1>1
<1>3. /\ kept \in Seq(VersionEntry)
      /\ Len(kept) = IF m <= n THEN n - m + 1 ELSE 0
      /\ \A i \in 1..(n - m + 1) : kept[i] = h[m + i - 1]
  <2> HIDE DEF n, m, h
  <2> QED  BY <1>1, <1>2, SubSeqProperties
<1>4. n - m + 1 = k /\ (~(m <= n) => k = 0) /\ n - k \in Nat /\ n = (n - k) + k
      /\ \A i \in 1..k : m + i - 1 = (n - k) + i
  BY <1>1
<1>5. Len(kept) = k /\ DOMAIN kept = 1..k /\ \A i \in 1..k : kept[i] = h[(n - k) + i]
  <2>1. Len(kept) = k
    <3> HIDE DEF kept, m, n, h
    <3> QED  BY <1>3, <1>4
  <2>2. DOMAIN kept = 1..Len(kept)
    <3> HIDE DEF kept, m, n, h
    <3> QED  BY <1>3, LenProperties
  <2> HIDE DEF kept, m, n, h
  <2> QED  BY <1>3, <1>4, <2>1, <2>2
<1>6. Pruned(r, k).versions = kept /\ Pruned(r, k).latest = r.latest
  <2>1. Pruned(r, k) = [r EXCEPT !.versions = kept]
    BY DEF Pruned
  <2> HIDE DEF kept
  <2> QED  BY <2>1 DEF ObjectRecord
<1>7. /\ Pruned(r, k).latest = r.latest /\ n - k \in Nat /\ n = (n - k) + k
      /\ DOMAIN h = 1..((n - k) + k)
      /\ DOMAIN (Pruned(r, k).versions) = 1..k /\ Len(Pruned(r, k).versions) = k
      /\ \A i \in 1..k : Pruned(r, k).versions[i] = h[(n - k) + i]
  <2>1. DOMAIN h = 1..((n - k) + k)
    BY <1>1, <1>4
  <2> HIDE DEF kept, n, h
  <2> QED  BY <1>4, <1>5, <1>6, <2>1
<1> QED  BY <1>7

LEMMA PrunedKeeps ==
  ASSUME NEW r \in ObjectRecord, NEW k \in Nat, k < Len(r.versions)
  PROVE  /\ NumbersDiffer(r) => NumbersDiffer(Pruned(r, k))
         /\ InOrder(r) => InOrder(Pruned(r, k))
         /\ \A w, c : NumbersDiffer(r) /\ HasEntry(r, w, c) /\ HasVersion(Pruned(r, k), w)
                        => HasEntry(Pruned(r, k), w, c)
<1> DEFINE s == Pruned(r, k)
           d == Len(r.versions) - k
<1>1. /\ s.latest = r.latest /\ d \in Nat /\ Len(r.versions) = d + k
      /\ DOMAIN r.versions = 1..(d + k)
      /\ DOMAIN s.versions = 1..k /\ Len(s.versions) = k
      /\ \A i \in 1..k : s.versions[i] = r.versions[d + i]
  BY PrunedEntries
<1> HIDE DEF s, d
<1>2. \A i \in 1..k : d + i \in DOMAIN r.versions
  BY <1>1
<1>3. ASSUME NumbersDiffer(r) PROVE NumbersDiffer(s)
  <2> SUFFICES ASSUME NEW i \in 1..k, NEW j \in 1..k,
                      s.versions[i].version = s.versions[j].version
               PROVE  i = j
    BY <1>1 DEF NumbersDiffer
  <2>1. r.versions[d + i].version = r.versions[d + j].version
    BY <1>1
  <2>2. d + i = d + j
    BY <1>2, <1>3, <2>1 DEF NumbersDiffer
  <2> QED  BY <1>1, <2>2
<1>4. ASSUME InOrder(r) PROVE InOrder(s)
  <2>1. ASSUME NEW i \in 1..k, NEW j \in 1..k, i < j
        PROVE  s.versions[i].version < s.versions[j].version
    <3>1. d + i < d + j
      BY <1>1, <2>1
    <3>2. r.versions[d + i].version < r.versions[d + j].version
      BY <1>2, <1>4, <3>1 DEF InOrder
    <3> QED  BY <1>1, <3>2
  <2>2. s.versions # << >> => s.versions[k].version = s.latest
    <3>1. CASE k = 0
      <4>1. s.versions \in Seq(VersionEntry)
        BY PruneType DEF s, Pruned, ObjectRecord
      <4> QED  BY <1>1, <3>1, <4>1, EmptySeq
    <3>2. CASE k # 0
      <4>1. r.versions # << >> /\ k \in 1..k
        BY <1>1, <3>2
      <4> QED  BY <1>1, <1>4, <4>1 DEF InOrder
    <3> QED  BY <3>1, <3>2
  <2> QED  BY <1>1, <2>1, <2>2 DEF InOrder
<1>5. ASSUME NEW w, NEW c, NumbersDiffer(r), HasEntry(r, w, c), HasVersion(s, w)
      PROVE  HasEntry(s, w, c)
  <2>1. PICK i \in DOMAIN r.versions : r.versions[i] = [version |-> w, content |-> c]
    BY <1>5 DEF HasEntry
  <2>2. PICK j \in 1..k : s.versions[j].version = w
    BY <1>1, <1>5 DEF HasVersion
  <2>3. r.versions[d + j].version = w /\ r.versions[i].version = w
    BY <1>1, <2>1, <2>2
  <2>4. d + j = i
    BY <1>2, <1>5, <2>3 DEF NumbersDiffer
  <2> QED  BY <1>1, <2>1, <2>4 DEF HasEntry
<1> QED  BY <1>3, <1>4, <1>5 DEF s
-----------------------------------------------------------------------------
(* One put at a time                                                       *)

\* A client goes on without put_lock, or takes it, or releases what it has.
LEMMA PutLockMoves ==
  ASSUME TypeInv, PutLockHeld, NEW p \in Clients, NEW l, pc' = [pc EXCEPT ![p] = l],
         \/ putLock' = putLock /\ (l \in PutPcs => pc[p] \in PutPcs)
         \/ putLock = NoOne /\ putLock' = p
         \/ ReleaseLocks(p) /\ l \notin PutPcs
  PROVE  PutLockHeld'
<1>1. pc \in [Procs -> Pcs] /\ p \in Procs /\ (\A q \in Clients : q \in Procs /\ q # NoOne)
  BY ProcessAssumption DEF TypeInv, TypeOK, ThreadTypeOK, Procs
<1>2. pc'[p] = l /\ \A q \in Clients \ {p} : pc'[q] = pc[q]
  BY <1>1
<1> QED  BY <1>1, <1>2 DEF PutLockHeld, ReleaseLocks

LEMMA PutLockSame ==
  ASSUME PutLockHeld, UNCHANGED <<putLock, pc>>
  PROVE  PutLockHeld'
BY DEF PutLockHeld

LEMMA PutLockIdle ==
  ASSUME \A p \in Clients : pc'[p] = "idle"
  PROVE  PutLockHeld'
BY DEF PutLockHeld, PutPcs, PutSteps

LEMMA PutLockInit == Init => PutLockHeld
BY DEF Init, PutLockHeld, PutPcs, PutSteps, Procs

LEMMA PutLockClient ==
  ASSUME TypeInv, PutLockHeld, NEW p \in Clients, ClientStep(p)
  PROVE  PutLockHeld'
<1>1. CASE PutStep(p) /\ ~FinishPut(p)
  <2>1. PICK l : pc' = [pc EXCEPT ![p] = l]
    BY <1>1 DEF PutStep, ReadStable, SyncAndResolve, AppendWal,
       SyncWal, SaveManifest, PutObject, BindName, TruncateMeta, WriteMeta, SyncMeta,
       TruncateLog, SyncLog, Goto
  <2>2. putLock' = putLock /\ pc[p] \in PutPcs
    BY <1>1 DEF PutStep, ReadStable, SyncAndResolve, AppendWal,
       SyncWal, SaveManifest, PutObject, BindName, TruncateMeta, WriteMeta, SyncMeta,
       TruncateLog, SyncLog, lockVars, PutPcs, PutSteps
  <2> QED  BY <2>1, <2>2, PutLockMoves
<1>2. CASE \/ FinishPut(p) \/ PutFails(p) \/ AppendWalFails(p) \/ GcFails(p)
           \/ FinishRead(p) \/ FinishDelete(p) \/ GcCompact(p)
           \/ ReadUnstable(p) /\ ~MayRetry
  <2>1. ReleaseLocks(p) /\ pc' = [pc EXCEPT ![p] = "idle"]
    BY <1>2 DEF FinishPut, PutFails, AppendWalFails, GcFails, FinishRead, FinishDelete,
       GcCompact, ReadUnstable, Return, Goto
  <2>2. "idle" \notin PutPcs
    BY DEF PutPcs, PutSteps
  <2> QED  BY <2>1, <2>2, PutLockMoves
<1>3. CASE \/ ReadUnstable(p) /\ MayRetry
           \/ DeleteNamedObject(p) \/ GcSweepManifest(p)
           \/ RenameFile(p) \/ PruneFileVersions(p)
           \/ CreateSnapshot(p) \/ DeleteSnapshot(p) \/ UnbindFile(p)
  <2>1. UNCHANGED <<putLock, pc>>
    BY <1>3 DEF ReadUnstable, DeleteNamedObject, GcSweepManifest, RenameFile,
       PruneFileVersions, CreateSnapshot, DeleteSnapshot, UnbindFile, lockVars
  <2> QED  BY <2>1, PutLockSame
<1>4. CASE \/ GcMark(p) \/ GcAcquireOp(p) \/ BeginDelete(p) \/ BeginGc(p)
           \/ GetFile(p) \/ RestoreSnapshot(p) \/ PutAcquireOp(p)
  <2>1. PICK l : pc' = [pc EXCEPT ![p] = l] /\ (l \in PutPcs => pc[p] \in PutPcs)
    BY <1>4 DEF GcMark, GcAcquireOp, BeginDelete, BeginGc, GetFile, RestoreSnapshot,
       BeginRead, PutAcquireOp, Goto, PutPcs, PutSteps
  <2>2. putLock' = putLock
    BY <1>4 DEF GcMark, GcAcquireOp, BeginDelete, BeginGc, GetFile, RestoreSnapshot,
       BeginRead, PutAcquireOp, lockVars
  <2> QED  BY <2>1, <2>2, PutLockMoves
<1>5. CASE BeginPut(p) \/ RollbackFile(p)
  <2>1. PICK l : pc' = [pc EXCEPT ![p] = l]
    BY <1>5 DEF BeginPut, RollbackFile, Goto
  <2>2. putLock = NoOne /\ putLock' = p
    BY <1>5 DEF BeginPut, RollbackFile, MayEditShared
  <2> QED  BY <2>1, <2>2, PutLockMoves
<1> QED  BY <1>1, <1>2, <1>3, <1>4, <1>5
       DEF ClientStep, OtherStep, AcquireStep, FailStep, CallStep, PutStep

\* Recovery runs while every client is idle.
LEMMA OpenerAlone ==
  ASSUME LocksHeld, OpenerStep
  PROVE  \A p \in Clients : pc[p] = "idle"
BY DEF LocksHeld, OpenerStep, OpenWal, ReplayRecord, OpenFails, FinishReplay, FinishOpen,
   SaveManifest, PutObject, BindName, TruncateMeta, WriteMeta, SyncMeta, TruncateLog, SyncLog

LEMMA OpenerMoves ==
  ASSUME TypeInv, LocksHeld, OpenerStep
  PROVE  \A p \in Clients : pc'[p] = "idle"
<1>1. \A p \in Clients : pc[p] = "idle" /\ p \in Procs /\ p # Opener
  BY OpenerAlone, ProcessAssumption DEF Procs
<1>2. CASE OpenFails
  BY <1>1, <1>2 DEF OpenFails, LoseMemory
<1>3. CASE ~OpenFails
  <2>1. PICK l : pc' = [pc EXCEPT ![Opener] = l]
    BY <1>3 DEF OpenerStep, OpenWal, ReplayRecord, FinishReplay, FinishOpen,
       SaveManifest, PutObject, BindName, TruncateMeta, WriteMeta, SyncMeta,
       TruncateLog, SyncLog, Goto
  <2>2. pc \in [Procs -> Pcs]
    BY DEF TypeInv, TypeOK, ThreadTypeOK
  <2> QED  BY <1>1, <2>1, <2>2
<1> QED  BY <1>2, <1>3

LEMMA PutLockNext ==
  TypeInv /\ LocksHeld /\ PutLockHeld /\ [Next]_vars => PutLockHeld'
<1> SUFFICES ASSUME TypeInv, LocksHeld, PutLockHeld, [Next]_vars PROVE PutLockHeld'
  OBVIOUS
<1>1. CASE UNCHANGED vars
  BY <1>1, PutLockSame DEF vars, lockVars
<1>2. CASE Kill \/ PowerLoss
  BY <1>2, PutLockIdle DEF Kill, PowerLoss, LoseMemory, Procs
<1>3. CASE OpenerStep
  BY <1>3, OpenerMoves, PutLockIdle
<1> QED  BY <1>1, <1>2, <1>3, PutLockClient DEF Next

\* Whoever changes histories or bindings has kept the other puts out.
LEMMA PutsAlone ==
  ASSUME TypeInv, LocksHeld, PutLockHeld
  PROVE  /\ putLock = NoOne => \A q \in Clients : pc[q] \notin PutPcs
         /\ \A p \in Clients : pc[p] \in PutPcs =>
              \A q \in Clients \ {p} : pc[q] \notin PutPcs
         /\ OpWriteFree => \A q \in Clients : pc[q] \notin ReaderPcs
         /\ \A p \in Clients : pc[p] \in WriterPcs =>
              \A q \in Clients : pc[q] \notin ReaderPcs
BY ProcessAssumption DEF PutLockHeld, LocksHeld, OpWriteFree
-----------------------------------------------------------------------------
(* Object ids                                                              *)

LogOids(log) == \A i \in DOMAIN log : log[i].oid <= generated

\* No step but the resolution of a new name generates an id: what it writes
\* goes to, binds, carries and logs objects that were known.
LEMMA OidsKept ==
  ASSUME OidsGenerated, generated' = generated,
         \A o \in ObjectIds : o > generated => objects'[o] = objects[o],
         \A n \in Names : names'[n] <= generated,
         \A q \in Procs : job'[q].oid <= generated,
         LogOids(walLog'), LogOids(walLogSynced')
  PROVE  OidsGenerated'
BY DEF OidsGenerated, LogOids

\* One thread moves on to a put of a known object.
LEMMA JobOids ==
  ASSUME TypeInv, OidsGenerated, NEW p \in Procs, NEW j, j.oid <= generated,
         job' = [job EXCEPT ![p] = j]
  PROVE  \A q \in Procs : job'[q].oid <= generated
<1>1. job \in [Procs -> WalPut]
  BY DEF TypeInv, TypeOK, CallTypeOK
<1> QED  BY <1>1 DEF OidsGenerated

LEMMA NoJobOid == NoJob.oid <= generated <=> 0 <= generated
BY DEF NoJob

LEMMA GeneratedNat ==
  ASSUME TypeInv
  PROVE  generated \in Nat /\ 0 <= generated
BY BoundAssumption DEF TypeInv, TypeOK, HistoryTypeOK

LEMMA AppendOids ==
  ASSUME NEW log \in Seq(WalRecord), NEW j \in WalRecord, LogOids(log), j.oid <= generated
  PROVE  LogOids(Append(log, j))
<1>1. /\ Append(log, j) \in Seq(WalRecord) /\ Len(Append(log, j)) = Len(log) + 1
      /\ \A i \in 1..Len(log) : Append(log, j)[i] = log[i]
      /\ Append(log, j)[Len(log) + 1] = j
  BY AppendProperties
<1>2. /\ DOMAIN Append(log, j) = 1..(Len(log) + 1) /\ DOMAIN log = 1..Len(log)
      /\ Len(log) \in Nat
  BY <1>1, LenProperties
<1> QED  BY <1>1, <1>2 DEF LogOids

\* Steps of clients and of recovery that change no table, log or job that
\* OidsGenerated speaks about.
LEMMA OidsSame ==
  ASSUME OidsGenerated,
         UNCHANGED <<objects, names, generated, job, walLog>>,
         walLogSynced' \in {walLog, walLogSynced}
  PROVE  OidsGenerated'
BY DEF OidsGenerated

\* A call ends.
LEMMA OidsReturn ==
  ASSUME TypeInv, OidsGenerated, NEW p \in Procs, job' = [job EXCEPT ![p] = NoJob],
         UNCHANGED <<objects, names, generated, walLogSynced>>, LogOids(walLog')
  PROVE  OidsGenerated'
<1>1. \A q \in Procs : job'[q].oid <= generated
  BY JobOids, NoJobOid, GeneratedNat
<1> QED  BY <1>1, OidsKept DEF OidsGenerated, LogOids

LEMMA OidsLost ==
  ASSUME TypeInv, OidsGenerated, LoseMemory, UNCHANGED <<objects, names, generated>>,
         walLog' \in {walLog, walLogSynced}, walLogSynced' \in {walLog, walLogSynced}
  PROVE  OidsGenerated'
<1>1. \A q \in Procs : job'[q].oid <= generated
  BY NoJobOid, GeneratedNat DEF LoseMemory
<1> QED  BY <1>1, OidsKept DEF OidsGenerated, LogOids

LEMMA OidsInit == Init => OidsGenerated
BY NoJobOid DEF Init, OidsGenerated, Procs, NoJob

LEMMA OidsClientPut ==
  ASSUME TypeInv, OidsGenerated, NEW p \in Clients,
         PutStep(p) \/ AcquireStep(p) \/ FailStep(p)
  PROVE  OidsGenerated'
<1> USE DEF TypeInv, TypeOK
<1>1. /\ p \in Procs /\ job \in [Procs -> WalPut] /\ walLog \in Seq(WalRecord)
      /\ names \in [Names -> 0..MaxObjects] /\ objects \in [ObjectIds -> ObjectRecord]
      /\ LogOids(walLog) /\ LogOids(walLogSynced) /\ job[p].oid <= generated
      /\ generated \in Nat
  BY GeneratedNat DEF Procs, CallTypeOK, WalTypeOK, StoreTypeOK, OidsGenerated, LogOids
<1>2. CASE \/ ReadStable(p) \/ SyncWal(p) \/ SaveManifest(p) \/ TruncateMeta(p)
           \/ WriteMeta(p) \/ SyncMeta(p) \/ SyncLog(p) \/ PutAcquireOp(p) \/ GcAcquireOp(p)
           \/ ReadUnstable(p) /\ MayRetry
  BY <1>2, OidsSame DEF ReadStable, SyncWal, SaveManifest, TruncateMeta, WriteMeta,
     SyncMeta, SyncLog, PutAcquireOp, GcAcquireOp, ReadUnstable, diskVars, walVars, histVars
<1>3. CASE \/ FinishPut(p) \/ PutFails(p) \/ GcFails(p)
           \/ ReadUnstable(p) /\ ~MayRetry
  BY <1>1, <1>3, OidsReturn DEF FinishPut, PutFails, GcFails, ReadUnstable, Return,
     diskVars, walVars, histVars
<1>4. CASE AppendWal(p)
  <2>1. job[p] \in WalRecord /\ currentLsn \in Nat
    BY <1>1, <1>4 DEF AppendWal, JobsResolved, SyncedPcs, WalTypeOK
  <2> DEFINE j == [job[p] EXCEPT !.lsn = currentLsn + 1]
  <2>2. j \in WalRecord /\ j.oid = job[p].oid
    BY <2>1 DEF WalRecord
  <2>3. job' = [job EXCEPT ![p] = j] /\ walLog' = Append(walLog, job'[p])
    BY <1>4 DEF AppendWal
  <2> HIDE DEF j
  <2>4. job'[p] = j
    BY <1>1, <2>3
  <2>5. LogOids(walLog')
    BY <1>1, <2>2, <2>3, <2>4, AppendOids
  <2>6. \A q \in Procs : job'[q].oid <= generated
    BY <1>1, <2>2, <2>3, JobOids
  <2> QED  BY <1>1, <1>4, <2>5, <2>6, OidsKept
           DEF AppendWal, diskVars, histVars, OidsGenerated, LogOids
<1>5. CASE AppendWalFails(p)
  <2>1. job[p] \in WalRecord
    BY <1>1, <1>5 DEF AppendWalFails, JobsResolved, SyncedPcs
  <2>2. LogOids(walLog')
    BY <1>1, <1>5, <2>1, AppendOids DEF AppendWalFails
  <2> QED  BY <1>1, <1>5, <2>2, OidsReturn DEF AppendWalFails, Return, diskVars, histVars
<1>6. CASE TruncateLog(p)
  <2>1. LogOids(walLog')
    BY <1>6 DEF TruncateLog, LogOids
  <2> QED  BY <1>1, <1>6, <2>1, OidsKept
           DEF TruncateLog, diskVars, histVars, OidsGenerated, LogOids
<1>7. CASE PutObject(p)
  <2>1. \A o \in ObjectIds : o > generated => objects'[o] = objects[o]
    BY <1>1, <1>7, BoundAssumption DEF PutObject, ObjectIds, WalPut
  <2> QED  BY <1>1, <1>7, <2>1, OidsKept
           DEF PutObject, diskVars, walVars, histVars, OidsGenerated, LogOids
<1>8. CASE BindName(p)
  <2>1. \A n \in Names : names'[n] <= generated
    BY <1>1, <1>8 DEF BindName, OidsGenerated
  <2> QED  BY <1>1, <1>8, <2>1, OidsKept
           DEF BindName, diskVars, walVars, histVars, OidsGenerated, LogOids
<1>9. CASE SyncAndResolve(p)
  <2> DEFINE o == names[job[p].name]
  <2>1. o \in 0..MaxObjects /\ o <= generated
    BY <1>1 DEF WalPut, OidsGenerated
  <2>2. UNCHANGED <<objects, names, walLog, walLogSynced>>
    BY <1>9 DEF SyncAndResolve, walVars
  <2>3. CASE generated' = generated
    <3>1. \E v \in Versions :
            job' = [job EXCEPT ![p] = [@ EXCEPT !.oid = o, !.version = v]]
      <4>1. generated' # generated + 1
        BY <1>1, <2>3
      <4> QED  BY <1>9, <4>1 DEF SyncAndResolve
    <3> PICK v \in Versions :
          job' = [job EXCEPT ![p] = [@ EXCEPT !.oid = o, !.version = v]]
      BY <3>1
    <3> DEFINE j == [job[p] EXCEPT !.oid = o, !.version = v]
    <3>2. j.oid = o
      <4> HIDE DEF o
      <4> QED  BY <1>1 DEF WalPut
    <3>3. job' = [job EXCEPT ![p] = j]
      BY <3>1
    <3>4. \A q \in Procs : job'[q].oid <= generated
      <4> HIDE DEF j, o
      <4> QED  BY <1>1, <2>1, <3>2, <3>3, JobOids
    <3> QED  BY <1>1, <2>2, <2>3, <3>4, OidsKept DEF OidsGenerated, LogOids
  <2>4. CASE generated' # generated
    <3>1. /\ generated' = generated + 1
          /\ job' = [job EXCEPT ![p] = [@ EXCEPT !.oid = generated + 1, !.version = 1]]
      BY <1>9, <2>4 DEF SyncAndResolve
    <3> DEFINE j == [job[p] EXCEPT !.oid = generated + 1, !.version = 1]
    <3>2. j.oid = generated + 1
      BY <1>1 DEF WalPut
    <3>3. job' = [job EXCEPT ![p] = j]
      BY <3>1
    <3>4. job'[p] = j /\ \A q \in Procs \ {p} : job'[q] = job[q]
      BY <1>1, <3>3
    <3>5. \A q \in Procs : job'[q].oid <= generated'
      <4>1. \A q \in Procs : job[q].oid \in Nat
        BY <1>1, BoundAssumption DEF WalPut
      <4> HIDE DEF j
      <4> QED  BY <1>1, <3>1, <3>2, <3>4, <4>1 DEF OidsGenerated
    <3>6. /\ \A o_1 \in ObjectIds : o_1 > generated' => objects[o_1] = NoRecord
          /\ \A n \in Names : names[n] <= generated'
      BY <1>1, <3>1, BoundAssumption DEF OidsGenerated, ObjectIds
    <3>7. \A log \in {walLog, walLogSynced} :
            \A i \in DOMAIN log : log[i].oid <= generated + 1
      <4>1. walLogSynced \in Seq(WalRecord)
        BY DEF WalTypeOK
      <4>2. \A log \in {walLog, walLogSynced} : \A i \in DOMAIN log : log[i].oid \in Nat
        <5> TAKE log \in {walLog, walLogSynced}
        <5> TAKE i \in DOMAIN log
        <5>1. log \in Seq(WalRecord)
          BY <1>1, <4>1
        <5>2. log[i] \in WalRecord
          BY <5>1, LenProperties, ElementOfSeq
        <5> QED  BY <5>2, BoundAssumption DEF WalRecord, ObjectIds
      <4> QED  BY <1>1, <4>2 DEF LogOids
    <3> QED  BY <2>2, <3>1, <3>5, <3>6, <3>7 DEF OidsGenerated
  <2> QED  BY <2>3, <2>4
<1> QED  BY <1>2, <1>3, <1>4, <1>5, <1>6, <1>7, <1>8, <1>9
       DEF PutStep, AcquireStep, FailStep
LEMMA OidsClientCall ==
  ASSUME TypeInv, OidsGenerated, NEW p \in Clients, OtherStep(p) \/ CallStep(p)
  PROVE  OidsGenerated'
<1>1. /\ p \in Procs /\ job \in [Procs -> WalPut]
      /\ names \in [Names -> 0..MaxObjects] /\ objects \in [ObjectIds -> ObjectRecord]
      /\ LogOids(walLog) /\ LogOids(walLogSynced)
      /\ generated \in Nat /\ 0 <= generated
  BY GeneratedNat DEF TypeInv, TypeOK, Procs, CallTypeOK, WalTypeOK, StoreTypeOK,
     OidsGenerated, LogOids
<1>2. CASE \/ GcMark(p) \/ GcSweepManifest(p) \/ GetFile(p) \/ RestoreSnapshot(p)
           \/ CreateSnapshot(p) \/ DeleteSnapshot(p) \/ BeginDelete(p) \/ BeginGc(p)
  <2>1. UNCHANGED <<objects, names, generated, job, walLog, walLogSynced>>
    BY <1>2 DEF GcMark, GcSweepManifest, GetFile, RestoreSnapshot, BeginRead, CreateSnapshot,
       DeleteSnapshot, BeginDelete, BeginGc, diskVars, walVars, histVars
  <2> QED  BY <2>1, OidsSame
<1>3. CASE FinishRead(p) \/ FinishDelete(p) \/ GcCompact(p)
  BY <1>1, <1>3, OidsReturn DEF FinishRead, FinishDelete, GcCompact, Return,
     diskVars, walVars, histVars
<1>4. CASE BeginPut(p)
  <2>1. PICK n \in Names, c \in Contents :
          job' = [job EXCEPT ![p] = [NoJob EXCEPT !.name = n, !.content = c]]
    BY <1>4 DEF BeginPut
  <2>2. [NoJob EXCEPT !.name = n, !.content = c].oid = 0
    BY NoJobType DEF WalPut, NoJob
  <2>3. \A q \in Procs : job'[q].oid <= generated
    BY <1>1, <2>1, <2>2, JobOids
  <2> QED  BY <1>1, <1>4, <2>3, OidsKept
           DEF BeginPut, diskVars, walVars, histVars, OidsGenerated, LogOids
<1>5. CASE RenameFile(p) \/ UnbindFile(p)
  <2>1. \A n \in Names : names'[n] <= generated
    BY <1>1, <1>5 DEF RenameFile, UnbindFile, Rebind, OidsGenerated
  <2> QED  BY <1>1, <1>5, <2>1, OidsKept
           DEF RenameFile, UnbindFile, diskVars, walVars, histVars, OidsGenerated, LogOids
<1>6. CASE PruneFileVersions(p) \/ RollbackFile(p) \/ DeleteNamedObject(p)
  <2>1. PICK n \in Names : \A o \in ObjectIds \ {names[n]} : objects'[o] = objects[o]
    BY <1>1, <1>6 DEF PruneFileVersions, RollbackFile, DeleteNamedObject, TypeInv, TypeOK,
       CallTypeOK
  <2>2. \A o \in ObjectIds : o > generated => objects'[o] = objects[o]
    BY <1>1, <2>1, BoundAssumption DEF OidsGenerated, ObjectIds
  <2>3. \A m \in Names : names'[m] <= generated
    BY <1>1, <1>6 DEF PruneFileVersions, RollbackFile, DeleteNamedObject, OidsGenerated
  <2> QED  BY <1>1, <1>6, <2>2, <2>3, OidsKept
           DEF PruneFileVersions, RollbackFile, DeleteNamedObject, diskVars, walVars,
               OidsGenerated, LogOids
<1> QED  BY <1>2, <1>3, <1>4, <1>5, <1>6 DEF OtherStep, CallStep

LEMMA OidsOpener ==
  ASSUME TypeInv, OidsGenerated, OpenerStep
  PROVE  OidsGenerated'
<1>1. /\ Opener \in Procs /\ job \in [Procs -> WalPut]
      /\ walLog \in Seq(WalRecord) /\ walLogSynced \in Seq(WalRecord)
      /\ names \in [Names -> 0..MaxObjects] /\ objects \in [ObjectIds -> ObjectRecord]
      /\ LogOids(walLog) /\ LogOids(walLogSynced) /\ job[Opener].oid <= generated
      /\ generated \in Nat
  BY GeneratedNat DEF TypeInv, TypeOK, Procs, CallTypeOK, WalTypeOK, StoreTypeOK,
     OidsGenerated, LogOids
<1>2. CASE \/ SaveManifest(Opener) \/ TruncateMeta(Opener) \/ WriteMeta(Opener)
           \/ SyncMeta(Opener) \/ SyncLog(Opener)
  BY <1>2, OidsSame DEF SaveManifest, TruncateMeta, WriteMeta, SyncMeta, SyncLog,
     diskVars, walVars, histVars
<1>3. CASE FinishOpen
  BY <1>1, <1>3, OidsReturn DEF FinishOpen, diskVars, walVars, histVars
<1>4. CASE OpenFails
  BY <1>4, OidsLost DEF OpenFails, diskVars, walVars, histVars
<1>5. CASE TruncateLog(Opener)
  <2>1. LogOids(walLog')
    BY <1>5 DEF TruncateLog, LogOids
  <2> QED  BY <1>1, <1>5, <2>1, OidsKept
           DEF TruncateLog, diskVars, histVars, OidsGenerated, LogOids
<1>6. CASE PutObject(Opener)
  <2>1. \A o \in ObjectIds : o > generated => objects'[o] = objects[o]
    BY <1>1, <1>6, BoundAssumption DEF PutObject, ObjectIds, WalPut
  <2> QED  BY <1>1, <1>6, <2>1, OidsKept
           DEF PutObject, diskVars, walVars, histVars, OidsGenerated, LogOids
<1>7. CASE BindName(Opener)
  <2>1. \A n \in Names : names'[n] <= generated
    BY <1>1, <1>7 DEF BindName, OidsGenerated
  <2> QED  BY <1>1, <1>7, <2>1, OidsKept
           DEF BindName, diskVars, walVars, histVars, OidsGenerated, LogOids
<1>8. CASE OpenWal
  <2>1. PICK k \in 0..Len(walLog) : walLog' = SubSeq(walLog, 1, k)
    BY <1>8 DEF OpenWal
  <2>2. DOMAIN walLog' = 1..k /\ (\A i \in 1..k : walLog'[i] = walLog[i])
        /\ 1..k \subseteq DOMAIN walLog
    BY <1>1, <2>1
  <2>3. LogOids(walLog')
    BY <1>1, <2>2 DEF LogOids
  <2> QED  BY <1>1, <1>8, <2>3, OidsKept
           DEF OpenWal, diskVars, walVars, histVars, OidsGenerated, LogOids
<1>9. CASE ReplayRecord
  <2>1. PICK i \in Unreplayed : job' = [job EXCEPT ![Opener] = walLog[i]]
    BY <1>9 DEF ReplayRecord
  <2>2. i \in DOMAIN walLog
    BY <1>1, <2>1 DEF Unreplayed, TypeInv, TypeOK, WalTypeOK
  <2>3. \A q \in Procs : job'[q].oid <= generated
    BY <1>1, <2>1, <2>2, JobOids DEF LogOids
  <2> QED  BY <1>1, <1>9, <2>3, OidsKept
           DEF ReplayRecord, diskVars, walVars, histVars, OidsGenerated, LogOids
<1>10. CASE FinishReplay
  <2>1. job' = job \/ \E l : job' = [job EXCEPT ![Opener] = [@ EXCEPT !.lsn = l]]
    BY <1>10 DEF FinishReplay
  <2>2. \A l : [job[Opener] EXCEPT !.lsn = l].oid = job[Opener].oid
    BY <1>1 DEF WalPut
  <2>3. \A q \in Procs : job'[q].oid = job[q].oid
    BY ZenonT(30), <1>1, <2>1, <2>2
  <2>4. \A q \in Procs : job'[q].oid <= generated
    BY <2>3 DEF OidsGenerated
  <2> QED  BY <1>1, <1>10, <2>4, OidsKept
           DEF FinishReplay, diskVars, walVars, histVars, OidsGenerated, LogOids
<1> QED  BY <1>2, <1>3, <1>4, <1>5, <1>6, <1>7, <1>8, <1>9, <1>10 DEF OpenerStep

LEMMA OidsNext == TypeInv /\ OidsGenerated /\ [Next]_vars => OidsGenerated'
<1> SUFFICES ASSUME TypeInv, OidsGenerated, [Next]_vars PROVE OidsGenerated'
  OBVIOUS
<1>1. CASE UNCHANGED vars
  BY <1>1, OidsSame DEF vars, diskVars, walVars, histVars
<1>2. CASE Kill \/ PowerLoss
  BY <1>2, OidsLost DEF Kill, PowerLoss, diskVars, walVars, histVars
<1> QED  BY <1>1, <1>2, OidsClientPut, OidsClientCall, OidsOpener DEF Next, ClientStep
-----------------------------------------------------------------------------
(* What puts claim                                                         *)

AppliedPcs == {"bind"} \cup CheckpointPcs

SamePut(r, s) ==
  r.name = s.name /\ r.oid = s.oid /\ r.version = s.version /\ r.content = s.content

\* Every put that has claims after the step had them before.
SameClaims ==
  \A q \in Clients :
    /\ pc'[q] \in BeforeObject => pc[q] \in BeforeObject /\ SamePut(job'[q], job[q])
    /\ pc'[q] \in AppliedPcs => pc[q] \in AppliedPcs /\ SamePut(job'[q], job[q])

ClaimPcs == BeforeObject \cup AppliedPcs

LEMMA ClaimPcsFacts ==
  /\ ClaimPcs \subseteq PutPcs /\ ClaimPcs \subseteq ReaderPcs
  /\ BeforeObject \cap AppliedPcs = {}
  /\ {"idle", "reading", "unlink", "gcOp", "gcMark", "gcSweep", "putOp", "read", "sync"}
       \cap ClaimPcs = {}
BY DEF ClaimPcs, BeforeObject, AppliedPcs, CheckpointPcs, PutPcs, PutSteps, ReaderPcs

LEMMA ClaimsIdle ==
  ASSUME \A q \in Clients : pc'[q] = "idle"
  PROVE  SameClaims
BY ClaimPcsFacts DEF SameClaims, ClaimPcs

LEMMA ClaimsMove ==
  ASSUME TypeInv, NEW p \in Clients, NEW l, pc' = [pc EXCEPT ![p] = l],
         \A q \in Clients \ {p} : job'[q] = job[q],
         l \in BeforeObject => pc[p] \in BeforeObject /\ SamePut(job'[p], job[p]),
         l \in AppliedPcs => pc[p] \in AppliedPcs /\ SamePut(job'[p], job[p])
  PROVE  SameClaims
<1>1. pc \in [Procs -> Pcs] /\ \A q \in Clients : q \in Procs
  BY DEF TypeInv, TypeOK, ThreadTypeOK, Procs
<1>2. pc'[p] = l /\ \A q \in Clients \ {p} : pc'[q] = pc[q]
  BY <1>1
<1> QED  BY <1>2 DEF SameClaims, SamePut

LEMMA ClaimsSame ==
  ASSUME UNCHANGED <<pc, job>>
  PROVE  SameClaims
BY DEF SameClaims, SamePut

\* A put that is at l and goes on keeps its claims, and no other client's
\* changes.
LEMMA ClaimsClient ==
  ASSUME TypeInv, NEW p \in Clients, ClientStep(p), ~SyncAndResolve(p), ~PutObject(p)
  PROVE  SameClaims
<1>1. job \in [Procs -> WalPut] /\ \A q \in Clients : q \in Procs
  BY DEF TypeInv, TypeOK, CallTypeOK, Procs
<1>2. CASE \/ ReadStable(p) \/ SyncWal(p) \/ SaveManifest(p) \/ BindName(p)
           \/ TruncateMeta(p) \/ WriteMeta(p) \/ SyncMeta(p) \/ TruncateLog(p) \/ SyncLog(p)
  <2>1. job' = job
    BY <1>2 DEF ReadStable, SyncWal, SaveManifest, BindName, TruncateMeta, WriteMeta, SyncMeta,
       TruncateLog, SyncLog
  <2>2. PICK l : /\ pc' = [pc EXCEPT ![p] = l]
                 /\ l \in BeforeObject => pc[p] \in BeforeObject
                 /\ l \in AppliedPcs => pc[p] \in AppliedPcs
    BY <1>2, ProcessAssumption DEF ReadStable, SyncWal, SaveManifest, BindName, TruncateMeta,
       WriteMeta, SyncMeta, TruncateLog, SyncLog, Goto, BeforeObject, AppliedPcs, CheckpointPcs
  <2> QED  BY <2>1, <2>2, ClaimsMove DEF SamePut
<1>3. CASE AppendWal(p)
  <2>1. job' = [job EXCEPT ![p] = [@ EXCEPT !.lsn = currentLsn + 1]]
        /\ pc' = [pc EXCEPT ![p] = "walSync"] /\ pc[p] \in BeforeObject
    BY <1>3 DEF AppendWal, Goto, BeforeObject
  <2>2. SamePut([job[p] EXCEPT !.lsn = currentLsn + 1], job[p])
    BY <1>1 DEF SamePut, WalPut
  <2>3. SamePut(job'[p], job[p]) /\ \A q \in Clients \ {p} : job'[q] = job[q]
    BY <1>1, <2>1, <2>2
  <2>4. "walSync" \notin AppliedPcs
    BY DEF AppliedPcs, CheckpointPcs
  <2> QED  BY <2>1, <2>3, <2>4, ClaimsMove
<1>4. CASE \/ FinishPut(p) \/ PutFails(p) \/ AppendWalFails(p) \/ GcFails(p)
           \/ FinishRead(p) \/ FinishDelete(p) \/ GcCompact(p)
           \/ ReadUnstable(p) /\ ~MayRetry
  <2>1. pc' = [pc EXCEPT ![p] = "idle"] /\ job' = [job EXCEPT ![p] = NoJob]
    BY <1>4 DEF FinishPut, PutFails, AppendWalFails, GcFails, FinishRead, FinishDelete,
       GcCompact, ReadUnstable, Return, Goto
  <2>2. \A q \in Clients \ {p} : job'[q] = job[q]
    BY <1>1, <2>1
  <2> QED  BY <2>1, <2>2, ClaimPcsFacts, ClaimsMove DEF ClaimPcs
<1>5. CASE BeginPut(p)
  <2>1. pc' = [pc EXCEPT ![p] = "putOp"] /\ \A q \in Clients \ {p} : job'[q] = job[q]
    BY <1>1, <1>5 DEF BeginPut, Goto
  <2> QED  BY <2>1, ClaimPcsFacts, ClaimsMove DEF ClaimPcs
<1>6. CASE \/ ReadUnstable(p) /\ MayRetry
           \/ DeleteNamedObject(p) \/ GcSweepManifest(p)
           \/ RenameFile(p) \/ PruneFileVersions(p)
           \/ CreateSnapshot(p) \/ DeleteSnapshot(p) \/ UnbindFile(p)
  BY <1>6, ClaimsSame DEF ReadUnstable, DeleteNamedObject, GcSweepManifest, RenameFile,
     PruneFileVersions, CreateSnapshot, DeleteSnapshot, UnbindFile
<1>7. CASE \/ GcMark(p) \/ GcAcquireOp(p) \/ BeginDelete(p) \/ BeginGc(p)
           \/ GetFile(p) \/ RestoreSnapshot(p) \/ RollbackFile(p) \/ PutAcquireOp(p)
  <2>1. PICK l \in {"reading", "unlink", "gcOp", "gcMark", "gcSweep", "read"} :
          pc' = [pc EXCEPT ![p] = l]
    BY <1>7 DEF GcMark, GcAcquireOp, BeginDelete, BeginGc, GetFile, RestoreSnapshot,
       RollbackFile, BeginRead, PutAcquireOp, Goto
  <2>2. job' = job
    BY <1>7 DEF GcMark, GcAcquireOp, BeginDelete, BeginGc, GetFile, RestoreSnapshot,
       RollbackFile, BeginRead, PutAcquireOp
  <2> QED  BY <2>1, <2>2, ClaimPcsFacts, ClaimsMove DEF ClaimPcs
<1> QED  BY <1>2, <1>3, <1>4, <1>5, <1>6, <1>7
       DEF ClientStep, PutStep, OtherStep, AcquireStep, FailStep, CallStep

-----------------------------------------------------------------------------
(* Acknowledged versions                                                   *)

AllDiffer == \A o \in ObjectIds : NumbersDiffer(objects[o])

LEMMA AckKept ==
  ASSUME AckInv, SameClaims, objects' = objects, acked' = acked
  PROVE  AckInv'
BY DEF AckInv, SameClaims, SamePut, PutClaims, AppliedPcs, AckedVersionsSurvive

\* Nobody has claims.
LEMMA NoClaims ==
  ASSUME \A q \in Clients : pc'[q] \notin ClaimPcs
  PROVE  PutClaims'
BY DEF PutClaims, ClaimPcs, AppliedPcs

\* A version gets a number that the history does not have.
LEMMA AckPush ==
  ASSUME TypeInv, AllDiffer, AckedVersionsSurvive,
         NEW o \in ObjectIds, NEW v \in Versions, NEW c \in Contents,
         ~HasVersion(objects[o], v),
         objects' = [objects EXCEPT ![o] = PushVersion(@, v, c)],
         acked' \subseteq acked \cup {[oid |-> o, version |-> v, content |-> c]}
  PROVE  AllDiffer' /\ AckedVersionsSurvive' /\ HasEntry(objects'[o], v, c)
<1>1. objects \in [ObjectIds -> ObjectRecord] /\ acked \subseteq Ack
  BY DEF TypeInv, TypeOK, StoreTypeOK, HistoryTypeOK
<1>2. objects'[o] = PushVersion(objects[o], v, c)
      /\ \A x \in ObjectIds \ {o} : objects'[x] = objects[x]
  BY <1>1
<1>3. /\ HasEntry(objects'[o], v, c) /\ NumbersDiffer(objects'[o])
      /\ \A w, d : HasEntry(objects[o], w, d) => HasEntry(objects'[o], w, d)
  BY <1>1, <1>2, PushKeeps DEF AllDiffer
<1>4. AllDiffer'
  BY <1>2, <1>3 DEF AllDiffer
<1>5. ASSUME NEW a \in acked' PROVE HasEntry(objects'[a.oid], a.version, a.content)
  <2>1. CASE a \in acked
    <3>1. HasEntry(objects[a.oid], a.version, a.content) /\ a.oid \in ObjectIds
      BY <1>1, <2>1 DEF AckedVersionsSurvive, HasEntry, Ack
    <3> QED  BY <1>2, <1>3, <3>1
  <2>2. CASE a = [oid |-> o, version |-> v, content |-> c]
    BY <1>3, <2>2
  <2> QED  BY <2>1, <2>2
<1> QED  BY <1>3, <1>4, <1>5 DEF AckedVersionsSurvive, HasEntry

LEMMA NextIsNew ==
  ASSUME NEW r \in ObjectRecord, NEW v \in Versions, IsNextVersion(r, v)
  PROVE  ~HasVersion(r, v)
<1>1. r.versions \in Seq(VersionEntry)
  BY DEF ObjectRecord
<1>2. ASSUME NEW i \in DOMAIN r.versions PROVE r.versions[i].version \in Nat
  <2>1. r.versions[i] \in VersionEntry
    BY <1>1
  <2> QED  BY <2>1, BoundAssumption DEF Versions, VersionEntry
<1>3. \A i \in DOMAIN r.versions : v > r.versions[i].version
  BY DEF IsNextVersion
<1>4. v \in Nat
  BY BoundAssumption DEF Versions
<1> QED  BY <1>2, <1>3, <1>4 DEF HasVersion

LEMMA AckPutObject ==
  ASSUME TypeInv, LocksHeld, PutLockHeld, AckInv, NEW p \in Clients, PutObject(p)
  PROVE  AckInv'
<1> DEFINE j == job[p]
<1>1. pc[p] = "object" /\ pc \in [Procs -> Pcs] /\ \A q \in Clients : q \in Procs
  BY DEF PutObject, TypeInv, TypeOK, ThreadTypeOK, Procs
<1>2. j \in WalRecord /\ ~HasVersion(objects[j.oid], j.version)
  BY <1>1 DEF TypeInv, JobsResolved, SyncedPcs, AckInv, PutClaims, BeforeObject
<1>3. /\ objects' = [objects EXCEPT ![j.oid] = PushVersion(@, j.version, j.content)]
      /\ acked' = acked /\ job' = job /\ pc' = [pc EXCEPT ![p] = "bind"]
  BY <1>2 DEF PutObject, Goto, histVars
<1>4. j.oid \in ObjectIds /\ j.version \in Versions /\ j.content \in Contents
  BY <1>2 DEF WalRecord
<1>5. AllDiffer' /\ AckedVersionsSurvive' /\ HasEntry(objects'[j.oid], j.version, j.content)
  <2> HIDE DEF j
  <2> QED  BY <1>2, <1>3, <1>4, AckPush DEF AckInv, AllDiffer
<1>6. pc'[p] = "bind" /\ \A q \in Clients \ {p} : pc'[q] \notin ClaimPcs
  <2>1. pc[p] \in PutPcs
    BY <1>1 DEF PutPcs, PutSteps
  <2> QED  BY <1>1, <1>3, <2>1, PutsAlone, ClaimPcsFacts
<1>7. PutClaims'
  <2>1. "bind" \notin BeforeObject
    BY DEF BeforeObject
  <2>2. HasEntry(objects'[job'[p].oid], job'[p].version, job'[p].content)
    BY <1>3, <1>5
  <2> HIDE DEF j
  <2> QED  BY <1>6, <2>1, <2>2 DEF PutClaims, ClaimPcs, AppliedPcs
<1> QED  BY <1>5, <1>7 DEF AckInv, AllDiffer

LEMMA AckReplay ==
  ASSUME TypeInv, LocksHeld, AckInv, PutObject(Opener)
  PROVE  AckInv'
<1> DEFINE j == job[Opener]
<1>1. OpenerStep /\ j \in WalRecord
  BY DEF OpenerStep, PutObject, TypeInv, JobsResolved, SyncedPcs, Procs
<1>2. \A q \in Clients : pc'[q] = "idle"
  BY <1>1, OpenerMoves
<1>3. CASE HasVersion(objects[j.oid], j.version)
  <2>1. objects' = objects /\ acked' = acked
    BY <1>3 DEF PutObject, histVars
  <2> QED  BY <1>2, <2>1, AckKept, ClaimsIdle
<1>4. CASE ~HasVersion(objects[j.oid], j.version)
  <2>1. /\ objects' = [objects EXCEPT ![j.oid] = PushVersion(@, j.version, j.content)]
        /\ acked' = acked
    BY <1>4 DEF PutObject, histVars
  <2>2. j.oid \in ObjectIds /\ j.version \in Versions /\ j.content \in Contents
    BY <1>1 DEF WalRecord
  <2>3. AllDiffer' /\ AckedVersionsSurvive'
    <3> HIDE DEF j
    <3> QED  BY <1>4, <2>1, <2>2, AckPush DEF AckInv, AllDiffer
  <2>4. PutClaims'
    BY <1>2, NoClaims, ClaimPcsFacts
  <2> QED  BY <2>3, <2>4 DEF AckInv, AllDiffer
<1> QED  BY <1>3, <1>4

LEMMA AckResolve ==
  ASSUME TypeInv, LocksHeld, PutLockHeld, OidsGenerated, AckInv,
         NEW p \in Clients, SyncAndResolve(p)
  PROVE  AckInv'
<1> DEFINE o == names[job[p].name]
<1>1. /\ pc[p] = "sync" /\ pc \in [Procs -> Pcs] /\ (\A q \in Clients : q \in Procs)
      /\ job \in [Procs -> WalPut] /\ objects \in [ObjectIds -> ObjectRecord]
      /\ o \in 0..MaxObjects /\ generated \in Nat
  BY GeneratedNat DEF SyncAndResolve, TypeInv, TypeOK, ThreadTypeOK, Procs, CallTypeOK,
     StoreTypeOK, WalPut
<1>2. objects' = objects /\ acked' = acked /\ pc' = [pc EXCEPT ![p] = "wal"]
  BY DEF SyncAndResolve, Goto
<1>3. pc'[p] = "wal" /\ \A q \in Clients \ {p} : pc'[q] \notin ClaimPcs
  <2>1. pc[p] \in PutPcs
    BY <1>1 DEF PutPcs, PutSteps
  <2> QED  BY <1>1, <1>2, <2>1, PutsAlone, ClaimPcsFacts
<1>4. ~HasVersion(objects[job'[p].oid], job'[p].version)
  <2>1. CASE o # 0 /\ Exists(o)
    <3>1. PICK v \in Versions :
            /\ IsNextVersion(objects[o], v)
            /\ job' = [job EXCEPT ![p] = [@ EXCEPT !.oid = o, !.version = v]]
      BY <2>1 DEF SyncAndResolve
    <3>2. job'[p].oid = o /\ job'[p].version = v
      <4> HIDE DEF o
      <4> QED  BY <1>1, <3>1 DEF WalPut
    <3>3. o \in ObjectIds
      BY <1>1, <2>1, BoundAssumption DEF ObjectIds
    <3> HIDE DEF o
    <3> QED  BY <1>1, <3>1, <3>2, <3>3, NextIsNew
  <2>2. CASE ~(o # 0 /\ Exists(o))
    <3>1. /\ generated < MaxObjects
          /\ job' = [job EXCEPT ![p] = [@ EXCEPT !.oid = generated + 1, !.version = 1]]
      BY <2>2 DEF SyncAndResolve
    <3>2. job'[p].oid = generated + 1
      BY <1>1, <3>1 DEF WalPut
    <3>3. generated + 1 \in ObjectIds /\ generated + 1 > generated
      BY <1>1, <3>1, BoundAssumption DEF ObjectIds
    <3>4. objects[generated + 1] = NoRecord
      BY <3>3 DEF OidsGenerated
    <3> QED  BY <3>2, <3>4 DEF HasVersion, NoRecord
  <2> QED  BY <2>1, <2>2
<1>5. PutClaims'
  <2>1. "wal" \notin AppliedPcs
    BY DEF AppliedPcs, CheckpointPcs
  <2> QED  BY <1>2, <1>3, <1>4, <2>1 DEF PutClaims, ClaimPcs, AppliedPcs
<1> QED  BY <1>2, <1>5 DEF AckInv, AckedVersionsSurvive

LEMMA AckFinish ==
  ASSUME TypeInv, AckInv, NEW p \in Clients, FinishPut(p)
  PROVE  AckInv'
<1>1. SameClaims
  <2>1. ~SyncAndResolve(p) /\ ~PutObject(p)
    BY DEF FinishPut, SyncAndResolve, PutObject
  <2> QED  BY <2>1, ClaimsClient DEF ClientStep, PutStep
<1>2. HasEntry(objects[job[p].oid], job[p].version, job[p].content)
  BY DEF FinishPut, AckInv, PutClaims, CheckpointPcs
<1>3. objects' = objects
      /\ acked' = acked \cup {[oid |-> job[p].oid, version |-> job[p].version,
                               content |-> job[p].content]}
  BY DEF FinishPut, diskVars
<1>4. AckedVersionsSurvive'
  BY <1>2, <1>3 DEF AckInv, AckedVersionsSurvive, HasEntry
<1>5. PutClaims'
  BY <1>1, <1>3 DEF AckInv, SameClaims, SamePut, PutClaims, AppliedPcs
<1> QED  BY <1>3, <1>4, <1>5 DEF AckInv

LEMMA AckPrune ==
  ASSUME TypeInv, LocksHeld, PutLockHeld, AckInv, NEW p \in Clients, PruneFileVersions(p)
  PROVE  AckInv'
<1>1. objects \in [ObjectIds -> ObjectRecord] /\ acked \subseteq Ack
      /\ names \in [Names -> 0..MaxObjects]
  BY DEF TypeInv, TypeOK, StoreTypeOK, HistoryTypeOK
<1>2. PICK n \in Names, k \in 0..MaxKeep :
        LET o    == names[n]
            vs   == objects[o].versions
            kept == SubSeq(vs, Len(vs) - k + 1, Len(vs))
        IN  /\ o # 0 /\ Len(vs) > k
            /\ objects' = [objects EXCEPT ![o].versions = kept]
            /\ acked' = {a \in acked : a.oid # o \/ \E i \in DOMAIN kept :
                                                      kept[i].version = a.version}
  BY DEF PruneFileVersions
<1> DEFINE o == names[n]
           s == Pruned(objects[o], k)
<1>3. o \in ObjectIds /\ objects[o] \in ObjectRecord /\ k \in Nat
  BY <1>1, <1>2, BoundAssumption DEF ObjectIds
<1>4. k < Len(objects[o].versions)
  <2>1. objects[o].versions \in Seq(VersionEntry)
    BY <1>3 DEF ObjectRecord
  <2> QED  BY <1>2, <1>3, <2>1
<1>5. objects' = [objects EXCEPT ![o] = s]
  BY <1>2 DEF Pruned
<1>6. acked' = {a \in acked : a.oid # o \/ HasVersion(s, a.version)}
  <2>1. s.versions = SubSeq(objects[o].versions, Len(objects[o].versions) - k + 1,
                            Len(objects[o].versions))
    BY <1>3 DEF Pruned, ObjectRecord
  <2> QED  BY <1>2, <2>1 DEF HasVersion
<1>7. /\ NumbersDiffer(s)
      /\ \A w, c : HasEntry(objects[o], w, c) /\ HasVersion(s, w) => HasEntry(s, w, c)
  BY <1>3, <1>4, PrunedKeeps DEF AckInv
<1> HIDE DEF s
<1>8. objects'[o] = s /\ \A x \in ObjectIds \ {o} : objects'[x] = objects[x]
  BY <1>1, <1>3, <1>5
<1>9. ASSUME NEW a \in acked' PROVE HasEntry(objects'[a.oid], a.version, a.content)
  <2>1. a \in acked /\ a.oid \in ObjectIds /\ (a.oid # o \/ HasVersion(s, a.version))
    BY <1>1, <1>6 DEF Ack
  <2>2. HasEntry(objects[a.oid], a.version, a.content)
    BY <2>1 DEF AckInv, AckedVersionsSurvive, HasEntry
  <2> QED  BY <1>7, <1>8, <2>1, <2>2
<1>10. AllDiffer'
  BY <1>7, <1>8 DEF AckInv, AllDiffer
<1>11. PutClaims'
  <2>1. putLock = NoOne /\ pc' = pc
    BY DEF PruneFileVersions, MayEditShared
  <2> QED  BY <2>1, PutsAlone, ClaimPcsFacts, NoClaims
<1> QED  BY <1>9, <1>10, <1>11 DEF AckInv, AllDiffer, AckedVersionsSurvive, HasEntry

LEMMA AckRollback ==
  ASSUME TypeInv, LocksHeld, PutLockHeld, AckInv, NEW p \in Clients, RollbackFile(p)
  PROVE  AckInv'
<1>1. /\ objects \in [ObjectIds -> ObjectRecord] /\ names \in [Names -> 0..MaxObjects]
      /\ pc \in [Procs -> Pcs] /\ (\A q \in Clients : q \in Procs)
  BY DEF TypeInv, TypeOK, StoreTypeOK, ThreadTypeOK, Procs
<1>2. PICK n \in Names, v \in Versions, c \in Contents :
        /\ names[n] # 0 /\ IsNextVersion(objects[names[n]], v)
        /\ objects' = [objects EXCEPT ![names[n]] = PushVersion(@, v, c)]
        /\ acked' = acked \cup {[oid |-> names[n], version |-> v, content |-> c]}
  <2>1. manifests \subseteq Contents
    BY DEF TypeInv, TypeOK, StoreTypeOK
  <2> QED  BY <2>1 DEF RollbackFile
<1>3. names[n] \in ObjectIds
  BY <1>1, <1>2, BoundAssumption DEF ObjectIds
<1>4. ~HasVersion(objects[names[n]], v)
  BY <1>1, <1>2, <1>3, NextIsNew
<1>5. AllDiffer' /\ AckedVersionsSurvive'
  BY <1>2, <1>3, <1>4, AckPush DEF AckInv, AllDiffer
<1>6. PutClaims'
  <2>1. putLock = NoOne /\ pc' = [pc EXCEPT ![p] = "reading"]
    BY DEF RollbackFile, MayEditShared, Goto
  <2>2. \A q \in Clients : pc'[q] \notin ClaimPcs
    BY <1>1, <2>1, PutsAlone, ClaimPcsFacts
  <2> QED  BY <2>2, NoClaims
<1> QED  BY <1>5, <1>6 DEF AckInv, AllDiffer

LEMMA AckDelete ==
  ASSUME TypeInv, LocksHeld, PutLockHeld, AckInv, NEW p \in Clients, DeleteNamedObject(p)
  PROVE  AckInv'
<1>1. /\ objects \in [ObjectIds -> ObjectRecord] /\ names \in [Names -> 0..MaxObjects]
      /\ acked \subseteq Ack /\ unlinking \subseteq Names
  BY DEF TypeInv, TypeOK, StoreTypeOK, HistoryTypeOK, CallTypeOK
<1>2. pc[p] \in WriterPcs /\ pc' = pc
  BY DEF DeleteNamedObject, WriterPcs
<1>3. PutClaims'
  BY <1>2, PutsAlone, ClaimPcsFacts, NoClaims
<1>4. CASE objects' = objects /\ acked' = acked
  BY <1>3, <1>4 DEF AckInv, AckedVersionsSurvive
<1>5. ASSUME NEW o \in ObjectIds, objects' = [objects EXCEPT ![o] = NoRecord],
             acked' = {a \in acked : a.oid # o}
      PROVE  AckInv'
  <2>1. objects'[o] = NoRecord /\ \A x \in ObjectIds \ {o} : objects'[x] = objects[x]
    BY <1>1, <1>5
  <2>2. NumbersDiffer(NoRecord)
    BY DEF NumbersDiffer, NoRecord
  <2>3. AllDiffer'
    BY <2>1, <2>2 DEF AckInv, AllDiffer
  <2>4. AckedVersionsSurvive'
    BY <1>1, <1>5, <2>1 DEF AckInv, AckedVersionsSurvive, Ack
  <2> QED  BY <1>3, <2>3, <2>4 DEF AckInv, AllDiffer
<1>6. PICK n \in Names :
        IF names[n] = 0 THEN UNCHANGED <<objects, acked>>
        ELSE /\ objects' = [objects EXCEPT ![names[n]] = NoRecord]
             /\ acked' = {a \in acked : a.oid # names[n]}
  BY <1>1 DEF DeleteNamedObject
<1>7. names[n] # 0 => names[n] \in ObjectIds
  BY <1>1, BoundAssumption DEF ObjectIds
<1> QED  BY <1>4, <1>5, <1>6, <1>7

LEMMA AckInit == Init => AckInv
<1> SUFFICES ASSUME Init PROVE AckInv
  OBVIOUS
<1>1. \A o \in ObjectIds : NumbersDiffer(objects[o])
  BY DEF Init, NumbersDiffer, NoRecord
<1>2. PutClaims
  BY DEF Init, PutClaims, BeforeObject, CheckpointPcs, Procs
<1> QED  BY <1>1, <1>2 DEF Init, AckInv, AckedVersionsSurvive

LEMMA AckNext ==
  TypeInv /\ LocksHeld /\ PutLockHeld /\ OidsGenerated /\ AckInv /\ [Next]_vars => AckInv'
<1> SUFFICES ASSUME TypeInv, LocksHeld, PutLockHeld, OidsGenerated, AckInv, [Next]_vars
             PROVE  AckInv'
  OBVIOUS
<1>1. CASE UNCHANGED vars
  BY <1>1, AckKept, ClaimsSame DEF vars, diskVars, histVars
<1>2. CASE Kill \/ PowerLoss
  <2>1. \A q \in Clients : pc'[q] = "idle"
    BY <1>2 DEF Kill, PowerLoss, LoseMemory, Procs
  <2>2. objects' = objects /\ acked' = acked
    BY <1>2 DEF Kill, PowerLoss, diskVars, histVars
  <2> QED  BY <2>1, <2>2, AckKept, ClaimsIdle
<1>3. CASE OpenerStep /\ ~PutObject(Opener)
  <2>1. objects' = objects /\ acked' = acked
    BY <1>3 DEF OpenerStep, OpenWal, ReplayRecord, OpenFails, FinishReplay, FinishOpen,
       SaveManifest, BindName, TruncateMeta, WriteMeta, SyncMeta, TruncateLog, SyncLog,
       diskVars, histVars
  <2> QED  BY <1>3, <2>1, OpenerMoves, AckKept, ClaimsIdle
<1>4. ASSUME NEW p \in Clients, ClientStep(p), ~SyncAndResolve(p), ~PutObject(p),
             ~FinishPut(p), ~PruneFileVersions(p), ~RollbackFile(p), ~DeleteNamedObject(p)
      PROVE  AckInv'
  <2>1. objects' = objects /\ acked' = acked
    BY <1>4 DEF ClientStep, PutStep, OtherStep, AcquireStep, FailStep, CallStep, ReadStable,
       AppendWal, SyncWal, SaveManifest, BindName, TruncateMeta, WriteMeta, SyncMeta,
       TruncateLog, SyncLog, FinishRead, FinishDelete, GcMark, GcSweepManifest, GcCompact,
       PutAcquireOp, GcAcquireOp, PutFails, AppendWalFails, GcFails, ReadUnstable, BeginPut,
       GetFile, RestoreSnapshot, BeginRead, RenameFile, CreateSnapshot, DeleteSnapshot,
       UnbindFile, BeginDelete, BeginGc, diskVars, histVars
  <2> QED  BY <1>4, <2>1, ClaimsClient, AckKept
<1>5. ASSUME NEW p \in Clients, ClientStep(p) PROVE AckInv'
  BY <1>4, <1>5, AckResolve, AckPutObject, AckFinish, AckPrune, AckRollback, AckDelete
<1> QED  BY <1>1, <1>2, <1>3, <1>5, AckReplay DEF Next

(* No version that put_file or rollback_file has reported is lost or       *)
(* replaced before it is pruned or deleted, whatever number of crashes and *)
(* I/O errors happen in between, and wherever they happen.                 *)
THEOREM AckedVersionsAreSafe == Spec => []AckedVersionsSurvive
<1>1. Init => TypeInv /\ LocksHeld /\ PutLockHeld /\ OidsGenerated /\ AckInv
  BY TypeInit, LocksInit, PutLockInit, OidsInit, AckInit
<1>2. TypeInv /\ LocksHeld /\ PutLockHeld /\ OidsGenerated /\ AckInv /\ [Next]_vars
        => (TypeInv /\ LocksHeld /\ PutLockHeld /\ OidsGenerated /\ AckInv)'
  BY TypeNext, LocksNext, PutLockNext, OidsNext, AckNext
<1>3. AckInv => AckedVersionsSurvive
  BY DEF AckInv
<1> QED  BY <1>1, <1>2, <1>3, PTL DEF Spec
-----------------------------------------------------------------------------
(* Order: names lead to objects, histories are sorted                      *)

DeletedGenerated == \A o \in deleted : o <= generated

LEMMA DeletedGeneratedNext ==
  ASSUME TypeInv, OidsGenerated, DeletedGenerated, [Next]_vars
  PROVE  DeletedGenerated'
<1>1. /\ generated \in Nat /\ deleted \subseteq ObjectIds /\ unlinking \subseteq Names
      /\ \A n \in Names : names[n] \in Nat
      /\ \A o \in ObjectIds : o \in Nat
  BY GeneratedNat, BoundAssumption DEF TypeInv, TypeOK, HistoryTypeOK, CallTypeOK, StoreTypeOK,
     ObjectIds
<1>2. ASSUME NEW p \in Clients, DeleteNamedObject(p) PROVE DeletedGenerated'
  BY <1>1, <1>2 DEF DeleteNamedObject, DeletedGenerated, OidsGenerated
<1>3. ASSUME NEW p \in Clients, SyncAndResolve(p) PROVE DeletedGenerated'
  <2>1. deleted' = deleted /\ generated' \in {generated, generated + 1}
    BY <1>3 DEF SyncAndResolve
  <2> QED  BY <1>1, <2>1 DEF DeletedGenerated
<1>4. ASSUME UNCHANGED <<deleted, generated>> PROVE DeletedGenerated'
  BY <1>4 DEF DeletedGenerated
<1>5. ASSUME NEW p \in Clients, ClientStep(p), ~SyncAndResolve(p), ~DeleteNamedObject(p)
      PROVE  UNCHANGED <<deleted, generated>>
  BY <1>5 DEF ClientStep, PutStep, OtherStep, AcquireStep, FailStep, CallStep, ReadStable,
     AppendWal, SyncWal, SaveManifest, PutObject, BindName, TruncateMeta, WriteMeta, SyncMeta,
     TruncateLog, SyncLog, FinishPut, FinishRead, FinishDelete, GcMark, GcSweepManifest,
     GcCompact, PutAcquireOp, GcAcquireOp, PutFails, AppendWalFails, GcFails, ReadUnstable,
     BeginPut, GetFile, RestoreSnapshot, BeginRead, RenameFile, PruneFileVersions,
     RollbackFile, CreateSnapshot, DeleteSnapshot, UnbindFile, BeginDelete, BeginGc, histVars
<1>6. CASE OpenerStep \/ Kill \/ PowerLoss \/ UNCHANGED vars
  <2>1. UNCHANGED <<deleted, generated>>
    BY <1>6 DEF OpenerStep, OpenWal, ReplayRecord, OpenFails, FinishReplay, FinishOpen,
       SaveManifest, PutObject, BindName, TruncateMeta, WriteMeta, SyncMeta, TruncateLog,
       SyncLog, Kill, PowerLoss, vars, histVars
  <2> QED  BY <1>4, <2>1
<1> QED  BY <1>2, <1>3, <1>4, <1>5, <1>6 DEF Next

LEMMA OrderedFacts ==
  VersionsIncreasing <=> \A o \in ObjectIds : InOrder(objects[o])
BY DEF VersionsIncreasing, InOrder

\* No entry is newer than the latest version.
LEMMA LatestIsLast ==
  ASSUME NEW r \in ObjectRecord, InOrder(r), NEW v, HasVersion(r, v)
  PROVE  v \in Nat /\ v <= r.latest
<1> DEFINE h == r.versions
           n == Len(h)
<1>1. h \in Seq(VersionEntry) /\ n \in Nat /\ DOMAIN h = 1..n /\ r.latest \in Nat
  BY LenProperties, BoundAssumption DEF ObjectRecord
<1>2. PICK i \in 1..n : h[i].version = v
  BY <1>1 DEF HasVersion
<1>3. h # << >> /\ n \in 1..n
  BY <1>1, <1>2
<1>4. h[n].version = r.latest
  BY <1>3 DEF InOrder
<1>5. i = n \/ h[i].version < h[n].version
  BY <1>1, <1>3 DEF InOrder
<1>6. h[i] \in VersionEntry
  BY <1>1, <1>2, ElementOfSeq
<1>7. v \in Nat
  BY <1>2, <1>6, BoundAssumption DEF VersionEntry, Versions
<1> HIDE DEF h, n
<1> QED  BY <1>1, <1>2, <1>4, <1>5, <1>7

\* So the number that put_file_named and rollback_file choose is the next one.
LEMMA NextIsLatest ==
  ASSUME NEW r \in ObjectRecord, InOrder(r), NEW v \in Versions, IsNextVersion(r, v)
  PROVE  v = r.latest + 1
<1>1. v \in Nat /\ r.latest \in Nat /\ v > r.latest
  BY BoundAssumption DEF Versions, ObjectRecord, IsNextVersion
<1>2. v - 1 = r.latest \/ v - 1 <= r.latest
  BY LatestIsLast DEF IsNextVersion
<1> QED  BY <1>1, <1>2

LEMMA EntryIsVersion ==
  ASSUME NEW r, NEW v, NEW c, HasEntry(r, v, c)
  PROVE  HasVersion(r, v)
BY DEF HasEntry, HasVersion

\* The put is applied: its version becomes the last of its object.
LEMMA OrderedPush ==
  ASSUME TypeInv, Ordered, NEW r \in WalRecord, Claimed(r), Unapplied(r),
         objects' = [objects EXCEPT ![r.oid] = PushVersion(@, r.version, r.content)],
         UNCHANGED <<names, deleted>>
  PROVE  Ordered' /\ Claimed(r)' /\ Applied(r)'
<1>1. /\ objects \in [ObjectIds -> ObjectRecord] /\ r.oid \in ObjectIds
      /\ r.version \in Versions /\ r.content \in Contents
      /\ names \in [Names -> 0..MaxObjects]
      /\ r.version \in Nat /\ r.version > 0
  BY BoundAssumption DEF TypeInv, TypeOK, StoreTypeOK, WalRecord, Versions
<1>2. /\ objects'[r.oid] = PushVersion(objects[r.oid], r.version, r.content)
      /\ \A x \in ObjectIds \ {r.oid} : objects'[x] = objects[x]
  BY <1>1
<1>3. objects'[r.oid].latest = r.version
  BY <1>2 DEF PushVersion
<1>4. InOrder(objects'[r.oid])
  BY <1>1, <1>2, PushInOrder, OrderedFacts DEF Ordered, Unapplied
<1>5. VersionsIncreasing'
  <2>1. \A o \in ObjectIds : InOrder(objects'[o])
    BY <1>2, <1>4, OrderedFacts DEF Ordered
  <2> QED  BY <2>1 DEF VersionsIncreasing, InOrder
<1>6. NamesResolve'
  BY <1>1, <1>2, <1>3, BoundAssumption DEF Ordered, NamesResolve, Exists, ObjectIds
<1>7. DeletedStaysDeleted'
  <2>1. deleted \subseteq ObjectIds /\ r.oid \notin deleted
    BY DEF TypeInv, TypeOK, HistoryTypeOK, Claimed
  <2> QED  BY <1>2, <2>1 DEF Ordered, DeletedStaysDeleted, Exists
<1>8. Applied(r)'
  BY <1>1, <1>2, <1>3, PushKeeps DEF Applied
<1>9. Claimed(r)'
  <2>1. CASE names[r.name] = r.oid
    BY <2>1 DEF Claimed
  <2>2. CASE names[r.name] # r.oid
    <3>1. /\ names[r.name] = 0 /\ (\A n \in Names : names[n] # r.oid) /\ r.version = 1
          /\ objects[r.oid] \in {NoRecord, PushVersion(NoRecord, 1, r.content)}
      BY <2>2 DEF Claimed
    <3>2. objects[r.oid] = NoRecord
      BY <1>1, <3>1 DEF Unapplied, PushVersion
    <3> QED  BY <1>2, <3>1, <3>2 DEF Claimed
  <2> QED  BY <2>1, <2>2
<1> QED  BY <1>5, <1>6, <1>7, <1>8, <1>9 DEF Ordered

\* And its name is bound to the object.
LEMMA OrderedBind ==
  ASSUME TypeInv, Ordered, NEW r \in WalRecord, Claimed(r), Applied(r),
         names' = [names EXCEPT ![r.name] = r.oid], UNCHANGED <<objects, deleted>>
  PROVE  Ordered' /\ Claimed(r)' /\ Applied(r)' /\ names'[r.name] = r.oid
<1>1. /\ names \in [Names -> 0..MaxObjects] /\ r.name \in Names /\ r.oid \in ObjectIds
      /\ r.version \in Nat /\ r.version > 0
  BY BoundAssumption DEF TypeInv, TypeOK, StoreTypeOK, WalRecord, Versions
<1>2. names'[r.name] = r.oid /\ \A n \in Names \ {r.name} : names'[n] = names[n]
  BY <1>1
<1>3. Exists(r.oid)
  BY <1>1 DEF Applied, Exists
<1>4. \A n \in Names \ {r.name} : names[n] # r.oid
  <2>1. r.oid # 0
    BY <1>1, BoundAssumption DEF ObjectIds
  <2> QED  BY <1>1, <2>1 DEF Claimed, Ordered, NamesResolve
<1>5. NamesResolve'
  BY <1>1, <1>2, <1>3, <1>4 DEF Ordered, NamesResolve, Exists
<1>6. VersionsIncreasing' /\ DeletedStaysDeleted'
  BY DEF Ordered, VersionsIncreasing, DeletedStaysDeleted, Exists
<1>7. Claimed(r)' /\ Applied(r)'
  BY <1>2 DEF Claimed, Applied
<1> QED  BY <1>2, <1>5, <1>6, <1>7 DEF Ordered

LEMMA OrderedSame ==
  ASSUME Ordered, UNCHANGED <<names, objects, deleted>>
  PROVE  Ordered'
BY DEF Ordered, NamesResolve, VersionsIncreasing, DeletedStaysDeleted, Exists
LEMMA ClaimsKept ==
  ASSUME ClientClaims, SameClaims, UNCHANGED <<names, objects, deleted>>,
         \A q \in Clients : pc'[q] \in CheckpointPcs => pc[q] \in CheckpointPcs
  PROVE  ClientClaims'
<1> SUFFICES ASSUME NEW q \in Clients
             PROVE  /\ pc'[q] \in BeforeObject => Claimed(job[q])' /\ Unapplied(job[q])'
                    /\ pc'[q] \in AppliedPcs => Claimed(job[q])' /\ Applied(job[q])'
                    /\ pc'[q] \in CheckpointPcs => names'[job'[q].name] = job'[q].oid
  BY DEF ClientClaims, AppliedPcs
<1>1. CASE pc'[q] \in BeforeObject
  <2>1. Claimed(job[q]) /\ Unapplied(job[q]) /\ SamePut(job'[q], job[q])
    BY <1>1 DEF SameClaims, ClientClaims
  <2>2. Claimed(job[q])' /\ Unapplied(job[q])'
    BY <2>1 DEF SamePut, Claimed, Unapplied
  <2>3. pc'[q] \notin AppliedPcs
    BY <1>1, ClaimPcsFacts
  <2> QED  BY <2>2, <2>3 DEF AppliedPcs
<1>2. CASE pc'[q] \in AppliedPcs
  <2>1. Claimed(job[q]) /\ Applied(job[q]) /\ SamePut(job'[q], job[q])
    BY <1>2 DEF SameClaims, ClientClaims, AppliedPcs
  <2>2. Claimed(job[q])' /\ Applied(job[q])'
    BY <2>1 DEF SamePut, Claimed, Applied
  <2>3. pc'[q] \notin BeforeObject
    BY <1>2, ClaimPcsFacts
  <2>4. pc'[q] \in CheckpointPcs => names'[job'[q].name] = job'[q].oid
    BY <2>1 DEF ClientClaims, SamePut
  <2> QED  BY <2>2, <2>3, <2>4
<1> QED  BY <1>1, <1>2 DEF AppliedPcs

LEMMA NoClientClaims ==
  ASSUME \A q \in Clients : pc'[q] \notin ClaimPcs
  PROVE  ClientClaims'
BY DEF ClientClaims, ClaimPcs, AppliedPcs

\* Only one put has claims.
LEMMA OneClaim ==
  ASSUME NEW p \in Clients, \A q \in Clients \ {p} : pc'[q] \notin ClaimPcs,
         pc'[p] \in BeforeObject => Claimed(job[p])' /\ Unapplied(job[p])',
         pc'[p] \in AppliedPcs => Claimed(job[p])' /\ Applied(job[p])',
         pc'[p] \in CheckpointPcs => names'[job'[p].name] = job'[p].oid
  PROVE  ClientClaims'
BY DEF ClientClaims, ClaimPcs, AppliedPcs

\* A put that changes the tables is alone.
LEMMA OthersHaveNoClaims ==
  ASSUME TypeInv, LocksHeld, PutLockHeld, NEW p \in Clients, pc[p] \in PutPcs, NEW l,
         pc' = [pc EXCEPT ![p] = l]
  PROVE  pc'[p] = l /\ \A q \in Clients \ {p} : pc'[q] \notin ClaimPcs
<1>1. pc \in [Procs -> Pcs] /\ \A q \in Clients : q \in Procs
  BY DEF TypeInv, TypeOK, ThreadTypeOK, Procs
<1> QED  BY <1>1, PutsAlone, ClaimPcsFacts

LEMMA OrderResolve ==
  ASSUME TypeInv, LocksHeld, PutLockHeld, OidsGenerated, DeletedGenerated, Ordered,
         NEW p \in Clients, SyncAndResolve(p)
  PROVE  Ordered' /\ ClientClaims'
<1> DEFINE o == names[job[p].name]
<1>1. /\ pc[p] \in PutPcs /\ p \in Procs /\ job \in [Procs -> WalPut]
      /\ objects \in [ObjectIds -> ObjectRecord] /\ names \in [Names -> 0..MaxObjects]
      /\ o \in 0..MaxObjects /\ generated \in Nat /\ deleted \subseteq ObjectIds
      /\ \A x \in ObjectIds : x \in Nat
  <2>1. pc[p] \in PutPcs
    BY DEF SyncAndResolve, PutPcs, PutSteps
  <2>2. /\ p \in Procs /\ job \in [Procs -> WalPut]
        /\ objects \in [ObjectIds -> ObjectRecord] /\ names \in [Names -> 0..MaxObjects]
        /\ deleted \subseteq ObjectIds
    BY DEF TypeInv, TypeOK, Procs, CallTypeOK, StoreTypeOK, HistoryTypeOK
  <2>3. o \in 0..MaxObjects
    BY <2>2 DEF WalPut
  <2>4. \A x \in ObjectIds : x \in Nat
    BY BoundAssumption DEF ObjectIds
  <2> QED  BY <2>1, <2>2, <2>3, <2>4, GeneratedNat
<1>2. UNCHANGED <<objects, names, deleted>> /\ pc' = [pc EXCEPT ![p] = "wal"]
  BY DEF SyncAndResolve, Goto
<1>3. Claimed(job[p])' /\ Unapplied(job[p])'
  <2>1. CASE o # 0 /\ Exists(o)
    <3>1. PICK v \in Versions :
            /\ IsNextVersion(objects[o], v)
            /\ job' = [job EXCEPT ![p] = [@ EXCEPT !.oid = o, !.version = v]]
      BY <2>1 DEF SyncAndResolve
    <3>2. job'[p].oid = o /\ job'[p].version = v /\ job'[p].name = job[p].name
      <4> HIDE DEF o
      <4> QED  BY <1>1, <3>1 DEF WalPut
    <3>3. o \in ObjectIds
      BY <1>1, <2>1, BoundAssumption DEF ObjectIds
    <3>4. v = objects[o].latest + 1
      <4> HIDE DEF o
      <4> QED  BY <1>1, <3>1, <3>3, NextIsLatest, OrderedFacts DEF Ordered
    <3>5. o \notin deleted
      BY <2>1 DEF Ordered, DeletedStaysDeleted
    <3>6. names'[job'[p].name] = job'[p].oid
      BY <1>2, <3>2
    <3> HIDE DEF o
    <3> QED  BY <1>2, <3>2, <3>4, <3>5, <3>6 DEF Claimed, Unapplied
  <2>2. CASE ~(o # 0 /\ Exists(o))
    <3>1. /\ o = 0 /\ generated < MaxObjects
          /\ job' = [job EXCEPT ![p] = [@ EXCEPT !.oid = generated + 1, !.version = 1]]
      BY <2>2 DEF SyncAndResolve
    <3>2. job'[p].oid = generated + 1 /\ job'[p].version = 1 /\ job'[p].name = job[p].name
      BY <1>1, <3>1 DEF WalPut
    <3>3. generated + 1 \in ObjectIds /\ generated + 1 > generated
      BY <1>1, <3>1, BoundAssumption DEF ObjectIds
    <3>4. objects[generated + 1] = NoRecord
      BY <3>3 DEF OidsGenerated
    <3>5. generated + 1 \notin deleted
      BY <1>1 DEF DeletedGenerated
    <3>6. \A n \in Names : names[n] # generated + 1
      BY <1>1 DEF OidsGenerated
    <3>7. names'[job'[p].name] = 0
      BY <1>2, <3>1, <3>2
    <3> QED  BY <1>2, <3>2, <3>4, <3>5, <3>6, <3>7 DEF Claimed, Unapplied, NoRecord
  <2> QED  BY <2>1, <2>2
<1>4. "wal" \notin AppliedPcs /\ "wal" \notin CheckpointPcs
  BY DEF AppliedPcs, CheckpointPcs
<1>5. ClientClaims'
  <2>1. pc'[p] = "wal" /\ \A q \in Clients \ {p} : pc'[q] \notin ClaimPcs
    BY <1>1, <1>2, OthersHaveNoClaims
  <2> HIDE DEF o
  <2> QED  BY <1>3, <1>4, <2>1, OneClaim
<1> QED  BY <1>2, <1>5, OrderedSame

LEMMA OrderPutObject ==
  ASSUME TypeInv, LocksHeld, PutLockHeld, Ordered, ClientClaims, NEW p \in Clients, PutObject(p)
  PROVE  Ordered' /\ ClientClaims'
<1>1. PICK r : r = job[p]
  OBVIOUS
<1>2. /\ pc[p] = "object" /\ pc[p] \in PutPcs /\ pc[p] \in BeforeObject
      /\ objects \in [ObjectIds -> ObjectRecord]
  BY DEF PutObject, PutPcs, PutSteps, BeforeObject, TypeInv, TypeOK, StoreTypeOK
<1>3. r \in WalRecord /\ Claimed(r) /\ Unapplied(r)
  BY <1>1, <1>2 DEF TypeInv, JobsResolved, SyncedPcs, Procs, ClientClaims
<1>4. ~HasVersion(objects[r.oid], r.version)
  <2>1. r.oid \in ObjectIds /\ objects[r.oid].latest \in Nat
    BY <1>2, <1>3, BoundAssumption DEF WalRecord, ObjectRecord
  <2> QED  BY <1>2, <1>3, <2>1, LatestIsLast, OrderedFacts DEF Ordered, Unapplied
<1>5. /\ objects' = [objects EXCEPT ![r.oid] = PushVersion(@, r.version, r.content)]
      /\ UNCHANGED <<names, deleted, job>> /\ pc' = [pc EXCEPT ![p] = "bind"]
  BY <1>1, <1>4 DEF PutObject, Goto, histVars
<1>6. Ordered' /\ Claimed(r)' /\ Applied(r)'
  BY <1>3, <1>5, OrderedPush
<1>7. Claimed(job[p])' /\ Applied(job[p])'
  BY <1>1, <1>5, <1>6
<1>8. "bind" \notin BeforeObject /\ "bind" \notin CheckpointPcs
  BY DEF BeforeObject, CheckpointPcs
<1>9. ClientClaims'
  <2>1. pc'[p] = "bind" /\ \A q \in Clients \ {p} : pc'[q] \notin ClaimPcs
    BY <1>2, <1>5, OthersHaveNoClaims
  <2> QED  BY <1>7, <1>8, <2>1, OneClaim
<1> QED  BY <1>6, <1>9

LEMMA OrderBindName ==
  ASSUME TypeInv, LocksHeld, PutLockHeld, Ordered, ClientClaims, NEW p \in Clients, BindName(p)
  PROVE  Ordered' /\ ClientClaims'
<1>1. PICK r : r = job[p]
  OBVIOUS
<1>2. pc[p] = "bind" /\ pc[p] \in PutPcs
  BY DEF BindName, PutPcs, PutSteps
<1>3. r \in WalRecord /\ Claimed(r) /\ Applied(r)
  BY <1>1, <1>2 DEF TypeInv, JobsResolved, SyncedPcs, Procs, ClientClaims
<1>4. /\ names' = [names EXCEPT ![r.name] = r.oid]
      /\ UNCHANGED <<objects, deleted, job>> /\ pc' = [pc EXCEPT ![p] = "checkpoint"]
  BY <1>1, ProcessAssumption DEF BindName, Goto, histVars
<1>5. Ordered' /\ Claimed(r)' /\ Applied(r)' /\ names'[r.name] = r.oid
  BY <1>3, <1>4, OrderedBind
<1>6. Claimed(job[p])' /\ Applied(job[p])' /\ names'[job'[p].name] = job'[p].oid
  BY <1>1, <1>4, <1>5
<1>7. "checkpoint" \notin BeforeObject
  BY DEF BeforeObject
<1>8. ClientClaims'
  <2>1. pc'[p] = "checkpoint" /\ \A q \in Clients \ {p} : pc'[q] \notin ClaimPcs
    BY <1>2, <1>4, OthersHaveNoClaims
  <2> QED  BY <1>6, <1>7, <2>1, OneClaim
<1> QED  BY <1>5, <1>8

LEMMA OrderNames ==
  ASSUME TypeInv, LocksHeld, PutLockHeld, Ordered, NEW p \in Clients,
         RenameFile(p) \/ UnbindFile(p)
  PROVE  Ordered' /\ ClientClaims'
<1>1. names \in [Names -> 0..MaxObjects]
  BY DEF TypeInv, TypeOK, StoreTypeOK
<1>2. UNCHANGED <<objects, deleted, pc>>
  BY DEF RenameFile, UnbindFile, histVars
<1>3. CASE UnbindFile(p)
  <2>1. OpWriteFree
    BY <1>3 DEF UnbindFile, MayEditAlone
  <2>2. \A n \in Names : names'[n] = names[n] \/ names'[n] = 0
    BY <1>1, <1>3 DEF UnbindFile
  <2>3. Ordered'
    BY <1>2, <2>2 DEF Ordered, NamesResolve, VersionsIncreasing, DeletedStaysDeleted, Exists
  <2> QED  BY <1>2, <2>1, <2>3, PutsAlone, ClaimPcsFacts, NoClientClaims
<1>4. CASE RenameFile(p)
  <2>1. putLock = NoOne
    BY <1>4 DEF RenameFile, MayEditShared
  <2>2. PICK old \in Names, new \in Names : old # new /\ names[old] # 0 /\ names' = Rebind(old, new)
    BY <1>4 DEF RenameFile
  <2>3. /\ names'[old] = 0 /\ names'[new] = names[old]
        /\ \A n \in Names \ {old, new} : names'[n] = names[n]
    BY <1>1, <2>2 DEF Rebind
  <2>4. Ordered'
    BY <1>2, <2>2, <2>3 DEF Ordered, NamesResolve, VersionsIncreasing, DeletedStaysDeleted, Exists
  <2> QED  BY <1>2, <2>1, <2>4, PutsAlone, ClaimPcsFacts, NoClientClaims
<1> QED  BY <1>3, <1>4
\* One record changes, keeps its order, and exists as before.
LEMMA OrderedUpdate ==
  ASSUME TypeInv, Ordered, NEW o \in ObjectIds, NEW s, InOrder(s),
         o \notin deleted, Exists(o) => s.latest > 0,
         objects' = [objects EXCEPT ![o] = s], UNCHANGED <<names, deleted>>
  PROVE  Ordered'
<1>1. /\ objects \in [ObjectIds -> ObjectRecord] /\ names \in [Names -> 0..MaxObjects]
      /\ deleted \subseteq ObjectIds
      /\ \A n \in Names : names[n] # 0 => names[n] \in ObjectIds
  BY BoundAssumption DEF TypeInv, TypeOK, StoreTypeOK, HistoryTypeOK, ObjectIds
<1>2. objects'[o] = s /\ \A x \in ObjectIds \ {o} : objects'[x] = objects[x]
  BY <1>1
<1>3. VersionsIncreasing'
  <2>1. \A x \in ObjectIds : InOrder(objects'[x])
    BY <1>2, OrderedFacts DEF Ordered
  <2> QED  BY <2>1 DEF VersionsIncreasing, InOrder
<1>4. NamesResolve'
  BY <1>1, <1>2 DEF Ordered, NamesResolve, Exists
<1>5. DeletedStaysDeleted'
  BY <1>1, <1>2 DEF Ordered, DeletedStaysDeleted, Exists
<1> QED  BY <1>3, <1>4, <1>5 DEF Ordered

LEMMA OrderPrune ==
  ASSUME TypeInv, LocksHeld, PutLockHeld, Ordered, NEW p \in Clients, PruneFileVersions(p)
  PROVE  Ordered' /\ ClientClaims'
<1>1. objects \in [ObjectIds -> ObjectRecord] /\ names \in [Names -> 0..MaxObjects]
  BY DEF TypeInv, TypeOK, StoreTypeOK
<1>2. PICK n \in Names, k \in 0..MaxKeep :
        /\ names[n] # 0 /\ Exists(names[n]) /\ Len(objects[names[n]].versions) > k
        /\ objects' = [objects EXCEPT ![names[n]] = Pruned(objects[names[n]], k)]
  BY DEF PruneFileVersions, Pruned
<1> DEFINE o == names[n]
           s == Pruned(objects[o], k)
<1>3. o \in ObjectIds /\ objects[o] \in ObjectRecord /\ k \in Nat
  BY <1>1, <1>2, BoundAssumption DEF ObjectIds
<1>4. k < Len(objects[o].versions)
  <2>1. objects[o].versions \in Seq(VersionEntry)
    BY <1>3 DEF ObjectRecord
  <2> QED  BY <1>2, <1>3, <2>1
<1>5. InOrder(s) /\ s.latest = objects[o].latest
  BY <1>3, <1>4, PrunedKeeps, PrunedEntries, OrderedFacts DEF Ordered
<1>6. Exists(o) => s.latest > 0
  BY <1>5 DEF Exists
<1>7. o \notin deleted
  BY <1>2 DEF Ordered, DeletedStaysDeleted
<1>8. UNCHANGED <<names, deleted, pc>> /\ putLock = NoOne
  BY DEF PruneFileVersions, MayEditShared
<1>9. objects' = [objects EXCEPT ![o] = s]
  BY <1>2
<1>10. Ordered'
  <2> HIDE DEF o, s
  <2> QED  BY <1>3, <1>5, <1>6, <1>7, <1>8, <1>9, OrderedUpdate
<1> QED  BY <1>8, <1>10, PutsAlone, ClaimPcsFacts, NoClientClaims

LEMMA OrderRollback ==
  ASSUME TypeInv, LocksHeld, PutLockHeld, Ordered, NEW p \in Clients, RollbackFile(p)
  PROVE  Ordered' /\ ClientClaims'
<1>1. /\ objects \in [ObjectIds -> ObjectRecord] /\ names \in [Names -> 0..MaxObjects]
      /\ pc \in [Procs -> Pcs] /\ (\A q \in Clients : q \in Procs)
      /\ manifests \subseteq Contents
  BY DEF TypeInv, TypeOK, StoreTypeOK, ThreadTypeOK, Procs
<1>2. PICK n \in Names, v \in Versions, c \in Contents :
        /\ names[n] # 0 /\ IsNextVersion(objects[names[n]], v)
        /\ objects' = [objects EXCEPT ![names[n]] = PushVersion(@, v, c)]
  <2>1. PICK n \in Names :
          /\ names[n] # 0
          /\ \E i \in DOMAIN objects[names[n]].versions, v \in Versions :
               /\ objects[names[n]].versions[i].content \in manifests
               /\ IsNextVersion(objects[names[n]], v)
               /\ objects' = [objects EXCEPT ![names[n]] =
                                PushVersion(@, v, objects[names[n]].versions[i].content)]
    BY DEF RollbackFile
  <2> QED  BY <1>1, <2>1
<1> DEFINE o == names[n]
           s == PushVersion(objects[o], v, c)
<1>3. o \in ObjectIds /\ objects[o] \in ObjectRecord /\ v \in Nat /\ v > 0
  BY <1>1, <1>2, BoundAssumption DEF ObjectIds, Versions
<1>4. InOrder(objects[o])
  BY <1>3, OrderedFacts DEF Ordered
<1>5. v = objects[o].latest + 1
  <2> HIDE DEF o
  <2> QED  BY <1>2, <1>3, <1>4, NextIsLatest DEF o
<1>6. InOrder(s) /\ s.latest = v
  <2> HIDE DEF o
  <2> QED  BY <1>3, <1>4, <1>5, PushInOrder DEF PushVersion
<1>7. o \notin deleted
  BY <1>2, <1>3 DEF Ordered, DeletedStaysDeleted, NamesResolve
<1>8. /\ UNCHANGED <<names, deleted>> /\ putLock = NoOne
      /\ pc' = [pc EXCEPT ![p] = "reading"]
  BY DEF RollbackFile, MayEditShared, Goto
<1>9. objects' = [objects EXCEPT ![o] = s]
  BY <1>2
<1>10. Ordered'
  <2> HIDE DEF o, s
  <2> QED  BY <1>3, <1>6, <1>7, <1>8, <1>9, OrderedUpdate
<1>11. \A q \in Clients : pc'[q] \notin ClaimPcs
  BY <1>1, <1>8, PutsAlone, ClaimPcsFacts
<1> QED  BY <1>10, <1>11, NoClientClaims

LEMMA OrderDelete ==
  ASSUME TypeInv, LocksHeld, PutLockHeld, Ordered, NEW p \in Clients, DeleteNamedObject(p)
  PROVE  Ordered' /\ ClientClaims'
<1>1. /\ objects \in [ObjectIds -> ObjectRecord] /\ names \in [Names -> 0..MaxObjects]
      /\ unlinking \subseteq Names /\ deleted \subseteq ObjectIds
      /\ \A n \in Names : names[n] # 0 => names[n] \in ObjectIds
  BY BoundAssumption DEF TypeInv, TypeOK, StoreTypeOK, CallTypeOK, HistoryTypeOK, ObjectIds
<1>2. pc[p] \in WriterPcs /\ pc' = pc
  BY DEF DeleteNamedObject, WriterPcs
<1>3. PICK n \in Names :
        /\ names' = [names EXCEPT ![n] = 0]
        /\ IF names[n] = 0 THEN UNCHANGED <<objects, deleted>>
           ELSE /\ objects' = [objects EXCEPT ![names[n]] = NoRecord]
                /\ deleted' = deleted \cup {names[n]}
  BY <1>1 DEF DeleteNamedObject
<1>4. names'[n] = 0 /\ \A m \in Names \ {n} : names'[m] = names[m]
  BY <1>1, <1>3
<1>5. CASE names[n] = 0
  <2>1. names' = names
    BY <1>1, <1>3, <1>5
  <2> QED  BY <1>2, <1>3, <1>5, <2>1, OrderedSame, PutsAlone, ClaimPcsFacts, NoClientClaims
<1>6. CASE names[n] # 0
  <2>1. /\ objects'[names[n]] = NoRecord
        /\ \A x \in ObjectIds \ {names[n]} : objects'[x] = objects[x]
    BY <1>1, <1>3, <1>6
  <2>2. InOrder(NoRecord)
    BY DEF InOrder, NoRecord
  <2>3. VersionsIncreasing'
    <3>1. \A x \in ObjectIds : InOrder(objects'[x])
      BY <2>1, <2>2, OrderedFacts DEF Ordered
    <3> QED  BY <3>1 DEF VersionsIncreasing, InOrder
  <2>4. NamesResolve'
    BY <1>1, <1>4, <1>6, <2>1 DEF Ordered, NamesResolve, Exists
  <2>5. DeletedStaysDeleted'
    BY <1>1, <1>3, <1>6, <2>1 DEF Ordered, DeletedStaysDeleted, Exists, NoRecord
  <2> QED  BY <1>2, <2>3, <2>4, <2>5, PutsAlone, ClaimPcsFacts, NoClientClaims DEF Ordered
<1> QED  BY <1>5, <1>6

\* The other steps of a client leave names and histories alone.
Edits(p) ==
  \/ PutObject(p) \/ BindName(p) \/ RenameFile(p) \/ UnbindFile(p)
  \/ PruneFileVersions(p) \/ RollbackFile(p) \/ DeleteNamedObject(p)

LEMMA ClientQuiet ==
  ASSUME NEW p \in Clients, ClientStep(p), ~Edits(p)
  PROVE  UNCHANGED <<names, objects, deleted>>
BY DEF Edits, ClientStep, PutStep, OtherStep, AcquireStep, FailStep, CallStep, ReadStable,
   SyncAndResolve, AppendWal, SyncWal, SaveManifest, TruncateMeta, WriteMeta, SyncMeta,
   TruncateLog, SyncLog, FinishPut, FinishRead, FinishDelete, GcMark, GcSweepManifest,
   GcCompact, PutAcquireOp, GcAcquireOp, PutFails, AppendWalFails, GcFails, ReadUnstable,
   BeginPut, GetFile, RestoreSnapshot, BeginRead, CreateSnapshot, DeleteSnapshot,
   BeginDelete, BeginGc, diskVars, histVars

\* A put is bound, or on its way through the checkpoint.
LEMMA CheckpointsStay ==
  ASSUME TypeInv, NEW p \in Clients, ClientStep(p), ~Edits(p)
  PROVE  \A q \in Clients : pc'[q] \in CheckpointPcs => pc[q] \in CheckpointPcs
<1>1. pc \in [Procs -> Pcs] /\ \A q \in Clients : q \in Procs
  BY DEF TypeInv, TypeOK, ThreadTypeOK, Procs
<1>2. pc' = pc \/ \E l : pc' = [pc EXCEPT ![p] = l] /\ (l \in CheckpointPcs => pc[p] \in CheckpointPcs)
  <2>1. CASE PutStep(p) \/ OtherStep(p) \/ AcquireStep(p)
    BY <2>1 DEF Edits, PutStep, OtherStep, AcquireStep, ReadStable,
       SyncAndResolve, AppendWal, SyncWal, SaveManifest, TruncateMeta, WriteMeta, SyncMeta,
       TruncateLog, SyncLog, FinishPut, FinishRead, FinishDelete, GcMark, GcSweepManifest,
       GcCompact, PutAcquireOp, GcAcquireOp, Return, Goto, CheckpointPcs
  <2>2. CASE FailStep(p) \/ CallStep(p)
    BY ZenonT(30), <2>2 DEF Edits, FailStep, CallStep, PutFails, AppendWalFails, GcFails, ReadUnstable,
       BeginPut, GetFile, RestoreSnapshot, BeginRead, CreateSnapshot, DeleteSnapshot,
       BeginDelete, BeginGc, Return, Goto, CheckpointPcs
  <2> QED  BY <2>1, <2>2 DEF ClientStep
<1> QED  BY <1>1, <1>2

LEMMA OrderClient ==
  ASSUME TypeInv, LocksHeld, PutLockHeld, OidsGenerated, DeletedGenerated,
         Ordered, ClientClaims, NEW p \in Clients, ClientStep(p)
  PROVE  Ordered' /\ ClientClaims'
<1>1. CASE ~Edits(p) /\ ~SyncAndResolve(p)
  BY <1>1, ClientQuiet, CheckpointsStay, ClaimsClient, ClaimsKept, OrderedSame DEF Edits
<1> QED  BY <1>1, OrderResolve, OrderPutObject, OrderBindName, OrderNames, OrderPrune,
            OrderRollback, OrderDelete DEF Edits
-----------------------------------------------------------------------------
(* The log of the running put                                              *)

MetaPcs == {"metaWrite", "metaSync"}

LEMMA LoggedPcsFacts ==
  /\ LoggedPcs \subseteq PutPcs /\ MetaPcs \subseteq LoggedPcs
  /\ {"idle", "reading", "unlink", "gcOp", "gcMark", "gcSweep", "putOp", "read", "sync",
      "wal", "done"} \cap LoggedPcs = {}
BY DEF LoggedPcs, MetaPcs, PutPcs, PutSteps

LEMMA LsnsIdle ==
  ASSUME \A q \in Clients : pc'[q] \notin LoggedPcs
  PROVE  LsnsAgree'
BY LoggedPcsFacts DEF LsnsAgree, MetaPcs

LEMMA LsnsKept ==
  ASSUME LsnsAgree, UNCHANGED <<currentLsn, checkpointLsn>>,
         \A q \in Clients : pc'[q] \in LoggedPcs => pc[q] \in LoggedPcs /\ job'[q] = job[q],
         \A q \in Clients : pc'[q] \in MetaPcs => pc[q] \in MetaPcs
  PROVE  LsnsAgree'
BY DEF LsnsAgree, MetaPcs

LEMMA LsnsClient ==
  ASSUME TypeInv, LocksHeld, PutLockHeld, LsnsAgree, NEW p \in Clients, ClientStep(p)
  PROVE  LsnsAgree'
<1>1. /\ pc \in [Procs -> Pcs] /\ (\A q \in Clients : q \in Procs)
      /\ job \in [Procs -> WalPut]
  BY DEF TypeInv, TypeOK, ThreadTypeOK, CallTypeOK, Procs
<1>2. ASSUME pc[p] \in PutPcs, NEW l, pc' = [pc EXCEPT ![p] = l]
      PROVE  pc'[p] = l /\ \A q \in Clients \ {p} : pc'[q] \notin LoggedPcs
  BY <1>1, <1>2, PutsAlone, LoggedPcsFacts
<1>3. CASE AppendWal(p)
  <2>1. pc[p] \in PutPcs /\ pc' = [pc EXCEPT ![p] = "walSync"]
    BY <1>3 DEF AppendWal, PutPcs, PutSteps, Goto
  <2>2. job'[p].lsn = currentLsn'
    BY <1>1, <1>3 DEF AppendWal, WalPut
  <2> QED  BY <1>2, <2>1, <2>2, LoggedPcsFacts DEF LsnsAgree, MetaPcs
<1>4. CASE AppendWalFails(p)
  <2>1. pc[p] \in PutPcs /\ pc' = [pc EXCEPT ![p] = "idle"]
    BY <1>4 DEF AppendWalFails, Return, PutPcs, PutSteps, Goto
  <2> QED  BY <1>2, <2>1, LoggedPcsFacts, LsnsIdle
<1>5. CASE TruncateMeta(p)
  <2>1. /\ pc[p] \in PutPcs /\ pc' = [pc EXCEPT ![p] = "metaWrite"]
        /\ checkpointLsn' = job[p].lsn /\ UNCHANGED <<job, currentLsn>>
        /\ pc[p] \in LoggedPcs
    BY <1>5 DEF TruncateMeta, PutPcs, PutSteps, Goto, LoggedPcs
  <2>2. job[p].lsn = currentLsn
    BY <2>1 DEF LsnsAgree
  <2> QED  BY <1>2, <2>1, <2>2, LoggedPcsFacts DEF LsnsAgree, MetaPcs
<1>6. CASE \/ ReadStable(p) \/ SyncWal(p) \/ SaveManifest(p) \/ PutObject(p) \/ BindName(p)
           \/ WriteMeta(p) \/ SyncMeta(p) \/ TruncateLog(p) \/ SyncLog(p)
  <2>1. UNCHANGED <<job, currentLsn, checkpointLsn>>
    BY <1>6 DEF ReadStable, SyncWal, SaveManifest, PutObject, BindName, WriteMeta,
       SyncMeta, TruncateLog, SyncLog, lsnVars
  <2>2. PICK l : /\ pc' = [pc EXCEPT ![p] = l] /\ pc[p] \in PutPcs
                 /\ l \in LoggedPcs => pc[p] \in LoggedPcs
                 /\ l \in MetaPcs => pc[p] \in MetaPcs
    BY ZenonT(30), <1>6, ProcessAssumption DEF ReadStable, SyncWal, SaveManifest, PutObject,
       BindName, WriteMeta, SyncMeta, TruncateLog, SyncLog, Goto, LoggedPcs, MetaPcs, PutPcs,
       PutSteps
  <2> QED  BY <1>2, <2>1, <2>2, LsnsKept, LoggedPcsFacts
<1>7. CASE SyncAndResolve(p) \/ BeginPut(p)
  <2>1. PICK l \in {"wal", "putOp"} : pc' = [pc EXCEPT ![p] = l]
    BY <1>7 DEF SyncAndResolve, BeginPut, Goto
  <2>2. UNCHANGED <<currentLsn, checkpointLsn>> /\ \A q \in Clients \ {p} : job'[q] = job[q]
    BY <1>1, <1>7 DEF SyncAndResolve, BeginPut, lsnVars
  <2>3. pc'[p] \notin LoggedPcs /\ \A q \in Clients \ {p} : pc'[q] = pc[q]
    BY <1>1, <2>1, LoggedPcsFacts
  <2> QED  BY <2>2, <2>3, LsnsKept, LoggedPcsFacts
<1>8. CASE \/ FinishPut(p) \/ PutFails(p) \/ GcFails(p)
           \/ FinishRead(p) \/ FinishDelete(p) \/ GcCompact(p)
           \/ ReadUnstable(p) /\ ~MayRetry
  <2>1. pc' = [pc EXCEPT ![p] = "idle"] /\ job' = [job EXCEPT ![p] = NoJob]
    BY <1>8 DEF FinishPut, PutFails, GcFails, FinishRead, FinishDelete, GcCompact,
       ReadUnstable, Return, Goto
  <2>2. UNCHANGED <<currentLsn, checkpointLsn>>
    BY <1>8 DEF FinishPut, PutFails, GcFails, FinishRead, FinishDelete, GcCompact,
       ReadUnstable, lsnVars
  <2>3. pc'[p] \notin LoggedPcs /\ \A q \in Clients \ {p} : pc'[q] = pc[q] /\ job'[q] = job[q]
    BY <1>1, <2>1, LoggedPcsFacts
  <2> QED  BY <2>2, <2>3, LsnsKept, LoggedPcsFacts
<1>9. CASE \/ ReadUnstable(p) /\ MayRetry
           \/ DeleteNamedObject(p) \/ GcSweepManifest(p)
           \/ RenameFile(p) \/ PruneFileVersions(p)
           \/ CreateSnapshot(p) \/ DeleteSnapshot(p) \/ UnbindFile(p)
  <2>1. UNCHANGED <<pc, job, currentLsn, checkpointLsn>>
    BY <1>9 DEF ReadUnstable, DeleteNamedObject, GcSweepManifest, RenameFile,
       PruneFileVersions, CreateSnapshot, DeleteSnapshot, UnbindFile, lsnVars
  <2> QED  BY <2>1, LsnsKept
<1>10. CASE \/ GcMark(p) \/ GcAcquireOp(p) \/ BeginDelete(p) \/ BeginGc(p)
            \/ GetFile(p) \/ RestoreSnapshot(p) \/ RollbackFile(p) \/ PutAcquireOp(p)
  <2>1. PICK l \in {"reading", "unlink", "gcOp", "gcMark", "gcSweep", "read"} :
          pc' = [pc EXCEPT ![p] = l]
    BY <1>10 DEF GcMark, GcAcquireOp, BeginDelete, BeginGc, GetFile, RestoreSnapshot,
       RollbackFile, BeginRead, PutAcquireOp, Goto
  <2>2. UNCHANGED <<job, currentLsn, checkpointLsn>>
    BY <1>10 DEF GcMark, GcAcquireOp, BeginDelete, BeginGc, GetFile, RestoreSnapshot,
       RollbackFile, BeginRead, PutAcquireOp, lsnVars
  <2>3. pc'[p] \notin LoggedPcs /\ \A q \in Clients \ {p} : pc'[q] = pc[q]
    BY <1>1, <2>1, LoggedPcsFacts
  <2> QED  BY <2>2, <2>3, LsnsKept, LoggedPcsFacts
<1> QED  BY <1>3, <1>4, <1>5, <1>6, <1>7, <1>8, <1>9, <1>10
       DEF ClientStep, PutStep, OtherStep, AcquireStep, FailStep, CallStep

LEMMA LsnsNext ==
  ASSUME TypeInv, LocksHeld, PutLockHeld, LsnsAgree, [Next]_vars
  PROVE  LsnsAgree'
<1>1. CASE UNCHANGED vars
  BY <1>1 DEF vars, lsnVars, LsnsAgree
<1>2. CASE Kill \/ PowerLoss
  <2>1. \A q \in Clients : pc'[q] = "idle"
    BY <1>2 DEF Kill, PowerLoss, LoseMemory, Procs
  <2> QED  BY <2>1, LsnsIdle, LoggedPcsFacts
<1>3. CASE OpenerStep
  BY <1>3, OpenerMoves, LsnsIdle, LoggedPcsFacts
<1> QED  BY <1>1, <1>2, <1>3, LsnsClient DEF Next
\* The log is empty or holds the put of a client that has logged it.
Owned(log) == log = << >> \/ \E p \in Clients : pc[p] \in LoggedPcs /\ log = <<job[p]>>

LEMMA LogOfPutFacts ==
  LogOfPut <=> /\ Owned(walLog) /\ Owned(walLogSynced)
               /\ \A p \in Clients : pc[p] = "logSync" => walLog = << >>
BY DEF LogOfPut, Owned

\* The put that owns the log stays in its steps between the append and the
\* truncation.
OwnersStay ==
  \A q \in Clients :
    /\ pc[q] \in LoggedPcs => pc'[q] \in LoggedPcs /\ job'[q] = job[q]
    /\ pc'[q] = "logSync" => pc[q] = "logSync"

LEMMA LogKept ==
  ASSUME LogOfPut, OwnersStay, UNCHANGED <<walLog, walLogSynced>>
  PROVE  LogOfPut'
BY DEF LogOfPut, OwnersStay

LEMMA LogOfPutClient ==
  ASSUME TypeInv, LocksHeld, PutLockHeld, LsnsAgree, LogOfPut, NEW p \in Clients, ClientStep(p),
         spent.faults = 0, spent'.faults = 0
  PROVE  LogOfPut'
<1>1. /\ pc \in [Procs -> Pcs] /\ (\A q \in Clients : q \in Procs)
      /\ job \in [Procs -> WalPut]
      /\ spent \in [puts : Nat, edits : Nat, crashes : Nat, faults : Nat]
      /\ currentLsn \in Nat
  BY DEF TypeInv, TypeOK, ThreadTypeOK, CallTypeOK, HistoryTypeOK, WalTypeOK, Procs
<1>2. ASSUME pc[p] \in PutPcs, NEW l, pc' = [pc EXCEPT ![p] = l]
      PROVE  /\ pc'[p] = l
             /\ \A q \in Clients \ {p} : pc[q] \notin LoggedPcs /\ pc'[q] \notin LoggedPcs
  BY <1>1, <1>2, PutsAlone, LoggedPcsFacts
<1>3. ~Spend("faults")
  BY <1>1 DEF Spend
<1>4. "logSync" \in LoggedPcs
  BY DEF LoggedPcs
<1>5. CASE AppendWal(p)
  <2>1. /\ pc[p] \in PutPcs /\ pc[p] \notin LoggedPcs /\ pc' = [pc EXCEPT ![p] = "walSync"]
        /\ "walSync" \in LoggedPcs /\ "walSync" # "logSync"
    BY <1>5 DEF AppendWal, PutPcs, PutSteps, Goto, LoggedPcs
  <2>2. walLog = << >> /\ walLogSynced = << >>
    BY <1>2, <2>1, LogOfPutFacts DEF Owned
  <2>3. walLog' = Append(walLog, job'[p]) /\ walLogSynced' = walLogSynced
    BY <1>5 DEF AppendWal
  <2>4. walLog' = <<job'[p]>> /\ walLogSynced' = << >>
    BY <2>2, <2>3
  <2> QED  BY <1>2, <1>4, <2>1, <2>4 DEF LogOfPut
<1>6. CASE SyncWal(p)
  <2>1. /\ pc[p] \in PutPcs /\ pc' = [pc EXCEPT ![p] = "manifest"] /\ job' = job
        /\ "manifest" \in LoggedPcs /\ walLog' = walLog /\ walLogSynced' = walLog
    BY <1>6 DEF SyncWal, PutPcs, PutSteps, Goto, LoggedPcs
  <2>2. walLog = << >> \/ walLog = <<job[p]>>
    BY <1>2, <2>1, LogOfPutFacts DEF Owned
  <2> QED  BY <1>2, <1>4, <2>1, <2>2 DEF LogOfPut
<1>7. CASE TruncateLog(p)
  <2>1. /\ pc[p] \in PutPcs /\ pc' = [pc EXCEPT ![p] = "logSync"] /\ job' = job
        /\ walLog' = << >> /\ walLogSynced' = walLogSynced
    BY <1>7 DEF TruncateLog, PutPcs, PutSteps, Goto
  <2>2. walLogSynced = << >> \/ walLogSynced = <<job[p]>>
    BY <1>2, <2>1, LogOfPutFacts DEF Owned
  <2> QED  BY <1>2, <1>4, <2>1, <2>2 DEF LogOfPut
<1>8. CASE SyncLog(p)
  <2>1. /\ pc[p] \in PutPcs /\ pc' = [pc EXCEPT ![p] = "done"]
        /\ walLog' = walLog /\ walLogSynced' = walLog /\ walLog = << >>
    BY <1>8 DEF SyncLog, PutPcs, PutSteps, Goto, LogOfPut
  <2> QED  BY <1>2, <1>4, <2>1 DEF LogOfPut
<1>9. CASE \/ ReadStable(p) \/ SaveManifest(p) \/ PutObject(p) \/ BindName(p)
           \/ TruncateMeta(p) \/ WriteMeta(p) \/ SyncMeta(p)
  <2>1. UNCHANGED <<job, walLog, walLogSynced>>
    BY <1>9 DEF ReadStable, SaveManifest, PutObject, BindName, TruncateMeta, WriteMeta,
       SyncMeta, walVars
  <2>2. SyncMeta(p) => pc' = [pc EXCEPT ![p] = "logTruncate"]
    <3>1. pc[p] = "metaSync" => checkpointLsn >= currentLsn
      BY <1>1 DEF LsnsAgree
    <3> QED  BY <3>1 DEF SyncMeta, Goto
  <2>3. PICK l : /\ pc' = [pc EXCEPT ![p] = l] /\ pc[p] \in PutPcs
                 /\ pc[p] \in LoggedPcs => l \in LoggedPcs
                 /\ l # "logSync"
    BY <1>9, <2>2, ProcessAssumption DEF ReadStable, SaveManifest, PutObject, BindName,
       TruncateMeta, WriteMeta, SyncMeta, Goto, LoggedPcs, PutPcs, PutSteps
  <2>4. OwnersStay
    BY <1>2, <1>4, <2>1, <2>3 DEF OwnersStay
  <2> QED  BY <2>1, <2>4, LogKept
<1>10. CASE SyncAndResolve(p) \/ BeginPut(p)
  <2>1. PICK l \in {"wal", "putOp"} : pc' = [pc EXCEPT ![p] = l]
    BY <1>10 DEF SyncAndResolve, BeginPut, Goto
  <2>2. /\ UNCHANGED <<walLog, walLogSynced>> /\ pc[p] \notin LoggedPcs
        /\ \A q \in Clients \ {p} : job'[q] = job[q]
    BY <1>1, <1>10, LoggedPcsFacts DEF SyncAndResolve, BeginPut, Idle, walVars
  <2>3. pc'[p] # "logSync" /\ \A q \in Clients \ {p} : pc'[q] = pc[q]
    BY <1>1, <2>1
  <2>4. OwnersStay
    BY <2>2, <2>3 DEF OwnersStay
  <2> QED  BY <2>2, <2>4, LogKept
<1>11. CASE \/ FinishPut(p) \/ PutFails(p) \/ GcFails(p)
            \/ FinishRead(p) \/ FinishDelete(p) \/ GcCompact(p)
            \/ ReadUnstable(p) /\ ~MayRetry
  <2>1. pc' = [pc EXCEPT ![p] = "idle"] /\ job' = [job EXCEPT ![p] = NoJob]
    BY <1>11 DEF FinishPut, PutFails, GcFails, FinishRead, FinishDelete, GcCompact,
       ReadUnstable, Return, Goto
  <2>2. pc[p] \in {"done", "sync", "gcMark", "gcSweep", "reading", "unlink", "read"}
    BY <1>3, <1>11 DEF FinishPut, PutFails, GcFails, FinishRead, FinishDelete, GcCompact,
       ReadUnstable
  <2>3. UNCHANGED <<walLog, walLogSynced>>
    BY <1>11 DEF FinishPut, PutFails, GcFails, FinishRead, FinishDelete, GcCompact,
       ReadUnstable, walVars
  <2>4. /\ pc'[p] = "idle" /\ pc[p] \notin LoggedPcs
        /\ \A q \in Clients \ {p} : pc'[q] = pc[q] /\ job'[q] = job[q]
    BY <1>1, <2>1, <2>2, LoggedPcsFacts
  <2>5. OwnersStay
    BY <2>4 DEF OwnersStay
  <2> QED  BY <2>3, <2>5, LogKept
<1>12. CASE \/ ReadUnstable(p) /\ MayRetry
            \/ DeleteNamedObject(p) \/ GcSweepManifest(p)
            \/ RenameFile(p) \/ PruneFileVersions(p)
            \/ CreateSnapshot(p) \/ DeleteSnapshot(p) \/ UnbindFile(p)
  <2>1. UNCHANGED <<pc, job, walLog, walLogSynced>>
    BY <1>12 DEF ReadUnstable, DeleteNamedObject, GcSweepManifest, RenameFile,
       PruneFileVersions, CreateSnapshot, DeleteSnapshot, UnbindFile, walVars
  <2> QED  BY <2>1, LogKept DEF OwnersStay
<1>13. CASE \/ GcMark(p) \/ GcAcquireOp(p) \/ BeginDelete(p) \/ BeginGc(p)
            \/ GetFile(p) \/ RestoreSnapshot(p) \/ RollbackFile(p) \/ PutAcquireOp(p)
  <2>1. PICK l \in {"reading", "unlink", "gcOp", "gcMark", "gcSweep", "read"} :
          pc' = [pc EXCEPT ![p] = l]
    BY <1>13 DEF GcMark, GcAcquireOp, BeginDelete, BeginGc, GetFile, RestoreSnapshot,
       RollbackFile, BeginRead, PutAcquireOp, Goto
  <2>2. UNCHANGED <<job, walLog, walLogSynced>>
    BY <1>13 DEF GcMark, GcAcquireOp, BeginDelete, BeginGc, GetFile, RestoreSnapshot,
       RollbackFile, BeginRead, PutAcquireOp, walVars
  <2>3. pc[p] \in {"idle", "gcMark", "gcOp", "putOp"}
    BY <1>13 DEF GcMark, GcAcquireOp, BeginDelete, BeginGc, GetFile, RestoreSnapshot,
       RollbackFile, BeginRead, PutAcquireOp, MayEditAlone, MayEditShared, Idle
  <2>4. /\ pc'[p] # "logSync" /\ pc[p] \notin LoggedPcs
        /\ \A q \in Clients \ {p} : pc'[q] = pc[q]
    BY <1>1, <2>1, <2>3, LoggedPcsFacts
  <2>5. OwnersStay
    BY <2>2, <2>4 DEF OwnersStay
  <2> QED  BY <2>2, <2>5, LogKept
<1>14. ~AppendWalFails(p)
  BY <1>3 DEF AppendWalFails
<1> QED  BY <1>5, <1>6, <1>7, <1>8, <1>9, <1>10, <1>11, <1>12, <1>13, <1>14
       DEF ClientStep, PutStep, OtherStep, AcquireStep, FailStep, CallStep
-----------------------------------------------------------------------------
(* What a crash leaves, and what recovery makes of it                      *)

LEMMA ReplayableKept ==
  ASSUME NEW r, Replayable(r), UNCHANGED <<names, objects, deleted>>, synced \subseteq synced'
  PROVE  Replayable(r)'
BY DEF Replayable, Claimed, Unapplied, Applied

\* What a history holds can be read after a power loss.
LEMMA AppliedIsBacked ==
  ASSUME NoDanglingReferences, NEW r \in WalRecord, Applied(r)
  PROVE  ChunksOf[r.content] \subseteq synced
<1>1. r.oid \in ObjectIds
  BY DEF WalRecord
<1>2. r.content \in ContentsOf(objects[r.oid])
  BY DEF Applied, HasEntry, ContentsOf
<1>3. r.content \in manifests
  BY <1>1, <1>2, MarkedMember DEF NoDanglingReferences, ReferencesResolve, Marked
<1> QED  BY <1>3, ChunksOfAllFacts DEF NoDanglingReferences, ManifestsBacked

\* A put in the log can be completed from any of its steps.
LEMMA LoggedIsReplayable ==
  ASSUME TypeInv, DataInv, ClientClaims, NEW p \in Clients, pc[p] \in LoggedPcs
  PROVE  Replayable(job[p])
<1>1. job[p] \in WalRecord
  BY ProcessAssumption DEF TypeInv, JobsResolved, LoggedPcs, SyncedPcs, CheckpointPcs, Procs
<1>2. CASE pc[p] \in BeforeObject
  <2>1. ChunksOf[job[p].content] \subseteq synced
    BY <1>2 DEF DataInv, JobsBacked, BeforeObject, SyncedPcs, Procs
  <2> QED  BY <1>2, <2>1 DEF ClientClaims, Replayable
<1>3. CASE pc[p] \in AppliedPcs
  <2>1. Claimed(job[p]) /\ Applied(job[p])
    BY <1>3 DEF ClientClaims, AppliedPcs
  <2> QED  BY <1>1, <2>1, AppliedIsBacked DEF DataInv, Replayable
<1> QED  BY <1>2, <1>3 DEF LoggedPcs, BeforeObject, AppliedPcs, CheckpointPcs

-----------------------------------------------------------------------------
(* The log through any number of crashes                                   *)

\* The records of a log, in whatever order.
Records(log) == {log[i] : i \in DOMAIN log}
Written == Records(walLog) \cup Records(walLogSynced)

RecoverPcs == {"manifest", "object", "bind"}
EarlyPcs == {"walSync", "manifest", "object", "bind", "checkpoint"}
EndPcs == {"logTruncate", "logSync"}

\* The records that the next open replays; while recovery writes
\* checkpoint.meta, those it has replayed.
Pending ==
  {r \in Records(walLog) : IF pc[Opener] \in MetaPcs THEN r.lsn = currentLsn
                           ELSE r.lsn > meta}

\* Whatever the files hold, the LSN that numbering goes on from is not below
\* it, and checkpoint.meta is behind what was synced only while it is written.
LogSettled ==
  /\ \A r \in Records(walLogSynced) : r \in Records(walLog) \/ r.lsn <= metaSynced
  /\ \A r \in Written : r.lsn # 0
  /\ status # "down" => /\ \A r \in Written : r.lsn <= currentLsn
                        /\ meta <= currentLsn /\ metaSynced <= currentLsn
  /\ \/ metaSynced <= meta
     \/ status = "up" /\ \E p \in Clients : pc[p] = "metaWrite"
     \/ status # "up" /\ Pending # {}

\* The put that is logged has the last record, above the durable checkpoint
\* until it has synced its own.
PutRecord(p) ==
  /\ \A r \in Written : r.lsn = currentLsn => r = job[p]
  /\ pc[p] \notin EndPcs => metaSynced < currentLsn /\ job[p] \in Records(walLog)
  /\ pc[p] \in {"metaSync"} \cup EndPcs => meta = currentLsn
  /\ pc[p] \in EndPcs => metaSynced = currentLsn

PutRecords == \A p \in Clients : pc[p] \in LoggedPcs => PutRecord(p)

LEMMA RecordsFacts ==
  ASSUME NEW log \in Seq(WalRecord)
  PROVE  /\ Records(log) \subseteq WalRecord
         /\ \A r \in Records(log) : r.lsn \in Nat
         /\ \A r \in WalRecord : Records(Append(log, r)) = Records(log) \cup {r}
<1>1. ASSUME NEW i \in DOMAIN log PROVE log[i] \in WalRecord
  BY ElementOfSeq
<1>2. ASSUME NEW r \in WalRecord
      PROVE  Records(Append(log, r)) = Records(log) \cup {r}
  <2>1. /\ Len(Append(log, r)) = Len(log) + 1
        /\ \A i \in 1..Len(log) : Append(log, r)[i] = log[i]
        /\ Append(log, r)[Len(log) + 1] = r
        /\ Append(log, r) \in Seq(WalRecord)
    BY AppendProperties
  <2>2. /\ DOMAIN log = 1..Len(log) /\ Len(log) \in Nat
        /\ DOMAIN Append(log, r) = 1..(Len(log) + 1)
    BY <2>1, LenProperties
  <2> QED  BY <2>1, <2>2 DEF Records
<1>3. \A r \in WalRecord : r.lsn \in Nat
  BY DEF WalRecord
<1> QED  BY <1>1, <1>2, <1>3 DEF Records

LEMMA NoRecords == Records(<< >>) = {}
BY DEF Records

LEMMA LogFacts ==
  ASSUME TypeInv
  PROVE  /\ walLog \in Seq(WalRecord) /\ walLogSynced \in Seq(WalRecord)
         /\ Written \subseteq WalRecord /\ (\A r \in Written : r.lsn \in Nat)
         /\ Records(walLog) \subseteq Written /\ Records(walLogSynced) \subseteq Written
         /\ meta \in Nat /\ metaSynced \in Nat /\ currentLsn \in Nat /\ checkpointLsn \in Nat
         /\ pc \in [Procs -> Pcs] /\ job \in [Procs -> WalPut]
         /\ (\A q \in Clients : q \in Procs) /\ Opener \in Procs
<1>1. walLog \in Seq(WalRecord) /\ walLogSynced \in Seq(WalRecord)
  BY DEF TypeInv, TypeOK, WalTypeOK
<1>2. Written \subseteq WalRecord /\ (\A r \in Written : r.lsn \in Nat)
  BY <1>1, RecordsFacts DEF Written
<1> QED  BY <1>1, <1>2 DEF TypeInv, TypeOK, WalTypeOK, ThreadTypeOK, CallTypeOK, Procs, Written

LEMMA KeptPcsFacts ==
  /\ LoggedPcs = EarlyPcs \cup MetaPcs \cup EndPcs
  /\ EarlyPcs \cap EndPcs = {} /\ "metaSync" \notin EarlyPcs /\ "metaWrite" \notin EarlyPcs
  /\ MetaPcs = {"metaWrite", "metaSync"} /\ EndPcs = {"logTruncate", "logSync"}
  /\ EarlyPcs = {"walSync", "manifest", "object", "bind", "checkpoint"}
BY DEF LoggedPcs, EarlyPcs, MetaPcs, EndPcs

\* A step that touches neither the files nor the numbering.
LEMMA LogStays ==
  ASSUME LogSettled, PutRecords, status = "up", status' = "up",
         UNCHANGED <<walLog, walLogSynced, meta, metaSynced, currentLsn>>,
         \A q \in Clients :
           /\ pc'[q] \in LoggedPcs =>
                /\ pc[q] \in LoggedPcs /\ job'[q] = job[q]
                /\ pc'[q] = pc[q] \/ {pc[q], pc'[q]} \subseteq EarlyPcs
           /\ pc[q] = "metaWrite" => pc'[q] = "metaWrite"
  PROVE  LogSettled' /\ PutRecords'
<1>1. LogSettled'
  BY DEF LogSettled, Written
<1>2. ASSUME NEW q \in Clients, pc'[q] \in LoggedPcs PROVE PutRecord(q)'
  <2>1. PutRecord(q) /\ job'[q] = job[q]
    BY <1>2 DEF PutRecords
  <2>2. CASE pc'[q] = pc[q]
    BY <2>1, <2>2 DEF PutRecord, Written
  <2>3. CASE {pc[q], pc'[q]} \subseteq EarlyPcs
    <3>1. /\ pc[q] \notin EndPcs /\ pc'[q] \notin EndPcs /\ pc'[q] # "metaSync"
      BY <2>3, KeptPcsFacts
    <3> QED  BY <2>1, <3>1 DEF PutRecord, Written
  <2> QED  BY <1>2, <2>2, <2>3
<1> QED  BY <1>1, <1>2 DEF PutRecords

LEMMA OnePutRecord ==
  ASSUME NEW p \in Clients, \A q \in Clients \ {p} : pc'[q] \notin LoggedPcs,
         pc'[p] \in LoggedPcs => PutRecord(p)'
  PROVE  PutRecords'
BY DEF PutRecords

LEMMA LogClient ==
  ASSUME TypeInv, TypeInv', LocksHeld, PutLockHeld, LsnsAgree, LogSettled, PutRecords,
         NEW p \in Clients, ClientStep(p), status = "up", status' = "up",
         spent.faults = 0, spent'.faults = 0
  PROVE  LogSettled' /\ PutRecords'
<1>1. /\ pc \in [Procs -> Pcs] /\ (\A q \in Clients : q \in Procs) /\ p # Opener
      /\ job \in [Procs -> WalPut]
      /\ spent \in [puts : Nat, edits : Nat, crashes : Nat, faults : Nat]
      /\ currentLsn \in Nat
  BY ProcessAssumption
     DEF TypeInv, TypeOK, ThreadTypeOK, CallTypeOK, HistoryTypeOK, WalTypeOK, Procs
<1>2. ASSUME pc[p] \in PutPcs, NEW l, pc' = [pc EXCEPT ![p] = l]
      PROVE  /\ pc'[p] = l
             /\ \A q \in Clients \ {p} : pc[q] \notin LoggedPcs /\ pc'[q] \notin LoggedPcs
  BY <1>1, <1>2, PutsAlone, LoggedPcsFacts
<1>3. ~Spend("faults")
  BY <1>1 DEF Spend
<1>5. CASE AppendWal(p)
  <2>1. /\ pc[p] \in PutPcs /\ pc' = [pc EXCEPT ![p] = "walSync"]
        /\ walLog' = Append(walLog, job'[p]) /\ currentLsn' = currentLsn + 1
        /\ UNCHANGED <<walLogSynced, meta, metaSynced>>
    BY <1>5 DEF AppendWal, PutPcs, PutSteps, Goto
  <2>2. job'[p].lsn = currentLsn'
    BY <1>1, <1>5 DEF AppendWal, WalPut
  <2>3. pc'[p] = "walSync" /\ \A q \in Clients \ {p} : pc'[q] \notin LoggedPcs
    BY <1>2, <2>1
  <2>4. job'[p] \in WalRecord
    BY <1>1, <2>3 DEF TypeInv, JobsResolved, SyncedPcs
  <2> DEFINE r == job'[p]
  <2>5. Records(walLog)' = Records(walLog) \cup {r} /\ Written' = Written \cup {r}
        /\ Records(walLogSynced)' = Records(walLogSynced)
    BY <2>1, <2>4, LogFacts, RecordsFacts DEF Written
  <2>6. \A q \in Clients : pc[q] # "metaWrite"
    <3>1. pc[p] = "wal"
      BY <1>5 DEF AppendWal
    <3> QED  BY <1>2, <2>1, <3>1, LoggedPcsFacts DEF MetaPcs
  <2> HIDE DEF r
  <2>7. /\ meta \in Nat /\ metaSynced \in Nat /\ \A x \in Written : x.lsn \in Nat
        /\ r.lsn = currentLsn + 1
    BY <2>1, <2>2, LogFacts DEF r
  <2>8. LogSettled'
    BY <1>1, <2>1, <2>5, <2>6, <2>7 DEF LogSettled
  <2>9. PutRecord(p)'
    <3>1. \A x \in Written : x.lsn # currentLsn + 1
      BY <1>1, <2>7 DEF LogSettled
    <3>2. \A x \in Written' : x.lsn = currentLsn' => x = job'[p]
      BY <2>1, <2>5, <3>1 DEF r
    <3>3. metaSynced' < currentLsn' /\ job'[p] \in Records(walLog)'
      BY <1>1, <2>1, <2>5, <2>7 DEF LogSettled, r
    <3> QED  BY <2>3, <3>2, <3>3 DEF PutRecord, EndPcs
  <2> QED  BY <2>3, <2>8, <2>9, OnePutRecord
<1>6. CASE SyncWal(p)
  <2>1. /\ pc[p] = "walSync" /\ pc[p] \in PutPcs /\ pc' = [pc EXCEPT ![p] = "manifest"]
        /\ walLogSynced' = walLog
        /\ UNCHANGED <<job, walLog, meta, metaSynced, currentLsn>>
    BY <1>6 DEF SyncWal, PutPcs, PutSteps, Goto, lsnVars
  <2>2. /\ Records(walLogSynced)' = Records(walLog) /\ Records(walLog)' = Records(walLog)
        /\ Written' \subseteq Written
    BY <2>1 DEF Written
  <2>3. \A q \in Clients : pc[q] # "metaWrite"
    BY <1>2, <2>1, LoggedPcsFacts DEF MetaPcs
  <2>4. LogSettled'
    BY <2>1, <2>2, <2>3 DEF LogSettled
  <2>5. PutRecord(p)'
    BY <1>2, <2>1, <2>2 DEF PutRecords, PutRecord, LoggedPcs, EndPcs
  <2> QED  BY <1>2, <2>1, <2>4, <2>5, OnePutRecord
<1>7. CASE TruncateMeta(p)
  <2>1. /\ pc[p] = "checkpoint" /\ pc[p] \in PutPcs /\ pc' = [pc EXCEPT ![p] = "metaWrite"]
        /\ meta' = 0 /\ UNCHANGED <<job, walLog, walLogSynced, metaSynced, currentLsn>>
    BY <1>7 DEF TruncateMeta, PutPcs, PutSteps, Goto
  <2>2. pc'[p] = "metaWrite" /\ Written' = Written
    BY <1>2, <2>1 DEF Written
  <2>3. LogSettled'
    BY <1>1, <2>1, <2>2 DEF LogSettled
  <2>4. PutRecord(p)'
    BY <2>1, <2>2 DEF PutRecords, PutRecord, LoggedPcs, EndPcs
  <2> QED  BY <1>2, <2>1, <2>3, <2>4, OnePutRecord
<1>8. CASE WriteMeta(p)
  <2>1. /\ pc[p] = "metaWrite" /\ pc[p] \in PutPcs /\ pc' = [pc EXCEPT ![p] = "metaSync"]
        /\ meta' = checkpointLsn
        /\ UNCHANGED <<job, walLog, walLogSynced, metaSynced, currentLsn>>
    BY <1>8 DEF WriteMeta, PutPcs, PutSteps, Goto, lsnVars
  <2>2. pc'[p] = "metaSync" /\ Written' = Written /\ meta' = currentLsn
    BY <1>2, <2>1 DEF Written, LsnsAgree
  <2>3. PutRecord(p) /\ metaSynced \in Nat
    BY <2>1, LogFacts DEF PutRecords, LoggedPcs
  <2>4. LogSettled'
    BY <1>1, <2>1, <2>2, <2>3 DEF LogSettled
  <2>5. PutRecord(p)'
    BY <2>1, <2>2, <2>3 DEF PutRecord, EndPcs
  <2> QED  BY <1>2, <2>1, <2>4, <2>5, OnePutRecord
<1>9. CASE SyncMeta(p)
  <2>1. /\ pc[p] = "metaSync" /\ pc[p] \in PutPcs /\ metaSynced' = meta
        /\ UNCHANGED <<job, walLog, walLogSynced, meta, currentLsn>>
    BY <1>9 DEF SyncMeta, PutPcs, PutSteps, lsnVars
  <2>2. checkpointLsn = currentLsn /\ PutRecord(p) /\ meta = currentLsn
    BY <2>1 DEF LsnsAgree, PutRecords, PutRecord, LoggedPcs
  <2>3. pc' = [pc EXCEPT ![p] = "logTruncate"]
    BY <1>1, <1>9, <2>2 DEF SyncMeta, Goto
  <2>4. pc'[p] = "logTruncate" /\ Written' = Written
    BY <1>2, <2>1, <2>3 DEF Written
  <2>5. LogSettled'
    <3>1. /\ (\A r \in Written : r.lsn <= currentLsn /\ r.lsn # 0)
          /\ Records(walLogSynced) \subseteq Written
      BY LogFacts DEF LogSettled
    <3> QED  BY <1>1, <2>1, <2>2, <2>4, <3>1 DEF LogSettled
  <2>6. PutRecord(p)'
    BY <2>1, <2>2, <2>4 DEF PutRecord, EndPcs
  <2> QED  BY <1>2, <2>1, <2>3, <2>5, <2>6, OnePutRecord
<1>10. CASE TruncateLog(p)
  <2>1. /\ pc[p] = "logTruncate" /\ pc[p] \in PutPcs /\ pc' = [pc EXCEPT ![p] = "logSync"]
        /\ walLog' = << >> /\ UNCHANGED <<job, walLogSynced, meta, metaSynced, currentLsn>>
    BY <1>10 DEF TruncateLog, PutPcs, PutSteps, Goto, lsnVars
  <2>2. PutRecord(p) /\ metaSynced = currentLsn /\ meta = currentLsn
    BY <2>1 DEF PutRecords, PutRecord, LoggedPcs, EndPcs
  <2>3. Written' = Records(walLogSynced) /\ Records(walLogSynced) \subseteq Written
        /\ Records(walLogSynced)' = Records(walLogSynced) /\ pc'[p] = "logSync"
    BY <1>2, <2>1, NoRecords DEF Written
  <2>4. LogSettled'
    BY <1>1, <2>1, <2>2, <2>3 DEF LogSettled
  <2>5. PutRecord(p)'
    BY <2>1, <2>2, <2>3 DEF PutRecord, EndPcs
  <2> QED  BY <1>2, <2>1, <2>4, <2>5, OnePutRecord
<1>11. CASE SyncLog(p)
  <2>1. /\ pc[p] = "logSync" /\ pc[p] \in PutPcs /\ pc' = [pc EXCEPT ![p] = "done"]
        /\ walLogSynced' = walLog /\ UNCHANGED <<walLog, meta, metaSynced, currentLsn>>
    BY <1>11 DEF SyncLog, PutPcs, PutSteps, Goto, lsnVars
  <2>2. Written' = Records(walLog) /\ Records(walLog) \subseteq Written
        /\ Records(walLogSynced)' = Records(walLog)' /\ pc'[p] = "done"
    BY <1>2, <2>1 DEF Written
  <2>3. metaSynced = currentLsn /\ meta = currentLsn
    BY <2>1 DEF PutRecords, PutRecord, LoggedPcs, EndPcs
  <2>4. LogSettled'
    BY <1>1, <2>1, <2>2, <2>3 DEF LogSettled
  <2> QED  BY <1>2, <2>1, <2>2, <2>4, OnePutRecord, LoggedPcsFacts
<1>12. CASE ReadStable(p) \/ SaveManifest(p) \/ PutObject(p) \/ BindName(p)
  <2>1. UNCHANGED <<job, walLog, walLogSynced, meta, metaSynced, currentLsn>>
    BY <1>12 DEF ReadStable, SaveManifest, PutObject, BindName, walVars, lsnVars
  <2>2. PICK l : /\ pc' = [pc EXCEPT ![p] = l] /\ pc[p] \in PutPcs /\ pc[p] # "metaWrite"
                 /\ l \in LoggedPcs => {pc[p], l} \subseteq EarlyPcs /\ pc[p] \in LoggedPcs
    BY <1>1, <1>12 DEF ReadStable, SaveManifest, PutObject, BindName, Goto, LoggedPcs, PutPcs,
       PutSteps, EarlyPcs
  <2>3. \A q \in Clients : pc[q] # "metaWrite"
    BY <1>2, <2>2, LoggedPcsFacts DEF MetaPcs
  <2> QED  BY <1>2, <2>1, <2>2, <2>3, LogStays
<1>13. CASE \/ SyncAndResolve(p) \/ BeginPut(p)
            \/ FinishPut(p) \/ PutFails(p) \/ GcFails(p)
            \/ FinishRead(p) \/ FinishDelete(p) \/ GcCompact(p)
            \/ ReadUnstable(p) /\ ~MayRetry
  <2>1. PICK l \in {"wal", "putOp", "idle"} : pc' = [pc EXCEPT ![p] = l]
    BY <1>13 DEF SyncAndResolve, BeginPut, FinishPut, PutFails, GcFails, FinishRead,
       FinishDelete, GcCompact, ReadUnstable, Return, Goto
  <2>2. PICK j : job' = [job EXCEPT ![p] = j]
    BY <1>13 DEF SyncAndResolve, BeginPut, FinishPut, PutFails, GcFails, FinishRead,
       FinishDelete, GcCompact, ReadUnstable, Return
  <2>3. UNCHANGED <<walLog, walLogSynced, meta, metaSynced, currentLsn>>
    BY <1>13 DEF SyncAndResolve, BeginPut, FinishPut, PutFails, GcFails, FinishRead,
       FinishDelete, GcCompact, ReadUnstable, walVars, lsnVars
  <2>4. pc[p] \in {"done", "sync", "gcMark", "gcSweep", "reading", "unlink", "read", "idle"}
    BY <1>3, <1>13 DEF SyncAndResolve, BeginPut, Idle, FinishPut, PutFails, GcFails,
       FinishRead, FinishDelete, GcCompact, ReadUnstable
  <2>5. /\ pc[p] \notin LoggedPcs /\ pc'[p] \notin LoggedPcs /\ pc[p] # "metaWrite"
        /\ \A q \in Clients \ {p} : pc'[q] = pc[q] /\ job'[q] = job[q]
    BY <1>1, <2>1, <2>2, <2>4, LoggedPcsFacts
  <2> QED  BY <2>3, <2>5, LogStays
<1>14. CASE \/ ReadUnstable(p) /\ MayRetry
            \/ DeleteNamedObject(p) \/ GcSweepManifest(p)
            \/ RenameFile(p) \/ PruneFileVersions(p)
            \/ CreateSnapshot(p) \/ DeleteSnapshot(p) \/ UnbindFile(p)
  <2>1. UNCHANGED <<pc, job, walLog, walLogSynced, meta, metaSynced, currentLsn>>
    BY <1>14 DEF ReadUnstable, DeleteNamedObject, GcSweepManifest, RenameFile,
       PruneFileVersions, CreateSnapshot, DeleteSnapshot, UnbindFile, walVars, lsnVars
  <2> QED  BY <2>1, LogStays
<1>15. CASE \/ GcMark(p) \/ GcAcquireOp(p) \/ BeginDelete(p) \/ BeginGc(p)
            \/ GetFile(p) \/ RestoreSnapshot(p) \/ RollbackFile(p) \/ PutAcquireOp(p)
  <2>1. PICK l \in {"reading", "unlink", "gcOp", "gcMark", "gcSweep", "read"} :
          pc' = [pc EXCEPT ![p] = l]
    BY <1>15 DEF GcMark, GcAcquireOp, BeginDelete, BeginGc, GetFile, RestoreSnapshot,
       RollbackFile, BeginRead, PutAcquireOp, Goto
  <2>2. UNCHANGED <<job, walLog, walLogSynced, meta, metaSynced, currentLsn>>
    BY <1>15 DEF GcMark, GcAcquireOp, BeginDelete, BeginGc, GetFile, RestoreSnapshot,
       RollbackFile, BeginRead, PutAcquireOp, walVars, lsnVars
  <2>3. pc[p] \in {"idle", "gcMark", "gcOp", "putOp"}
    BY <1>15 DEF GcMark, GcAcquireOp, BeginDelete, BeginGc, GetFile, RestoreSnapshot,
       RollbackFile, BeginRead, PutAcquireOp, MayEditAlone, MayEditShared, Idle
  <2>4. /\ pc'[p] \notin LoggedPcs /\ pc[p] # "metaWrite"
        /\ \A q \in Clients \ {p} : pc'[q] = pc[q]
    BY <1>1, <2>1, <2>3, LoggedPcsFacts
  <2> QED  BY <2>2, <2>4, LogStays
<1>16. ~AppendWalFails(p)
  BY <1>3 DEF AppendWalFails
<1> QED  BY <1>5, <1>6, <1>7, <1>8, <1>9, <1>10, <1>11, <1>12, <1>13, <1>14, <1>15, <1>16
       DEF ClientStep, PutStep, OtherStep, AcquireStep, FailStep, CallStep

-----------------------------------------------------------------------------
(* Recovery                                                                *)

\* The record that is replayed can be completed, and is on its way there.
ReplayClaims ==
  /\ pc[Opener] \in RecoverPcs => Replayable(job[Opener])
  /\ pc[Opener] = "bind" => Applied(job[Opener])

\* After a crash at most one record is pending: the put that was cut.
PendingCut ==
  \A r \in Pending : Replayable(r) /\ r.lsn > metaSynced /\ \A s \in Pending : r = s

\* Where recovery is with it.
ReplayPcs == {"replay", "manifest", "object", "bind", "checkpoint"}
RecoveryAt ==
  /\ status = "down" => pc[Opener] = "idle"
  /\ pc[Opener] \in ReplayPcs =>
       checkpointLsn = meta /\ currentLsn \in {meta} \cup LsnsOf(walLog)
  /\ pc[Opener] \in RecoverPcs => job[Opener] \in Pending
  /\ pc[Opener] = "replay" /\ replayPos # 1 => Pending # {}
  /\ pc[Opener] \in {"checkpoint"} \cup MetaPcs => Pending # {}
  /\ pc[Opener] \in {"checkpoint"} \cup MetaPcs \cup EndPcs => job[Opener].lsn = currentLsn
  /\ pc[Opener] \in MetaPcs => checkpointLsn = currentLsn
  /\ pc[Opener] \in {"metaSync"} \cup EndPcs => meta = currentLsn
  /\ pc[Opener] \in EndPcs => metaSynced = currentLsn
  /\ pc[Opener] = "done" => metaSynced <= meta

Recovery == PendingCut /\ ReplayClaims /\ RecoveryAt

LEMMA PendingFacts ==
  ASSUME TypeInv
  PROVE  /\ Pending \subseteq Records(walLog) /\ Pending \subseteq Written
         /\ \A r \in Pending : r.lsn \in Nat
         /\ pc[Opener] \notin MetaPcs => Pending = {r \in Records(walLog) : r.lsn > meta}
         /\ pc[Opener] \in MetaPcs => Pending = {r \in Records(walLog) : r.lsn = currentLsn}
BY LogFacts DEF Pending

\* Only the crashed or recovering store has the opener at work.
LEMMA OpenerPcs ==
  ASSUME LocksHeld
  PROVE  /\ status = "up" => pc[Opener] = "idle"
         /\ pc[Opener] \in {"idle", "done"} \cup ReplayPcs \cup MetaPcs \cup EndPcs
BY DEF LocksHeld, ReplayPcs, MetaPcs, EndPcs

\* The claims on names and histories outlive the steps that leave them alone.
LEMMA PendingCutStays ==
  ASSUME PendingCut, UNCHANGED <<names, objects, deleted>>, synced \subseteq synced',
         Pending' \subseteq Pending, \A r \in Pending' : r.lsn > metaSynced'
  PROVE  PendingCut'
<1>1. ASSUME NEW r \in Pending' PROVE Replayable(r)'
  BY <1>1, ReplayableKept DEF PendingCut
<1> QED  BY <1>1 DEF PendingCut

\* A crash that forgets no checkpoint leaves the put that was running, or
\* being replayed, to be replayed.
LEMMA CrashOfPut ==
  ASSUME TypeInv, LocksHeld, DataInv, LsnsAgree, Ordered, ClientClaims, LogSettled, PutRecords,
         status = "up", Kill \/ PowerLoss, ~ForgetsCheckpoint
  PROVE  LogSettled' /\ Recovery'
<1>1. /\ LoseMemory /\ UNCHANGED <<names, objects, deleted>> /\ synced \subseteq synced'
      /\ Records(walLog)' \subseteq Written /\ Records(walLogSynced)' \subseteq Written
      /\ \/ UNCHANGED <<walLog, walLogSynced, meta, metaSynced>>
         \/ /\ walLogSynced' = walLog' /\ metaSynced' = meta'
            /\ meta' \in {meta, metaSynced} \cup (IF meta # metaSynced THEN {0} ELSE {})
  BY DEF Kill, PowerLoss, diskVars, walVars, histVars, Written
<1>2. status' = "down" /\ pc'[Opener] = "idle" /\ \A q \in Clients : pc'[q] = "idle"
  BY <1>1, LogFacts DEF LoseMemory
<1>3. Pending' = {r \in Records(walLog)' : r.lsn > meta'}
  BY <1>2 DEF Pending, MetaPcs
<1>4. ASSUME NEW r \in Pending'
      PROVE  \E p \in Clients : pc[p] \in LoggedPcs /\ r = job[p] /\ r.lsn = currentLsn
  <2>1. PICK i \in DOMAIN walLog' : r = walLog'[i]
    BY <1>3, <1>4 DEF Records
  <2>2. ~Settled(r.lsn)
    BY <1>3, <1>4, <2>1 DEF ForgetsCheckpoint
  <2>3. PICK p \in Procs : pc[p] \in LoggedPcs /\ job[p].lsn = r.lsn
    BY <2>2 DEF Settled, InUse
  <2>4. p \in Clients
    BY <2>3, LoggedPcsFacts DEF LocksHeld, Procs
  <2>5. job[p].lsn = currentLsn /\ r \in Written
    BY <1>1, <1>3, <1>4, <2>3, <2>4 DEF LsnsAgree
  <2> QED  BY <2>3, <2>4, <2>5 DEF PutRecords, PutRecord
<1>5. /\ meta \in Nat /\ metaSynced \in Nat /\ currentLsn \in Nat
      /\ \A r \in Written : r.lsn \in Nat
  BY LogFacts
<1>6. ASSUME NEW r \in Pending' PROVE Replayable(r)' /\ r.lsn > metaSynced'
  <2>1. PICK p \in Clients : pc[p] \in LoggedPcs /\ r = job[p] /\ r.lsn = currentLsn
    BY <1>4, <1>6
  <2>2. Replayable(r)
    BY <2>1, LoggedIsReplayable
  <2>3. PutRecord(p)
    BY <2>1 DEF PutRecords
  <2>4. r.lsn > meta'
    BY <1>3, <1>6
  <2>5. CASE metaSynced' = meta'
    BY <2>4, <2>5, <2>2, <1>1, ReplayableKept
  <2>6. CASE metaSynced' = metaSynced /\ meta' = meta
    <3>1. pc[p] \notin EndPcs
      BY <1>5, <2>1, <2>3, <2>4, <2>6 DEF PutRecord
    <3>2. metaSynced < currentLsn
      BY <2>3, <3>1 DEF PutRecord
    <3> QED  BY <1>1, <1>5, <2>1, <2>2, <2>6, <3>2, ReplayableKept
  <2> QED  BY <1>1, <2>5, <2>6
<1>7. \A r, s \in Pending' : r = s
  <2> SUFFICES ASSUME NEW r \in Pending', NEW s \in Pending' PROVE r = s
    OBVIOUS
  <2>1. PICK p \in Clients : pc[p] \in LoggedPcs /\ r = job[p] /\ r.lsn = currentLsn
    BY <1>4
  <2>2. s.lsn = currentLsn /\ s \in Written
    BY <1>1, <1>3, <1>4
  <2> QED  BY <2>1, <2>2 DEF PutRecords, PutRecord
<1>8. metaSynced' <= meta' \/ Pending' # {}
  <2>1. CASE metaSynced' = meta'
    BY <1>1, <1>5, <2>1
  <2>2. CASE UNCHANGED <<walLog, walLogSynced, meta, metaSynced>>
    <3>1. CASE metaSynced <= meta
      BY <2>2, <3>1
    <3>2. CASE ~(metaSynced <= meta)
      <4>1. PICK p \in Clients : pc[p] = "metaWrite"
        BY <3>2 DEF LogSettled
      <4>2. PutRecord(p) /\ pc[p] \notin EndPcs /\ job[p].lsn = currentLsn
        BY <4>1, LoggedPcsFacts DEF PutRecords, EndPcs, MetaPcs, LsnsAgree
      <4>3. job[p] \in Records(walLog) /\ metaSynced < job[p].lsn
        BY <4>2 DEF PutRecord
      <4>4. job[p] \in Pending'
        BY <1>3, <1>5, <2>2, <3>2, <4>2, <4>3
      <4> QED  BY <4>4
    <3> QED  BY <3>1, <3>2
  <2> QED  BY <1>1, <2>1, <2>2
<1>9. LogSettled'
  <2>1. \A r \in Written' : r.lsn # 0
    BY <1>1 DEF LogSettled, Written
  <2>2. \A r \in Records(walLogSynced)' : r \in Records(walLog)' \/ r.lsn <= metaSynced'
    BY <1>1 DEF LogSettled
  <2> QED  BY <1>2, <1>8, <2>1, <2>2 DEF LogSettled
<1>10. PendingCut'
  BY <1>6, <1>7 DEF PendingCut
<1>11. ReplayClaims' /\ RecoveryAt'
  BY <1>2 DEF ReplayClaims, RecoveryAt, RecoverPcs, ReplayPcs, MetaPcs, EndPcs
<1> QED  BY <1>9, <1>10, <1>11 DEF Recovery

\* Neither does a crash of the crashed or recovering store add a record.
LEMMA CrashOfRecovery ==
  ASSUME TypeInv, LocksHeld, LogSettled, Recovery,
         status # "up", Kill \/ PowerLoss, ~ForgetsCheckpoint
  PROVE  LogSettled' /\ Recovery'
<1>1. /\ LoseMemory /\ UNCHANGED <<names, objects, deleted>> /\ synced \subseteq synced'
      /\ Records(walLog)' \subseteq Written /\ Records(walLogSynced)' \subseteq Written
      /\ \/ UNCHANGED <<walLog, walLogSynced, meta, metaSynced>>
         \/ /\ walLogSynced' = walLog' /\ metaSynced' = meta'
            /\ meta' \in {meta, metaSynced} \cup (IF meta # metaSynced THEN {0} ELSE {})
  BY DEF Kill, PowerLoss, diskVars, walVars, histVars, Written
<1>2. status' = "down" /\ pc'[Opener] = "idle" /\ \A q \in Clients : pc'[q] = "idle"
  BY <1>1, LogFacts DEF LoseMemory
<1>3. Pending' = {r \in Records(walLog)' : r.lsn > meta'}
  BY <1>2 DEF Pending, MetaPcs
<1>4. /\ meta \in Nat /\ metaSynced \in Nat /\ currentLsn \in Nat
      /\ \A r \in Written : r.lsn \in Nat
  BY LogFacts
<1>5. ASSUME NEW r \in Pending' PROVE r \in Pending
  <2>1. r \in Written /\ r.lsn \in Nat /\ r.lsn > meta'
    BY <1>1, <1>3, <1>4, <1>5
  <2>2. r.lsn > metaSynced => r \in Records(walLog)
    BY <2>1, <1>4 DEF LogSettled, Written
  <2>3. PICK i \in DOMAIN walLog' : r = walLog'[i]
    BY <1>3, <1>5 DEF Records
  <2>4. ~Settled(r.lsn)
    BY <2>1, <2>3 DEF ForgetsCheckpoint
  <2>5. CASE pc[Opener] \notin LoggedPcs
    <3>1. \A q \in Clients : pc[q] = "idle"
      BY DEF LocksHeld
    <3>2. InUse = {}
      BY <2>5, <3>1, LoggedPcsFacts DEF InUse, Procs
    <3>3. r.lsn > meta /\ r.lsn > metaSynced
      BY <1>4, <2>1, <2>4, <3>2 DEF Settled
    <3> QED  BY <2>2, <2>5, <3>3, LoggedPcsFacts, PendingFacts
  <2>6. CASE pc[Opener] \in LoggedPcs
    <3>1. \A q \in Clients : pc[q] = "idle"
      BY DEF LocksHeld
    <3>2. job[Opener].lsn \in InUse
      BY <2>6 DEF InUse, Procs
    <3>3. r.lsn = job[Opener].lsn
      BY <2>4, <3>1, <3>2, LoggedPcsFacts DEF Settled, InUse, Procs
    <3>4. r.lsn <= currentLsn
      <4>1. status # "down"
        BY <2>6, LoggedPcsFacts DEF Recovery, RecoveryAt
      <4> QED  BY <2>1, <4>1 DEF LogSettled
    <3>5. CASE pc[Opener] \in RecoverPcs
      <4>1. job[Opener] \in Pending /\ pc[Opener] \notin MetaPcs
        BY <3>5 DEF Recovery, RecoveryAt, RecoverPcs, MetaPcs
      <4>2. r.lsn > metaSynced /\ r.lsn > meta
        BY <3>3, <4>1, PendingFacts DEF Recovery, PendingCut
      <4> QED  BY <2>2, <4>1, <4>2, PendingFacts
    <3>6. CASE pc[Opener] \in {"checkpoint"} \cup MetaPcs
      <4>1. PICK s \in Pending : s.lsn > metaSynced
        BY <3>6 DEF Recovery, RecoveryAt, PendingCut
      <4>2. r.lsn = currentLsn /\ s.lsn <= currentLsn
        <5>1. status # "down"
          BY <2>6, LoggedPcsFacts DEF Recovery, RecoveryAt
        <5> QED  BY <3>3, <3>6, <4>1, <5>1, PendingFacts DEF LogSettled, Recovery, RecoveryAt
      <4>3. r \in Records(walLog)
        BY <1>4, <2>2, <4>1, <4>2, PendingFacts
      <4>4. CASE pc[Opener] \in MetaPcs
        BY <4>2, <4>3, <4>4, PendingFacts
      <4>5. CASE pc[Opener] = "checkpoint"
        <5>1. pc[Opener] \notin MetaPcs
          BY <4>5 DEF MetaPcs
        <5>2. s.lsn > meta
          BY <4>1, <5>1, PendingFacts
        <5> QED  BY <1>4, <4>1, <4>2, <4>3, <5>1, <5>2, PendingFacts
      <4> QED  BY <3>6, <4>4, <4>5
    <3>7. CASE pc[Opener] \in EndPcs
      <4>1. meta = currentLsn /\ metaSynced = currentLsn
        BY <3>7 DEF Recovery, RecoveryAt
      <4>2. meta' = currentLsn
        BY <1>1, <4>1
      <4> QED  BY <1>4, <2>1, <3>4, <4>2
    <3>8. pc[Opener] # "walSync"
      BY DEF LocksHeld
    <3> QED  BY <2>6, <3>5, <3>6, <3>7, <3>8 DEF LoggedPcs, RecoverPcs, MetaPcs, EndPcs
  <2> QED  BY <2>5, <2>6
<1>6. \A r \in Pending' : r.lsn > metaSynced'
  <2> SUFFICES ASSUME NEW r \in Pending' PROVE r.lsn > metaSynced'
    OBVIOUS
  <2>1. r.lsn > metaSynced /\ r.lsn > meta'
    BY <1>3, <1>5 DEF Recovery, PendingCut
  <2> QED  BY <1>1, <2>1
<1>7. PendingCut'
  BY <1>1, <1>5, <1>6, PendingCutStays DEF Recovery
<1>8. metaSynced' <= meta' \/ Pending' # {}
  <2>1. CASE metaSynced' = meta'
    BY <1>1, <1>4, <2>1
  <2>2. CASE UNCHANGED <<walLog, walLogSynced, meta, metaSynced>> /\ ~(metaSynced <= meta)
    <3>1. PICK r \in Pending : r.lsn > metaSynced
      BY <2>2 DEF LogSettled, Recovery, PendingCut
    <3>2. r \in Pending'
      BY <1>3, <1>4, <2>2, <3>1, PendingFacts
    <3> QED  BY <3>2
  <2> QED  BY <1>1, <2>1, <2>2
<1>9. LogSettled'
  <2>1. \A r \in Written' : r.lsn # 0
    BY <1>1 DEF LogSettled, Written
  <2>2. \A r \in Records(walLogSynced)' : r \in Records(walLog)' \/ r.lsn <= metaSynced'
    BY <1>1 DEF LogSettled
  <2> QED  BY <1>2, <1>8, <2>1, <2>2 DEF LogSettled
<1>10. ReplayClaims' /\ RecoveryAt'
  BY <1>2 DEF ReplayClaims, RecoveryAt, RecoverPcs, ReplayPcs, MetaPcs, EndPcs
<1> QED  BY <1>7, <1>9, <1>10 DEF Recovery

\* Opening numbers on from the largest LSN in the files; no record is torn.
LEMMA KeptOpens ==
  ASSUME TypeInv, LocksHeld, LogSettled, Recovery, OpenWal
  PROVE  LogSettled' /\ Recovery' /\ UNCHANGED <<names, objects, deleted>>
<1>1. /\ UNCHANGED <<names, objects, deleted, synced, job, walLogSynced, meta, metaSynced>>
      /\ status = "down" /\ status' = "opening" /\ pc' = [pc EXCEPT ![Opener] = "replay"]
      /\ replayPos' = 1 /\ checkpointLsn' = meta
  BY DEF OpenWal, diskVars, histVars, Goto
<1>2. /\ pc \in [Procs -> Pcs] /\ Opener \in Procs /\ walLog \in Seq(WalRecord)
      /\ meta \in Nat /\ metaSynced \in Nat /\ \A r \in Written : r.lsn \in Nat
      /\ Records(walLog) \subseteq Written /\ Records(walLogSynced) \subseteq Written
  BY LogFacts
<1>3. pc[Opener] = "idle" /\ pc'[Opener] = "replay"
  BY <1>1, <1>2 DEF Recovery, RecoveryAt
<1>4. walLog' = walLog
  <2>1. PICK k \in 0..Len(walLog) : DecodesUpTo(walLog, k) /\ walLog' = SubSeq(walLog, 1, k)
    BY DEF OpenWal
  <2>2. Len(walLog) \in Nat /\ DOMAIN walLog = 1..Len(walLog)
    BY <1>2, LenProperties
  <2>3. \A i \in 1..Len(walLog) : walLog[i].lsn # 0
    BY <1>2, <2>2 DEF LogSettled, Records
  <2>4. k = Len(walLog)
    <3>1. ASSUME k < Len(walLog) PROVE FALSE
      <4>1. k + 1 \in 1..Len(walLog) /\ walLog[k + 1].lsn = 0
        BY <2>1, <2>2, <3>1 DEF DecodesUpTo
      <4> QED  BY <2>3, <4>1
    <3>2. k \in Int /\ Len(walLog) \in Int /\ k <= Len(walLog)
      <4> DEFINE n == Len(walLog)
      <4>1. k \in 0..n /\ n \in Nat
        BY <2>2
      <4> HIDE DEF n
      <4>2. k \in Int /\ n \in Int /\ k <= n
        BY <4>1
      <4> QED  BY <4>2 DEF n
    <3> QED  BY <3>1, <3>2
  <2> QED  BY <1>2, <2>1, <2>4, SubSeqFull
<1>5. Written' = Written /\ Records(walLog)' = Records(walLog)
      /\ Records(walLogSynced)' = Records(walLogSynced)
  BY <1>1, <1>4 DEF Written
<1>6. Pending = {r \in Records(walLog) : r.lsn > meta} /\ Pending' = Pending
  BY <1>1, <1>3, <1>5 DEF Pending, MetaPcs
<1>7. /\ currentLsn' \in {meta} \cup LsnsOf(walLog)
      /\ \A l \in {meta} \cup LsnsOf(walLog) : l <= currentLsn'
  BY <1>4 DEF OpenWal, IsMaxOf
<1>8. currentLsn' \in Nat /\ meta <= currentLsn'
      /\ \A r \in Records(walLog) : r.lsn <= currentLsn'
  <2>1. \A r \in Records(walLog) : r.lsn \in LsnsOf(walLog)
    BY DEF Records, LsnsOf
  <2>2. \A l \in LsnsOf(walLog) : \E r \in Records(walLog) : l = r.lsn
    BY DEF Records, LsnsOf
  <2> QED  BY <1>2, <1>7, <2>1, <2>2
<1>9. metaSynced <= meta \/ Pending # {}
  BY <1>1 DEF LogSettled
<1>10. metaSynced <= currentLsn'
  <2>1. ASSUME NEW r \in Pending PROVE metaSynced <= currentLsn'
    <3>1. r.lsn > metaSynced /\ r.lsn <= currentLsn' /\ r.lsn \in Nat
      BY <1>2, <1>6, <1>8 DEF Recovery, PendingCut
    <3> QED  BY <1>2, <1>8, <3>1
  <2> QED  BY <1>2, <1>8, <1>9, <2>1
<1>11. LogSettled'
  <2>1. \A r \in Written : r.lsn <= currentLsn' /\ r.lsn # 0
    BY <1>2, <1>8, <1>10 DEF LogSettled, Written
  <2> QED  BY <1>1, <1>5, <1>6, <1>8, <1>9, <1>10, <2>1 DEF LogSettled
<1>12. PendingCut'
  BY <1>1, <1>6, PendingCutStays DEF Recovery, PendingCut
<1>13. ReplayClaims' /\ RecoveryAt'
  BY <1>1, <1>3, <1>4, <1>7 DEF ReplayClaims, RecoveryAt, RecoverPcs, ReplayPcs, MetaPcs, EndPcs
<1> QED  BY <1>1, <1>11, <1>12, <1>13 DEF Recovery

\* The records that the replay has to look at are pending.
LEMMA UnreplayedIsPending ==
  ASSUME TypeInv, Recovery, pc[Opener] = "replay", NEW i \in Unreplayed
  PROVE  i \in DOMAIN walLog /\ walLog[i] \in Pending
<1>1. walLog \in Seq(WalRecord) /\ replayPos \in Nat \ {0} /\ Len(walLog) \in Nat
      /\ DOMAIN walLog = 1..Len(walLog)
  BY LenProperties DEF TypeInv, TypeOK, WalTypeOK
<1>2. i \in DOMAIN walLog /\ walLog[i].lsn > checkpointLsn
  BY <1>1 DEF Unreplayed
<1>3. checkpointLsn = meta /\ pc[Opener] \notin MetaPcs
  BY DEF Recovery, RecoveryAt, ReplayPcs, MetaPcs
<1> QED  BY <1>2, <1>3 DEF Pending, Records

\* So the chunks of each are there.
LEMMA KeptOpenSucceeds ==
  ASSUME TypeInv, DataInv, Recovery
  PROVE  ~OpenFails
<1> SUFFICES ASSUME OpenFails PROVE FALSE
  OBVIOUS
<1>1. PICK i \in Unreplayed : ~(ChunksOf[walLog[i].content] \subseteq stored)
  BY DEF OpenFails
<1>2. walLog[i] \in Pending
  BY UnreplayedIsPending DEF OpenFails
<1> QED  BY <1>1, <1>2 DEF Recovery, PendingCut, Replayable, DataInv

\* A step of recovery that leaves the files and the numbering alone.
LEMMA KeptQuiet ==
  ASSUME TypeInv, LogSettled, Recovery, status = "opening",
         UNCHANGED <<names, objects, deleted, status, walLog, walLogSynced, meta, metaSynced,
                     currentLsn>>,
         synced \subseteq synced', pc[Opener] \notin MetaPcs, pc'[Opener] \notin MetaPcs
  PROVE  LogSettled' /\ PendingCut' /\ Pending' = Pending
<1>1. Written' = Written /\ Pending' = Pending
  BY DEF Written, Pending
<1>2. LogSettled'
  BY <1>1 DEF LogSettled
<1>3. PendingCut'
  BY <1>1, PendingCutStays DEF Recovery, PendingCut
<1> QED  BY <1>1, <1>2, <1>3

\* The next record of the replay is the pending one.
LEMMA KeptReplays ==
  ASSUME TypeInv, DataInv, LogSettled, Recovery, status = "opening", ReplayRecord
  PROVE  LogSettled' /\ Recovery' /\ UNCHANGED <<names, objects, deleted>>
<1>1. /\ UNCHANGED <<names, objects, deleted, status, walLog, walLogSynced, meta, metaSynced,
                     currentLsn, checkpointLsn>>
      /\ synced \subseteq synced' /\ pc[Opener] = "replay"
      /\ pc' = [pc EXCEPT ![Opener] = "manifest"]
  BY DEF ReplayRecord, SyncSegments, DataInv, walVars, histVars, Goto
<1>2. PICK i \in Unreplayed : job' = [job EXCEPT ![Opener] = walLog[i]]
  BY DEF ReplayRecord
<1>3. PICK r : r = walLog[i]
  OBVIOUS
<1>4. r \in Pending
  BY <1>1, <1>3, UnreplayedIsPending
<1>5. pc'[Opener] = "manifest" /\ job'[Opener] = r
  BY <1>1, <1>2, <1>3, LogFacts
<1>6. LogSettled' /\ PendingCut' /\ Pending' = Pending
  BY <1>1, <1>5, KeptQuiet DEF MetaPcs
<1>7. ReplayClaims'
  <2>1. Replayable(r)'
    BY <1>4, <1>6 DEF PendingCut
  <2> QED  BY <1>5, <2>1 DEF ReplayClaims
<1>8. RecoveryAt'
  <2>1. checkpointLsn = meta /\ currentLsn \in {meta} \cup LsnsOf(walLog) /\ status # "down"
    BY <1>1 DEF Recovery, RecoveryAt, ReplayPcs
  <2> QED  BY <1>1, <1>4, <1>5, <1>6, <2>1 DEF RecoveryAt, RecoverPcs, ReplayPcs, MetaPcs, EndPcs
<1> QED  BY <1>1, <1>6, <1>7, <1>8 DEF Recovery

\* Its manifest is saved.
LEMMA KeptSaves ==
  ASSUME TypeInv, LogSettled, Recovery, status = "opening", SaveManifest(Opener)
  PROVE  LogSettled' /\ Recovery' /\ UNCHANGED <<names, objects, deleted>>
<1>1. /\ UNCHANGED <<names, objects, deleted, status, walLog, walLogSynced, meta, metaSynced,
                     currentLsn, checkpointLsn, synced, job, replayPos>>
      /\ pc[Opener] = "manifest" /\ pc' = [pc EXCEPT ![Opener] = "object"]
  BY DEF SaveManifest, walVars, lsnVars, histVars, Goto
<1>2. pc'[Opener] = "object"
  BY <1>1, LogFacts
<1>3. LogSettled' /\ PendingCut' /\ Pending' = Pending
  BY <1>1, <1>2, KeptQuiet DEF MetaPcs
<1>4. job[Opener] \in Pending /\ checkpointLsn = meta /\ currentLsn \in {meta} \cup LsnsOf(walLog)
  BY <1>1 DEF Recovery, RecoveryAt, RecoverPcs, ReplayPcs
<1>5. ReplayClaims'
  <2>1. PICK r : r = job[Opener]
    OBVIOUS
  <2>2. Replayable(r)'
    BY <1>3, <1>4, <2>1 DEF PendingCut
  <2> QED  BY <1>1, <1>2, <2>1, <2>2 DEF ReplayClaims
<1>6. RecoveryAt'
  BY <1>1, <1>2, <1>3, <1>4 DEF RecoveryAt, RecoverPcs, ReplayPcs, MetaPcs, EndPcs
<1> QED  BY <1>1, <1>3, <1>5, <1>6 DEF Recovery

\* What PutObject and BindName make of the pending record.
LEMMA KeptChanges ==
  ASSUME TypeInv, LogSettled, Recovery, status = "opening", NEW r, r = job[Opener],
         UNCHANGED <<job, status, walLog, walLogSynced, meta, metaSynced, currentLsn,
                     checkpointLsn, replayPos>>,
         pc[Opener] \in RecoverPcs, pc'[Opener] \in {"bind", "replay"},
         Replayable(r)', Applied(r)'
  PROVE  LogSettled' /\ Recovery'
<1>1. /\ job[Opener] \in Pending /\ checkpointLsn = meta
      /\ currentLsn \in {meta} \cup LsnsOf(walLog)
  BY DEF Recovery, RecoveryAt, RecoverPcs, ReplayPcs
<1>2. Written' = Written /\ Pending' = Pending
  BY DEF Written, Pending, RecoverPcs, MetaPcs
<1>3. LogSettled'
  BY <1>2 DEF LogSettled
<1>4. PendingCut'
  <2>1. \A s \in Pending : s = r /\ s.lsn > metaSynced
    BY <1>1 DEF Recovery, PendingCut
  <2> QED  BY <1>2, <2>1 DEF PendingCut
<1>5. ReplayClaims'
  BY DEF ReplayClaims
<1>6. RecoveryAt'
  BY <1>1, <1>2 DEF RecoveryAt, RecoverPcs, ReplayPcs, MetaPcs, EndPcs
<1> QED  BY <1>3, <1>4, <1>5, <1>6 DEF Recovery

\* What the opener knows of the record that it works on.
LEMMA ReplayedRecord ==
  ASSUME TypeInv, Recovery, pc[Opener] \in RecoverPcs, NEW r, r = job[Opener]
  PROVE  /\ r \in WalRecord /\ r.oid \in ObjectIds /\ Replayable(r)
         /\ objects \in [ObjectIds -> ObjectRecord] /\ objects[r.oid] \in ObjectRecord
         /\ objects[r.oid].latest \in Nat
         /\ pc[Opener] = "bind" => Applied(r)
<1>1. r \in WalRecord
  BY DEF RecoverPcs, TypeInv, JobsResolved, SyncedPcs, Procs
<1>2. objects \in [ObjectIds -> ObjectRecord]
  BY DEF TypeInv, TypeOK, StoreTypeOK
<1>3. r.oid \in ObjectIds
  BY <1>1 DEF WalRecord
<1>4. objects[r.oid] \in ObjectRecord /\ objects[r.oid].latest \in Nat
  BY <1>2, <1>3, BoundAssumption DEF ObjectRecord
<1> QED  BY <1>1, <1>2, <1>3, <1>4 DEF Recovery, ReplayClaims

\* Its version is written, or there already.
LEMMA KeptApplies ==
  ASSUME TypeInv, LogSettled, Recovery, Ordered, status = "opening", PutObject(Opener)
  PROVE  LogSettled' /\ Recovery' /\ Ordered'
<1>1. PICK r : r = job[Opener]
  OBVIOUS
<1>2. /\ pc[Opener] \in RecoverPcs /\ pc' = [pc EXCEPT ![Opener] = "bind"]
      /\ UNCHANGED <<names, deleted, synced, job, status, walLog, walLogSynced, meta,
                     metaSynced, currentLsn, checkpointLsn, replayPos>>
  BY DEF PutObject, Goto, walVars, lsnVars, histVars, RecoverPcs
<1>3. pc'[Opener] = "bind"
  BY <1>2, LogFacts
<1>4. r \in WalRecord /\ Replayable(r)
  BY <1>1, <1>2, ReplayedRecord
<1>5. CASE HasVersion(objects[r.oid], r.version)
  <2>1. objects' = objects
    BY <1>1, <1>5 DEF PutObject
  <2>2. r.oid \in ObjectIds /\ objects[r.oid] \in ObjectRecord /\ objects[r.oid].latest \in Nat
    BY <1>1, <1>2, ReplayedRecord
  <2>3. ~Unapplied(r)
    BY <1>5, <2>2, LatestIsLast, OrderedFacts DEF Ordered, Unapplied
  <2>4. Applied(r)' /\ Replayable(r)'
    BY <1>2, <1>4, <2>1, <2>3 DEF Replayable, Claimed, Applied
  <2>5. Ordered'
    BY <1>2, <2>1, OrderedSame
  <2> QED  BY <1>1, <1>2, <1>3, <2>4, <2>5, KeptChanges
<1>6. CASE ~HasVersion(objects[r.oid], r.version)
  <2>1. objects' = [objects EXCEPT ![r.oid] = PushVersion(@, r.version, r.content)]
    BY <1>1, <1>6 DEF PutObject
  <2>2. Claimed(r) /\ Unapplied(r)
    BY <1>4, <1>6, EntryIsVersion DEF Replayable, Applied
  <2>3. Ordered' /\ Claimed(r)' /\ Applied(r)'
    BY <1>2, <1>4, <2>1, <2>2, OrderedPush
  <2>4. Replayable(r)'
    BY <1>2, <1>4, <2>3 DEF Replayable
  <2> QED  BY <1>1, <1>2, <1>3, <2>3, <2>4, KeptChanges
<1> QED  BY <1>5, <1>6

\* And its name is bound.
LEMMA KeptBinds ==
  ASSUME TypeInv, LogSettled, Recovery, Ordered, status = "opening", BindName(Opener)
  PROVE  LogSettled' /\ Recovery' /\ Ordered'
<1>1. PICK r : r = job[Opener]
  OBVIOUS
<1>2. /\ pc[Opener] = "bind" /\ pc' = [pc EXCEPT ![Opener] = "replay"]
      /\ names' = [names EXCEPT ![r.name] = r.oid]
      /\ UNCHANGED <<objects, deleted, synced, job, status, walLog, walLogSynced, meta,
                     metaSynced, currentLsn, checkpointLsn, replayPos>>
  BY <1>1 DEF BindName, Goto, walVars, lsnVars, histVars
<1>3. pc'[Opener] = "replay" /\ pc[Opener] \in RecoverPcs
  BY <1>2, LogFacts DEF RecoverPcs
<1>4. r \in WalRecord /\ Replayable(r) /\ Applied(r)
  BY <1>1, <1>2, <1>3, ReplayedRecord
<1>5. Ordered' /\ Claimed(r)' /\ Applied(r)'
  BY <1>2, <1>4, OrderedBind DEF Replayable
<1>6. Replayable(r)'
  BY <1>2, <1>4, <1>5 DEF Replayable
<1> QED  BY <1>1, <1>2, <1>3, <1>5, <1>6, KeptChanges

\* When no record is left the pending one has the last LSN.
LEMMA LastRecord ==
  ASSUME TypeInv, LogSettled, Recovery, status = "opening", pc[Opener] \in ReplayPcs,
         Pending # {}
  PROVE  /\ currentLsn \in LsnsOf(walLog) /\ currentLsn > meta /\ currentLsn > metaSynced
         /\ \A l \in LsnsOf(walLog) : l <= currentLsn
<1>1. /\ pc[Opener] \notin MetaPcs /\ currentLsn \in {meta} \cup LsnsOf(walLog)
  BY DEF Recovery, RecoveryAt, ReplayPcs, MetaPcs
<1>2. PICK r \in Pending : r.lsn > metaSynced
  BY DEF Recovery, PendingCut
<1>3. /\ meta \in Nat /\ metaSynced \in Nat /\ currentLsn \in Nat /\ r.lsn \in Nat
      /\ Records(walLog) \subseteq Written /\ r \in Written
  BY LogFacts, PendingFacts
<1>4. r.lsn > meta
  BY <1>1, <1>2, PendingFacts
<1>5. r.lsn <= currentLsn /\ \A s \in Records(walLog) : s.lsn <= currentLsn
  BY <1>3 DEF LogSettled
<1>6. \A l \in LsnsOf(walLog) : l <= currentLsn
  BY <1>5 DEF LsnsOf, Records
<1>7. currentLsn > meta /\ currentLsn > metaSynced
  BY <1>2, <1>3, <1>4, <1>5
<1> QED  BY <1>1, <1>3, <1>6, <1>7

LEMMA KeptFinishes ==
  ASSUME TypeInv, LogSettled, Recovery, status = "opening", FinishReplay
  PROVE  LogSettled' /\ Recovery' /\ UNCHANGED <<names, objects, deleted>>
<1>1. /\ UNCHANGED <<names, objects, deleted, status, walLog, walLogSynced, meta, metaSynced,
                     currentLsn, checkpointLsn, synced, replayPos>>
      /\ pc[Opener] = "replay" /\ Unreplayed = {}
  BY DEF FinishReplay, diskVars, walVars, lsnVars, histVars
<1>2. /\ pc \in [Procs -> Pcs] /\ Opener \in Procs /\ job \in [Procs -> WalPut]
      /\ walLog \in Seq(WalRecord) /\ meta \in Nat /\ metaSynced \in Nat
  BY LogFacts
<1>3. pc[Opener] \notin MetaPcs /\ pc[Opener] \in ReplayPcs /\ checkpointLsn = meta
      /\ currentLsn \in {meta} \cup LsnsOf(walLog)
  BY <1>1 DEF Recovery, RecoveryAt, ReplayPcs, MetaPcs
<1>4. CASE replayPos = 1
  <2>1. pc'[Opener] = "done"
    BY <1>2, <1>4 DEF FinishReplay, Goto
  <2>2. Pending = {}
    <3>1. ASSUME NEW i \in DOMAIN walLog, walLog[i].lsn > meta PROVE FALSE
      <4>1. DOMAIN walLog = 1..Len(walLog)
        BY <1>2, LenProperties
      <4> QED  BY <1>1, <1>3, <1>4, <3>1, <4>1 DEF Unreplayed
    <3> QED  BY <1>3, <3>1 DEF Pending, Records
  <2>3. metaSynced <= meta
    BY <1>1, <2>2 DEF LogSettled
  <2>4. LogSettled' /\ PendingCut' /\ Pending' = Pending
    BY <1>1, <1>3, <2>1, KeptQuiet DEF MetaPcs
  <2>5. ReplayClaims' /\ RecoveryAt'
    BY <1>1, <2>1, <2>3 DEF ReplayClaims, RecoveryAt, RecoverPcs, ReplayPcs, MetaPcs, EndPcs
  <2> QED  BY <1>1, <2>4, <2>5 DEF Recovery
<1>5. CASE replayPos # 1
  <2>1. pc'[Opener] = "checkpoint"
    BY <1>2, <1>5 DEF FinishReplay, Goto
  <2>2. Pending # {}
    BY <1>1, <1>5 DEF Recovery, RecoveryAt
  <2>3. PICK l \in LsnsOf(walLog) : /\ \A k \in LsnsOf(walLog) : k <= l
                                    /\ job' = [job EXCEPT ![Opener].lsn = l]
    BY <1>5 DEF FinishReplay, IsMaxOf
  <2>4. l = currentLsn
    <3>1. \A k \in LsnsOf(walLog) : k \in Nat
      <4>1. \A s \in Records(walLog) : s.lsn \in Nat
        BY LogFacts
      <4> QED  BY <4>1 DEF LsnsOf, Records
    <3>2. currentLsn \in LsnsOf(walLog) /\ \A k \in LsnsOf(walLog) : k <= currentLsn
      BY <1>1, <1>3, <2>2, LastRecord
    <3>3. l \in Nat /\ currentLsn \in Nat /\ l <= currentLsn /\ currentLsn <= l
      BY <2>3, <3>1, <3>2
    <3> QED  BY <3>3
  <2>5. job'[Opener].lsn = currentLsn
    BY <1>2, <2>3, <2>4 DEF WalPut
  <2>6. LogSettled' /\ PendingCut' /\ Pending' = Pending
    BY <1>1, <1>3, <2>1, KeptQuiet DEF MetaPcs
  <2>7. ReplayClaims' /\ RecoveryAt'
    BY <1>1, <1>3, <2>1, <2>2, <2>5, <2>6
       DEF ReplayClaims, RecoveryAt, RecoverPcs, ReplayPcs, MetaPcs, EndPcs
  <2> QED  BY <1>1, <2>6, <2>7 DEF Recovery
<1> QED  BY <1>4, <1>5

\* Then the checkpoint: checkpoint.meta is emptied ...
LEMMA KeptTruncatesMeta ==
  ASSUME TypeInv, LogSettled, Recovery, status = "opening", TruncateMeta(Opener)
  PROVE  LogSettled' /\ Recovery' /\ UNCHANGED <<names, objects, deleted>>
<1>1. /\ UNCHANGED <<names, objects, deleted, status, walLog, walLogSynced, metaSynced,
                     currentLsn, synced, job, replayPos>>
      /\ meta' = 0 /\ checkpointLsn' = job[Opener].lsn
      /\ pc[Opener] = "checkpoint" /\ pc' = [pc EXCEPT ![Opener] = "metaWrite"]
  BY DEF TruncateMeta, diskVars, histVars, Goto
<1>2. pc'[Opener] = "metaWrite" /\ metaSynced \in Nat /\ currentLsn \in Nat /\ meta \in Nat
      /\ \A r \in Pending : r.lsn \in Nat
  BY <1>1, LogFacts, PendingFacts
<1>3. /\ pc[Opener] \notin MetaPcs /\ pc[Opener] \in ReplayPcs /\ Pending # {}
      /\ job[Opener].lsn = currentLsn
  BY <1>1 DEF Recovery, RecoveryAt, ReplayPcs, MetaPcs
<1>4. currentLsn \in LsnsOf(walLog) /\ currentLsn > meta
  BY <1>3, LastRecord
<1>5. Pending = {r \in Records(walLog) : r.lsn > meta}
      /\ Pending' = {r \in Records(walLog) : r.lsn = currentLsn}
  BY <1>1, <1>2, <1>3 DEF Pending, MetaPcs
<1>6. Pending' \subseteq Pending /\ Pending' # {}
  <2>1. PICK i \in DOMAIN walLog : walLog[i].lsn = currentLsn
    BY <1>4 DEF LsnsOf
  <2>2. walLog[i] \in Pending'
    BY <1>5, <2>1 DEF Records
  <2> QED  BY <1>4, <1>5, <2>2
<1>7. PendingCut'
  BY <1>1, <1>6, PendingCutStays DEF Recovery, PendingCut
<1>8. Written' = Written
  BY <1>1 DEF Written
<1>9. LogSettled'
  BY <1>1, <1>2, <1>6, <1>8 DEF LogSettled
<1>10. ReplayClaims' /\ RecoveryAt'
  BY <1>1, <1>2, <1>3, <1>6
     DEF ReplayClaims, RecoveryAt, RecoverPcs, ReplayPcs, MetaPcs, EndPcs
<1> QED  BY <1>1, <1>7, <1>9, <1>10 DEF Recovery

\* ... written ...
LEMMA KeptWritesMeta ==
  ASSUME TypeInv, LogSettled, Recovery, status = "opening", WriteMeta(Opener)
  PROVE  LogSettled' /\ Recovery' /\ UNCHANGED <<names, objects, deleted>>
<1>1. /\ UNCHANGED <<names, objects, deleted, status, walLog, walLogSynced, metaSynced,
                     currentLsn, checkpointLsn, synced, job, replayPos>>
      /\ meta' = checkpointLsn
      /\ pc[Opener] = "metaWrite" /\ pc' = [pc EXCEPT ![Opener] = "metaSync"]
  BY DEF WriteMeta, diskVars, lsnVars, histVars, Goto
<1>2. pc'[Opener] = "metaSync" /\ currentLsn \in Nat
  BY <1>1, LogFacts
<1>3. /\ pc[Opener] \in MetaPcs /\ Pending # {} /\ job[Opener].lsn = currentLsn
      /\ checkpointLsn = currentLsn
  BY <1>1 DEF Recovery, RecoveryAt, MetaPcs
<1>4. Pending' = Pending /\ Written' = Written
  BY <1>1, <1>2, <1>3 DEF Pending, MetaPcs, Written
<1>5. PendingCut'
  BY <1>1, <1>4, PendingCutStays DEF Recovery, PendingCut
<1>6. LogSettled'
  BY <1>1, <1>2, <1>3, <1>4 DEF LogSettled
<1>7. ReplayClaims' /\ RecoveryAt'
  BY <1>1, <1>2, <1>3, <1>4
     DEF ReplayClaims, RecoveryAt, RecoverPcs, ReplayPcs, MetaPcs, EndPcs
<1> QED  BY <1>1, <1>5, <1>6, <1>7 DEF Recovery

\* ... and synced: nothing is pending any more.
LEMMA KeptSyncsMeta ==
  ASSUME TypeInv, LogSettled, Recovery, status = "opening", SyncMeta(Opener)
  PROVE  LogSettled' /\ Recovery' /\ UNCHANGED <<names, objects, deleted>>
<1>1. /\ UNCHANGED <<names, objects, deleted, status, walLog, walLogSynced, meta,
                     currentLsn, checkpointLsn, synced, job, replayPos>>
      /\ metaSynced' = meta /\ pc[Opener] = "metaSync"
  BY DEF SyncMeta, diskVars, lsnVars, histVars
<1>2. checkpointLsn = currentLsn /\ meta = currentLsn /\ job[Opener].lsn = currentLsn
      /\ currentLsn \in Nat
  BY <1>1, LogFacts DEF Recovery, RecoveryAt, MetaPcs
<1>3. pc'[Opener] = "logTruncate"
  BY <1>2, LogFacts DEF SyncMeta, Goto
<1>4. /\ Written' = Written /\ (\A r \in Written : r.lsn <= currentLsn /\ r.lsn \in Nat)
      /\ Records(walLogSynced) \subseteq Written /\ Records(walLog) \subseteq Written
  BY <1>1, LogFacts DEF Written, LogSettled
<1>5. Pending' = {}
  BY <1>1, <1>2, <1>3, <1>4 DEF Pending, MetaPcs
<1>6. LogSettled'
  BY <1>1, <1>2, <1>4 DEF LogSettled
<1>7. PendingCut' /\ ReplayClaims' /\ RecoveryAt'
  BY <1>1, <1>2, <1>3, <1>5
     DEF PendingCut, ReplayClaims, RecoveryAt, RecoverPcs, ReplayPcs, MetaPcs, EndPcs
<1> QED  BY <1>1, <1>6, <1>7 DEF Recovery

\* Then the log is emptied, and the open returns.
LEMMA KeptTruncatesLog ==
  ASSUME TypeInv, LogSettled, Recovery, status = "opening",
         TruncateLog(Opener) \/ SyncLog(Opener)
  PROVE  LogSettled' /\ Recovery' /\ UNCHANGED <<names, objects, deleted>>
<1>1. /\ UNCHANGED <<names, objects, deleted, status, meta, metaSynced,
                     currentLsn, checkpointLsn, synced, job, replayPos>>
      /\ pc[Opener] \in EndPcs /\ pc'[Opener] \in {"logSync", "done"}
  <2>1. CASE TruncateLog(Opener)
    BY <2>1, LogFacts DEF TruncateLog, diskVars, lsnVars, histVars, Goto, EndPcs
  <2>2. CASE SyncLog(Opener)
    BY <2>2, LogFacts DEF SyncLog, diskVars, lsnVars, histVars, Goto, EndPcs
  <2> QED  BY <2>1, <2>2
<1>2. /\ meta = currentLsn /\ metaSynced = currentLsn /\ job[Opener].lsn = currentLsn
      /\ currentLsn \in Nat
  BY <1>1, LogFacts DEF Recovery, RecoveryAt
<1>3. /\ Records(walLog)' \subseteq Records(walLog)
      /\ Records(walLogSynced)' \subseteq Written
  <2>1. CASE TruncateLog(Opener)
    BY <2>1, NoRecords, LogFacts DEF TruncateLog, Records
  <2>2. CASE SyncLog(Opener)
    BY <2>2, LogFacts DEF SyncLog
  <2> QED  BY <2>1, <2>2
<1>4. /\ Written' \subseteq Written /\ (\A r \in Written : r.lsn <= currentLsn /\ r.lsn \in Nat)
      /\ Records(walLog) \subseteq Written
  BY <1>1, <1>3, LogFacts DEF Written, LogSettled
<1>5. Pending' = {}
  BY <1>1, <1>2, <1>3, <1>4 DEF Pending, MetaPcs
<1>6. LogSettled'
  BY <1>1, <1>2, <1>3, <1>4 DEF LogSettled
<1>7. PendingCut' /\ ReplayClaims' /\ RecoveryAt'
  BY <1>1, <1>2, <1>5
     DEF PendingCut, ReplayClaims, RecoveryAt, RecoverPcs, ReplayPcs, MetaPcs, EndPcs
<1> QED  BY <1>1, <1>6, <1>7 DEF Recovery

LEMMA KeptReturns ==
  ASSUME TypeInv, LogSettled, Recovery, status = "opening", FinishOpen
  PROVE  LogSettled' /\ status' = "up" /\ UNCHANGED <<names, objects, deleted>>
<1>1. /\ UNCHANGED <<names, objects, deleted, walLog, walLogSynced, meta, metaSynced,
                     currentLsn>>
      /\ status' = "up" /\ pc[Opener] = "done"
  BY DEF FinishOpen, diskVars, walVars, histVars
<1>2. metaSynced <= meta /\ Written' = Written
  BY <1>1 DEF Recovery, RecoveryAt, Written
<1> QED  BY <1>1, <1>2 DEF LogSettled

\* Recovery completes the put that was cut, and leaves nothing pending.
LEMMA KeptOpener ==
  ASSUME TypeInv, LocksHeld, DataInv, LogSettled, Recovery, Ordered, OpenerStep
  PROVE  LogSettled' /\ Ordered' /\ (status' # "up" => Recovery')
<1>1. status = "down" \/ status = "opening"
  BY OpenerAlone DEF LocksHeld, OpenerStep, OpenWal, ReplayRecord, OpenFails, FinishReplay,
     FinishOpen, SaveManifest, PutObject, BindName, TruncateMeta, WriteMeta, SyncMeta,
     TruncateLog, SyncLog, TypeInv, TypeOK, ThreadTypeOK
<1>2. CASE OpenWal
  BY <1>2, KeptOpens, OrderedSame
<1>3. CASE ~OpenWal
  <2>1. status = "opening"
    <3>1. pc[Opener] # "idle"
      BY <1>3 DEF OpenerStep, ReplayRecord, OpenFails, FinishReplay,
         FinishOpen, SaveManifest, PutObject, BindName, TruncateMeta, WriteMeta, SyncMeta,
         TruncateLog, SyncLog
    <3> QED  BY <1>1, <3>1 DEF Recovery, RecoveryAt
  <2>2. CASE PutObject(Opener) \/ BindName(Opener)
    BY <2>1, <2>2, KeptApplies, KeptBinds
  <2>3. CASE \/ ReplayRecord \/ SaveManifest(Opener) \/ FinishReplay \/ FinishOpen
             \/ TruncateMeta(Opener) \/ WriteMeta(Opener) \/ SyncMeta(Opener)
             \/ TruncateLog(Opener) \/ SyncLog(Opener)
    <3>1. LogSettled' /\ (status' # "up" => Recovery') /\ UNCHANGED <<names, objects, deleted>>
      BY <2>1, <2>3, KeptReplays, KeptSaves, KeptFinishes, KeptReturns, KeptTruncatesMeta,
         KeptWritesMeta, KeptSyncsMeta, KeptTruncatesLog
    <3> QED  BY <3>1, OrderedSame
  <2> QED  BY <1>3, <2>2, <2>3, KeptOpenSucceeds DEF OpenerStep
<1> QED  BY <1>2, <1>3
-----------------------------------------------------------------------------
(* The invariants                                                          *)

\* Through any number of crashes that forget no checkpoint, if no call fails.
Exact ==
  /\ Ordered /\ ClientClaims
  /\ LogSettled /\ PutRecords
  /\ status # "up" => Recovery

\* In any behaviour, up to the second crash.
OrderInv ==
  /\ Clean => Ordered /\ ClientClaims
  /\ spent.crashes = 0 => status = "up"
  /\ spent.crashes = 0 /\ spent.faults = 0 => LogOfPut
  /\ spent.crashes <= 1 /\ spent.faults = 0 => Exact

\* A client's steps crash nothing, and take no error back.
LEMMA ClientSpends ==
  ASSUME TypeInv, NEW p \in Clients, ClientStep(p)
  PROVE  /\ spent'.crashes = spent.crashes
         /\ spent'.faults = 0 => spent.faults = 0
         /\ Clean' => Clean
<1>1. /\ spent \in [puts : Nat, edits : Nat, crashes : Nat, faults : Nat]
      /\ spent'.crashes = spent.crashes
      /\ spent'.faults \in {spent.faults, spent.faults + 1}
  <2>1. spent \in [puts : Nat, edits : Nat, crashes : Nat, faults : Nat]
    BY DEF TypeInv, TypeOK, HistoryTypeOK
  <2>2. spent' = spent \/ Spend("puts") \/ Spend("edits") \/ Spend("faults")
    BY DEF ClientStep, PutStep, OtherStep, AcquireStep, FailStep, CallStep, ReadStable,
       SyncAndResolve, AppendWal, SyncWal, SaveManifest, PutObject, BindName, TruncateMeta,
       WriteMeta, SyncMeta, TruncateLog, SyncLog, FinishPut, FinishRead, DeleteNamedObject,
       FinishDelete, GcMark, GcSweepManifest, GcCompact, PutAcquireOp, GcAcquireOp, PutFails,
       AppendWalFails, GcFails, ReadUnstable, BeginPut, GetFile, RestoreSnapshot, BeginRead,
       RenameFile, PruneFileVersions, RollbackFile, CreateSnapshot, DeleteSnapshot,
       UnbindFile, BeginDelete, BeginGc, SpendEdit
  <2> QED  BY <2>1, <2>2 DEF Spend
<1> QED  BY <1>1 DEF Clean

\* They run while the store is open, and leave it open.
LEMMA ClientStaysUp ==
  ASSUME TypeInv, LocksHeld, NEW p \in Clients, ClientStep(p)
  PROVE  status = "up" /\ status' = "up"
<1>1. CASE pc[p] # "idle"
  <2>1. status' = status
    BY DEF ClientStep, PutStep, OtherStep, AcquireStep, FailStep, CallStep, ReadStable,
     SyncAndResolve, AppendWal, SyncWal, SaveManifest, PutObject, BindName, TruncateMeta,
     WriteMeta, SyncMeta, TruncateLog, SyncLog, FinishPut, FinishRead, DeleteNamedObject,
     FinishDelete, GcMark, GcSweepManifest, GcCompact, PutAcquireOp, GcAcquireOp, PutFails,
     AppendWalFails, GcFails, ReadUnstable, BeginPut, GetFile, RestoreSnapshot, BeginRead,
     RenameFile, PruneFileVersions, RollbackFile, CreateSnapshot, DeleteSnapshot,
     UnbindFile, BeginDelete, BeginGc
  <2> QED  BY <1>1, <2>1, ClientUp
<1>2. CASE pc[p] = "idle"
  <2>1. CallStep(p)
    BY <1>2 DEF ClientStep, PutStep, OtherStep, AcquireStep, FailStep, ReadStable,
     SyncAndResolve, AppendWal, SyncWal, SaveManifest, PutObject, BindName, TruncateMeta,
     WriteMeta, SyncMeta, TruncateLog, SyncLog, FinishPut, FinishRead, DeleteNamedObject,
     FinishDelete, GcMark, GcSweepManifest, GcCompact, PutAcquireOp, GcAcquireOp, PutFails,
     AppendWalFails, GcFails, ReadUnstable, PutSteps
  <2> QED  BY <2>1 DEF CallStep, BeginPut, GetFile, RestoreSnapshot, BeginRead, RenameFile,
     PruneFileVersions, RollbackFile, CreateSnapshot, DeleteSnapshot, UnbindFile,
     BeginDelete, BeginGc, MayEditAlone, MayEditShared, Idle
<1> QED  BY <1>1, <1>2

\* Only a crashed or recovering store has the opener at work.
LEMMA OpenerRecovers ==
  ASSUME LocksHeld, OpenerStep
  PROVE  status # "up"
BY DEF LocksHeld, OpenerStep, OpenWal, ReplayRecord, OpenFails, FinishReplay, FinishOpen,
   SaveManifest, PutObject, BindName, TruncateMeta, WriteMeta, SyncMeta, TruncateLog, SyncLog

LEMMA OpenerQuiet ==
  ASSUME OpenerStep
  PROVE  snapshots' = snapshots /\ spent' = spent
BY DEF OpenerStep, OpenWal, ReplayRecord, OpenFails, FinishReplay, FinishOpen, SaveManifest,
   PutObject, BindName, TruncateMeta, WriteMeta, SyncMeta, TruncateLog, SyncLog, diskVars

LEMMA CrashQuiet ==
  ASSUME Kill \/ PowerLoss
  PROVE  /\ UNCHANGED <<names, objects, snapshots, manifests>>
         /\ spent.crashes < MaxCrashes /\ Spend("crashes")
BY DEF Kill, PowerLoss, diskVars

LEMMA IdleHasNoRecord ==
  ASSUME \A p \in Clients : pc'[p] = "idle"
  PROVE  ClientClaims' /\ PutRecords'
BY NoClientClaims, ClaimPcsFacts, LoggedPcsFacts DEF PutRecords

\* What the first crash finds in the log belongs to the put that it cuts.
LEMMA FirstCrashKeeps ==
  ASSUME TypeInv, LogOfPut, Kill \/ PowerLoss
  PROVE  ~ForgetsCheckpoint
<1>1. walLog' \in {walLog, walLogSynced}
  BY DEF Kill, PowerLoss, walVars
<1>2. ASSUME NEW i \in DOMAIN walLog' PROVE walLog'[i].lsn \in InUse
  <2>1. walLog' # << >>
    BY <1>2
  <2>2. PICK p \in Clients : pc[p] \in LoggedPcs /\ walLog' = <<job[p]>>
    BY <1>1, <2>1 DEF LogOfPut
  <2>3. walLog'[i] = job[p]
    BY <1>2, <2>2
  <2> QED  BY <2>2, <2>3 DEF InUse, Procs
<1> QED  BY <1>2 DEF ForgetsCheckpoint, Settled

LEMMA ExactNext ==
  ASSUME TypeInv, TypeInv', LocksHeld, DataInv, PutLockHeld, OidsGenerated, DeletedGenerated,
         LsnsAgree, Exact, [KeptNext]_vars, spent.faults = 0, spent'.faults = 0
  PROVE  Exact'
<1>1. ASSUME NEW p \in Clients, ClientStep(p) PROVE Exact'
  <2>1. status = "up" /\ status' = "up"
    BY <1>1, ClientStaysUp
  <2>2. Ordered' /\ ClientClaims'
    BY <1>1, OrderClient DEF Exact
  <2>3. LogSettled' /\ PutRecords'
    BY <1>1, <2>1, LogClient DEF Exact
  <2> QED  BY <2>1, <2>2, <2>3 DEF Exact
<1>2. CASE OpenerStep
  <2>1. status # "up"
    BY <1>2, OpenerRecovers
  <2>2. LogSettled' /\ Ordered' /\ (status' # "up" => Recovery')
    BY <1>2, <2>1, KeptOpener DEF Exact
  <2>3. ClientClaims' /\ PutRecords'
    BY <1>2, OpenerMoves, IdleHasNoRecord
  <2> QED  BY <2>2, <2>3 DEF Exact
<1>3. CASE (Kill \/ PowerLoss) /\ ~ForgetsCheckpoint
  <2>1. UNCHANGED <<names, objects, deleted>> /\ LoseMemory
    BY <1>3 DEF Kill, PowerLoss, diskVars, histVars
  <2>2. Ordered'
    BY <2>1, OrderedSame DEF Exact
  <2>3. ClientClaims' /\ PutRecords'
    BY <2>1, IdleHasNoRecord DEF LoseMemory, Procs
  <2>4. LogSettled' /\ Recovery'
    BY <1>3, CrashOfPut, CrashOfRecovery DEF Exact
  <2> QED  BY <2>2, <2>3, <2>4 DEF Exact
<1>4. CASE UNCHANGED vars
  <2>1. /\ UNCHANGED <<names, objects, deleted, pc, job, spent, status, synced>>
        /\ UNCHANGED <<walLog, walLogSynced, meta, metaSynced>>
        /\ UNCHANGED <<currentLsn, checkpointLsn, replayPos>>
    BY <1>4 DEF vars, diskVars, walVars, lsnVars, histVars
  <2>2. Ordered' /\ ClientClaims'
    BY <2>1, OrderedSame, ClaimsSame, ClaimsKept DEF Exact
  <2>3. Written' = Written /\ Pending' = Pending
    BY <2>1 DEF Written, Pending
  <2>4. LogSettled' /\ PutRecords'
    BY <2>1, <2>3 DEF Exact, LogSettled, PutRecords, PutRecord
  <2>5. Recovery => Recovery'
    BY <2>1, <2>3 DEF Recovery, PendingCut, ReplayClaims, RecoveryAt, Replayable, Claimed,
       Unapplied, Applied
  <2> QED  BY <2>1, <2>2, <2>4, <2>5 DEF Exact
<1> QED  BY <1>1, <1>2, <1>3, <1>4 DEF KeptNext, KeepsCheckpoint

\* Crashes and errors are only counted up.
LEMMA SpentGrows ==
  ASSUME TypeInv, TypeInv', [Next]_vars
  PROVE  /\ spent.crashes \in Nat /\ spent'.crashes \in Nat
         /\ spent.crashes <= spent'.crashes
         /\ spent'.faults = 0 => spent.faults = 0
         /\ Kill \/ PowerLoss => spent'.crashes = spent.crashes + 1
<1>1. /\ spent \in [puts : Nat, edits : Nat, crashes : Nat, faults : Nat]
      /\ spent' \in [puts : Nat, edits : Nat, crashes : Nat, faults : Nat]
  BY DEF TypeInv, TypeOK, HistoryTypeOK
<1>2. CASE Kill \/ PowerLoss
  BY <1>1, <1>2, CrashQuiet DEF Spend
<1>3. CASE ~(Kill \/ PowerLoss)
  <2>1. spent'.crashes = spent.crashes /\ (spent'.faults = 0 => spent.faults = 0)
    <3>1. CASE OpenerStep
      BY <3>1, OpenerQuiet
    <3>2. ASSUME NEW p \in Clients, ClientStep(p)
          PROVE  spent'.crashes = spent.crashes /\ (spent'.faults = 0 => spent.faults = 0)
      BY <3>2, ClientSpends
    <3>3. CASE UNCHANGED vars
      BY <3>3 DEF vars
    <3> QED  BY <1>3, <3>1, <3>2, <3>3 DEF Next
  <2> QED  BY <1>1, <1>3, <2>1
<1> QED  BY <1>2, <1>3

LEMMA OrderNext ==
  ASSUME TypeInv, TypeInv', LocksHeld, DataInv, PutLockHeld, OidsGenerated, DeletedGenerated,
         LsnsAgree, OrderInv, [Next]_vars
  PROVE  OrderInv'
<1>1. /\ spent.crashes \in Nat /\ spent'.crashes \in Nat
      /\ spent.crashes <= spent'.crashes
      /\ spent'.faults = 0 => spent.faults = 0
      /\ Kill \/ PowerLoss => spent'.crashes = spent.crashes + 1
  BY SpentGrows
<1>2. spent'.crashes <= 1 /\ spent'.faults = 0 => Exact'
  <2> SUFFICES ASSUME spent'.crashes <= 1, spent'.faults = 0 PROVE Exact'
    OBVIOUS
  <2>1. Exact /\ spent.faults = 0
    BY <1>1 DEF OrderInv
  <2>2. Kill \/ PowerLoss => ~ForgetsCheckpoint
    <3>1. Kill \/ PowerLoss => spent.crashes = 0
      BY <1>1
    <3> QED  BY <2>1, <3>1, FirstCrashKeeps DEF OrderInv
  <2> QED  BY <2>1, <2>2, ExactNext DEF Next, KeptNext, KeepsCheckpoint
<1>3. ASSUME spent'.crashes = 0
      PROVE  (\E p \in Clients : ClientStep(p)) \/ UNCHANGED vars
  <2>1. status = "up"
    BY <1>1, <1>3 DEF OrderInv
  <2> QED  BY <1>1, <1>3, <2>1, OpenerRecovers DEF Next
<1>4. spent'.crashes = 0 => status' = "up"
  BY <1>1, <1>3, ClientStaysUp DEF OrderInv, vars
<1>5. spent'.crashes = 0 /\ spent'.faults = 0 => LogOfPut'
  <2> SUFFICES ASSUME spent'.crashes = 0, spent'.faults = 0 PROVE LogOfPut'
    OBVIOUS
  <2>1. LogOfPut /\ spent.faults = 0
    BY <1>1 DEF OrderInv
  <2>2. CASE UNCHANGED vars
    <3>1. UNCHANGED <<pc, job, walLog, walLogSynced>>
      BY <2>2 DEF vars, walVars
    <3> QED  BY <2>1, <3>1, LogKept DEF OwnersStay
  <2> QED  BY <1>3, <2>1, <2>2, LogOfPutClient
<1>6. Clean' => Ordered' /\ ClientClaims'
  <2>1. CASE spent'.crashes = 0
    <3>1. Ordered /\ ClientClaims
      BY <1>1, <2>1 DEF OrderInv, Clean
    <3>2. CASE UNCHANGED vars
      <4>1. UNCHANGED <<names, objects, deleted, pc, job>>
        BY <3>2 DEF vars, diskVars, histVars
      <4> QED  BY <3>1, <4>1, OrderedSame, ClaimsSame, ClaimsKept
    <3> QED  BY <1>3, <2>1, <3>1, <3>2, OrderClient
  <2>2. CASE spent'.crashes = 1 /\ spent'.faults = 0
    BY <1>2, <2>2 DEF Exact
  <2> QED  BY <2>1, <2>2 DEF Clean
<1> QED  BY <1>2, <1>4, <1>5, <1>6 DEF OrderInv

\* What the invariant says of names, histories and the next open.
LEMMA ExactReplays ==
  ASSUME TypeInv, DataInv, Exact, spent.faults = 0
  PROVE  ReplayIsExact
<1>1. ASSUME status = "down", NEW i \in DOMAIN walLog, walLog[i].lsn > meta
      PROVE  ChunksOf[walLog[i].content] \subseteq stored
  <2>1. Recovery /\ pc[Opener] \notin MetaPcs
    BY <1>1 DEF Exact, Recovery, RecoveryAt, MetaPcs
  <2>2. walLog[i] \in Pending
    BY <1>1, <2>1 DEF Pending, Records
  <2> QED  BY <2>1, <2>2 DEF Recovery, PendingCut, Replayable, DataInv
<1> QED  BY <1>1 DEF Exact, Ordered, ReplayIsExact, OpenSucceeds

HistoryInv ==
  /\ TypeInv /\ LocksHeld /\ DataInv
  /\ PutLockHeld /\ OidsGenerated /\ DeletedGenerated /\ LsnsAgree
  /\ OrderInv

LEMMA HistoryInit == Init => HistoryInv
<1> SUFFICES ASSUME Init PROVE HistoryInv
  OBVIOUS
<1>1. DeletedGenerated /\ \A p \in Clients : pc[p] = "idle"
  BY DEF Init, DeletedGenerated, Procs
<1>2. LsnsAgree /\ ClientClaims
  BY <1>1 DEF LsnsAgree, LoggedPcs, ClientClaims, BeforeObject, CheckpointPcs
<1>3. Ordered
  BY DEF Init, Ordered, NamesResolve, VersionsIncreasing, DeletedStaysDeleted, NoRecord
<1>4. LogOfPut
  BY <1>1 DEF Init, LogOfPut
<1>5. Exact /\ status = "up"
  <2>1. walLog = << >> /\ walLogSynced = << >> /\ meta = 0 /\ metaSynced = 0
        /\ currentLsn = 0 /\ status = "up"
    BY DEF Init
  <2>2. Written = {} /\ Records(walLogSynced) = {}
    BY <2>1, NoRecords DEF Written
  <2>3. LogSettled
    BY <2>1, <2>2 DEF LogSettled
  <2>4. PutRecords
    BY <1>1, LoggedPcsFacts DEF PutRecords
  <2> QED  BY <1>2, <1>3, <2>1, <2>3, <2>4 DEF Exact
<1>6. OrderInv
  BY <1>2, <1>3, <1>4, <1>5 DEF OrderInv
<1> QED  BY <1>1, <1>2, <1>6, TypeInit, LocksInit, DataInit, PutLockInit, OidsInit
       DEF HistoryInv

LEMMA HistoryNext == HistoryInv /\ [Next]_vars => HistoryInv'
<1> SUFFICES ASSUME HistoryInv, [Next]_vars PROVE HistoryInv'
  OBVIOUS
<1> USE DEF HistoryInv
<1>1. TypeInv' /\ LocksHeld' /\ DataInv'
  BY TypeNext, LocksNext, DataNext
<1>2. PutLockHeld' /\ OidsGenerated' /\ DeletedGenerated' /\ LsnsAgree'
  BY PutLockNext, OidsNext, DeletedGeneratedNext, LsnsNext
<1>3. OrderInv'
  BY <1>1, OrderNext
<1> QED  BY <1>1, <1>2, <1>3

LEMMA HistoryInvariance == Spec => []HistoryInv
BY HistoryInit, HistoryNext, PTL DEF Spec

(* Without a crash, or after one crash if no call had failed, a bound name *)
(* leads to its own object: put_file_named never meets "Name points to     *)
(* non-existing Object", and deleting a file takes no other file's         *)
(* history.                                                                *)
THEOREM NamesLeadToObjects == Spec => [](Clean => NamesResolve)
<1>1. HistoryInv => (Clean => NamesResolve)
  BY DEF HistoryInv, OrderInv, Ordered
<1> QED  BY <1>1, HistoryInvariance, PTL

(* In the same behaviours histories are sorted, no version number is given *)
(* twice, and the last entry is the one latest_version names.              *)
THEOREM HistoriesAreSorted == Spec => [](Clean => VersionsIncreasing)
<1>1. HistoryInv => (Clean => VersionsIncreasing)
  BY DEF HistoryInv, OrderInv, Ordered
<1> QED  BY <1>1, HistoryInvariance, PTL

(* One crash at any step of any call, and the recovery after it, leave     *)
(* names and histories in order, bring no deleted file back and find every *)
(* chunk the replay needs, unless a call had failed before.                *)
THEOREM OneCrashIsExact == Spec => [](spent.crashes <= 1 => ReplayIsExact)
<1>1. HistoryInv => (spent.crashes <= 1 => ReplayIsExact)
  BY ExactReplays DEF HistoryInv, OrderInv, ReplayIsExact
<1> QED  BY <1>1, HistoryInvariance, PTL

(* The first crash of an engine in which no call has failed forgets no     *)
(* checkpoint: whatever it leaves in wal.log to be replayed is the put     *)
(* that it cut (Wal::checkpoint).                                          *)
THEOREM FirstCrashForgetsNothing ==
  Spec => [][spent.crashes = 0 /\ spent.faults = 0 /\ (Kill \/ PowerLoss)
               => ~ForgetsCheckpoint]_vars
<1>1. HistoryInv => (spent.crashes = 0 /\ spent.faults = 0 /\ (Kill \/ PowerLoss)
                       => ~ForgetsCheckpoint)
  BY FirstCrashKeeps DEF HistoryInv, OrderInv
<1> QED  BY <1>1, HistoryInvariance, PTL

\* The invariant of the behaviours in which no crash forgets a checkpoint.
KeptInv == HistoryInv /\ (spent.faults = 0 => Exact)

LEMMA KeptIsNext == [KeptNext]_vars => [Next]_vars
BY DEF KeptNext, Next

LEMMA KeptInvariance == KeptSpec => []KeptInv
<1>1. Init => KeptInv
  BY HistoryInit DEF KeptInv, HistoryInv, OrderInv, Init
<1>2. KeptInv /\ [KeptNext]_vars => KeptInv'
  <2> SUFFICES ASSUME KeptInv, [KeptNext]_vars PROVE KeptInv'
    OBVIOUS
  <2>1. HistoryInv /\ HistoryInv' /\ [Next]_vars
    BY HistoryNext, KeptIsNext DEF KeptInv
  <2>2. spent'.faults = 0 => spent.faults = 0
    BY <2>1, SpentGrows DEF HistoryInv
  <2>3. spent'.faults = 0 => Exact'
    BY <2>1, <2>2, ExactNext DEF KeptInv, HistoryInv
  <2> QED  BY <2>1, <2>3 DEF KeptInv
<1> QED  BY <1>1, <1>2, PTL DEF KeptSpec

(* However many crashes interrupt the puts and the recoveries, if no call  *)
(* fails and no crash forgets a checkpoint, names and histories stay in    *)
(* order, no deleted file comes back, and the store that went down has     *)
(* every chunk that its next open needs (Wal::open, open_internal).        *)
THEOREM AnyCrashIsExact == KeptSpec => []ReplayIsExact
<1>1. KeptInv => ReplayIsExact
  BY ExactReplays DEF KeptInv, HistoryInv, ReplayIsExact
<1> QED  BY <1>1, KeptInvariance, PTL

(* In these behaviours an open never returns "WAL manifest references      *)
(* missing durable chunk" (open_internal).                                 *)
THEOREM ReplayNeverFails == KeptSpec => [][spent.faults = 0 => ~OpenFails]_vars
<1>1. KeptInv => (spent.faults = 0 => ~OpenFails)
  <2> SUFFICES ASSUME KeptInv, spent.faults = 0, OpenFails PROVE FALSE
    OBVIOUS
  <2>1. status # "up"
    BY OpenerRecovers DEF KeptInv, HistoryInv, OpenerStep
  <2> QED  BY <2>1, KeptOpenSucceeds DEF KeptInv, HistoryInv, Exact
<1> QED  BY <1>1, KeptInvariance, PTL

-----------------------------------------------------------------------------
(* The engine implements VersionedStore                                    *)

FileIn(N, O, n) == IF N[n] = 0 THEN NoRecord ELSE O[N[n]]

LEMMA FilesSeenFacts ==
  /\ FilesSeen = [n \in Names |-> FileIn(names, objects, n)]
  /\ FilesSeen' = [n \in Names |-> FileIn(names', objects', n)]
BY DEF FilesSeen, FileIn

\* One name is seen to change.
LEMMA OneFileChanges ==
  ASSUME NEW n \in Names, NEW s, FileIn(names', objects', n) = s,
         \A m \in Names \ {n} : FileIn(names', objects', m) = FileIn(names, objects, m)
  PROVE  FilesSeen' = [FilesSeen EXCEPT ![n] = s]
BY FilesSeenFacts

LEMMA FilesStay ==
  ASSUME \A m \in Names : FileIn(names', objects', m) = FileIn(names, objects, m)
  PROVE  FilesSeen' = FilesSeen
BY FilesSeenFacts

\* Whatever has a manifest can be read.
LEMMA BackedIsReadable ==
  ASSUME NEW M, NEW S, ChunksOfAll(M) \subseteq S
  PROVE  {c \in M : ChunksOf[c] \subseteq S} = M
BY ChunksOfAllFacts

LEMMA ReadableIsManifests ==
  ASSUME NoDanglingReferences, NoDanglingReferences'
  PROVE  ContentsReadable = manifests /\ ContentsReadable' = manifests'
<1>1. ChunksOfAll(manifests) \subseteq synced /\ ChunksOfAll(manifests') \subseteq synced'
  BY DEF NoDanglingReferences, ManifestsBacked, ChunksOfAll
<1> QED  BY <1>1, BackedIsReadable DEF ContentsReadable

SnapshotSeen(s) ==
  [label |-> s.label,
   entries |-> {[name |-> e.name, version |-> e.version, content |-> e.content] :
                  e \in s.entries}]

LEMMA SnapshotsSeenFacts ==
  /\ SnapshotsSeen = {SnapshotSeen(s) : s \in snapshots}
  /\ SnapshotsSeen' = {SnapshotSeen(s) : s \in snapshots'}
BY DEF SnapshotsSeen, SnapshotSeen

Seen == Store!StoreNext \/ UNCHANGED Store!storeVars

\* Nothing is seen.
LEMMA SeenNothing ==
  ASSUME NoDanglingReferences, NoDanglingReferences', snapshots' = snapshots,
         manifests' = manifests,
         \A m \in Names : FileIn(names', objects', m) = FileIn(names, objects, m)
  PROVE  Seen
BY FilesStay, ReadableIsManifests, SnapshotsSeenFacts DEF Seen, Store!storeVars

LEMMA SeenAdd ==
  ASSUME NoDanglingReferences, NoDanglingReferences', snapshots' = snapshots,
         manifests' = manifests, NEW n \in Names, NEW c \in manifests,
         LET r == FileIn(names, objects, n) IN
           FileIn(names', objects', n) = PushVersion(r, r.latest + 1, c),
         \A m \in Names \ {n} : FileIn(names', objects', m) = FileIn(names, objects, m)
  PROVE  Seen
<1> DEFINE r == FileIn(names, objects, n)
           s == PushVersion(r, r.latest + 1, c)
<1>1. FilesSeen[n] = r
  BY FilesSeenFacts
<1>2. FilesSeen' = [FilesSeen EXCEPT ![n] = s]
  <2>1. FileIn(names', objects', n) = s
    OBVIOUS
  <2> HIDE DEF s
  <2> QED  BY <2>1, OneFileChanges
<1>3. SnapshotsSeen' = SnapshotsSeen /\ ContentsReadable' = ContentsReadable
      /\ c \in ContentsReadable
  BY ReadableIsManifests, SnapshotsSeenFacts
<1>4. FilesSeen' = [FilesSeen EXCEPT ![n] =
                      [latest |-> FilesSeen[n].latest + 1,
                       versions |-> Append(@.versions, [version |-> FilesSeen[n].latest + 1,
                                                        content |-> c])]]
  BY <1>1, <1>2 DEF PushVersion
<1>5. Store!AddVersion
  BY <1>3, <1>4 DEF Store!AddVersion
<1> QED  BY <1>5 DEF Seen, Store!StoreNext

LEMMA SeenRemove ==
  ASSUME NoDanglingReferences, NoDanglingReferences', snapshots' = snapshots,
         manifests' = manifests, NEW n \in Names, FileIn(names, objects, n).latest > 0,
         FileIn(names', objects', n) = NoRecord,
         \A m \in Names \ {n} : FileIn(names', objects', m) = FileIn(names, objects, m)
  PROVE  Seen
<1>1. FilesSeen[n] = FileIn(names, objects, n)
  BY FilesSeenFacts
<1>2. FilesSeen' = [FilesSeen EXCEPT ![n] = NoRecord]
  BY OneFileChanges
<1>3. SnapshotsSeen' = SnapshotsSeen /\ ContentsReadable' = ContentsReadable
  BY ReadableIsManifests, SnapshotsSeenFacts
<1> QED  BY <1>1, <1>2, <1>3
       DEF Seen, Store!StoreNext, Store!RemoveFile, Store!IsFile, Store!NoFile, NoRecord

LEMMA SeenRename ==
  ASSUME NoDanglingReferences, NoDanglingReferences', snapshots' = snapshots,
         manifests' = manifests, NEW old \in Names, NEW new \in Names, old # new,
         FileIn(names, objects, old).latest > 0,
         FileIn(names', objects', old) = NoRecord,
         FileIn(names', objects', new) = FileIn(names, objects, old),
         \A m \in Names \ {old, new} : FileIn(names', objects', m) = FileIn(names, objects, m)
  PROVE  Seen
<1>1. FilesSeen[old] = FileIn(names, objects, old)
  BY FilesSeenFacts
<1>2. FilesSeen' = [FilesSeen EXCEPT ![new] = FilesSeen[old], ![old] = NoRecord]
  BY <1>1, FilesSeenFacts
<1>3. SnapshotsSeen' = SnapshotsSeen /\ ContentsReadable' = ContentsReadable
  BY ReadableIsManifests, SnapshotsSeenFacts
<1> QED  BY <1>1, <1>2, <1>3
       DEF Seen, Store!StoreNext, Store!Rename, Store!IsFile, Store!NoFile, NoRecord

LEMMA SeenPrune ==
  ASSUME NoDanglingReferences, NoDanglingReferences', snapshots' = snapshots,
         manifests' = manifests, NEW n \in Names, NEW k \in Nat,
         FileIn(names, objects, n) \in ObjectRecord,
         k < Len(FileIn(names, objects, n).versions),
         FileIn(names', objects', n) = Pruned(FileIn(names, objects, n), k),
         \A m \in Names \ {n} : FileIn(names', objects', m) = FileIn(names, objects, m)
  PROVE  Seen
<1> DEFINE r == FileIn(names, objects, n)
           vs == r.versions
           d == Len(vs) - k
<1>1. FilesSeen[n] = r
  BY FilesSeenFacts
<1>2. FilesSeen' = [FilesSeen EXCEPT ![n] = Pruned(r, k)]
  BY OneFileChanges
<1>3. SnapshotsSeen' = SnapshotsSeen /\ ContentsReadable' = ContentsReadable
  BY ReadableIsManifests, SnapshotsSeenFacts
<1>4. vs \in Seq(VersionEntry) /\ Len(vs) \in Nat
  BY DEF ObjectRecord
<1>5. d \in 1..Len(vs)
  <2>1. k < Len(vs)
    OBVIOUS
  <2> HIDE DEF vs
  <2> QED  BY <1>4, <2>1
<1>6. FilesSeen' = [FilesSeen EXCEPT ![n].versions = SubSeq(FilesSeen[n].versions, d + 1,
                                                             Len(FilesSeen[n].versions))]
  BY <1>1, <1>2 DEF Pruned
<1>7. d \in 1..Len(FilesSeen[n].versions)
  BY <1>1, <1>5
<1>8. Store!Prune
  <2> HIDE DEF d, vs, r
  <2> QED  BY <1>3, <1>6, <1>7 DEF Store!Prune
<1> QED  BY <1>8 DEF Seen, Store!StoreNext

LEMMA SeenStore ==
  ASSUME NoDanglingReferences, NoDanglingReferences', snapshots' = snapshots,
         UNCHANGED <<names, objects>>, NEW c \in Contents, manifests' = manifests \cup {c}
  PROVE  Seen
<1>1. FilesSeen' = FilesSeen
  BY FilesStay
<1>2. SnapshotsSeen' = SnapshotsSeen /\ ContentsReadable' = ContentsReadable \cup {c}
  BY ReadableIsManifests, SnapshotsSeenFacts
<1> QED  BY <1>1, <1>2 DEF Seen, Store!StoreNext, Store!StoreContent

(* A collection takes away only what nothing refers to.                    *)
LEMMA SeenReclaim ==
  ASSUME TypeInv, NoDanglingReferences, NoDanglingReferences', snapshots' = snapshots,
         UNCHANGED <<names, objects>>, NEW c \in manifests \ Marked,
         manifests' = manifests \ {c}
  PROVE  Seen
<1>1. FilesSeen' = FilesSeen
  BY FilesStay
<1>2. SnapshotsSeen' = SnapshotsSeen /\ ContentsReadable' = ContentsReadable \ {c}
      /\ c \in ContentsReadable
  BY ReadableIsManifests, SnapshotsSeenFacts
<1>3. ASSUME NEW n \in Names, NEW i \in DOMAIN FilesSeen[n].versions
      PROVE  FilesSeen[n].versions[i].content # c
  <2>1. FilesSeen[n] = FileIn(names, objects, n)
    BY FilesSeenFacts
  <2>2. names[n] # 0
    <3> SUFFICES ASSUME names[n] = 0 PROVE FALSE
      OBVIOUS
    <3>1. FilesSeen[n] = NoRecord
      BY <2>1 DEF FileIn
    <3> QED  BY <1>3, <3>1 DEF NoRecord
  <2>3. FilesSeen[n] = objects[names[n]]
    BY <2>1, <2>2 DEF FileIn
  <2>4. names[n] \in ObjectIds
    BY <2>2, BoundAssumption DEF TypeInv, TypeOK, StoreTypeOK, ObjectIds
  <2>5. FilesSeen[n].versions[i].content \in ContentsOf(objects[names[n]])
    BY <1>3, <2>3 DEF ContentsOf
  <2> QED  BY <2>4, <2>5, MarkedMember DEF Marked
<1>4. ASSUME NEW t \in SnapshotsSeen, NEW e \in t.entries
      PROVE  e.content # c
  <2>1. PICK s \in snapshots : t = SnapshotSeen(s)
    BY <1>4, SnapshotsSeenFacts
  <2>2. PICK x \in s.entries : e.content = x.content
    BY <1>4, <2>1 DEF SnapshotSeen
  <2> QED  BY <2>1, <2>2, MarkedMember DEF Marked
<1>5. c \notin Store!Referenced
  <2> DEFINE A == {{FilesSeen[n].versions[i].content : i \in DOMAIN FilesSeen[n].versions} :
                     n \in Names}
             B == {{e.content : e \in t.entries} : t \in SnapshotsSeen}
  <2>1. c \notin UNION A
    BY <1>3
  <2>2. c \notin UNION B
    BY <1>4
  <2>3. Store!Referenced = (UNION A) \cup (UNION B)
    BY DEF Store!Referenced
  <2> HIDE DEF A, B
  <2> QED  BY <2>1, <2>2, <2>3
<1> QED  BY <1>1, <1>2, <1>5 DEF Seen, Store!StoreNext, Store!Reclaim

\* Two snapshots have different labels, so each is seen as one of its own.
UniqueLabels == \A s, t \in snapshots : s.label = t.label => s = t

LEMMA SeenDrop ==
  ASSUME UniqueLabels, NoDanglingReferences, NoDanglingReferences',
         UNCHANGED <<names, objects, manifests>>, NEW s \in snapshots,
         snapshots' = snapshots \ {s}
  PROVE  Seen
<1>1. FilesSeen' = FilesSeen /\ ContentsReadable' = ContentsReadable
  BY FilesStay, ReadableIsManifests
<1>2. SnapshotSeen(s) \in SnapshotsSeen
  BY SnapshotsSeenFacts
<1>3. \A t \in snapshots : SnapshotSeen(t) = SnapshotSeen(s) => t = s
  <2>1. \A t \in snapshots : SnapshotSeen(t).label = t.label
    BY DEF SnapshotSeen
  <2> QED  BY <2>1 DEF UniqueLabels
<1>4. SnapshotsSeen' = SnapshotsSeen \ {SnapshotSeen(s)}
  BY <1>3, SnapshotsSeenFacts
<1> QED  BY <1>1, <1>2, <1>4 DEF Seen, Store!StoreNext, Store!DropSnapshot

\* A snapshot shows what the names lead to at that moment.
LEMMA SeenTake ==
  ASSUME TypeInv, NoDanglingReferences, NoDanglingReferences', NEW p \in Clients, CreateSnapshot(p)
  PROVE  Seen
<1> DEFINE Last(n)  == objects[names[n]].versions[Len(objects[names[n]].versions)]
           Taken(n) == names[n] # 0 /\ objects[names[n]].versions # << >>
           T == {m \in Names : Taken(m)}
           E == {[name |-> n, oid |-> names[n], version |-> Last(n).version,
                  content |-> Last(n).content] : n \in T}
           F(n) == FilesSeen[n].versions[Len(FilesSeen[n].versions)]
           U == {m \in Names : FilesSeen[m].versions # << >>}
           G == {[name |-> n, version |-> F(n).version, content |-> F(n).content] : n \in U}
<1>1. PICK l \in Labels : /\ \A s \in snapshots : s.label # l
                          /\ snapshots' = snapshots \cup {[label |-> l, entries |-> E]}
  BY DEF CreateSnapshot
<1>2. UNCHANGED <<names, objects, manifests>>
  BY DEF CreateSnapshot
<1>3. FilesSeen' = FilesSeen /\ ContentsReadable' = ContentsReadable
  BY <1>2, FilesStay, ReadableIsManifests
<1>4. \A n \in Names : (n \in U <=> n \in T) /\ (n \in T => F(n) = Last(n))
  <2> TAKE n \in Names
  <2>1. FilesSeen[n] = FileIn(names, objects, n)
    BY FilesSeenFacts
  <2>2. names[n] = 0 => FilesSeen[n].versions = << >>
    BY <2>1 DEF FileIn, NoRecord
  <2>3. names[n] # 0 => FilesSeen[n] = objects[names[n]]
    BY <2>1 DEF FileIn
  <2> QED  BY <2>2, <2>3
<1>5. U = T
  <2> HIDE DEF Taken
  <2> QED  BY <1>4
<1>6. SnapshotSeen([label |-> l, entries |-> E]) = [label |-> l, entries |-> G]
  <2>1. {[name |-> e.name, version |-> e.version, content |-> e.content] : e \in E} = G
    <3> DEFINE X(n) == [name |-> n, oid |-> names[n], version |-> Last(n).version,
                        content |-> Last(n).content]
               Y(e) == [name |-> e.name, version |-> e.version, content |-> e.content]
               Z(n) == [name |-> n, version |-> F(n).version, content |-> F(n).content]
    <3>1. \A n \in T : F(n) = Last(n)
      BY <1>4
    <3>2. \A n \in T : Y(X(n)) = Z(n)
      <4> HIDE DEF T, F, Last
      <4> QED  BY <3>1
    <3>3. {Y(e) : e \in {X(n) : n \in T}} = {Z(n) : n \in U}
      <4> HIDE DEF X, Y, Z, T, U
      <4> QED  BY <1>5, <3>2
    <3> QED  BY <3>3
  <2> HIDE DEF E, G
  <2> QED  BY <2>1 DEF SnapshotSeen
<1>7. SnapshotsSeen' = SnapshotsSeen \cup {[label |-> l, entries |-> G]}
  <2> HIDE DEF E, G
  <2> QED  BY <1>1, <1>6, SnapshotsSeenFacts
<1>8. \A t \in SnapshotsSeen : t.label # l
  <2>1. \A s \in snapshots : SnapshotSeen(s).label = s.label
    BY DEF SnapshotSeen
  <2> QED  BY <1>1, <2>1, SnapshotsSeenFacts
<1>9. Store!TakeSnapshot
  BY <1>3, <1>7, <1>8 DEF Store!TakeSnapshot
<1> QED  BY <1>9 DEF Seen, Store!StoreNext
LEMMA SeenApply ==
  ASSUME TypeInv, Ordered, NoDanglingReferences, NoDanglingReferences',
         NEW r \in WalRecord, Claimed(r), Unapplied(r), r.content \in manifests,
         objects' = [objects EXCEPT ![r.oid] = PushVersion(@, r.version, r.content)],
         UNCHANGED <<names, snapshots, manifests>>
  PROVE  Seen
<1>1. /\ objects \in [ObjectIds -> ObjectRecord] /\ r.oid \in ObjectIds /\ r.oid # 0
      /\ r.name \in Names
      /\ \A n \in Names : names[n] # 0 => names[n] \in ObjectIds
  BY BoundAssumption DEF TypeInv, TypeOK, StoreTypeOK, WalRecord, ObjectIds
<1>2. /\ objects'[r.oid] = PushVersion(objects[r.oid], r.version, r.content)
      /\ \A x \in ObjectIds \ {r.oid} : objects'[x] = objects[x]
  BY <1>1
<1>3. CASE names[r.name] = r.oid
  <2>1. \A m \in Names \ {r.name} : names[m] # r.oid
    BY <1>1, <1>3 DEF Ordered, NamesResolve
  <2>2. \A m \in Names \ {r.name} : FileIn(names', objects', m) = FileIn(names, objects, m)
    BY <1>1, <1>2, <2>1 DEF FileIn
  <2>3. FileIn(names, objects, r.name) = objects[r.oid]
        /\ FileIn(names', objects', r.name) = objects'[r.oid]
    BY <1>1, <1>3 DEF FileIn
  <2>4. LET f == FileIn(names, objects, r.name) IN
          FileIn(names', objects', r.name) = PushVersion(f, f.latest + 1, r.content)
    BY <1>2, <2>3 DEF Unapplied
  <2> QED  BY <1>1, <2>2, <2>4, SeenAdd
<1>4. CASE names[r.name] # r.oid
  <2>1. \A m \in Names : names[m] # r.oid
    BY <1>4 DEF Claimed
  <2>2. \A m \in Names : FileIn(names', objects', m) = FileIn(names, objects, m)
    BY <1>1, <1>2, <2>1 DEF FileIn
  <2> QED  BY <2>2, SeenNothing
<1> QED  BY <1>3, <1>4

LEMMA SeenBind ==
  ASSUME TypeInv, NoDanglingReferences, NoDanglingReferences',
         NEW r \in WalRecord, Claimed(r), Applied(r),
         names' = [names EXCEPT ![r.name] = r.oid],
         UNCHANGED <<objects, snapshots, manifests>>
  PROVE  Seen
<1>1. /\ names \in [Names -> 0..MaxObjects] /\ r.oid \in ObjectIds /\ r.oid # 0
      /\ r.name \in Names
  BY BoundAssumption DEF TypeInv, TypeOK, StoreTypeOK, WalRecord, ObjectIds
<1>2. /\ names'[r.name] = r.oid /\ \A m \in Names \ {r.name} : names'[m] = names[m]
  BY <1>1
<1>3. \A m \in Names \ {r.name} : FileIn(names', objects', m) = FileIn(names, objects, m)
  BY <1>2 DEF FileIn
<1>4. CASE names[r.name] = r.oid
  <2>1. \A m \in Names : FileIn(names', objects', m) = FileIn(names, objects, m)
    BY <1>2, <1>3, <1>4 DEF FileIn
  <2> QED  BY <2>1, SeenNothing
<1>5. CASE names[r.name] # r.oid
  <2>1. names[r.name] = 0 /\ r.version = 1
        /\ objects[r.oid] \in {NoRecord, PushVersion(NoRecord, 1, r.content)}
    BY <1>5 DEF Claimed
  <2>2. objects[r.oid] # NoRecord
    <3>1. objects[r.oid].latest = 1
      BY <2>1 DEF Applied
    <3>2. NoRecord.latest = 0
      BY DEF NoRecord
    <3> QED  BY <3>1, <3>2
  <2>3. FileIn(names, objects, r.name) = NoRecord
        /\ FileIn(names', objects', r.name) = PushVersion(NoRecord, 1, r.content)
    BY <1>1, <1>2, <2>1, <2>2 DEF FileIn
  <2>4. NoRecord.latest + 1 = 1
    BY DEF NoRecord
  <2>5. r.content \in manifests
    <3>1. r.content \in ContentsOf(objects[r.oid])
      BY DEF Applied, HasEntry, ContentsOf
    <3> QED  BY <1>1, <3>1, MarkedMember DEF NoDanglingReferences, ReferencesResolve, Marked
  <2>6. LET f == FileIn(names, objects, r.name) IN
          FileIn(names', objects', r.name) = PushVersion(f, f.latest + 1, r.content)
    BY <2>3, <2>4
  <2> QED  BY <1>1, <1>3, <2>5, <2>6, SeenAdd
<1> QED  BY <1>4, <1>5

LEMMA SeenNames ==
  ASSUME TypeInv, Ordered, NoDanglingReferences, NoDanglingReferences', NEW p \in Clients,
         RenameFile(p) \/ UnbindFile(p)
  PROVE  Seen
<1>1. names \in [Names -> 0..MaxObjects]
      /\ UNCHANGED <<objects, snapshots, manifests>>
  BY DEF TypeInv, TypeOK, StoreTypeOK, RenameFile, UnbindFile
<1>2. \A n \in Names : names[n] # 0 => FileIn(names, objects, n).latest > 0
  BY DEF Ordered, NamesResolve, Exists, FileIn
<1>3. CASE UnbindFile(p)
  <2>1. PICK n \in Names : names[n] # 0 /\ names' = [names EXCEPT ![n] = 0]
    BY <1>3 DEF UnbindFile
  <2>2. names'[n] = 0 /\ \A m \in Names \ {n} : names'[m] = names[m]
    BY <1>1, <2>1
  <2>3. FileIn(names', objects', n) = NoRecord
        /\ \A m \in Names \ {n} : FileIn(names', objects', m) = FileIn(names, objects, m)
    BY <1>1, <2>2 DEF FileIn
  <2>4. FileIn(names, objects, n).latest > 0
    BY <1>2, <2>1
  <2> QED  BY <1>1, <2>3, <2>4, SeenRemove
<1>4. CASE RenameFile(p)
  <2>1. PICK old \in Names, new \in Names : old # new /\ names[old] # 0 /\ names' = Rebind(old, new)
    BY <1>4 DEF RenameFile
  <2>2. /\ names'[old] = 0 /\ names'[new] = names[old]
        /\ \A n \in Names \ {old, new} : names'[n] = names[n]
    BY <1>1, <2>1 DEF Rebind
  <2>3. /\ FileIn(names', objects', old) = NoRecord
        /\ FileIn(names', objects', new) = FileIn(names, objects, old)
        /\ \A m \in Names \ {old, new} : FileIn(names', objects', m) = FileIn(names, objects, m)
    BY <1>1, <2>2 DEF FileIn
  <2>4. FileIn(names, objects, old).latest > 0
    BY <1>2, <2>1
  <2> QED  BY <1>1, <2>1, <2>3, <2>4, SeenRename
<1> QED  BY <1>3, <1>4

LEMMA SeenHistory ==
  ASSUME TypeInv, Ordered, NoDanglingReferences, NoDanglingReferences', NEW p \in Clients,
         PruneFileVersions(p) \/ RollbackFile(p)
  PROVE  Seen
<1>1. /\ objects \in [ObjectIds -> ObjectRecord] /\ names \in [Names -> 0..MaxObjects]
      /\ UNCHANGED <<names, snapshots, manifests>>
      /\ \A n \in Names : names[n] # 0 => names[n] \in ObjectIds
  <2>1. UNCHANGED <<names, snapshots, manifests>>
    BY DEF PruneFileVersions, RollbackFile
  <2> QED  BY <2>1, BoundAssumption DEF TypeInv, TypeOK, StoreTypeOK, ObjectIds
<1>2. ASSUME NEW n \in Names, names[n] # 0, NEW s, objects' = [objects EXCEPT ![names[n]] = s]
      PROVE  /\ FileIn(names, objects, n) = objects[names[n]]
             /\ FileIn(names', objects', n) = s
             /\ \A m \in Names \ {n} : FileIn(names', objects', m) = FileIn(names, objects, m)
  <2>1. /\ objects'[names[n]] = s
        /\ \A x \in ObjectIds \ {names[n]} : objects'[x] = objects[x]
    BY <1>1, <1>2
  <2>2. \A m \in Names \ {n} : names[m] # names[n]
    BY <1>2 DEF Ordered, NamesResolve
  <2> QED  BY <1>1, <1>2, <2>1, <2>2 DEF FileIn
<1>3. CASE PruneFileVersions(p)
  <2>1. PICK n \in Names, k \in 0..MaxKeep :
          /\ names[n] # 0 /\ Len(objects[names[n]].versions) > k
          /\ objects' = [objects EXCEPT ![names[n]] = Pruned(objects[names[n]], k)]
    BY <1>3 DEF PruneFileVersions, Pruned
  <2>2. /\ FileIn(names, objects, n) = objects[names[n]]
        /\ FileIn(names', objects', n) = Pruned(objects[names[n]], k)
        /\ \A m \in Names \ {n} : FileIn(names', objects', m) = FileIn(names, objects, m)
    BY <1>2, <2>1
  <2>3. objects[names[n]] \in ObjectRecord /\ k \in Nat
    BY <1>1, <2>1, BoundAssumption
  <2>4. k < Len(objects[names[n]].versions)
    <3>1. objects[names[n]].versions \in Seq(VersionEntry)
      BY <2>3 DEF ObjectRecord
    <3> QED  BY <2>1, <2>3, <3>1
  <2> QED  BY <1>1, <2>2, <2>3, <2>4, SeenPrune
<1>4. CASE RollbackFile(p)
  <2>1. PICK n \in Names :
          /\ names[n] # 0
          /\ \E i \in DOMAIN objects[names[n]].versions, v \in Versions :
               /\ objects[names[n]].versions[i].content \in manifests
               /\ IsNextVersion(objects[names[n]], v)
               /\ objects' = [objects EXCEPT ![names[n]] =
                                PushVersion(@, v, objects[names[n]].versions[i].content)]
    BY <1>4 DEF RollbackFile
  <2>2. PICK v \in Versions, c \in manifests :
          /\ IsNextVersion(objects[names[n]], v)
          /\ objects' = [objects EXCEPT ![names[n]] = PushVersion(@, v, c)]
    BY <2>1
  <2>3. objects[names[n]] \in ObjectRecord /\ InOrder(objects[names[n]])
    BY <1>1, <2>1, OrderedFacts DEF Ordered
  <2>4. v = objects[names[n]].latest + 1
    BY <2>2, <2>3, NextIsLatest
  <2>5. /\ FileIn(names, objects, n) = objects[names[n]]
        /\ FileIn(names', objects', n) = PushVersion(objects[names[n]], v, c)
        /\ \A m \in Names \ {n} : FileIn(names', objects', m) = FileIn(names, objects, m)
    BY <1>2, <2>1, <2>2
  <2>6. LET f == FileIn(names, objects, n) IN
          FileIn(names', objects', n) = PushVersion(f, f.latest + 1, c)
    BY <2>4, <2>5
  <2> QED  BY <1>1, <2>5, <2>6, SeenAdd
<1> QED  BY <1>3, <1>4

LEMMA SeenDelete ==
  ASSUME TypeInv, Ordered, NoDanglingReferences, NoDanglingReferences', NEW p \in Clients,
         DeleteNamedObject(p)
  PROVE  Seen
<1>1. /\ objects \in [ObjectIds -> ObjectRecord] /\ names \in [Names -> 0..MaxObjects]
      /\ unlinking \subseteq Names /\ UNCHANGED <<snapshots, manifests>>
      /\ \A n \in Names : names[n] # 0 => names[n] \in ObjectIds
  BY BoundAssumption DEF TypeInv, TypeOK, StoreTypeOK, CallTypeOK, DeleteNamedObject, ObjectIds
<1>2. PICK n \in Names :
        /\ names' = [names EXCEPT ![n] = 0]
        /\ IF names[n] = 0 THEN UNCHANGED objects
           ELSE objects' = [objects EXCEPT ![names[n]] = NoRecord]
  BY <1>1 DEF DeleteNamedObject
<1>3. names'[n] = 0 /\ \A m \in Names \ {n} : names'[m] = names[m]
  BY <1>1, <1>2
<1>4. CASE names[n] = 0
  <2>1. \A m \in Names : FileIn(names', objects', m) = FileIn(names, objects, m)
    BY <1>2, <1>3, <1>4 DEF FileIn
  <2> QED  BY <1>1, <2>1, SeenNothing
<1>5. CASE names[n] # 0
  <2>1. \A x \in ObjectIds \ {names[n]} : objects'[x] = objects[x]
    BY <1>1, <1>2, <1>5
  <2>2. \A m \in Names \ {n} : names[m] # names[n]
    BY <1>5 DEF Ordered, NamesResolve
  <2>3. /\ FileIn(names', objects', n) = NoRecord
        /\ \A m \in Names \ {n} : FileIn(names', objects', m) = FileIn(names, objects, m)
    BY <1>1, <1>3, <2>1, <2>2 DEF FileIn
  <2>4. FileIn(names, objects, n).latest > 0
    BY <1>5 DEF Ordered, NamesResolve, Exists, FileIn
  <2> QED  BY <1>1, <2>3, <2>4, SeenRemove
<1> QED  BY <1>4, <1>5

\* What a client does that is neither an edit nor a change of the manifests or
\* the snapshots.
LEMMA SeenClient ==
  ASSUME TypeInv, LocksHeld, DataInv, DataInv', UniqueLabels, Ordered, ClientClaims,
         NEW p \in Clients, ClientStep(p)
  PROVE  Seen
<1> USE DEF DataInv
<1>1. CASE PutObject(p)
  <2>1. PICK r : r = job[p]
    OBVIOUS
  <2>2. /\ pc[p] = "object" /\ pc[p] \in BeforeObject
        /\ objects \in [ObjectIds -> ObjectRecord]
    BY <1>1 DEF PutObject, BeforeObject, TypeInv, TypeOK, StoreTypeOK
  <2>3. r \in WalRecord /\ Claimed(r) /\ Unapplied(r) /\ r.content \in manifests
    BY <2>1, <2>2 DEF TypeInv, JobsResolved, SyncedPcs, Procs, ClientClaims, JobsBacked
  <2>4. ~HasVersion(objects[r.oid], r.version)
    <3>1. r.oid \in ObjectIds /\ objects[r.oid].latest \in Nat
      BY <2>2, <2>3, BoundAssumption DEF WalRecord, ObjectRecord
    <3> QED  BY <2>2, <2>3, <3>1, LatestIsLast, OrderedFacts DEF Ordered, Unapplied
  <2>5. /\ objects' = [objects EXCEPT ![r.oid] = PushVersion(@, r.version, r.content)]
        /\ UNCHANGED <<names, snapshots, manifests>>
    BY <1>1, <2>1, <2>4 DEF PutObject
  <2> QED  BY <2>3, <2>5, SeenApply
<1>2. CASE BindName(p)
  <2>1. PICK r : r = job[p]
    OBVIOUS
  <2>2. pc[p] = "bind"
    BY <1>2 DEF BindName
  <2>3. r \in WalRecord /\ Claimed(r) /\ Applied(r)
    BY <2>1, <2>2 DEF TypeInv, JobsResolved, SyncedPcs, Procs, ClientClaims
  <2>4. /\ names' = [names EXCEPT ![r.name] = r.oid]
        /\ UNCHANGED <<objects, snapshots, manifests>>
    BY <1>2, <2>1 DEF BindName
  <2> QED  BY <2>3, <2>4, SeenBind
<1>3. CASE SaveManifest(p)
  <2>1. job[p].content \in Contents
    BY DEF TypeInv, TypeOK, CallTypeOK, WalPut, Procs
  <2> QED  BY <1>3, <2>1, SeenStore DEF SaveManifest
<1>4. CASE GcSweepManifest(p)
  <2>1. gcLive = Marked
    BY <1>4 DEF GcSweepManifest, MarkIsExact
  <2>2. PICK c \in manifests \ Marked : manifests' = manifests \ {c}
    BY <1>4, <2>1 DEF GcSweepManifest
  <2>3. UNCHANGED <<names, objects, snapshots>>
    BY <1>4 DEF GcSweepManifest
  <2> QED  BY <2>2, <2>3, SeenReclaim
<1>5. CASE CreateSnapshot(p)
  BY <1>5, SeenTake
<1>6. CASE DeleteSnapshot(p)
  <2>1. PICK s \in snapshots : snapshots' = snapshots \ {s}
    BY <1>6 DEF DeleteSnapshot
  <2>2. UNCHANGED <<names, objects, manifests>>
    BY <1>6 DEF DeleteSnapshot
  <2> QED  BY <2>1, <2>2, SeenDrop
<1>7. CASE RenameFile(p) \/ UnbindFile(p)
  BY <1>7, SeenNames
<1>8. CASE PruneFileVersions(p) \/ RollbackFile(p)
  BY <1>8, SeenHistory
<1>9. CASE DeleteNamedObject(p)
  BY <1>9, SeenDelete
<1>10. CASE \/ ReadStable(p) \/ SyncAndResolve(p) \/ AppendWal(p) \/ SyncWal(p)
            \/ TruncateMeta(p) \/ WriteMeta(p) \/ SyncMeta(p) \/ TruncateLog(p) \/ SyncLog(p)
            \/ FinishPut(p) \/ FinishRead(p) \/ FinishDelete(p) \/ GcMark(p) \/ GcCompact(p)
            \/ AcquireStep(p) \/ FailStep(p) \/ BeginPut(p) \/ GetFile(p)
            \/ RestoreSnapshot(p) \/ BeginDelete(p) \/ BeginGc(p)
  <2>1. UNCHANGED <<names, objects, snapshots, manifests>>
    BY <1>10 DEF ReadStable, SyncAndResolve, AppendWal, SyncWal, TruncateMeta, WriteMeta,
       SyncMeta, TruncateLog, SyncLog, FinishPut, FinishRead, FinishDelete, GcMark, GcCompact,
       AcquireStep, FailStep, PutAcquireOp, GcAcquireOp, PutFails, AppendWalFails, GcFails,
       ReadUnstable, BeginPut, GetFile, RestoreSnapshot, BeginRead, BeginDelete, BeginGc,
       diskVars
  <2> QED  BY <2>1, SeenNothing
<1> HIDE DEF DataInv
<1> QED  BY <1>1, <1>2, <1>3, <1>4, <1>5, <1>6, <1>7, <1>8, <1>9, <1>10
       DEF ClientStep, PutStep, OtherStep, CallStep

LEMMA SeenOpener ==
  ASSUME TypeInv, LocksHeld, DataInv, DataInv', Ordered, Recovery, OpenerStep
  PROVE  Seen
<1>1. PICK r : r = job[Opener]
  OBVIOUS
<1>2. NoDanglingReferences /\ NoDanglingReferences'
  BY DEF DataInv
<1>3. CASE PutObject(Opener)
  <2>1. /\ pc[Opener] = "object" /\ UNCHANGED <<names, snapshots, manifests>>
        /\ objects \in [ObjectIds -> ObjectRecord]
    BY <1>3 DEF PutObject, TypeInv, TypeOK, StoreTypeOK
  <2>2. r.content \in manifests
    BY <1>1, <2>1 DEF DataInv, JobsBacked, Procs
  <2>3. r \in WalRecord /\ Replayable(r)
    BY <1>1, <2>1, ReplayedRecord DEF RecoverPcs
  <2>4. CASE HasVersion(objects[r.oid], r.version)
    <3>1. objects' = objects
      BY <1>1, <1>3, <2>4 DEF PutObject
    <3> QED  BY <1>2, <2>1, <3>1, SeenNothing
  <2>5. CASE ~HasVersion(objects[r.oid], r.version)
    <3>1. objects' = [objects EXCEPT ![r.oid] = PushVersion(@, r.version, r.content)]
      BY <1>1, <1>3, <2>5 DEF PutObject
    <3>2. ~Applied(r)
      BY <2>5, EntryIsVersion DEF Applied
    <3>3. Claimed(r) /\ Unapplied(r)
      BY <2>3, <3>2 DEF Replayable
    <3> QED  BY <1>2, <2>1, <2>2, <2>3, <3>1, <3>3, SeenApply
  <2> QED  BY <2>4, <2>5
<1>4. CASE BindName(Opener)
  <2>1. /\ pc[Opener] = "bind" /\ UNCHANGED <<objects, snapshots, manifests>>
        /\ names' = [names EXCEPT ![r.name] = r.oid]
    BY <1>1, <1>4 DEF BindName
  <2>2. r \in WalRecord /\ Applied(r) /\ Claimed(r)
    BY <1>1, <2>1, ReplayedRecord DEF RecoverPcs, Replayable
  <2> QED  BY <1>2, <2>1, <2>2, SeenBind
<1>5. CASE SaveManifest(Opener)
  <2>1. job[Opener].content \in Contents
    BY DEF TypeInv, TypeOK, CallTypeOK, WalPut, Procs
  <2> QED  BY <1>2, <1>5, <2>1, SeenStore DEF SaveManifest
<1>6. CASE \/ OpenWal \/ ReplayRecord \/ OpenFails \/ FinishReplay \/ FinishOpen
           \/ TruncateMeta(Opener) \/ WriteMeta(Opener) \/ SyncMeta(Opener)
           \/ TruncateLog(Opener) \/ SyncLog(Opener)
  <2>1. UNCHANGED <<names, objects, snapshots, manifests>>
    BY <1>6 DEF OpenWal, ReplayRecord, OpenFails, FinishReplay, FinishOpen, TruncateMeta,
       WriteMeta, SyncMeta, TruncateLog, SyncLog, diskVars
  <2> QED  BY <1>2, <2>1, SeenNothing
<1> QED  BY <1>3, <1>4, <1>5, <1>6 DEF OpenerStep

\* What the refinement needs beside HistoryInv.
SeenInv == HistoryInv /\ UniqueLabels /\ spent.crashes <= MaxCrashes

LEMMA SnapshotsStay ==
  ASSUME NEW p \in Clients, ClientStep(p), ~CreateSnapshot(p), ~DeleteSnapshot(p)
  PROVE  snapshots' = snapshots
BY DEF ClientStep, PutStep, OtherStep, AcquireStep, FailStep, CallStep, ReadStable,
   SyncAndResolve, AppendWal, SyncWal, SaveManifest, PutObject, BindName, TruncateMeta,
   WriteMeta, SyncMeta, TruncateLog, SyncLog, FinishPut, FinishRead, DeleteNamedObject,
   FinishDelete, GcMark, GcSweepManifest, GcCompact, PutAcquireOp, GcAcquireOp, PutFails,
   AppendWalFails, GcFails, ReadUnstable, BeginPut, GetFile, RestoreSnapshot, BeginRead,
   RenameFile, PruneFileVersions, RollbackFile, UnbindFile, BeginDelete, BeginGc, diskVars

LEMMA SeenInvNext == SeenInv /\ [Next]_vars => SeenInv'
<1> SUFFICES ASSUME SeenInv, [Next]_vars PROVE SeenInv'
  OBVIOUS
<1>1. HistoryInv /\ HistoryInv'
  BY HistoryNext DEF SeenInv
<1>2. /\ TypeInv /\ MaxCrashes \in Nat
      /\ spent \in [puts : Nat, edits : Nat, crashes : Nat, faults : Nat]
  BY <1>1, BoundAssumption DEF HistoryInv, TypeInv, TypeOK, HistoryTypeOK
<1>3. UniqueLabels'
  <2>1. CASE snapshots' = snapshots
    BY <2>1 DEF SeenInv, UniqueLabels
  <2>2. ASSUME NEW p \in Clients, CreateSnapshot(p) PROVE UniqueLabels'
    <3>1. PICK t : (\A s \in snapshots : s.label # t.label) /\ snapshots' = snapshots \cup {t}
      BY <2>2 DEF CreateSnapshot
    <3> QED  BY <3>1 DEF SeenInv, UniqueLabels
  <2>3. ASSUME NEW p \in Clients, DeleteSnapshot(p) PROVE UniqueLabels'
    BY <2>3 DEF DeleteSnapshot, SeenInv, UniqueLabels
  <2>4. CASE UNCHANGED vars
    BY <2>1, <2>4 DEF vars, diskVars
  <2> QED  BY <2>1, <2>2, <2>3, <2>4, SnapshotsStay, OpenerQuiet, CrashQuiet DEF Next
<1>4. spent'.crashes <= MaxCrashes
  <2>1. CASE Kill \/ PowerLoss
    BY <1>2, <2>1, CrashQuiet DEF Spend
  <2>2. CASE \E p \in Clients : ClientStep(p)
    BY <1>2, <2>2, ClientSpends DEF SeenInv
  <2>3. CASE OpenerStep
    BY <2>3, OpenerQuiet DEF SeenInv
  <2>4. CASE UNCHANGED vars
    BY <2>4 DEF vars, histVars, SeenInv
  <2> QED  BY <2>1, <2>2, <2>3, <2>4 DEF Next
<1> QED  BY <1>1, <1>3, <1>4 DEF SeenInv

LEMMA SeenInvariance == Spec => []SeenInv
<1>1. Init => SeenInv
  <2>1. Init => UniqueLabels /\ spent.crashes <= MaxCrashes
    BY BoundAssumption DEF Init, UniqueLabels
  <2> QED  BY <2>1, HistoryInit DEF SeenInv
<1> QED  BY <1>1, SeenInvNext, PTL DEF Spec

\* Each step is seen as one operation, or not at all.
LEMMA SeenStep ==
  ASSUME SeenInv, SeenInv', [Next]_vars, Clean' \/ Exact
  PROVE  Seen
<1> USE DEF SeenInv, HistoryInv
<1>1. NoDanglingReferences /\ NoDanglingReferences'
  BY DEF DataInv
<1>2. ASSUME NEW p \in Clients, ClientStep(p) PROVE Seen
  <2>1. Clean \/ Exact
    BY <1>2, ClientSpends
  <2>2. Ordered /\ ClientClaims
    BY <2>1 DEF OrderInv, Exact
  <2> QED  BY <1>2, <2>2, SeenClient
<1>3. CASE OpenerStep
  <2>1. status # "up" /\ spent' = spent
    BY <1>3, OpenerRecovers, OpenerQuiet
  <2>2. Exact
    <3>1. CASE Clean'
      <4>1. spent.crashes # 0 /\ Clean
        BY <2>1, <3>1 DEF OrderInv, Clean
      <4> QED  BY <4>1 DEF OrderInv, Clean
    <3> QED  BY <3>1
  <2> QED  BY <1>3, <2>1, <2>2, SeenOpener DEF Exact
<1>4. CASE UNCHANGED <<names, objects, snapshots, manifests>>
  BY <1>1, <1>4, SeenNothing
<1>5. CASE UNCHANGED vars
  BY <1>4, <1>5 DEF vars, diskVars
<1> QED  BY <1>2, <1>3, <1>4, <1>5, CrashQuiet DEF Next

LEMMA SeenInit == Init => Store!StoreInit
BY DEF Init, Store!StoreInit, FilesSeen, SnapshotsSeen, ContentsReadable, Store!NoFile,
   NoRecord

(* Up to the first crash whatever fails, and through one crash and its     *)
(* recovery if nothing had failed, every step of every thread looks to the *)
(* clients like one atomic operation of VersionedStore, or like nothing:   *)
(* put_file_named, rename_file, rollback_file, prune_file_versions, the    *)
(* snapshots, the deletions, gc and the replay in open_internal.           *)
THEOREM EveryStepIsAtomic ==
  Spec => Store!StoreInit /\ [][Clean' => Store!StoreNext]_(Store!storeVars)
<1>1. SeenInv /\ SeenInv' /\ [Next]_vars => [Clean' => Store!StoreNext]_(Store!storeVars)
  BY SeenStep DEF Seen
<1> QED  BY <1>1, SeenInit, SeenInvariance, PTL DEF Spec

(* In an engine that does not crash, concurrent calls, some of them        *)
(* failing half way, look like atomic operations one after the other, and  *)
(* whatever a name or a snapshot leads to can be read.                     *)
THEOREM EngineImplementsVersionedStore ==
  ASSUME MaxCrashes = 0
  PROVE  Spec => ImplementsVersionedStore
<1>1. SeenInv /\ SeenInv' /\ [Next]_vars => [Store!StoreNext]_(Store!storeVars)
  <2> SUFFICES ASSUME SeenInv, SeenInv', [Next]_vars PROVE Seen
    BY DEF Seen
  <2>1. spent'.crashes \in Nat /\ spent'.crashes <= 0
    BY DEF SeenInv, HistoryInv, TypeInv, TypeOK, HistoryTypeOK
  <2>2. Clean'
    BY <2>1 DEF Clean
  <2> QED  BY <2>2, SeenStep
<1> QED  BY <1>1, SeenInit, SeenInvariance, PTL
         DEF Spec, ImplementsVersionedStore, Store!StoreSpec

(* One crash at any step, and the replay after it, are invisible, or       *)
(* complete the interrupted put as if it had been made then (open_internal *)
(* and Wal::open), unless a call had failed before the crash.              *)
THEOREM OneCrashIsInvisible ==
  ASSUME MaxCrashes \in {0, 1}
  PROVE  Spec => CrashesAreInvisible
<1>1. SeenInv /\ SeenInv' /\ [Next]_vars
        => [(spent'.faults > 0 /\ spent'.crashes > 0) \/ Store!StoreNext]_(Store!storeVars)
  <2> SUFFICES ASSUME SeenInv, SeenInv', [Next]_vars, ~(spent'.faults > 0 /\ spent'.crashes > 0)
               PROVE  Seen
    BY DEF Seen
  <2>1. spent'.crashes \in Nat /\ spent'.faults \in Nat /\ spent'.crashes <= 1
    BY DEF SeenInv, HistoryInv, TypeInv, TypeOK, HistoryTypeOK
  <2>2. Clean'
    BY <2>1 DEF Clean
  <2> QED  BY <2>2, SeenStep
<1> QED  BY <1>1, SeenInvariance, PTL DEF Spec, CrashesAreInvisible

(* So are any number of crashes that forget no checkpoint.                 *)
THEOREM CrashesStayInvisible == KeptSpec => CrashesAreInvisible
<1>1. Init => SeenInv
  BY HistoryInit, BoundAssumption DEF Init, UniqueLabels, SeenInv
<1>2. SeenInv /\ [KeptNext]_vars => SeenInv'
  BY SeenInvNext, KeptIsNext
<1>3. SeenInv /\ SeenInv' /\ KeptInv /\ KeptInv' /\ [KeptNext]_vars
        => [(spent'.faults > 0 /\ spent'.crashes > 0) \/ Store!StoreNext]_(Store!storeVars)
  <2> SUFFICES ASSUME SeenInv, SeenInv', KeptInv, KeptInv', [KeptNext]_vars,
                      ~(spent'.faults > 0 /\ spent'.crashes > 0)
               PROVE  Seen
    BY DEF Seen
  <2>1. [Next]_vars
    BY KeptIsNext
  <2>2. spent'.crashes \in Nat /\ spent'.faults \in Nat
    BY DEF SeenInv, HistoryInv, TypeInv, TypeOK, HistoryTypeOK
  <2>3. CASE spent'.crashes = 0
    BY <2>1, <2>3, SeenStep DEF Clean
  <2>4. CASE spent'.faults = 0
    <3>1. Exact
      BY <2>1, <2>4, SpentGrows DEF KeptInv, HistoryInv
    <3> QED  BY <2>1, <3>1, SeenStep
  <2> QED  BY <2>2, <2>3, <2>4
<1>4. KeptSpec => []SeenInv
  BY <1>1, <1>2, PTL DEF KeptSpec
<1> QED  BY <1>3, <1>4, KeptInvariance, PTL DEF KeptSpec, CrashesAreInvisible

-----------------------------------------------------------------------------
(* The use of ChunkStore                                                   *)

(* The actions that change the stored or the synced chunks.                *)
LEMMA ChunkActions ==
  ASSUME [Next]_vars
  PROVE  \/ UNCHANGED <<stored, synced>>
         \/ \E p \in Clients : ReadStable(p) \/ ReadUnstable(p) \/ GcCompact(p)
         \/ UNCHANGED stored /\ SyncSegments
         \/ PowerLoss
<1>1. ASSUME NEW p \in Procs, SaveManifest(p) \/ PutObject(p) \/ BindName(p) \/ TruncateMeta(p)
                              \/ WriteMeta(p) \/ SyncMeta(p) \/ TruncateLog(p) \/ SyncLog(p)
      PROVE  UNCHANGED <<stored, synced>>
  BY <1>1 DEF SaveManifest, PutObject, BindName, TruncateMeta, WriteMeta, SyncMeta, TruncateLog,
     SyncLog, diskVars
<1>2. ASSUME NEW p \in Clients, ClientStep(p)
      PROVE  \/ UNCHANGED <<stored, synced>>
             \/ ReadStable(p) \/ ReadUnstable(p) \/ GcCompact(p)
             \/ UNCHANGED stored /\ SyncSegments
  <2>1. CASE PutStep(p)
    <3>1. CASE SyncAndResolve(p)
      BY <3>1 DEF SyncAndResolve
    <3>2. CASE AppendWal(p) \/ SyncWal(p) \/ FinishPut(p)
      BY <3>2 DEF AppendWal, SyncWal, FinishPut, diskVars
    <3> QED  BY <1>1, <2>1, <3>1, <3>2 DEF PutStep, Procs
  <2>2. CASE OtherStep(p)
    BY <2>2 DEF OtherStep, FinishRead, DeleteNamedObject, FinishDelete, GcMark, GcSweepManifest,
       diskVars
  <2>3. CASE AcquireStep(p)
    BY <2>3 DEF AcquireStep, PutAcquireOp, GcAcquireOp, diskVars
  <2>4. CASE FailStep(p)
    BY <2>4 DEF FailStep, PutFails, AppendWalFails, GcFails, diskVars
  <2>5. CASE CallStep(p)
    <3>1. CASE BeginPut(p)
      BY <3>1 DEF BeginPut, diskVars
    <3>2. CASE GetFile(p) \/ RestoreSnapshot(p)
      BY <3>2 DEF GetFile, RestoreSnapshot, BeginRead, diskVars
    <3>3. CASE BeginDelete(p)
      BY <3>3 DEF BeginDelete, diskVars
    <3>4. CASE BeginGc(p)
      BY <3>4 DEF BeginGc, diskVars
    <3>5. CASE RenameFile(p) \/ UnbindFile(p) \/ CreateSnapshot(p) \/ DeleteSnapshot(p)
      BY <3>5 DEF RenameFile, UnbindFile, CreateSnapshot, DeleteSnapshot
    <3>6. CASE PruneFileVersions(p)
      BY <3>6 DEF PruneFileVersions
    <3>7. CASE RollbackFile(p)
      BY <3>7 DEF RollbackFile
    <3> QED  BY <2>5, <3>1, <3>2, <3>3, <3>4, <3>5, <3>6, <3>7 DEF CallStep
  <2> QED  BY <1>2, <2>1, <2>2, <2>3, <2>4, <2>5 DEF ClientStep
<1>3. CASE OpenerStep
  <2>1. CASE ReplayRecord
    BY <2>1 DEF ReplayRecord
  <2>2. CASE OpenWal \/ OpenFails \/ FinishReplay \/ FinishOpen
    BY <2>2 DEF OpenWal, OpenFails, FinishReplay, FinishOpen, diskVars
  <2> QED  BY <1>1, <1>3, <2>1, <2>2 DEF OpenerStep, Procs
<1>4. CASE Kill
  BY <1>4 DEF Kill, diskVars
<1>5. CASE UNCHANGED vars
  BY <1>5 DEF vars, diskVars
<1> QED  BY <1>2, <1>3, <1>4, <1>5 DEF Next

(* The engine stores, syncs, collects and loses chunks as ChunkStore       *)
(* allows, through any number of threads, crashes and failing calls: a     *)
(* collection keeps exactly the chunks of what it marked, and a crash      *)
(* takes only what no sync covers (put_file_named, open_internal, gc).     *)
THEOREM EngineUsesChunkStore == Spec => UsesChunkStore
<1>1. Init => Segments!ChunkInit
  BY DEF Init, Segments!ChunkInit
<1>2. IndInv /\ [Next]_vars => [Segments!ChunkNext]_(Segments!chunkVars)
  <2> SUFFICES ASSUME IndInv, [Next]_vars PROVE [Segments!ChunkNext]_(Segments!chunkVars)
    OBVIOUS
  <2> USE DEF Segments!ChunkNext
  <2>1. CASE UNCHANGED <<stored, synced>>
    BY <2>1 DEF Segments!chunkVars
  <2>2. ASSUME NEW p \in Clients, ReadStable(p) \/ ReadUnstable(p) PROVE Segments!StoreChunks
    <3>1. ChunksOf[job[p].content] \in SUBSET Chunks
      <4>1. job[p].content \in Contents
        BY DEF IndInv, TypeOK, CallTypeOK, WalPut, Procs
      <4> QED  BY <4>1, DataAssumption
    <3>2. \E S \in SUBSET Chunks : stored' = stored \cup S
      BY <2>2, <3>1 DEF ReadStable, ReadUnstable
    <3>3. UNCHANGED synced
      BY <2>2 DEF ReadStable, ReadUnstable
    <3> QED  BY <3>2, <3>3 DEF Segments!StoreChunks
  <2>3. ASSUME NEW p \in Clients, GcCompact(p) PROVE Segments!Collect
    BY <2>3 DEF GcCompact, Segments!Collect
  <2>4. CASE UNCHANGED stored /\ SyncSegments
    BY <2>4 DEF SyncSegments, Segments!SyncAll
  <2>5. CASE PowerLoss
    <3>1. synced \subseteq stored
      BY DEF IndInv
    <3> QED  BY <2>5, <3>1 DEF PowerLoss, Segments!LoseUnsynced
  <2> QED  BY <2>1, <2>2, <2>3, <2>4, <2>5, ChunkActions
<1> QED  BY <1>1, <1>2, Invariance, PTL DEF Spec, UsesChunkStore, Segments!ChunkSpec
=============================================================================
