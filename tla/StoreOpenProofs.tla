--------------------------- MODULE StoreOpenProofs ---------------------------
(***************************************************************************)
(* Proofs about opening a store: for any number of processes, rows,        *)
(* passphrases, kills, writes and accidents, an opened store has every row *)
(* that was ever reported as written and not to a sled that a redb         *)
(* database replaces already, and nothing is stored under two keys.        *)
(*                                                                         *)
(* TypeOK, which says that whoever is past the lock holds it, is inductive *)
(* alone.  OneKey needs what each process knows of the key.  NothingLost   *)
(* needs where the rows are at each stage of the migration, and what each  *)
(* step of it has made sure of.                                            *)
(***************************************************************************)
EXTENDS StoreOpen, TLAPS

\* A process works with the key of the vault once it has passed it.
KeysAgree ==
  \A p \in Procs : key[p] = IF pc[p] \in {"idle", "vault"} THEN 0 ELSE vault.key

KeyInv == KeysAgree /\ OneKey

\* The rows an open has to find.
Due == owed \ stray

\* Where the rows are.  Before the commit marker they are in a database that
\* was there, or else in sled.  With it they are in the database, in the copy a
\* restore will put back, or in the staging database that is about to be
\* published; and an older binary is shut out.
RowsKept ==
  /\ IsValid(active) => Due \subseteq active.rows
  /\ IsValid(lost) => committed /\ ~IsValid(active) /\ Due \subseteq lost.rows
  /\ committed /\ ~IsValid(active) /\ ~IsValid(lost) =>
       ~Exists(active) /\ IsValid(staging) /\ Due \subseteq staging.rows
  /\ Exists(active) \/ IsValid(lost) => ~IsValid(staging)
  /\ ~committed /\ Exists(active) => IsValid(active)
  /\ ~committed /\ ~Exists(active) /\ layout = "dir" => Due \subseteq sled.rows
  /\ committed => layout # "archive" /\ (layout = "dir" => conf = "blocker")

\* What a process has made sure of at each step of migration::open.
StepsDone ==
  \A p \in Procs :
    /\ pc[p] \in {"block", "blocker"} =>
         layout = "dir" /\ (MayImport \/ IsValid(active))
    /\ pc[p] = "adopt" => layout = "dir" /\ conf = "blocker" /\ IsValid(active)
    /\ pc[p] \in {"stage", "copy", "create", "fill", "commit"} =>
         layout = "dir" /\ conf = "blocker" /\ MayImport
    /\ pc[p] \in {"create", "fill"} => Due \subseteq import
    /\ pc[p] = "commit" => IsValid(staging) /\ Due \subseteq staging.rows
    /\ pc[p] = "publish" => committed /\ ~Exists(active) /\ IsValid(staging)
    /\ pc[p] = "open" => committed /\ IsValid(active)

OpenInv == RowsKept /\ StepsDone

-----------------------------------------------------------------------------
(* Types                                                                   *)

\* Only one process at a time is past the lock.
LEMMA Alone ==
  ASSUME TypeOK, NEW p \in Procs, pc[p] # "idle"
  PROVE  lock = p /\ lock # Free /\ \A q \in Procs : q # p => pc[q] = "idle"
BY OpenAssumption DEF TypeOK

\* While the lock is free nobody is inside open.
LEMMA NobodyInside ==
  ASSUME TypeOK, lock = Free, NEW p \in Procs
  PROVE  pc[p] = "idle"
BY OpenAssumption DEF TypeOK

\* The databases that are written are databases.
LEMMA DatabaseType ==
  /\ {NoDb, EmptyDb, Damaged} \subseteq Database
  /\ \A R \in SUBSET Rows : Valid(R) \in Database
BY DEF Database, States, NoDb, EmptyDb, Damaged, Valid

\* Using up a bound stays within it.
LEMMA SpendType ==
  ASSUME TypeOK,
         \/ Spend("stops", MaxStops) \/ Spend("writes", MaxWrites)
         \/ Spend("damage", MaxDamage)
  PROVE  spent' \in [stops : 0..MaxStops, writes : 0..MaxWrites, damage : 0..MaxDamage]
<1> USE OpenAssumption DEF TypeOK, Spend
<1>1. CASE Spend("stops", MaxStops) BY <1>1
<1>2. CASE Spend("writes", MaxWrites) BY <1>2
<1>3. CASE Spend("damage", MaxDamage) BY <1>3
<1> QED BY <1>1, <1>2, <1>3

\* What is in the directories of a user whose store has the rows R.
IsDirectory(d, R) ==
  /\ d.layout \in {"dir", "file", "archive"} /\ d.conf \in {"none", "sled"}
  /\ d.sled \in {NoDb, Valid(R), Valid({})} /\ d.active \in {NoDb, Valid(R)}
  /\ d.staging \in {NoDb, EmptyDb} /\ d.committed \in BOOLEAN
  /\ d.committed => d.layout = "file"
  /\ d.layout = "file" => d.active = Valid(R)
  /\ d.layout = "dir" /\ d.active = NoDb /\ d # NewDir => d.sled = Valid(R)

LEMMA Directories ==
  ASSUME NEW R, NEW d \in {NewDir} \cup OldDirs(R)
  PROVE  IsDirectory(d, R)
<1> USE DEF IsDirectory, NewDir, SledDir
<1>0. NoDb # Valid(R) BY DEF NoDb, Valid
<1>1. CASE d \in [layout : {"file"}, conf : {"none"}, sled : {NoDb},
                  active : {Valid(R)}, staging : {NoDb}, committed : BOOLEAN]
  BY <1>1
<1>2. CASE d = NewDir BY <1>2
<1>3. CASE d = [NewDir EXCEPT !.layout = "archive"] BY <1>3
<1>4. CASE d = SledDir(R) BY <1>4
<1>5. CASE d = [SledDir(R) EXCEPT !.staging = EmptyDb] BY <1>5
<1>6. CASE d = [SledDir({}) EXCEPT !.active = Valid(R)] BY <1>0, <1>6
<1> QED BY <1>1, <1>2, <1>3, <1>4, <1>5, <1>6 DEF OldDirs

LEMMA InitType == Init => TypeOK
<1> SUFFICES ASSUME Init PROVE TypeOK
  OBVIOUS
<1>1. PICK R \in SUBSET Rows : \E d \in {NewDir} \cup OldDirs(R) :
       /\ owed = IF d = NewDir THEN {} ELSE R
       /\ layout = d.layout /\ conf = d.conf /\ sled = d.sled
       /\ active = d.active /\ staging = d.staging
       /\ committed = d.committed
       /\ \/ /\ vault = NoVault
             /\ segments = IF d = NewDir THEN {} ELSE {0}
             /\ keys = 0
          \/ /\ d # NewDir
             /\ \E pw \in Passwords : vault = [password |-> pw, key |-> 1]
             /\ segments = {1}
             /\ keys = 1
  BY DEF Init
<1>2. \A d \in {NewDir} \cup OldDirs(R) : IsDirectory(d, R)
  BY Directories
<1>3. {sled, staging, active, lost} \subseteq Database
  BY <1>1, <1>2, DatabaseType DEF Init, IsDirectory
<1>4. /\ vault \in [password : Passwords \cup {NoPassword}, key : Nat]
      /\ keys \in Nat /\ segments \subseteq Nat /\ owed \subseteq Rows
  BY <1>1 DEF NoVault
<1>5. layout \in {"dir", "file", "archive"} /\ conf \in {"none", "sled", "blocker"}
      /\ committed \in BOOLEAN
  BY <1>1, <1>2 DEF IsDirectory
<1>6. /\ lock \in Procs \cup {Free}
      /\ pc \in [Procs -> Pcs]
      /\ \A p \in Procs : pc[p] = "idle"
  BY DEF Init, Pcs
<1>7. /\ mode \in [Procs -> Passwords \cup {NoPassword, TooShort}]
      /\ key \in [Procs -> Nat]
      /\ import \subseteq Rows
  BY DEF Init
<1>8. spent \in [stops : 0..MaxStops, writes : 0..MaxWrites, damage : 0..MaxDamage]
  BY OpenAssumption DEF Init
<1>9. {backup, migrating, committed, bare} \subseteq BOOLEAN /\ stray \subseteq owed
  BY <1>5 DEF Init
<1> QED BY <1>3, <1>4, <1>5, <1>6, <1>7, <1>8, <1>9 DEF TypeOK

\* An error leaves the process where it began.
LEMMA RefuseType ==
  ASSUME TypeOK, NEW p \in Procs, pc[p] # "idle", Refuse(p)
  PROVE  TypeOK'
BY Alone DEF TypeOK, Refuse, Goto, Pcs, vaultVars, sledVars, redbVars, histVars

LEMMA NextType == TypeOK /\ [Next]_vars => TypeOK'
<1> SUFFICES ASSUME TypeOK, [Next]_vars PROVE TypeOK'
  OBVIOUS
<1> USE DEF lockVars, vaultVars, sledVars, redbVars, histVars, Goto
<1>1. ASSUME NEW p \in Procs, NEW pw \in Passwords \cup {NoPassword, TooShort},
             Start(p, pw)
      PROVE  TypeOK'
  BY <1>1, NobodyInside DEF Start, LockFree, TypeOK, Pcs
<1>2. ASSUME NEW p \in Procs, OpenStep(p)
      PROVE  TypeOK'
  <2>1. CASE UnlockVault(p) BY <2>1 DEF UnlockVault, TypeOK, Pcs
  <2>2. CASE OpenPlain(p) BY <2>2 DEF OpenPlain, TypeOK, Pcs
  <2>3. CASE CreateVault(p)
    BY <2>3 DEF CreateVault, MayCreateVault, TypeOK, Pcs
  <2>4. CASE OpenSegments(p) BY <2>4 DEF OpenSegments, TypeOK, Pcs
  <2>21. CASE CreateSegment(p) BY <2>21 DEF CreateSegment, TypeOK, Pcs
  <2>22. CASE WriteHeader(p) BY ZenonT(30), <2>22 DEF WriteHeader, TypeOK, Pcs
  <2>5. CASE OpenFile(p) BY <2>5 DEF OpenFile, TypeOK, Pcs
  <2>6. CASE PublishStaged(p) BY <2>6, DatabaseType DEF PublishStaged, TypeOK, Pcs
  <2>7. CASE OpenActive(p) BY <2>7 DEF OpenActive, TypeOK, Pcs
  <2>8. CASE RefuseVault(p) \/ RefuseSegments(p) \/ RefuseMeta(p) \/ RefuseBlock(p)
    BY <2>8, RefuseType DEF RefuseVault, RefuseSegments, RefuseMeta, RefuseBlock
  <2>9. CASE BeginMigration(p) BY <2>9 DEF BeginMigration, TypeOK, Pcs
  <2>10. CASE RemoveStaging(p) BY <2>10, DatabaseType DEF RemoveStaging, TypeOK, Pcs
  <2>11. CASE CopyLegacy(p) BY <2>11 DEF CopyLegacy, TypeOK, Pcs, Database
  <2>12. CASE CreateStaging(p) BY <2>12, DatabaseType DEF CreateStaging, TypeOK, Pcs
  <2>13. CASE FillStaging(p) BY <2>13, DatabaseType DEF FillStaging, TypeOK, Pcs
  <2>14. CASE Commit(p) BY <2>14 DEF Commit, TypeOK, Pcs
  <2>15. CASE Publish(p) BY <2>15, DatabaseType DEF Publish, TypeOK, Pcs
  <2>16. CASE AlreadyBlocked(p) BY <2>16 DEF AlreadyBlocked, AfterBlock, TypeOK, Pcs
  <2>17. CASE BackUpConf(p) BY <2>17 DEF BackUpConf, TypeOK, Pcs
  <2>18. CASE NoConf(p) BY <2>18 DEF NoConf, TypeOK, Pcs
  <2>19. CASE InstallBlocker(p) BY <2>19 DEF InstallBlocker, AfterBlock, TypeOK, Pcs
  <2>20. CASE AdoptActive(p) BY <2>20 DEF AdoptActive, TypeOK, Pcs
  <2> QED
    BY <1>2, <2>1, <2>2, <2>3, <2>4, <2>5, <2>6, <2>7, <2>8, <2>9, <2>10, <2>11, <2>12,
       <2>13, <2>14, <2>15, <2>16, <2>17, <2>18, <2>19, <2>20, <2>21, <2>22
    DEF OpenStep, SegmentStep, MigrationStep, BlockStep
<1>3. ASSUME NEW p \in Procs, NEW r \in Rows, Write(p, r)
      PROVE  TypeOK'
  <2>1. active' \in Database
    BY <1>3, DatabaseType DEF Write, TypeOK, Database
  <2> QED BY ZenonT(30), <1>3, <2>1, SpendType DEF Write, TypeOK
<1>4. ASSUME NEW p \in Procs, Close(p) PROVE TypeOK'
  BY <1>4, RefuseType DEF Close
<1>5. ASSUME NEW p \in Procs, Stop(p) PROVE TypeOK'
  BY <1>5, SpendType DEF Stop, TypeOK, Pcs
<1>6. ASSUME NEW r \in Rows, OldWrite(r) PROVE TypeOK'
  <2>1. sled' \in Database
    BY <1>6, DatabaseType DEF OldWrite, TypeOK, Database
  <2> QED BY <1>6, <2>1, SpendType DEF OldWrite, TypeOK
<1>7. CASE DamageDb BY <1>7, DatabaseType, SpendType DEF DamageDb, TypeOK
<1>8. CASE RestoreDb BY <1>8, DatabaseType DEF RestoreDb, TypeOK
<1>9. CASE LoseConf BY <1>9, SpendType DEF LoseConf, TypeOK
<1>10. CASE UNCHANGED vars BY <1>10 DEF vars, TypeOK
<1> QED
  BY <1>1, <1>2, <1>3, <1>4, <1>5, <1>6, <1>7, <1>8, <1>9, <1>10 DEF Next, ProcStep

\* Every variable keeps the type the code gives it, and store.lock is held by
\* the one process that is inside open or has the store open.
THEOREM OpenTypeCorrect == Spec => []TypeOK
BY InitType, NextType, PTL DEF Spec

-----------------------------------------------------------------------------
(* One key                                                                 *)

LEMMA InitKey == Init => KeyInv
BY DEF Init, KeyInv, KeysAgree, OneKey, NoVault

LEMMA NextKey == TypeOK /\ KeyInv /\ [Next]_vars => KeyInv'
<1> SUFFICES ASSUME TypeOK, KeyInv, [Next]_vars PROVE KeyInv'
  OBVIOUS
<1> USE DEF KeyInv, KeysAgree, OneKey, lockVars, vaultVars, Goto
<1>1. ASSUME NEW p \in Procs, NEW pw \in Passwords \cup {NoPassword, TooShort},
             Start(p, pw)
      PROVE  KeyInv'
  BY <1>1 DEF Start, TypeOK
<1>2. ASSUME NEW p \in Procs, OpenStep(p)
      PROVE  KeyInv'
  <2>1. CASE UnlockVault(p) BY <2>1 DEF UnlockVault, TypeOK
  <2>2. CASE OpenPlain(p) BY <2>2 DEF OpenPlain, TypeOK, HasVault, NoVault
  \* There is nothing in the store yet, and nobody else is inside.
  <2>3. CASE CreateVault(p)
    BY <2>3, Alone DEF CreateVault, MayCreateVault, IsStoreEmpty, TypeOK
  <2>4. CASE OpenSegments(p) \/ CreateSegment(p) \/ WriteHeader(p)
    BY <2>4 DEF OpenSegments, CreateSegment, WriteHeader, TypeOK
  <2>5. CASE RefuseVault(p) \/ RefuseSegments(p) \/ RefuseMeta(p) \/ RefuseBlock(p)
    BY <2>5 DEF RefuseVault, RefuseSegments, RefuseMeta, RefuseBlock, Refuse, TypeOK
  <2>6. CASE \/ OpenFile(p) \/ OpenActive(p) \/ AdoptActive(p)
             \/ PublishStaged(p)
    BY <2>6 DEF OpenFile, OpenActive, AdoptActive, PublishStaged, TypeOK
  <2>7. CASE MigrationStep(p)
    BY <2>7 DEF MigrationStep, BeginMigration, RemoveStaging, CopyLegacy, CreateStaging,
                FillStaging, Commit, Publish, TypeOK
  <2>8. CASE AlreadyBlocked(p) \/ BackUpConf(p) \/ NoConf(p) \/ InstallBlocker(p)
    BY <2>8 DEF AlreadyBlocked, BackUpConf, NoConf, InstallBlocker, AfterBlock, TypeOK
  <2> QED
    BY <1>2, <2>1, <2>2, <2>3, <2>4, <2>5, <2>6, <2>7, <2>8
    DEF OpenStep, SegmentStep, BlockStep
<1>3. ASSUME NEW p \in Procs, NEW r \in Rows, Write(p, r)
      PROVE  KeyInv'
  BY <1>3 DEF Write
<1>4. ASSUME NEW p \in Procs, Close(p) \/ Stop(p) PROVE KeyInv'
  BY ZenonT(30), <1>4 DEF Close, Refuse, Stop, TypeOK
<1>5. ASSUME NEW r \in Rows, OldWrite(r) PROVE KeyInv'
  BY <1>5 DEF OldWrite
<1>6. CASE DamageDb \/ RestoreDb \/ LoseConf
  BY <1>6 DEF DamageDb, RestoreDb, LoseConf
<1>7. CASE UNCHANGED vars BY <1>7 DEF vars
<1> QED BY <1>1, <1>2, <1>3, <1>4, <1>5, <1>6, <1>7 DEF Next, ProcStep

\* Whoever opens a store, and wherever open, open_with_password or
\* init_encrypted is cut, everything in it is written with one key.
THEOREM OneKeyPerStore == Spec => []OneKey
<1>1. KeyInv => OneKey
  BY DEF KeyInv
<1> QED BY <1>1, InitType, NextType, InitKey, NextKey, PTL DEF Spec

-----------------------------------------------------------------------------
(* Nothing is lost                                                         *)

LEMMA InitRows == Init => OpenInv
<1> SUFFICES ASSUME Init PROVE OpenInv
  OBVIOUS
<1>0. PICK R \in SUBSET Rows : \E d \in {NewDir} \cup OldDirs(R) :
       /\ owed = IF d = NewDir THEN {} ELSE R
       /\ layout = d.layout /\ conf = d.conf /\ sled = d.sled
       /\ active = d.active /\ staging = d.staging
       /\ committed = d.committed
  BY DEF Init
<1>1. PICK d \in {NewDir} \cup OldDirs(R) :
       /\ owed = IF d = NewDir THEN {} ELSE R
       /\ layout = d.layout /\ conf = d.conf /\ sled = d.sled
       /\ active = d.active /\ staging = d.staging
       /\ committed = d.committed
  BY <1>0
<1>2. IsDirectory(d, R)
  BY Directories
<1>3. RowsKept
  <2>1. /\ ~Exists(NoDb) /\ ~IsValid(NoDb) /\ ~IsValid(EmptyDb)
        /\ IsValid(Valid(R)) /\ Exists(Valid(R)) /\ Valid(R).rows = R
    BY DEF IsValid, Exists, NoDb, EmptyDb, Valid
  <2>2. ~IsValid(lost) /\ ~IsValid(staging)
    BY <1>1, <1>2, <2>1 DEF Init, IsDirectory
  <2>3. owed \subseteq R /\ (owed # {} => d # NewDir)
    BY <1>1
  <2>4. /\ IsValid(active) => owed \subseteq active.rows
        /\ Exists(active) => IsValid(active)
        /\ committed => layout = "file" /\ IsValid(active)
    BY <1>1, <1>2, <2>1, <2>3 DEF IsDirectory
  <2>5. ~Exists(active) /\ layout = "dir" => owed \subseteq sled.rows
    BY <1>1, <1>2, <2>1, <2>3 DEF IsDirectory
  <2> QED BY <2>2, <2>4, <2>5 DEF RowsKept, Due
<1>4. StepsDone
  BY DEF Init, StepsDone
<1> QED BY <1>3, <1>4 DEF OpenInv

\* Where the files stay as they are, only what the moving process relies on has
\* to be shown: everybody else is outside.
LEMMA OnlyMover ==
  ASSUME TypeOK, NEW p \in Procs, pc[p] # "idle",
         NEW l \in Pcs, Goto(p, l)
  PROVE  /\ pc'[p] = l
         /\ \A q \in Procs : q # p => pc'[q] = "idle"
BY Alone DEF TypeOK, Goto

LEMMA OpenStepRows ==
  ASSUME TypeOK, OpenInv, NEW p \in Procs, OpenStep(p)
  PROVE  OpenInv'
<1> USE DEF OpenInv, RowsKept, StepsDone, Due, MayImport, Pcs
<1> USE DEF lockVars, vaultVars, sledVars, redbVars, histVars
<1>1. CASE UnlockVault(p) BY <1>1, OnlyMover DEF UnlockVault, IsValid, Exists
<1>2. CASE OpenPlain(p) BY <1>2, OnlyMover DEF OpenPlain, IsValid, Exists
<1>3. CASE CreateVault(p) BY <1>3, OnlyMover DEF CreateVault, IsValid, Exists
<1>4. CASE OpenSegments(p) \/ CreateSegment(p) \/ WriteHeader(p)
  BY <1>4, OnlyMover DEF OpenSegments, CreateSegment, WriteHeader, IsValid, Exists
<1>5. CASE RefuseVault(p) \/ RefuseSegments(p) \/ RefuseMeta(p) \/ RefuseBlock(p)
  BY <1>5, OnlyMover
  DEF RefuseVault, RefuseSegments, RefuseMeta, RefuseBlock, Refuse, IsValid, Exists
\* The earlier layout: the database has been valid all the time.
<1>6. CASE OpenFile(p) BY <1>6, OnlyMover DEF OpenFile, IsValid, Exists
\* Nothing was lost yet, so the staging database is the committed one.
<1>7. CASE PublishStaged(p)
  BY <1>7, Alone DEF PublishStaged, IsValid, Exists, NoDb, TypeOK
<1>8. CASE OpenActive(p) BY <1>8, OnlyMover DEF OpenActive, IsValid, Exists
<1>9. CASE BeginMigration(p) BY <1>9, OnlyMover DEF BeginMigration, IsValid, Exists
<1>10. CASE AlreadyBlocked(p)
  BY <1>10, OnlyMover DEF AlreadyBlocked, AfterBlock, IsValid, Exists
<1>11. CASE BackUpConf(p) \/ NoConf(p)
  BY <1>11, OnlyMover DEF BackUpConf, NoConf, IsValid, Exists
<1>12. CASE InstallBlocker(p)
  BY <1>12, OnlyMover DEF InstallBlocker, AfterBlock, IsValid, Exists
<1>13. CASE AdoptActive(p) BY <1>13, OnlyMover DEF AdoptActive, IsValid, Exists
<1>14. CASE RemoveStaging(p)
  BY <1>14, OnlyMover DEF RemoveStaging, IsValid, Exists, NoDb
\* Nobody writes to sled any more, and it has all the rows.
<1>15. CASE CopyLegacy(p) BY <1>15, OnlyMover DEF CopyLegacy, IsValid, Exists
<1>16. CASE CreateStaging(p)
  BY <1>16, OnlyMover DEF CreateStaging, IsValid, Exists, EmptyDb
<1>17. CASE FillStaging(p)
  BY <1>17, OnlyMover DEF FillStaging, IsValid, Exists, Valid
<1>18. CASE Commit(p) BY <1>18, OnlyMover DEF Commit, IsValid, Exists
<1>19. CASE Publish(p) BY <1>19, OnlyMover DEF Publish, IsValid, Exists, NoDb
<1> QED
  BY <1>1, <1>2, <1>3, <1>4, <1>5, <1>6, <1>7, <1>8, <1>9, <1>10, <1>11, <1>12, <1>13,
     <1>14, <1>15, <1>16, <1>17, <1>18, <1>19
  DEF OpenStep, SegmentStep, MigrationStep, BlockStep

LEMMA NextRows == TypeOK /\ OpenInv /\ [Next]_vars => OpenInv'
<1> SUFFICES ASSUME TypeOK, OpenInv, [Next]_vars PROVE OpenInv'
  OBVIOUS
<1> USE DEF OpenInv, RowsKept, StepsDone, Due, MayImport, IsValid, Exists, Pcs
<1> USE DEF lockVars, vaultVars, sledVars, redbVars, histVars
<1>1. ASSUME NEW p \in Procs, NEW pw \in Passwords \cup {NoPassword, TooShort},
             Start(p, pw)
      PROVE  OpenInv'
  BY <1>1 DEF Start, TypeOK, Goto
<1>2. ASSUME NEW p \in Procs, OpenStep(p) PROVE OpenInv'
  BY <1>2, OpenStepRows
<1>3. ASSUME NEW p \in Procs, NEW r \in Rows, Write(p, r)
      PROVE  OpenInv'
  BY <1>3, Alone DEF Write, Valid
<1>4. ASSUME NEW p \in Procs, Close(p) \/ Stop(p) PROVE OpenInv'
  BY <1>4, OnlyMover DEF Close, Refuse, Stop
\* Not blocked: nothing is committed.  Without a database sled has all the rows;
\* beside one the row is a stray.
<1>5. ASSUME NEW r \in Rows, OldWrite(r) PROVE OpenInv'
  BY <1>5, NobodyInside DEF OldWrite, Valid, TypeOK
<1>6. CASE DamageDb
  BY <1>6, NobodyInside DEF DamageDb, NoDb, EmptyDb, Damaged
<1>7. CASE RestoreDb
  BY <1>7, NobodyInside DEF RestoreDb, NoDb
<1>8. CASE LoseConf
  BY <1>8, NobodyInside DEF LoseConf
<1>9. CASE UNCHANGED vars BY <1>9 DEF vars
<1> QED
  BY <1>1, <1>2, <1>3, <1>4, <1>5, <1>6, <1>7, <1>8, <1>9 DEF Next, ProcStep

\* However often the migration is cut and resumed, by whichever process, and
\* whatever accidents happen in between, a store that opens has every row that was
\* reported as written, by an older binary too unless a redb database without
\* markers lay beside the sled it wrote to.
THEOREM NothingIsLost == Spec => []NothingLost
<1>1. OpenInv => NothingLost
  BY DEF OpenInv, RowsKept, StepsDone, Due, NothingLost
<1> QED BY <1>1, InitType, NextType, InitRows, NextRows, PTL DEF Spec
=============================================================================
