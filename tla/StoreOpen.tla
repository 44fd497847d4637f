------------------------------ MODULE StoreOpen ------------------------------
(***************************************************************************)
(* Opening a store directory: the process lock, the vault key and the      *)
(* first segment (core/src/engine.rs, core/src/crypto/vault.rs), and the   *)
(* metadata database with its migration from sled (core/src/index/mod.rs,  *)
(* core/src/index/migration.rs).                                           *)
(*                                                                         *)
(* Several processes try to open the same directory, each may be killed or *)
(* meet an I/O error between any two file operations, older sled-based     *)
(* binaries may be run on the directory as long as nothing stops them, and *)
(* the database file may be lost or damaged and later restored.            *)
(*                                                                         *)
(* A marker, conf and vault.key are written to a temporary file, fsynced,  *)
(* renamed and the directory fsynced: one step, for a power loss before    *)
(* the last fsync leaves the file as it was and one after it is a kill.    *)
(* The staging database is fsynced before the marker that makes it count.  *)
(* A database is the set of rows of its tables.                            *)
(***************************************************************************)
EXTENDS Integers, FiniteSets

CONSTANTS
  Procs,       \* processes of this version
  Free,        \* "nobody holds store.lock"
  Rows,        \* table rows
  Passwords,   \* passphrases long enough for VaultKey::create
  NoPassword,  \* the store is opened with StorageEngine::open
  TooShort,    \* a passphrase VaultKey::create refuses
  MaxStops,    \* bound: kills and I/O errors
  MaxWrites,   \* bound: rows written by either version
  MaxDamage    \* bound: times the database file is lost or damaged

ASSUME OpenAssumption ==
  /\ Free \notin Procs
  /\ NoPassword \notin Passwords /\ TooShort \notin Passwords
  /\ {MaxStops, MaxWrites, MaxDamage} \subseteq Nat

VARIABLES
  lock,        \* who holds store.lock, and with it metadata.db.open.lock
  pc,          \* where each process is in open
  mode,        \* the passphrase each process was given
  key,         \* the master key each process works with, 0 for none
  vault,       \* vault.key: the passphrase and the master key it wraps
  keys,        \* master keys generated so far
  segments,    \* the keys the segment files were written with, 0 for plaintext
  bare,        \* the first segment file exists without its header
  layout,      \* what is at metadata.db: "dir", "file", or an "archive" beside it
  sled,        \* the sled database in the directory
  conf,        \* metadata.db/conf: "none", "sled" or "blocker"
  backup,      \* conf.sled-backup exists
  migrating,   \* .redb-migrating exists
  committed,   \* .redb-active exists
  staging,     \* metadata.redb.staging
  active,      \* metadata.redb (metadata.db itself in the file layout)
  import,      \* the rows of the disposable copy of sled
  owed,        \* rows that some version reported as written
  stray,       \* those that an older one wrote to sled beside a redb database
  lost,        \* the copy a restore puts back after damage
  spent        \* how much of each bound is used

lockVars == <<lock, pc, mode, key>>
vaultVars == <<vault, keys, segments, bare>>
sledVars == <<sled, conf, backup>>
redbVars == <<migrating, committed, staging, active, import>>
histVars == <<owed, stray, lost, spent>>
vars == <<lockVars, vaultVars, layout, sledVars, redbVars, histVars>>

-----------------------------------------------------------------------------
States == {"none", "empty", "damaged", "valid"}
Database == [state : States, rows : SUBSET Rows]

NoDb     == [state |-> "none", rows |-> {}]
EmptyDb  == [state |-> "empty", rows |-> {}]     \* created, no transaction yet
Damaged  == [state |-> "damaged", rows |-> {}]
Valid(R) == [state |-> "valid", rows |-> R]

Exists(db) == db.state # "none"

\* Database::open and validate_database: every table is there, and the version
\* marker that initialize_database inserts in its one transaction.
IsValid(db) == db.state = "valid"

NoVault == [password |-> NoPassword, key |-> 0]
HasVault == vault # NoVault

Spend(kind, max) ==
  /\ spent[kind] < max
  /\ spent' = [spent EXCEPT ![kind] = @ + 1]

Goto(p, l) == pc' = [pc EXCEPT ![p] = l]

\* open returns an error: the locks go with the File values.
Refuse(p) ==
  /\ lock' = Free
  /\ Goto(p, "idle")
  /\ key' = [key EXCEPT ![p] = 0]
  /\ UNCHANGED <<mode, vaultVars, layout, sledVars, redbVars, histVars>>

\* segment files, anything at metadata.db, or a non-empty log, which no store
\* has before its first segment.
IsStoreEmpty ==
  /\ segments = {} /\ ~bare
  /\ layout = "dir"
  /\ ~Exists(sled) /\ conf = "none" /\ ~backup
  /\ ~migrating /\ ~committed /\ ~Exists(staging) /\ ~Exists(active)

-----------------------------------------------------------------------------
\* The directories a user may have: a new one; a sled store, perhaps with an
\* untracked staging file; one of the first nested redb version, which wrote no
\* markers; the earlier file layout; an archive whose database is gone.
NewDir     == [layout |-> "dir", conf |-> "none", sled |-> NoDb,
               active |-> NoDb, staging |-> NoDb, committed |-> FALSE]
SledDir(R) == [NewDir EXCEPT !.conf = "sled", !.sled = Valid(R)]

OldDirs(R) ==
  { SledDir(R),
    [SledDir(R) EXCEPT !.staging = EmptyDb],
    [SledDir({}) EXCEPT !.active = Valid(R)],
    [NewDir EXCEPT !.layout = "archive"] }
  \cup [layout : {"file"}, conf : {"none"}, sled : {NoDb},
        active : {Valid(R)}, staging : {NoDb}, committed : BOOLEAN]

Init ==
  /\ lock = Free
  /\ pc = [p \in Procs |-> "idle"]
  /\ mode = [p \in Procs |-> NoPassword]
  /\ key = [p \in Procs |-> 0]
  /\ backup = FALSE /\ migrating = FALSE
  /\ import = {} /\ lost = NoDb /\ bare = FALSE /\ stray = {}
  /\ spent = [stops |-> 0, writes |-> 0, damage |-> 0]
  /\ \E R \in SUBSET Rows : \E d \in {NewDir} \cup OldDirs(R) :
       /\ owed = IF d = NewDir THEN {} ELSE R
       /\ layout = d.layout /\ conf = d.conf /\ sled = d.sled
       /\ active = d.active /\ staging = d.staging
       /\ committed = d.committed
       /\ \/ /\ vault = NoVault
             /\ segments = IF d = NewDir THEN {} ELSE {0}
             /\ keys = 0
          \/ /\ d # NewDir
             /\ \E pw \in Passwords : vault = [password |-> pw, key |-> 1]
             /\ segments = {1}
             /\ keys = 1

-----------------------------------------------------------------------------
(* StorageEngine::open, open_with_password and init_encrypted.             *)

LockFreeMutant == TRUE  \* mutant: the result of the try_lock is ignored

\* acquire_store_lock: try_lock_exclusive, or "already opened".
LockFree == lock = Free

Start(p, pw) ==
  /\ pc[p] = "idle" /\ LockFree
  /\ lock' = p
  /\ mode' = [mode EXCEPT ![p] = pw]
  /\ Goto(p, "vault")
  /\ UNCHANGED <<key, vaultVars, layout, sledVars, redbVars, histVars>>

\* vault.key exists: VaultKey::unlock.
UnlockVault(p) ==
  /\ pc[p] = "vault" /\ HasVault
  /\ mode[p] = vault.password
  /\ key' = [key EXCEPT ![p] = vault.key]
  /\ Goto(p, "segments")
  /\ UNCHANGED <<lock, mode, vaultVars, layout, sledVars, redbVars, histVars>>

\* No vault.key and no passphrase: a plaintext store.
OpenPlain(p) ==
  /\ pc[p] = "vault" /\ ~HasVault /\ mode[p] = NoPassword
  /\ Goto(p, "segments")
  /\ UNCHANGED <<lock, mode, key, vaultVars, layout, sledVars, redbVars, histVars>>

\* Mutant: whether data exists is not asked.
MayCreateVaultMutant(p) == mode[p] \in Passwords

MayCreateVault(p) == mode[p] \in Passwords /\ IsStoreEmpty

\* VaultKey::create and write_vault_file_atomic: a new master key.
CreateVault(p) ==
  /\ pc[p] = "vault" /\ ~HasVault /\ MayCreateVault(p)
  /\ keys' = keys + 1
  /\ vault' = [password |-> mode[p], key |-> keys + 1]
  /\ key' = [key EXCEPT ![p] = keys + 1]
  /\ Goto(p, "segments")
  /\ UNCHANGED <<lock, mode, segments, bare, layout, sledVars, redbVars, histVars>>

\* PasswordRequired, AuthenticationFailed, or a plaintext store opened with a
\* passphrase.
RefuseVault(p) ==
  /\ pc[p] = "vault"
  /\ \/ HasVault /\ mode[p] # vault.password
     \/ ~HasVault /\ mode[p] # NoPassword /\ ~MayCreateVault(p)
  /\ Refuse(p)

\* SegmentStore::with_vault scans the segments that are there (see SegmentStore), ...
OpenSegments(p) ==
  /\ pc[p] = "segments" /\ segments # {}
  /\ Goto(p, "meta")
  /\ UNCHANGED <<lock, mode, key, vaultVars, layout, sledVars, redbVars, histVars>>

\* ... or creates the first one ...
CreateSegment(p) ==
  /\ pc[p] = "segments" /\ segments = {} /\ ~bare
  /\ bare' = TRUE
  /\ Goto(p, "header")
  /\ UNCHANGED <<lock, mode, key, vault, keys, segments, layout, sledVars, redbVars,
                 histVars>>

\* ... and then writes its header.
WriteHeader(p) ==
  /\ pc[p] = "header"
  /\ segments' = {key[p]} /\ bare' = FALSE
  /\ Goto(p, "meta")
  /\ UNCHANGED <<lock, mode, key, vault, keys, layout, sledVars, redbVars, histVars>>

\* CorruptedSegment: an earlier open was cut between the two.
RefuseSegments(p) == pc[p] = "segments" /\ bare /\ Refuse(p)

-----------------------------------------------------------------------------
(* migration::open                                                         *)

\* The earlier layout keeps the database in a file; its marker is added.
OpenFile(p) ==
  /\ pc[p] = "meta" /\ layout = "file" /\ IsValid(active)
  /\ committed' = TRUE
  /\ Goto(p, "open")
  /\ UNCHANGED <<lock, mode, key, vaultVars, layout, sledVars, migrating, staging,
                 active, import, histVars>>

\* Committed, but the rename that publishes the database did not happen.
PublishStaged(p) ==
  /\ pc[p] = "meta" /\ layout = "dir" /\ committed
  /\ ~Exists(active) /\ IsValid(staging)
  /\ active' = staging /\ staging' = NoDb
  /\ UNCHANGED <<lockVars, vaultVars, layout, sledVars, migrating, committed, import,
                 histVars>>

\* Mutant: only a valid database counts, anything else is imported again.
MayImportMutant == ~IsValid(active)

\* Once there is a database or the commit marker, sled is not read again.
MayImport == ~committed /\ ~Exists(active)

\* The database is there: the committed one, or one to adopt.
OpenActive(p) ==
  /\ pc[p] = "meta" /\ layout = "dir" /\ ~MayImport /\ IsValid(active)
  /\ Goto(p, "block")
  /\ UNCHANGED <<lock, mode, key, vaultVars, layout, sledVars, redbVars, histVars>>

MayRestageMutant == ~Exists(staging)  \* mutant: the marker is not looked at

\* A staging file nobody announced is not ours to remove.
MayRestage == migrating \/ ~Exists(staging)

BeginMigration(p) ==
  /\ pc[p] = "meta" /\ layout = "dir" /\ MayImport /\ MayRestage
  /\ migrating' = TRUE
  /\ Goto(p, "block")
  /\ UNCHANGED <<lock, mode, key, vaultVars, layout, sledVars, committed, staging,
                 active, import, histVars>>

\* A missing, empty or damaged database, an archive without one, or untracked
\* files: fail closed.
RefuseMeta(p) ==
  /\ pc[p] = "meta"
  /\ \/ layout = "file" /\ ~IsValid(active)
     \/ layout = "archive"
     \/ /\ layout = "dir" /\ ~MayImport /\ ~IsValid(active)
        /\ Exists(active) \/ ~IsValid(staging)
     \/ layout = "dir" /\ MayImport /\ ~MayRestage
  /\ Refuse(p)

\* Where open goes on once sled is blocked.
AfterBlock(p) ==
  Goto(p, IF committed THEN "open" ELSE IF Exists(active) THEN "adopt" ELSE "stage")

\* block_sled: nothing to do, ...
AlreadyBlocked(p) ==
  /\ pc[p] = "block" /\ conf = "blocker"
  /\ AfterBlock(p)
  /\ UNCHANGED <<lock, mode, key, vaultVars, layout, sledVars, redbVars, histVars>>

\* ... or the original conf is copied, ...
BackUpConf(p) ==
  /\ pc[p] = "block" /\ conf = "sled"
  /\ backup' = TRUE
  /\ Goto(p, "blocker")
  /\ UNCHANGED <<lock, mode, key, vaultVars, layout, sled, conf, redbVars, histVars>>

\* ... or there is none.
NoConf(p) ==
  /\ pc[p] = "block" /\ conf = "none" /\ (Exists(sled) => backup)
  /\ Goto(p, "blocker")
  /\ UNCHANGED <<lock, mode, key, vaultVars, layout, sledVars, redbVars, histVars>>

\* "Legacy sled configuration is missing; refusing migration".
RefuseBlock(p) ==
  /\ pc[p] = "block" /\ conf = "none" /\ Exists(sled) /\ ~backup
  /\ Refuse(p)

InstallBlocker(p) ==
  /\ pc[p] = "blocker"
  /\ conf' = "blocker"
  /\ AfterBlock(p)
  /\ UNCHANGED <<lock, mode, key, vaultVars, layout, sled, backup, redbVars, histVars>>

\* A database of the first nested version gets its marker.
AdoptActive(p) ==
  /\ pc[p] = "adopt"
  /\ committed' = TRUE
  /\ Goto(p, "open")
  /\ UNCHANGED <<lock, mode, key, vaultVars, layout, sledVars, migrating, staging,
                 active, import, histVars>>

\* An interrupted staging file is removed, ...
RemoveStaging(p) ==
  /\ pc[p] = "stage"
  /\ staging' = NoDb
  /\ Goto(p, "copy")
  /\ UNCHANGED <<lock, mode, key, vaultVars, layout, sledVars, migrating, committed,
                 active, import, histVars>>

\* ... sled is copied with its original conf, ...
CopyLegacy(p) ==
  /\ pc[p] = "copy" /\ (Exists(sled) => backup)
  /\ import' = sled.rows
  /\ Goto(p, "create")
  /\ UNCHANGED <<lock, mode, key, vaultVars, layout, sledVars, migrating, committed,
                 staging, active, histVars>>

CreateStaging(p) ==
  /\ pc[p] = "create"
  /\ staging' = EmptyDb
  /\ Goto(p, "fill")
  /\ UNCHANGED <<lock, mode, key, vaultVars, layout, sledVars, migrating, committed,
                 active, import, histVars>>

\* ... and all its trees are inserted in one transaction, then fsynced.
FillStaging(p) ==
  /\ pc[p] = "fill"
  /\ staging' = Valid(import)
  /\ Goto(p, "commit")
  /\ UNCHANGED <<lock, mode, key, vaultVars, layout, sledVars, migrating, committed,
                 active, import, histVars>>

\* The intent is committed before the database is published.
Commit(p) ==
  /\ pc[p] = "commit"
  /\ committed' = TRUE
  /\ Goto(p, "publish")
  /\ UNCHANGED <<lock, mode, key, vaultVars, layout, sledVars, migrating, staging,
                 active, import, histVars>>

Publish(p) ==
  /\ pc[p] = "publish"
  /\ active' = staging /\ staging' = NoDb
  /\ Goto(p, "open")
  /\ UNCHANGED <<lock, mode, key, vaultVars, layout, sledVars, migrating, committed,
                 import, histVars>>

-----------------------------------------------------------------------------
(* What happens to an open store, and around it.                           *)

\* A transaction of the open store; its chunks carry the process's key.
Write(p, r) ==
  /\ pc[p] = "open" /\ r \notin owed
  /\ Spend("writes", MaxWrites)
  /\ active' = Valid(active.rows \cup {r})
  /\ owed' = owed \cup {r}
  /\ segments' = segments \cup {key[p]}
  /\ UNCHANGED <<lockVars, vault, keys, bare, layout, sledVars, migrating, committed,
                 staging, import, stray, lost>>

Close(p) == pc[p] = "open" /\ Refuse(p)

\* The process is killed or one of its file operations fails.
Stop(p) ==
  /\ pc[p] # "idle"
  /\ Spend("stops", MaxStops)
  /\ lock' = Free
  /\ Goto(p, "idle")
  /\ key' = [key EXCEPT ![p] = 0]
  /\ UNCHANGED <<mode, vaultVars, layout, sledVars, redbVars, owed, stray, lost>>

\* A sled-based binary runs on the directory while no other process does: conf
\* must be its own, or absent where it makes a new store.  A redb database that is
\* there without markers does not stop it.
OldWrite(r) ==
  /\ lock = Free /\ layout = "dir" /\ ~bare /\ r \notin owed
  /\ conf = "sled" \/ (conf = "none" /\ ~Exists(sled))
  /\ Spend("writes", MaxWrites)
  /\ conf' = "sled"
  /\ sled' = Valid(sled.rows \cup {r})
  /\ segments' = segments \cup {vault.key}
  /\ owed' = owed \cup {r}
  /\ stray' = IF Exists(active) THEN stray \cup {r} ELSE stray
  /\ UNCHANGED <<lockVars, vault, keys, bare, layout, backup, redbVars, lost>>

\* The database file is lost, emptied or overwritten while nobody uses it ...
DamageDb ==
  /\ lock = Free /\ committed /\ IsValid(active)
  /\ Spend("damage", MaxDamage)
  /\ active' \in {NoDb, EmptyDb, Damaged}
  /\ lost' = active
  /\ UNCHANGED <<lockVars, vaultVars, layout, sledVars, migrating, committed, staging,
                 import, owed, stray>>

\* ... and put back from a copy.
RestoreDb ==
  /\ lock = Free /\ IsValid(lost)
  /\ active' = lost /\ lost' = NoDb
  /\ UNCHANGED <<lockVars, vaultVars, layout, sledVars, migrating, committed, staging,
                 import, owed, stray, spent>>

\* The sled settings are deleted while nobody uses the store.
LoseConf ==
  /\ lock = Free /\ conf = "sled"
  /\ Spend("damage", MaxDamage)
  /\ conf' = "none"
  /\ UNCHANGED <<lockVars, vaultVars, layout, sled, backup, redbVars, owed, stray, lost>>

-----------------------------------------------------------------------------
MigrationStep(p) ==
  \/ BeginMigration(p) \/ RemoveStaging(p) \/ CopyLegacy(p) \/ CreateStaging(p)
  \/ FillStaging(p) \/ Commit(p) \/ Publish(p)

BlockStep(p) ==
  AlreadyBlocked(p) \/ BackUpConf(p) \/ NoConf(p) \/ RefuseBlock(p) \/ InstallBlocker(p)

SegmentStep(p) ==
  OpenSegments(p) \/ CreateSegment(p) \/ WriteHeader(p) \/ RefuseSegments(p)

\* Everything between the lock and the return of open.
OpenStep(p) ==
  \/ UnlockVault(p) \/ OpenPlain(p) \/ CreateVault(p) \/ RefuseVault(p)
  \/ SegmentStep(p)
  \/ OpenFile(p) \/ PublishStaged(p) \/ OpenActive(p) \/ RefuseMeta(p)
  \/ MigrationStep(p) \/ BlockStep(p) \/ AdoptActive(p)

ProcStep(p) ==
  \/ \E pw \in Passwords \cup {NoPassword, TooShort} : Start(p, pw)
  \/ OpenStep(p)
  \/ \E r \in Rows : Write(p, r)
  \/ Close(p)
  \/ Stop(p)

Next ==
  \/ \E p \in Procs : ProcStep(p)
  \/ \E r \in Rows : OldWrite(r)
  \/ DamageDb \/ RestoreDb \/ LoseConf

Spec == Init /\ [][Next]_vars

\* A process that opens the store goes on; somebody keeps trying with the
\* store's own passphrase, and a damaged database is put back.
Fairness ==
  /\ \A p \in Procs : WF_vars(OpenStep(p)) /\ SF_vars(Start(p, vault.password))
  /\ SF_vars(RestoreDb)

FairSpec == Spec /\ Fairness

-----------------------------------------------------------------------------
(* Properties                                                              *)

Pcs == {"idle", "vault", "segments", "header", "meta", "block", "blocker", "adopt", "stage",
        "copy", "create", "fill", "commit", "publish", "open"}

\* Every variable has the type the code gives it; whoever is past the lock holds it.
TypeOK ==
  /\ lock \in Procs \cup {Free}
  /\ pc \in [Procs -> Pcs]
  /\ \A p \in Procs : pc[p] # "idle" => lock = p
  /\ mode \in [Procs -> Passwords \cup {NoPassword, TooShort}]
  /\ key \in [Procs -> Nat] /\ keys \in Nat /\ segments \subseteq Nat
  /\ vault \in [password : Passwords \cup {NoPassword}, key : Nat]
  /\ layout \in {"dir", "file", "archive"}
  /\ conf \in {"none", "sled", "blocker"}
  /\ {backup, migrating, committed, bare} \subseteq BOOLEAN
  /\ {sled, staging, active, lost} \subseteq Database
  /\ import \subseteq Rows /\ owed \subseteq Rows /\ stray \subseteq owed
  /\ spent \in [stops : 0..MaxStops, writes : 0..MaxWrites, damage : 0..MaxDamage]

(* An opened store has every row that any version reported as written, but *)
(* for those that an older binary wrote to sled beside a redb database     *)
(* without markers, which open adopts without a look at sled: wherever the *)
(* migration is cut and resumed, sled is imported completely, with what    *)
(* older binaries added in between; once the commit marker is there, a     *)
(* missing or damaged database is never rebuilt from it, and no older      *)
(* binary can write (migration::open, block_sled).                         *)
NothingLost == \A p \in Procs : pc[p] = "open" => owed \ stray \subseteq active.rows

(* All segments of a store are written with the key in its vault.key, or   *)
(* all in plaintext when there is none, whichever of open, open_with_      *)
(* password and init_encrypted is called, in whatever order they are cut:  *)
(* there are no hybrid stores and a master key is never replaced.          *)
OneKey == segments \subseteq {vault.key}

\* What needs a person: see migration::open and block_sled.
NeedsManualRecovery ==
  \/ layout = "archive"
  \/ layout = "dir" /\ ~committed /\ ~Exists(active) /\ ~migrating /\ Exists(staging)
  \/ conf = "none" /\ Exists(sled) /\ ~backup

(* An interrupted open, migration or initialisation is completed by later  *)
(* ones: a cut of open leaves a directory that every later open refuses    *)
(* only between the creation of the first segment file and its header      *)
(* (open_internal, migration::open, recover_and_index).                    *)
Reopens == []<>(bare \/ NeedsManualRecovery \/ \E p \in Procs : pc[p] = "open")
=============================================================================
