------------------------------- MODULE Desktop -------------------------------
(***************************************************************************)
(* The desktop process (cli/src/ui/server.rs): one thread per request of   *)
(* the dashboard, the controller of the directory watcher, the mounted     *)
(* drive (Mount) and the shared links (Shares), all over one store, and    *)
(* the end of the process at any moment.  A FUSE mount (oos-lite mount) is *)
(* a process of its own that has the store to itself.                      *)
(*                                                                         *)
(* What the watcher and the file requests do to the store are steps of     *)
(* VersionedStore.  Opening the WebDAV port, the drive letter, the tunnel  *)
(* and the requests that only read are left out.                           *)
(***************************************************************************)
EXTENDS Mount, Shares

CONSTANTS
  Dirs,          \* directories to watch
  FilesAtStart,  \* the files of the store when the process starts
  Budgets        \* bounds: how often each kind of step may be taken, one record
                 \* for each way to divide the exploration

Kinds == {"changes", "requests", "shareCalls", "watchCalls", "downloads", "faults",
          "crashes"}

ASSUME DesktopAssumption ==
  /\ Budgets \subseteq [Kinds -> Nat]
  /\ FilesAtStart \in [Names -> FileRecords]
  /\ Nobody \notin Callers

VARIABLES
  ctrl,          \* WatcherController: who holds its lock, the handle, watch_dir
                 \* and (history) whether its last write to config succeeded
  live,          \* the watchers whose threads run
  config,        \* the persisted configuration: its directory
  left           \* what is left of the bounds

watchVars == <<ctrl, live, config>>
vars == <<storeVars, mountVars, shareVars, watchVars, left>>

NoWatcher == [by |-> Nobody, dir |-> Nobody]

Spend(kind) == left[kind] > 0 /\ left' = [left EXCEPT ![kind] = @ - 1]

\* A WebDAV mount comes with the desktop; a FUSE mount with nothing else.
Init ==
  /\ files = FilesAtStart /\ snaps = {} /\ readable = Referenced
  /\ \E m \in {"webdav", "fuse"} : MountAs(m)
  /\ SharesInit
  /\ ctrl = [lock |-> Nobody, handle |-> NoWatcher, dir |-> Nobody, saved |-> TRUE]
  /\ live = {} /\ config = Nobody
  /\ left \in Budgets

-----------------------------------------------------------------------------
(* /api/watcher/start and /api/watcher/stop                                *)

CtrlStep(c, l) ==
  /\ CGoto(c, l)
  /\ UNCHANGED <<shares, shareFile, saving, json, target, public, kept, lossy>>

\* Both take the controller's lock and keep it to the end.
LockCtrl(c) ==
  /\ cpc[c] = "idle" /\ ctrl.lock = Nobody
  /\ ctrl' = [ctrl EXCEPT !.lock = c]
  /\ \E l \in {"stop", "restart"} : CtrlStep(c, l)
  /\ UNCHANGED <<live, config>>

\* Mutant: stop() does not wait for the thread to end.
JoinedMutant(h) == TRUE

\* h.stop() returns when the watcher's thread has ended.
Joined(h) == h \notin live

\* The old watcher is told to stop; its thread may be in the middle of a put.
WatcherEnds ==
  /\ \E c \in Callers : cpc[c] \in {"stop", "restart"}
  /\ live \cap {ctrl.handle} # {}
  /\ live' = live \ {ctrl.handle}
  /\ UNCHANGED <<ctrl, config>>

StopWatcher(c) ==
  /\ cpc[c] = "stop" /\ Joined(ctrl.handle)
  /\ ctrl' = [ctrl EXCEPT !.handle = NoWatcher, !.lock = Nobody]
  /\ CtrlStep(c, "idle")
  /\ UNCHANGED <<live, config>>

StopOld(c) ==
  /\ cpc[c] = "restart" /\ Joined(ctrl.handle)
  /\ ctrl' = [ctrl EXCEPT !.handle = NoWatcher]
  /\ CtrlStep(c, "start")
  /\ UNCHANGED <<live, config>>

\* WatcherService::start; saving the configuration may fail unnoticed.
StartNew(c, saved) ==
  /\ cpc[c] = "start"
  /\ \E d \in Dirs :
       LET h == [by |-> c, dir |-> d] IN
       /\ live' = live \cup {h}
       /\ ctrl' = [lock |-> Nobody, handle |-> h, dir |-> d, saved |-> saved]
       /\ config' = IF saved THEN d ELSE config
  /\ CtrlStep(c, "idle")

\* It fails: the old watcher is gone, its directory stays in the controller.
StartFails(c) ==
  /\ cpc[c] = "start"
  /\ ctrl' = [ctrl EXCEPT !.lock = Nobody]
  /\ CtrlStep(c, "idle")
  /\ UNCHANGED <<live, config>>

-----------------------------------------------------------------------------
\* The process ends, and start_ui_server mounts the store, loads the shares
\* and the configuration, and starts no watcher.
Restart ==
  /\ Spend("crashes")
  /\ LoadShares
  /\ tree' = [files |-> files, snaps |-> snaps]
  /\ newTree' = EmptyTree /\ refresher' = Nobody
  /\ vfsReaders' = {} /\ opReaders' = {} /\ cache' = EmptyCache
  /\ wpc' = [w \in Workers |-> "idle"] /\ read' = [w \in Workers |-> NoRead]
  /\ ctrl' = [lock |-> Nobody, handle |-> NoWatcher, dir |-> config, saved |-> TRUE]
  /\ live' = {}
  /\ UNCHANGED <<storeVars, mode, config>>

\* The store changes: files are put, renamed, deleted, pruned, collected.
ChangeStore ==
  /\ Spend("changes")
  /\ StoreStep /\ storeVars' # storeVars
  /\ ObserveStore
  /\ UNCHANGED <<mountVars, watchVars, shares, shareFile, saving, json, cpc, target, kept,
                 lossy>>

\* A request or a download begins.
BeginRequest ==
  /\ Spend("requests")
  /\ \E w \in Workers : Receive(w) \/ FuseRead(w)
  /\ UNCHANGED <<storeVars, shareVars, watchVars>>

BeginShareCall ==
  /\ Spend("shareCalls")
  /\ \E c \in Callers : AddShare(c) \/ RevokeShare(c)
  /\ UNCHANGED <<storeVars, mountVars, watchVars>>

BeginWatchCall ==
  /\ Spend("watchCalls")
  /\ \E c \in Callers : LockCtrl(c)
  /\ UNCHANGED <<storeVars, mountVars>>

AnswerDownload ==
  /\ Spend("downloads")
  /\ BeginDownload
  /\ UNCHANGED <<storeVars, mountVars, watchVars>>

\* One read, write or start fails.
Fault ==
  /\ Spend("faults")
  /\ \/ /\ \E w \in Workers : BuildFails(w) \/ FetchFails(w)
        /\ UNCHANGED <<shareVars, watchVars>>
     \/ (\E c \in Callers : SaveFails(c)) /\ UNCHANGED <<mountVars, watchVars>>
     \/ PackFails /\ UNCHANGED <<mountVars, watchVars>>
     \/ (\E c \in Callers : StartFails(c) \/ StartNew(c, FALSE)) /\ UNCHANGED mountVars
  /\ UNCHANGED storeVars

MountWorks(w) ==
  /\ WorkerStep(w)
  /\ UNCHANGED <<storeVars, shareVars, watchVars, left>>

CallerWorks(c) ==
  /\ \/ CallerSaves(c) /\ UNCHANGED watchVars
     \/ StopWatcher(c) \/ StopOld(c) \/ StartNew(c, TRUE)
  /\ UNCHANGED <<storeVars, mountVars, left>>

PublicWorks ==
  /\ PublicStep
  /\ UNCHANGED <<storeVars, mountVars, watchVars, left>>

WatcherStops ==
  /\ WatcherEnds
  /\ UNCHANGED <<storeVars, mountVars, shareVars, left>>

\* A thread that has begun something goes on with it.
Work ==
  \/ \E w \in Workers : MountWorks(w)
  \/ \E c \in Callers : CallerWorks(c)
  \/ PublicWorks \/ WatcherStops

Next ==
  \/ BeginRequest
  \/ /\ mode = "webdav"
     /\ \/ BeginShareCall \/ BeginWatchCall \/ AnswerDownload
        \/ ChangeStore \/ Restart
  \/ Fault
  \/ Work

\* While a thread can run, some thread runs.
Spec == Init /\ [][Next]_vars /\ WF_vars(Work)

-----------------------------------------------------------------------------
CPcs == {"idle", "added", "revoked", "saveAdded", "saveRevoked", "writeAdded",
         "writeRevoked", "stop", "restart", "start"}

(* The state has its type; last_refresh is held by the one worker that     *)
(* refreshes the tree, the controller by the one caller that uses it.      *)
TypeOK ==
  /\ IsTree(tree) /\ IsTree(newTree)
  /\ readable \subseteq Contents
  /\ wpc \in [Workers -> WPcs] /\ cpc \in [Callers -> CPcs]
  /\ ToSet(cache.order) \subseteq Chunks
  /\ IdsIn(shares) \subseteq kept.drawn
  /\ {w \in Workers : wpc[w] \in {"names", "snaps", "swap"}} = {refresher} \ {Nobody}
  /\ {c \in Callers : cpc[c] \in {"stop", "restart", "start"}} = {ctrl.lock} \ {Nobody}

(* No two watchers ever run, for they would both store what happens to the *)
(* same files; while nobody holds the controller, the one that runs is the *)
(* one it can stop, and it watches the directory the controller shows and, *)
(* unless a write of it failed, the one the configuration keeps.           *)
OneWatcher ==
  /\ Cardinality(live) <= 1
  /\ ctrl.lock = Nobody =>
       /\ live = {ctrl.handle} \ {NoWatcher}
       /\ \A h \in live : h.dir = ctrl.dir
       /\ ctrl.saved => ctrl.dir = config

(* Every request a worker, a caller or the public server takes is          *)
(* answered: readers of the tree, the refresher that waits for them and    *)
(* holds last_refresh, savers, and callers that wait for a watcher to end  *)
(* never block each other for good.                                        *)
Pending ==
  \/ \E w \in Workers : wpc[w] # "idle"
  \/ \E c \in Callers : cpc[c] # "idle"
  \/ public.pc # "idle"

RequestsAnswered == Pending ~> ~Pending
=============================================================================
