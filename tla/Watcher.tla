------------------------------ MODULE Watcher ------------------------------
(***************************************************************************)
(* The directory watcher of oos-lite (core/src/watcher/service.rs): an     *)
(* event thread turns file-system notifications into pending updates and   *)
(* renames, a worker thread applies them to the store and reconciles the   *)
(* whole directory by scanning it, while the directory goes on changing    *)
(* and other clients use the store.                                        *)
(*                                                                         *)
(* A path is the sequence of its components below the watched root, which  *)
(* is also its logical name in the store.  A directory exists while a file *)
(* is below it.  The engine is used through single calls: a put, and       *)
(* update_watched_prefix (engine.rs), are one step each (module Engine has *)
(* their inside).  Times are abstracted: an update may be due, and the     *)
(* scan interval over, at any moment; a rename half may expire, and a file *)
(* may have been put too recently (cooldown_window), at any moment.        *)
(***************************************************************************)
EXTENDS Integers, FiniteSets, SequencesExt

CONSTANTS
  Paths,        \* paths that may hold a file
  Dirs,         \* directories below the root
  Ignored,      \* paths and directories the ignore rules exclude
  Contents,     \* file contents
  Before,       \* what may be in the directory at first
  NoFile,       \* disk: there is no file at the path
  Nowhere,      \* target of a rename that only removes
  Trackers,     \* cookies that pair the halves of a rename
  Styles,       \* how the platform reports a rename
  MaxChanges,   \* bound: changes of the directory
  MaxClient,    \* bound: calls of other clients
  MaxFaults,    \* bound: I/O errors, lost events, expired halves
  MaxStops,     \* bound: stops, kills and manual scans
  MaxDisturbances  \* bound: all of these together

Nodes == Paths \cup Dirs

ASSUME PathAssumption ==
  /\ Nodes \subseteq Seq(UNION {{n[i] : i \in DOMAIN n} : n \in Nodes})
  /\ Paths # {} /\ Ignored \subseteq Nodes
  /\ NoFile \notin Contents
  /\ Before \subseteq [Paths -> Contents \cup {NoFile}]
  /\ Nowhere \notin Nodes /\ 0 \notin Trackers
  /\ Styles \subseteq {"both", "tracked", "untracked", "any"}
  /\ {MaxChanges, MaxClient, MaxFaults, MaxStops, MaxDisturbances} \subseteq Nat

VARIABLES
  \* --- the directory and its notifications
  disk,         \* path -> content
  channel,      \* notifications sent and not yet received
  \* --- Pending, shared by the two threads under its mutex
  updates,      \* paths to look at again
  renames,      \* renames and removals to apply, in order
  froms,        \* rename halves that wait for the other one
  moved,        \* generation has changed since the scan began
  \* --- WatcherService and Progress
  running, reconcile, errors,
  \* --- the store
  names,        \* name -> object id, 0 when unbound
  objects,      \* latest content of each object
  tracked,      \* the WATCHER_FILES table
  \* --- the worker
  pc,           \* where it is
  stage,        \* "first" pass, in the "loop", or a "manual" scan
  scanning,     \* inside scan()
  path,         \* the file being ingested
  toVisit, seen, walk,   \* the walk of the directory
  dirty,        \* work done since last_sync_at
  \* --- history
  gone,         \* paths without a file at some time since they were read
  home,         \* the object a file had when all was last in order
  spent

dirVars    == <<disk, channel>>
pendVars   == <<updates, renames, froms, moved>>
statVars   == <<running, reconcile, errors>>
storeVars  == <<names, objects, tracked>>
walkVars   == <<toVisit, seen, walk>>
workVars   == <<pc, stage, scanning, path, walkVars, dirty>>
histVars   == <<gone, home>>
vars == <<dirVars, pendVars, statVars, storeVars, workVars, histVars, spent>>

-----------------------------------------------------------------------------
(* Paths, files and queues.                                                *)

Under(p, n)  == IsPrefix(n, p)
FilesUnder(n) == {p \in Paths : Under(p, n)}
Exists(n)    == \E p \in FilesUnder(n) : disk[p] # NoFile

\* The path p has after what is below `from` has moved to `to`.
Moved(p, from, to) == to \o SubSeq(p, Len(from) + 1, Len(p))

\* Neither is the other or inside the other.
Apart(n, m) == ~Under(n, m) /\ ~Under(m, n)

\* Worker::included, which looks at every parent directory as well.
Included(n) == \A i \in Ignored : ~Under(n, i)

\* History: `again` says that the rename was queued before, from its halves;
\* and a "to" carries in its field `to` where the file came from.
Rename == [from : Nodes, to : Nodes \cup {Nowhere}, again : BOOLEAN]
Event  == [kind : {"change", "remove", "both", "from", "to", "lost"},
           path : Nodes, to : Nodes, tracker : Trackers \cup {0}]
Half   == [path : Nodes, tracker : Trackers \cup {0}]

Removal(n) == [from |-> n, to |-> Nowhere, again |-> FALSE]
HasRenames == renames # <<>> \/ froms # <<>>
NothingPending == updates = {} /\ ~HasRenames
Cancelled  == stage # "manual" /\ ~running

Spend(kind, max) ==
  /\ spent[kind] < max
  /\ spent.changes + spent.client + spent.faults + spent.stops < MaxDisturbances
  /\ spent' = [spent EXCEPT ![kind] = @ + 1]

\* The key of an error that is not about one path.
Alert(k) == <<"!", k>>

\* Progress::error and clear_error; the phase shown follows from these.
Report(errs) == errors' = errs

\* All notifications are in and worked off, without errors.
Settled == /\ running /\ channel = <<>> /\ NothingPending
           /\ ~reconcile /\ errors = {}

Forget == home' = [p \in Paths |-> 0]

\* The value of `path` while no file is being ingested.
AnyPath == CHOOSE p \in Paths : TRUE

\* The walk is over.
WalkDone == toVisit' = {} /\ seen' = {} /\ walk' = "ok"

Init ==
  /\ disk \in Before
  /\ channel = <<>> /\ updates = {} /\ renames = <<>> /\ froms = <<>>
  /\ moved = FALSE /\ running = FALSE /\ reconcile = FALSE
  /\ errors = {}
  /\ names = [p \in Paths |-> 0] /\ objects = <<>> /\ tracked = {}
  /\ pc = "off" /\ stage = "first" /\ scanning = FALSE
  /\ path = AnyPath
  /\ toVisit = {} /\ seen = {} /\ walk = "ok"
  /\ dirty = TRUE
  /\ gone = {} /\ home = [p \in Paths |-> 0]
  /\ spent = [changes |-> 0, client |-> 0, faults |-> 0, stops |-> 0]

-----------------------------------------------------------------------------
(* The directory changes and the platform notifies, while it is watched.   *)

Ev(kind, p, to, tracker) ==
  [kind |-> kind, path |-> p, to |-> to, tracker |-> tracker]

Notify(events) == channel' = IF running THEN channel \o events ELSE <<>>

SetDisk(d) ==
  /\ disk' = d
  /\ gone' = gone \cup {p \in Paths : d[p] = NoFile}
  /\ Spend("changes", MaxChanges)
  /\ UNCHANGED <<pendVars, statVars, storeVars, workVars>>

\* A rename that is reported whole after its halves (notify on Linux).
IsRepeat(e) == e.kind = "both" /\ e.tracker # 0

\* The second half of a rename with nothing behind it but its repetition.
LastTo == {i \in DOMAIN channel :
             /\ channel[i].kind = "to"
             /\ \A k \in (i + 1)..Len(channel) : IsRepeat(channel[k])}

\* A file is written.  In a new directory only the directory may be reported.
\* A write to a file that was there may be reported between two halves.
Write(p, c) ==
  /\ disk[p] # c
  /\ SetDisk([disk EXCEPT ![p] = c])
  /\ \/ \E n \in Nodes : /\ Under(p, n) /\ (n = p \/ ~Exists(n))
                         /\ Notify(<<Ev("change", n, n, 0)>>)
     \/ \E i \in LastTo : /\ running /\ disk[p] # NoFile
                          /\ channel' = InsertAt(channel, i, Ev("change", p, p, 0))
  /\ home' = IF disk[p] = NoFile THEN [home EXCEPT ![p] = 0] ELSE home

\* A file or directory is removed, or moved out of the root.
RemoveNode(n) ==
  /\ Exists(n)
  /\ SetDisk([p \in Paths |-> IF Under(p, n) THEN NoFile ELSE disk[p]])
  /\ \/ Notify(<<Ev("remove", n, n, 0)>>)
     \/ \E t \in Trackers : Notify(<<Ev("from", n, n, t)>>)
  /\ home' = [p \in Paths |-> IF Under(p, n) THEN 0 ELSE home[p]]

\* What notify sends for a rename: one event, as in the tests ("both"), two
\* halves (Windows), two halves and then the whole (Linux), or only that both
\* names have changed (macOS).
MoveEvents(from, to, style) ==
  CASE style = "both" -> {<<Ev("both", from, to, 0)>>}
    [] style = "untracked" -> {<<Ev("from", from, from, 0), Ev("to", to, from, 0)>>}
    [] style = "tracked" -> {<<Ev("from", from, from, t), Ev("to", to, from, t),
                               Ev("both", from, to, t)>> : t \in Trackers}
    [] style = "any" -> {<<Ev("change", from, from, 0), Ev("change", to, to, 0)>>}

\* Bound: the files below `from` have their places below `to` in Paths.
HasRoom(from, to) ==
  \A p \in FilesUnder(from) : disk[p] # NoFile => Moved(p, from, to) \in Paths

Move(from, to) ==
  /\ Exists(from) /\ Apart(from, to) /\ HasRoom(from, to)
  /\ {from, to} \subseteq Paths \/ ({from, to} \subseteq Dirs /\ ~Exists(to))
  /\ LET source(p) == Moved(p, to, from)
         takes(f, none) == [p \in Paths |->
                              IF ~Under(p, to) /\ ~Under(p, from) THEN f[p]
                              ELSE IF Under(p, to) /\ source(p) \in Paths
                                   THEN f[source(p)] ELSE none]
     IN /\ SetDisk(takes(disk, NoFile))
        /\ \E s \in Styles :
             /\ \E e \in MoveEvents(from, to, s) : Notify(e)
             /\ home' = [p \in Paths |->
                           IF Included(p) /\ (s = "any" => ~Under(p, to))
                           THEN takes(home, 0)[p] ELSE 0]

\* The kernel's queue overflows: the rest is dropped and an error sent.
LoseEvents ==
  /\ running /\ channel # <<>> /\ Spend("faults", MaxFaults)
  /\ LET n == CHOOSE n \in Nodes : TRUE IN channel' = <<Ev("lost", n, n, 0)>>
  /\ Forget
  /\ UNCHANGED <<disk, pendVars, statVars, storeVars, workVars, gone>>

-----------------------------------------------------------------------------
(* Other clients of the store.                                             *)

\* put_file_named: a new version of the object the name has, or a new object.
PutNamed(p, c) ==
  IF names[p] # 0
  THEN objects' = [objects EXCEPT ![names[p]] = c] /\ names' = names
  ELSE /\ objects' = Append(objects, c)
       /\ names' = [names EXCEPT ![p] = Len(objects) + 1]

ClientPut(p, c) ==
  /\ Spend("client", MaxClient) /\ Forget /\ PutNamed(p, c)
  /\ UNCHANGED <<dirVars, pendVars, statVars, tracked, workVars, gone>>

ClientUnbind(p) ==
  /\ names[p] # 0 /\ Spend("client", MaxClient) /\ Forget
  /\ names' = [names EXCEPT ![p] = 0]
  /\ UNCHANGED <<dirVars, pendVars, statVars, objects, tracked, workVars, gone>>

-----------------------------------------------------------------------------
(* The event thread: receive_event, under the mutex of Pending.            *)

Receive(kind) ==
  /\ running /\ channel # <<>> /\ Head(channel).kind = kind
  /\ channel' = Tail(channel)
  /\ UNCHANGED <<disk, storeVars, workVars, gone, spent, running>>

ReceiveChange ==
  /\ Receive("change")
  /\ updates' = updates \cup {Head(channel).path} /\ moved' = TRUE
  /\ UNCHANGED <<renames, froms, reconcile, errors, home>>

ReceiveRemove ==
  /\ Receive("remove")
  /\ renames' = Append(renames, Removal(Head(channel).path)) /\ moved' = TRUE
  /\ UNCHANGED <<updates, froms, reconcile, errors, home>>

ReceiveBoth ==
  /\ Receive("both")
  /\ LET e == Head(channel) IN
     renames' = Append(renames, [from |-> e.path, to |-> e.to, again |-> IsRepeat(e)])
  /\ moved' = TRUE
  /\ UNCHANGED <<updates, froms, reconcile, errors, home>>

\* A removal is concluded from a half that stayed alone.  It may come too
\* late: notifications are on their way, or something is at the path again.
Conclude(n, rest) ==
  /\ renames' = Append(renames, Removal(n))
  /\ IF rest # <<>> \/ Exists(n) THEN Forget ELSE UNCHANGED home

\* A tracker that is still waiting is taken over: its path has left.
ReceiveFrom ==
  LET e == Head(channel)
      half == [path |-> e.path, tracker |-> e.tracker]
      same == {i \in DOMAIN froms : froms[i].tracker = e.tracker /\ e.tracker # 0}
  IN /\ Receive("from")
     /\ \/ /\ same = {}
           /\ froms' = Append(froms, half) /\ UNCHANGED <<renames, home>>
        \/ \E i \in same :
             /\ Conclude(froms[i].path, Tail(channel))
             /\ froms' = Append(RemoveAt(froms, i), half)
     /\ moved' = TRUE
     /\ UNCHANGED <<updates, reconcile, errors>>

\* The halves a "to" may complete: the one with its tracker, or without one.
Mates(t) == {i \in DOMAIN froms : froms[i].tracker = t}

\* The first of them completes the rename.
ReceiveTo ==
  LET e == Head(channel)
      mates == Mates(e.tracker)
  IN /\ Receive("to")
     /\ \/ /\ mates = {}
           /\ updates' = updates \cup {e.path}
           /\ UNCHANGED <<renames, froms>>
        \/ \E i \in mates :
             /\ \A k \in mates : i <= k
             /\ renames' = Append(renames, [from |-> froms[i].path, to |-> e.path,
                                            again |-> FALSE])
             /\ froms' = RemoveAt(froms, i)
             /\ UNCHANGED updates
     /\ moved' = TRUE
     /\ UNCHANGED <<reconcile, errors, home>>

\* The notifier reports an error: events may be missing, so scan again.
ReceiveLost ==
  /\ Receive("lost")
  /\ Report(errors \cup {Alert("events")}) /\ reconcile' = TRUE
  /\ UNCHANGED <<pendVars, home>>

\* RENAME_TIMEOUT is over for a half: its path has left.  Looked at with each
\* event and each rename, also in a manual scan.
ExpireRename(i) ==
  /\ running \/ (stage = "manual" /\ pc = "renames")
  /\ i \in DOMAIN froms
  /\ froms[i].tracker = 0 => \A k \in 1..(i - 1) : froms[k].tracker # 0
  /\ Conclude(froms[i].path, channel)
  /\ froms' = RemoveAt(froms, i)
  /\ IF \E k \in DOMAIN channel :
          channel[k].kind = "to" /\ channel[k].tracker = froms[i].tracker
     THEN Spend("faults", MaxFaults) ELSE UNCHANGED spent
  /\ UNCHANGED <<dirVars, updates, moved, statVars, storeVars, workVars, gone>>

-----------------------------------------------------------------------------
(* The service: start, stop, a manual scan, the end of the process.        *)

\* Worker::new of a run: nothing walked yet.
NewWorker(st) ==
  /\ stage' = st /\ pc' = "renames" /\ dirty' = TRUE
  /\ UNCHANGED <<scanning, path, walkVars>>

Start ==
  /\ pc = "off" /\ ~running
  /\ NewWorker("first")
  /\ running' = TRUE /\ channel' = <<>> /\ reconcile' = FALSE
  /\ updates' = {} /\ renames' = <<>> /\ froms' = <<>>
  /\ errors' = {}
  /\ UNCHANGED <<disk, moved, storeVars, histVars, spent>>

Stop ==
  /\ running /\ Spend("stops", MaxStops) /\ Forget
  /\ running' = FALSE /\ channel' = <<>>
  /\ UNCHANGED <<disk, pendVars, reconcile, errors, storeVars, workVars, gone>>

\* The worker sees the flag at the head of each of its loops and returns.
WorkerStops ==
  /\ Cancelled /\ pc \in {"renames", "decide", "scan", "walk", "updates"}
  /\ pc' = "off" /\ scanning' = FALSE /\ WalkDone
  /\ UNCHANGED <<dirVars, pendVars, running, reconcile, errors, storeVars,
                 stage, path, dirty, histVars, spent>>

\* reconciliation_scan: makes the updates left by an earlier run due.
ManualScan ==
  /\ pc = "off" /\ ~running /\ Spend("stops", MaxStops)
  /\ NewWorker("manual")
  /\ UNCHANGED <<dirVars, pendVars, statVars, storeVars, histVars>>

\* The process ends at any step; the tables are durable at each commit.
Kill ==
  /\ pc # "off" /\ Spend("stops", MaxStops) /\ Forget
  /\ running' = FALSE /\ channel' = <<>> /\ reconcile' = FALSE
  /\ updates' = {} /\ renames' = <<>> /\ froms' = <<>> /\ moved' = FALSE
  /\ errors' = {}
  /\ pc' = "off" /\ scanning' = FALSE /\ path' = AnyPath /\ WalkDone
  /\ UNCHANGED <<disk, storeVars, stage, dirty, gone>>

-----------------------------------------------------------------------------
(* process_renames and apply_rename.                                       *)

Goto(l) == pc' = l /\ UNCHANGED <<stage, scanning, path, walkVars>>

\* scan() returns: what its callers do with the result.
ScanReturns(ok, errs) ==
  /\ Report(IF ok /\ stage = "loop" THEN errs \ {Alert("events")} ELSE errs)
  /\ scanning' = FALSE
  /\ stage' = IF stage = "first" THEN "loop" ELSE stage
  /\ pc' = CASE stage = "first" -> "renames"
             [] stage = "loop" -> "updates"
             [] stage = "manual" -> "off"
  /\ WalkDone /\ UNCHANGED <<running, reconcile, path>>

RenamesDone ==
  /\ pc = "renames" /\ ~Cancelled /\ renames = <<>>
  /\ \/ scanning /\ ScanReturns(TRUE, errors)
     \/ /\ ~scanning
        /\ Goto(CASE stage = "first" -> "scan" [] stage = "loop" -> "decide"
                  [] stage = "manual" -> "updates")
        /\ UNCHANGED statVars
  /\ UNCHANGED <<dirVars, pendVars, storeVars, dirty, histVars, spent>>

RenamesFail(errs) ==
  \/ scanning /\ ScanReturns(FALSE, errs \cup {Alert("scan")})
  \/ /\ ~scanning
     /\ Goto(CASE stage = "first" -> "scan" [] stage = "loop" -> "decide"
               [] stage = "manual" -> "off")
     /\ Report(IF stage = "loop" THEN errs \cup {Alert("rename")} ELSE errs)
     /\ UNCHANGED <<running, reconcile>>

\* A path that should be gone but is there (again) is only looked at later.
IsStillThereMutant(r) == FALSE  \* mutant: the path is not looked at
IsStillThere(r) == r.to = Nowhere /\ Included(r.from) /\ Exists(r.from)

RenameStillThere ==
  /\ pc = "renames" /\ ~Cancelled /\ renames # <<>>
  /\ IsStillThere(Head(renames))
  /\ updates' = updates \cup {Head(renames).from}
  /\ renames' = Tail(renames)
  /\ Report(errors \ {Alert("rename")}) /\ dirty' = TRUE
  /\ UNCHANGED <<dirVars, froms, moved, running, reconcile, storeVars, pc, stage,
                 scanning, path, walkVars, histVars, spent>>

RenameBegin ==
  /\ pc = "renames" /\ ~Cancelled /\ renames # <<>>
  /\ ~IsStillThere(Head(renames))
  /\ Goto("rename") /\ dirty' = TRUE
  /\ UNCHANGED <<dirVars, pendVars, statVars, storeVars, histVars, spent>>

\* to_name: nothing when the target is ignored.
ToName(r) == IF r.to # Nowhere /\ Included(r.to) THEN r.to ELSE Nowhere

\* update_watched_prefix: the names it changes, all of them below a renamed
\* path but only the watcher's own below a removed one, and their new names.
Affected(r) == {p \in FilesUnder(r.from) :
                  /\ Included(r.from) /\ names[p] # 0
                  /\ ToName(r) = Nowhere => p \in tracked}
Target(p, r) == IF ToName(r) # Nowhere /\ Included(Moved(p, r.from, r.to))
                THEN Moved(p, r.from, r.to) ELSE Nowhere
TargetsMutant(r) == {Target(p, r) : p \in Affected(r)}
                                  \* mutant: names that lead nowhere as well
Targets(r) == {Target(p, r) : p \in Affected(r)} \ {Nowhere}

\* update_watcher_bindings, one transaction.
UpdateBindingsMutant(r) ==  \* mutant: a name that is bound is not overwritten
  LET movesTo(q) == {p \in Affected(r) : Target(p, r) = q}
  IN /\ names' = [q \in Paths |->
                    IF q \in Affected(r) THEN 0
                    ELSE IF movesTo(q) # {} /\ names[q] = 0
                         THEN names[CHOOSE p \in movesTo(q) : TRUE] ELSE names[q]]
     /\ tracked' = (tracked \ Affected(r)) \cup Targets(r)
UpdateBindings(r) ==
  LET movesTo(q) == {p \in Affected(r) : Target(p, r) = q}
  IN /\ names' = [q \in Paths |->
                    IF movesTo(q) # {} THEN names[CHOOSE p \in movesTo(q) : TRUE]
                    ELSE IF q \in Affected(r) THEN 0 ELSE names[q]]
     /\ tracked' = (tracked \ Affected(r)) \cup Targets(r)

\* Updates that wait below the old path wait below the new one.
Remapped(r) ==
  {u \in updates : ~Under(u, r.from)}
    \cup (IF r.to = Nowhere THEN {}
          ELSE {u \in {Moved(v, r.from, r.to) : v \in {w \in updates : Under(w, r.from)}} :
                  Included(u)})
    \cup Targets(r)

\* The renamed file, or the files of the renamed directory.
TargetFiles(r) == IF ToName(r) = Nowhere THEN {}
                  ELSE {p \in FilesUnder(r.to) : disk[p] # NoFile /\ Included(p)}

\* Bound: the names and updates that a rename moves stay among the paths of
\* the instance.  (Two halves that do not belong together may lead elsewhere.)
Fits(r) ==
  r.to # Nowhere =>
    /\ \A p \in Affected(r) : Moved(p, r.from, r.to) \in Paths
    /\ \A u \in updates : Under(u, r.from) => Moved(u, r.from, r.to) \in Nodes

\* apply_rename from the store's transaction on, and the removal from the
\* queue.  Only the last look at the target can fail after the transaction:
\* then the rename stays in the queue and is applied again.
RenameApply ==
  LET r == Head(renames)
      errs == {e \in errors : ~(e \in updates /\ Under(e, r.from))} \ Affected(r)
  IN /\ pc = "rename" /\ Fits(r)
     /\ UpdateBindings(r)
     /\ \/ /\ updates' = Remapped(r) \cup TargetFiles(r)
           /\ renames' = Tail(renames)
           /\ Report(errs \ {Alert("rename")})
           /\ Goto("renames")
           /\ UNCHANGED <<running, reconcile, spent>>
        \/ /\ ToName(r) # Nowhere /\ Spend("faults", MaxFaults)
           /\ updates' = Remapped(r)
           /\ RenamesFail(errs)
           /\ UNCHANGED renames
     /\ UNCHANGED <<dirVars, froms, moved, objects, dirty, histVars>>

\* The transaction, or the look at the path before it, fails.
RenameFails ==
  /\ pc = "rename" /\ Spend("faults", MaxFaults)
  /\ RenamesFail(errors)
  /\ UNCHANGED <<dirVars, pendVars, storeVars, dirty, histVars>>

-----------------------------------------------------------------------------
(* ingest: compare the file with the store, put it, mark it as watched.    *)

\* mark_watcher_file.
MarkFileMutant == UNCHANGED tracked  \* mutant: the file is not recorded
MarkFile == tracked' = tracked \cup {path}

IngestReturns ==
  /\ pc' = (IF scanning THEN "walk" ELSE "updates") /\ path' = AnyPath
  /\ UNCHANGED <<stage, scanning, walkVars>>

\* file_needs_put: a name that leads nowhere needs no look at the file.
Unchanged(p) == names[p] # 0 /\ objects[names[p]] = disk[p]

FileUnchanged ==
  /\ pc = "ingest" /\ Unchanged(path)
  /\ MarkFile /\ gone' = gone \ {path}
  /\ Report(errors \ {path}) /\ IngestReturns
  /\ UNCHANGED <<dirVars, pendVars, running, reconcile, names, objects, dirty,
                 home, spent>>

\* Put less than cooldown_window ago: come back later.
FileCooling ==
  /\ pc = "ingest" /\ ~Unchanged(path) /\ ~scanning /\ Spend("faults", MaxFaults)
  /\ disk[path] # NoFile \/ names[path] = 0
  /\ updates' = updates \cup {path}
  /\ IngestReturns
  /\ UNCHANGED <<dirVars, renames, froms, moved, statVars, storeVars, dirty, histVars>>

\* What is below n has been moved by a rename that will be applied once more:
\* it waits first in the queue, or is the next notification.
MovesAgain(n) ==
  \/ renames # <<>> /\ Head(renames).again /\ Head(renames).from = n
  \/ renames = <<>> /\ channel # <<>> /\ IsRepeat(Head(channel)) /\ Head(channel).path = n

\* A new name where a rename will be applied once more is taken along then,
\* over the history of the file that was renamed.
PutFile ==
  /\ pc = "ingest" /\ ~Unchanged(path)
  /\ disk[path] # NoFile
  /\ PutNamed(path, disk[path]) /\ gone' = gone \ {path}
  /\ IF names[path] = 0 /\ \E n \in Nodes : MovesAgain(n) /\ Under(path, n)
     THEN Forget ELSE UNCHANGED home
  /\ Goto("mark")
  /\ UNCHANGED <<dirVars, pendVars, statVars, tracked, dirty, spent>>

FinishIngest ==
  /\ pc = "mark" /\ MarkFile
  /\ Report(errors \ {path}) /\ IngestReturns
  /\ UNCHANGED <<dirVars, pendVars, running, reconcile, names, objects, dirty,
                 histVars, spent>>

\* defer_error: only a busy file is tried again by itself.
IngestFails(busy) ==
  /\ updates' = IF busy THEN updates \cup {path} ELSE updates
  /\ Report(errors \cup {path})
  /\ walk' = IF scanning /\ walk = "ok" THEN "ingest" ELSE walk
  /\ pc' = (IF scanning THEN "walk" ELSE "updates") /\ path' = AnyPath
  /\ UNCHANGED <<dirVars, renames, froms, moved, running, reconcile, storeVars, stage,
                 scanning, toVisit, seen, dirty, histVars>>

\* The file is gone when it is opened.
FileVanished ==
  /\ pc = "ingest" /\ disk[path] = NoFile
  /\ IngestFails(FALSE) /\ UNCHANGED spent

FileUnreadable(busy) ==
  /\ pc = "ingest" /\ Spend("faults", MaxFaults) /\ IngestFails(busy)

-----------------------------------------------------------------------------
(* scan: walk the directory, then remove the watched names not found.      *)

SkipScan ==
  /\ pc = "decide" /\ ~reconcile /\ ~Cancelled /\ Goto("updates")
  /\ UNCHANGED <<dirVars, pendVars, statVars, storeVars, dirty, histVars,
                 spent>>

StartScan ==
  /\ ~Cancelled
  /\ \/ pc = "scan" /\ UNCHANGED reconcile
     \/ pc = "decide" /\ reconcile' = FALSE
  /\ pc' = "walk" /\ scanning' = TRUE /\ dirty' = TRUE
  /\ errors' = errors \ {Alert("scan")}
  /\ toVisit' = Paths /\ seen' = {} /\ walk' = "ok" /\ moved' = FALSE
  /\ UNCHANGED <<dirVars, updates, renames, froms, running, storeVars, stage, path,
                 histVars, spent>>

Step(p) == /\ pc = "walk" /\ ~Cancelled /\ p \in toVisit
           /\ toVisit' = toVisit \ {p}
           /\ UNCHANGED <<dirVars, renames, froms, moved, running, reconcile, storeVars,
                          stage, scanning, dirty, histVars>>

\* Nothing there, or ignored.
VisitNothing(p) ==
  /\ Step(p) /\ (disk[p] = NoFile \/ ~Included(p))
  /\ UNCHANGED <<updates, errors, pc, path, seen, walk, spent>>

Blocked(p) == HasRenames \/ (stage # "manual" /\ p \in updates)

VisitBlocked(p) ==
  /\ Step(p) /\ disk[p] # NoFile /\ Included(p) /\ Blocked(p)
  /\ seen' = seen \cup {p} /\ updates' = updates \cup {p}
  /\ UNCHANGED <<errors, pc, path, walk, spent>>

VisitFile(p) ==
  /\ Step(p) /\ disk[p] # NoFile /\ Included(p) /\ ~Blocked(p)
  /\ seen' = seen \cup {p} /\ path' = p /\ pc' = "ingest"
  /\ updates' = IF stage = "manual" THEN updates \ {p} ELSE updates
  /\ UNCHANGED <<errors, walk, spent>>

\* An entry cannot be listed or looked at: nothing may be removed later.
VisitUnreadable(p) ==
  /\ Step(p) /\ Included(p) /\ walk' = "scan" /\ Spend("faults", MaxFaults)
  /\ UNCHANGED <<updates, errors, pc, path, seen>>

EndWalkFailed ==
  /\ pc = "walk" /\ ~Cancelled /\ toVisit = {} /\ walk # "ok"
  /\ ScanReturns(FALSE, IF walk = "scan" THEN errors \cup {Alert("scan")} ELSE errors)
  /\ UNCHANGED <<dirVars, pendVars, storeVars, dirty, histVars, spent>>

\* Something moved meanwhile: leave the removals to a later scan.
MustNotSweep == HasRenames \/ moved

EndWalkMoved ==
  /\ pc = "walk" /\ ~Cancelled /\ toVisit = {} /\ walk = "ok" /\ MustNotSweep
  /\ ScanReturns(TRUE, errors)
  /\ UNCHANGED <<dirVars, pendVars, storeVars, dirty, histVars, spent>>

Missing == {p \in tracked \ seen : ~Exists(p)}

\* A removal is queued for each watched name whose file is missing.
Sweep ==
  /\ pc = "walk" /\ ~Cancelled /\ toVisit = {} /\ walk = "ok" /\ ~MustNotSweep
  /\ renames' = [i \in 1..Cardinality(Missing) |-> Removal(SetToSeq(Missing)[i])]
  /\ pc' = "renames" /\ WalkDone
  /\ home' = IF channel = <<>> THEN home ELSE [p \in Paths |-> 0]
  /\ UNCHANGED <<dirVars, updates, froms, moved, statVars, storeVars, stage, scanning,
                 path, dirty, gone, spent>>

-----------------------------------------------------------------------------
(* process_updates and finish_work.                                        *)

\* Renames go first.
PickUpdate(u) ==
  /\ pc = "updates" /\ ~Cancelled /\ ~HasRenames /\ u \in updates
  /\ dirty' = TRUE
  /\ \/ /\ Included(u) /\ u \in Paths /\ disk[u] # NoFile
        /\ updates' = updates \ {u}
        /\ pc' = "ingest" /\ path' = u
        /\ UNCHANGED <<errors>>
     \/ /\ Included(u) /\ u \in Dirs /\ Exists(u)
        /\ updates' = (updates \ {u}) \cup
             {p \in FilesUnder(u) : disk[p] # NoFile /\ Included(p)}
        /\ UNCHANGED <<pc, path, errors>>
     \/ /\ ~Included(u) \/ ~Exists(u)
        /\ updates' = updates \ {u}
        /\ Report(errors \ {u})
        /\ UNCHANGED <<pc, path>>
  /\ UNCHANGED <<dirVars, renames, froms, moved, running, reconcile, storeVars, stage,
                 scanning, walkVars, histVars, spent>>

\* No update is due (any more).  The worker rests and goes round again
\* (finish_work), and a manual scan goes on to its walk.
FinishWork ==
  /\ pc = "updates" /\ ~Cancelled
  /\ dirty' = (dirty /\ (errors # {} \/ ~NothingPending))
  /\ Goto(IF stage = "manual" THEN "scan" ELSE "renames")
  /\ home' = IF Settled
             THEN [p \in Paths |-> IF disk[p] = NoFile \/ ~Included(p) THEN 0 ELSE names[p]]
             ELSE home
  /\ UNCHANGED <<dirVars, pendVars, statVars, storeVars, gone, spent>>

-----------------------------------------------------------------------------
Environment ==
  \/ \E p \in Paths, c \in Contents : Write(p, c) \/ ClientPut(p, c)
  \/ \E n \in Nodes : RemoveNode(n) \/ \E m \in Nodes : Move(n, m)
  \/ \E p \in Paths : ClientUnbind(p)
  \/ LoseEvents \/ Start \/ Stop \/ ManualScan \/ Kill

EventThread ==
  \/ ReceiveChange \/ ReceiveRemove \/ ReceiveBoth \/ ReceiveFrom \/ ReceiveTo
  \/ ReceiveLost

Worker ==
  \/ WorkerStops \/ RenamesDone \/ RenameStillThere \/ RenameBegin \/ RenameApply
  \/ FileUnchanged \/ FileCooling \/ PutFile \/ FinishIngest \/ FileVanished
  \/ \E p \in Paths : VisitNothing(p) \/ VisitBlocked(p) \/ VisitFile(p)
  \/ EndWalkFailed \/ EndWalkMoved \/ Sweep
  \/ SkipScan \/ StartScan \/ FinishWork
  \/ \E u \in Nodes : PickUpdate(u)

WorkerFaults ==
  \/ RenameFails \/ \E busy \in BOOLEAN : FileUnreadable(busy)
  \/ \E p \in Paths : VisitUnreadable(p)

Timers == \E i \in 1..Len(froms) : ExpireRename(i)

Next == Environment \/ EventThread \/ Worker \/ WorkerFaults \/ Timers

Spec == Init /\ [][Next]_vars

(***************************************************************************)
(* The two threads run.  Waiting times end: a rename half expires, a       *)
(* cool-down is over, the reconcile interval elapses (a scan starts again  *)
(* and again), and an update that keeps waiting becomes due.               *)
(***************************************************************************)
Fairness ==
  /\ WF_vars(EventThread) /\ WF_vars(Worker)
  /\ WF_vars(Timers)
  /\ SF_vars(StartScan) /\ SF_vars(\E u \in Nodes : PickUpdate(u))

FairSpec == Spec /\ Fairness

-----------------------------------------------------------------------------
Keys == Nodes \cup {Alert(k) : k \in {"events", "rename", "scan"}}

(* The state has its type: what waits in a queue is a known path, every    *)
(* name leads to an object, renames lead somewhere or Nowhere.             *)
TypeOK ==
  /\ disk \in [Paths -> Contents \cup {NoFile}]
  /\ channel \in Seq(Event)
  /\ updates \subseteq Nodes /\ renames \in Seq(Rename) /\ froms \in Seq(Half)
  /\ {moved, running, reconcile, scanning, dirty} \subseteq BOOLEAN
  /\ errors \subseteq Keys
  /\ names \in [Paths -> 0..Len(objects)] /\ objects \in Seq(Contents)
  /\ tracked \subseteq Paths
  /\ pc \in {"off", "renames", "rename", "decide", "scan", "walk", "ingest", "mark",
             "updates"}
  /\ stage \in {"first", "loop", "manual"}
  /\ path \in Paths /\ toVisit \subseteq Paths /\ seen \subseteq Paths
  /\ walk \in {"ok", "scan", "ingest"}
  /\ gone \subseteq Paths
  /\ home \in [Paths -> 0..Len(objects)]
  /\ spent \in [{"changes", "client", "faults", "stops"} -> Nat]

\* Every file is stored under its name with its present content and recorded
\* as watched, and every bound name that is recorded has a file.
IsSaved(p) == disk[p] # NoFile /\ Included(p) => Unchanged(p) /\ p \in tracked
InSync == \A p \in Paths :
  IsSaved(p) /\ (p \in tracked /\ names[p] # 0 => disk[p] # NoFile)

(***************************************************************************)
(* A removal that was notified, timed out or found by a scan takes a name  *)
(* away only if the watcher itself had bound it and its file was missing   *)
(* at some time after it was last read.  So a file that was there ever     *)
(* since keeps its name: a scan that could not see everything, or a rename *)
(* of which one half came late, never costs it (apply_rename, scan_inner,  *)
(* update_watched_prefix).  A file that was replaced by remove and create  *)
(* may lose its name, if it comes back between the worker's look and the   *)
(* transaction, until its own change is worked off.                        *)
(***************************************************************************)
RemovesOnlyWhatIsGone ==
  [][\A p \in Paths :
       /\ pc = "rename" /\ pc' # pc /\ pc' # "off" /\ Head(renames).to = Nowhere
       /\ names[p] # 0 /\ names'[p] = 0
       => p \in tracked /\ p \in gone]_vars

(***************************************************************************)
(* When all notifications are worked off, a file that was only moved and   *)
(* changed has the object, and so the version history, that it had before: *)
(* whatever the order of renames, changes, scans and retries, and with a   *)
(* rename reported whole, in halves, or in halves and then whole, and with *)
(* writes to existing files reported between the halves.  home forgets     *)
(* - all files when events are lost, the watcher stops, other clients      *)
(*   interfere, or a removal is concluded, by a scan or from a half that   *)
(*   stayed alone, while notifications are on their way or something is at *)
(*   the path again;                                                       *)
(* - a file whose move the platform reports as two changes ("any");        *)
(* - all files when a new file at the old path of a rename is stored       *)
(*   after the rename was applied for its halves and before it is applied  *)
(*   again for the whole: its new object is then moved over the old one.   *)
(***************************************************************************)
HistoryFollowsRename ==
  Settled /\ pc = "updates" /\ stage = "loop" =>
    \A p \in Paths : home[p] # 0 => names[p] = home[p]

(***************************************************************************)
(* While the watcher runs and the directory rests, the store comes to      *)
(* agree with the directory for good: after lost events, expired renames,  *)
(* unreadable files, failed transactions, interference of other clients,   *)
(* and a stop or kill at any step (process_updates, scan, retries).        *)
(***************************************************************************)
EventuallyInSync == <>[]running => <>[]InSync

(***************************************************************************)
(* When the watcher reports that it is watching, without errors and with   *)
(* nothing pending, each file in the directory has been saved as it is     *)
(* (finish_work sets last_sync_at in that state).                          *)
(***************************************************************************)
SavedWhenSettled ==
  Settled /\ pc = "renames" /\ ~scanning /\ ~dirty =>
    \A p \in Paths : IsSaved(p)
=============================================================================
