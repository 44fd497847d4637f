--------------------------- MODULE VersionedStore ---------------------------
(***************************************************************************)
(* What the storage engine promises: a map from names to version           *)
(* histories and a set of labelled snapshots, each changed by one atomic   *)
(* step, in which whatever is named can be read.  There are no threads,    *)
(* locks, logs, transactions or crashes here; module Engine has them and   *)
(* is shown to implement this one, and module Mount is built on it.        *)
(***************************************************************************)
EXTENDS Integers, Sequences, FiniteSets

CONSTANTS
  Names,      \* logical file names
  Contents,   \* file contents, and the manifests they give
  Labels      \* snapshot labels

VARIABLES
  files,      \* each name's history; latest is 0 where there is no file
  snaps,      \* the snapshots
  readable    \* contents that can be reconstructed from durable storage

storeVars == <<files, snaps, readable>>

FileRecords == [latest : Nat, versions : Seq([version : Nat, content : Contents])]

NoFile == [latest |-> 0, versions |-> << >>]

IsFile(n) == files[n].latest > 0

\* The contents that a version or a snapshot names.
Referenced ==
  (UNION {{files[n].versions[i].content : i \in DOMAIN files[n].versions} : n \in Names})
    \cup (UNION {{e.content : e \in s.entries} : s \in snaps})

StoreInit ==
  /\ files = [n \in Names |-> NoFile]
  /\ snaps = {}
  /\ readable = {}

\* put_file and rollback_file: a readable content becomes the latest version.
AddVersion ==
  /\ \E n \in Names, c \in readable :
       LET v == files[n].latest + 1 IN
       files' = [files EXCEPT ![n] =
                   [latest |-> v,
                    versions |-> Append(@.versions, [version |-> v, content |-> c])]]
  /\ UNCHANGED <<snaps, readable>>

\* rename_file and the watcher's moves: histories keep their entries.
Rename ==
  /\ \E old, new \in Names :
       /\ old # new /\ IsFile(old)
       /\ files' = [files EXCEPT ![new] = files[old], ![old] = NoFile]
  /\ UNCHANGED <<snaps, readable>>

\* delete_file, delete_prefix, unbind_file.
RemoveFile ==
  /\ \E n \in Names : IsFile(n) /\ files' = [files EXCEPT ![n] = NoFile]
  /\ UNCHANGED <<snaps, readable>>

\* prune_file_versions and prune_all: the newest entries stay.
Prune ==
  /\ \E n \in Names :
       LET vs == files[n].versions IN
       \E k \in 1..Len(vs) :
         files' = [files EXCEPT ![n].versions = SubSeq(vs, k + 1, Len(vs))]
  /\ UNCHANGED <<snaps, readable>>

\* create_snapshot: the last version of every file, all at one moment.
TakeSnapshot ==
  /\ \E l \in Labels :
       /\ \A s \in snaps : s.label # l
       /\ LET Last(n) == files[n].versions[Len(files[n].versions)]
          IN  snaps' = snaps \cup
                {[label |-> l,
                  entries |-> {[name |-> n, version |-> Last(n).version,
                                content |-> Last(n).content] :
                                  n \in {m \in Names : files[m].versions # << >>}}]}
  /\ UNCHANGED <<files, readable>>

DropSnapshot ==
  /\ \E s \in snaps : snaps' = snaps \ {s}
  /\ UNCHANGED <<files, readable>>

\* A put has stored a content nothing refers to yet.
StoreContent ==
  /\ \E c \in Contents : readable' = readable \cup {c}
  /\ UNCHANGED <<files, snaps>>

\* A collection may take away only what nothing refers to.
Reclaim ==
  /\ \E c \in readable \ Referenced : readable' = readable \ {c}
  /\ UNCHANGED <<files, snaps>>

StoreNext ==
  \/ AddVersion \/ Rename \/ RemoveFile \/ Prune
  \/ TakeSnapshot \/ DropSnapshot
  \/ StoreContent \/ Reclaim

StoreSpec == StoreInit /\ [][StoreNext]_storeVars
=============================================================================
