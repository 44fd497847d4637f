-------------------------------- MODULE Shares --------------------------------
(***************************************************************************)
(* ShareManager (cli/src/share.rs): the map of shared links behind a       *)
(* reader-writer lock, its file shares.json, the threads of the desktop    *)
(* server that create and revoke shares, and the public server, one thread *)
(* that answers downloads from the store of VersionedStore.                *)
(*                                                                         *)
(* An id stands for the share with its random token.  Pages and answers    *)
(* without a file (404, wrong token, expired share) change nothing and are *)
(* left out: an expired share stays in the map, and a download that may    *)
(* also be refused needs no clock.                                         *)
(***************************************************************************)
EXTENDS VersionedStore, SequencesExt

CONSTANTS
  Callers,     \* request threads of the desktop server
  Ids,         \* share ids
  Paths,       \* paths that may be shared, files and folders
  Under,       \* the names below each path
  Torn         \* a shares.json that does not parse

ASSUME SharesAssumption == Under \in [Paths -> SUBSET Names]

VARIABLES
  shares,      \* the map: [id, path] pairs
  shareFile,   \* shares.json: the pairs it holds, or Torn
  saving,      \* callers inside save(): they hold the lock for reading
  json,        \* the pairs each of them has serialized
  cpc,         \* where each caller is
  target,      \* the id a caller creates or revokes
  public,      \* the public server's download
  kept,        \* ids acknowledged as created, as revoked, and ever drawn
  lossy        \* shares.json could not be written since it was last complete

shareVars == <<shares, shareFile, saving, json, cpc, target, public, kept, lossy>>

IdsIn(m) == {s.id : s \in m}

\* stayed, held and clean are history: the listed names that had a version ever
\* since, the contents every name has had since, and whether nothing failed.
NoDownload == [pc |-> "idle", path |-> Torn, todo |-> {}, packed |-> {},
               stayed |-> {}, held |-> {}, clean |-> TRUE]

SharesInit ==
  /\ shares = {} /\ shareFile = {}
  /\ saving = {} /\ json = [c \in Callers |-> {}]
  /\ cpc = [c \in Callers |-> "idle"]
  /\ target = [c \in Callers |-> Torn]
  /\ public = NoDownload
  /\ kept = [created |-> {}, revoked |-> {}, drawn |-> {}]
  /\ lossy = FALSE

CGoto(c, l) == cpc' = [cpc EXCEPT ![c] = l]

-----------------------------------------------------------------------------
(* add_share, revoke_share, save                                           *)

\* The insertion waits for every save that is under way.
AddShare(c) ==
  /\ cpc[c] = "idle" /\ saving = {}
  /\ \E id \in Ids \ kept.drawn, path \in Paths :
       /\ shares' = shares \cup {[id |-> id, path |-> path]}
       /\ kept' = [kept EXCEPT !.drawn = @ \cup {id}]
       /\ target' = [target EXCEPT ![c] = id]
  /\ CGoto(c, "added")
  /\ UNCHANGED <<shareFile, saving, json, public, lossy>>

\* A share that is not there is answered with false, and nothing is saved.
RevokeShare(c) ==
  /\ cpc[c] = "idle" /\ saving = {}
  /\ \E s \in shares :
       /\ shares' = shares \ {s}
       /\ kept' = [kept EXCEPT !.created = @ \ {s.id}]
       /\ target' = [target EXCEPT ![c] = s.id]
  /\ CGoto(c, "revoked")
  /\ UNCHANGED <<shareFile, saving, json, public, lossy>>

\* Mutant: the lock is released when the map has been serialized.
HeldBySaveMutant(c) == saving

\* save() keeps the lock until the file is written.
HeldBySave(c) == saving \cup {c}

BeginSave(c) ==
  /\ cpc[c] \in {"added", "revoked"}
  /\ saving' = HeldBySave(c)
  /\ json' = [json EXCEPT ![c] = shares]
  /\ CGoto(c, IF cpc[c] = "added" THEN "saveAdded" ELSE "saveRevoked")
  /\ UNCHANGED <<shares, shareFile, target, public, kept, lossy>>

\* fs::write empties the file before it writes to it.
Truncate(c) ==
  /\ cpc[c] \in {"saveAdded", "saveRevoked"}
  /\ shareFile' = Torn
  /\ CGoto(c, IF cpc[c] = "saveAdded" THEN "writeAdded" ELSE "writeRevoked")
  /\ UNCHANGED <<shares, saving, json, target, public, kept, lossy>>

\* The caller is answered, whether its change was written or not.
Answered(c) ==
  /\ saving' = saving \ {c}
  /\ json' = [json EXCEPT ![c] = {}]
  /\ target' = [target EXCEPT ![c] = Torn]
  /\ kept' = IF cpc[c] \in {"saveAdded", "writeAdded"}
               THEN [kept EXCEPT !.created = @ \cup {x \in {target[c]} : x \in IdsIn(shares)}]
               ELSE [kept EXCEPT !.revoked = @ \cup {target[c]}]
  /\ CGoto(c, "idle")
  /\ UNCHANGED <<shares, public>>

WriteShares(c) ==
  /\ cpc[c] \in {"writeAdded", "writeRevoked"}
  /\ shareFile' = json[c]
  /\ lossy' = FALSE
  /\ Answered(c)

\* fs::write fails before or after it has emptied the file: nobody notices.
SaveFails(c) ==
  /\ cpc[c] \in {"saveAdded", "saveRevoked", "writeAdded", "writeRevoked"}
  /\ lossy' = TRUE
  /\ UNCHANGED shareFile
  /\ Answered(c)

\* ShareManager::new: what the file holds, nothing where it does not parse.
LoadShares ==
  /\ shares' = IF shareFile = Torn THEN {} ELSE shareFile
  /\ saving' = {} /\ json' = [c \in Callers |-> {}]
  /\ cpc' = [c \in Callers |-> "idle"]
  /\ target' = [c \in Callers |-> Torn]
  /\ public' = NoDownload
  /\ kept' = IF lossy \/ shareFile = Torn
               THEN [kept EXCEPT !.created = IdsIn(shares'), !.revoked = @ \ IdsIn(shares')]
               ELSE kept
  /\ lossy' = FALSE
  /\ UNCHANGED shareFile

-----------------------------------------------------------------------------
(* start_public_server                                                     *)

HasVersion(n) == files[n].versions # << >>
Current(n) == [name |-> n, content |-> Last(files[n].versions).content]

\* A download looks its share up and lists the files below its path; none,
\* also where the list cannot be read, makes it the download of one file.
BeginDownload ==
  /\ public.pc = "idle"
  /\ \E s \in shares :
       LET listed == {n \in Under[s.path] : IsFile(n)} IN
       \/ public' = [NoDownload EXCEPT
            !.pc = IF listed = {} THEN "single" ELSE "pack",
            !.path = s.path, !.todo = listed,
            !.stayed = {n \in listed : HasVersion(n)},
            !.held = {Current(n) : n \in {m \in Names : HasVersion(m)}}]
       \/ public' = [NoDownload EXCEPT !.pc = "single", !.path = s.path]
  /\ UNCHANGED <<shares, shareFile, saving, json, cpc, target, kept, lossy>>

\* Mutant: an error of get_file ends the loop.
AfterMissingMutant(n) == {}

\* get_file has failed: the file is left out and the loop goes on.
AfterMissing(n) == public.todo \ {n}

\* One file of the folder is extracted and added to the archive.
PackFile ==
  /\ public.pc = "pack"
  /\ \E n \in public.todo :
       public' = IF HasVersion(n)
                   THEN [public EXCEPT !.todo = @ \ {n}, !.packed = @ \cup {Current(n)}]
                   ELSE [public EXCEPT !.todo = AfterMissing(n)]
  /\ UNCHANGED <<shares, shareFile, saving, json, cpc, target, kept, lossy>>

\* A temporary file cannot be written or read back: the same.
PackFails ==
  /\ public.pc = "pack"
  /\ \E n \in public.todo :
       public' = [public EXCEPT !.todo = AfterMissing(n), !.clean = FALSE]
  /\ UNCHANGED <<shares, shareFile, saving, json, cpc, target, kept, lossy>>

\* The archive, or the one file, or a 404, is sent.
SendDownload ==
  /\ \/ public.pc = "pack" /\ public.todo = {}
     \/ public.pc = "single"
  /\ public' = NoDownload
  /\ UNCHANGED <<shares, shareFile, saving, json, cpc, target, kept, lossy>>

\* What a step of the store changes for the download under way (history).
ObserveStore ==
  public' = IF public.pc # "pack" THEN public
            ELSE [public EXCEPT
                    !.stayed = {n \in @ : files'[n].versions # << >>},
                    !.held = @ \cup {[name |-> n, content |-> Last(files'[n].versions).content] :
                                       n \in {m \in Names : files'[m].versions # << >>}}]

-----------------------------------------------------------------------------
CallerSaves(c) == BeginSave(c) \/ Truncate(c) \/ WriteShares(c)

PublicStep == PackFile \/ SendDownload

(* A share whose creation was acknowledged and that nobody revoked is      *)
(* there, and a revoked one is gone, also after a restart: concurrent      *)
(* saves never leave an older map in shares.json.  Only a save that failed *)
(* or was cut by a crash, which loses every share, is excluded (save).     *)
AckedSharesLast ==
  /\ kept.created \subseteq IdsIn(shares)
  /\ kept.revoked \cap IdsIn(shares) = {}

(* A finished archive of a folder has every listed file that was in the    *)
(* store throughout, each once and with a content it had in that time,     *)
(* whatever was put, renamed, pruned or deleted meanwhile: a file that     *)
(* cannot be extracted costs no other file (start_public_server).          *)
ArchiveIsTrue ==
  public.pc = "pack" /\ public.todo = {} /\ public.clean =>
    /\ public.stayed \subseteq {f.name : f \in public.packed}
    /\ public.packed \subseteq public.held
    /\ \A f, g \in public.packed : f.name = g.name => f = g
=============================================================================
