---------------------------- MODULE DesktopProofs ----------------------------
(***************************************************************************)
(* The desktop process keeps what its runs check, for every number of      *)
(* workers, callers, files, shares and bytes and without any bound on the  *)
(* steps: the mount's invariant comes from MountProofs; those of the       *)
(* shared links, of the download and of the watcher's controller are here. *)
(***************************************************************************)
EXTENDS Desktop, MountProofs, FiniteSetTheorems

-----------------------------------------------------------------------------
(* The invariants                                                          *)

Links == [id : Ids, path : Paths]

\* A map of shares: one for each id.
IsShareMap(m) ==
  /\ m \subseteq Links
  /\ \A s, t \in m : s.id = t.id => s = t

Revoking == {"revoked", "saveRevoked", "writeRevoked"}
Saving == {"saveAdded", "saveRevoked", "writeAdded", "writeRevoked"}
Controlling == {"stop", "restart", "start"}

ShareTypes ==
  /\ cpc \in [Callers -> CPcs]
  /\ target \in [Callers -> Ids \cup {Torn}]
  /\ json \in [Callers -> SUBSET Links]
  /\ kept \in [created : SUBSET Ids, revoked : SUBSET Ids, drawn : SUBSET Ids]
  /\ lossy \in BOOLEAN

\* The ids of the maps have been drawn, and revoked ones do not come back.
MapsDrawn ==
  /\ IsShareMap(shares) /\ IdsIn(shares) \subseteq kept.drawn
  /\ shareFile # Torn => IsShareMap(shareFile) /\ IdsIn(shareFile) \subseteq kept.drawn
  /\ kept.revoked \subseteq kept.drawn

\* What a caller that has removed a share, or that saves, relies on.
CallerOK(c) ==
  /\ cpc[c] \in Revoking => target[c] \in kept.drawn /\ target[c] \notin IdsIn(shares)
  /\ cpc[c] \in Saving => c \in saving /\ json[c] = shares

\* shares.json would bring back what was acknowledged.
FileIsCurrent ==
  ~lossy /\ shareFile # Torn =>
    /\ kept.created \subseteq IdsIn(shareFile)
    /\ kept.revoked \cap IdsIn(shareFile) = {}

ShareInv ==
  /\ ShareTypes /\ MapsDrawn /\ AckedSharesLast /\ FileIsCurrent
  /\ \A c \in Callers : CallerOK(c)

Packs == [name : Names, content : Contents]
NamesIn(p) == {f.name : f \in p}

Downloads == [pc : {"idle", "single", "pack"}, path : Paths \cup {Torn}, todo : SUBSET Names,
              packed : SUBSET Packs, stayed : SUBSET Names, held : SUBSET Packs,
              clean : BOOLEAN]

\* An archive in the making: the names packed and the names to come are
\* different ones, and between them they have every file that stayed.
PackOK(p, fs) ==
  /\ p.packed \subseteq p.held
  /\ \A f, g \in p.packed : f.name = g.name => f = g
  /\ \A f \in p.packed : f.name \notin p.todo
  /\ \A n \in p.stayed : fs[n].versions # << >>
  /\ p.clean => p.stayed \subseteq NamesIn(p.packed) \cup p.todo
  /\ \A n \in Names : fs[n].versions # << >> =>
       [name |-> n, content |-> Last(fs[n].versions).content] \in p.held

ArchiveInv == public \in Downloads /\ (public.pc = "pack" => PackOK(public, files))

Watchers == [by : Callers, dir : Dirs]

CtrlTypes ==
  /\ ctrl \in [lock : Callers \cup {Nobody}, handle : Watchers \cup {NoWatcher},
               dir : Dirs \cup {Nobody}, saved : BOOLEAN]
  /\ live \subseteq Watchers
  /\ config \in Dirs \cup {Nobody}

CtrlHeld == {c \in Callers : cpc[c] \in Controlling} = {ctrl.lock} \ {Nobody}

\* What runs: what the controller has a handle of, at most.
LiveKnown ==
  /\ ctrl.lock = Nobody => live = {ctrl.handle} \ {NoWatcher}
  /\ \A c \in Callers :
       /\ cpc[c] \in {"stop", "restart"} => live \subseteq {ctrl.handle}
       /\ cpc[c] = "start" => live = {} /\ ctrl.handle = NoWatcher

DirShown ==
  /\ ctrl.handle # NoWatcher => ctrl.handle.dir = ctrl.dir
  /\ ctrl.saved => ctrl.dir = config

CtrlInv == CtrlTypes /\ CtrlHeld /\ LiveKnown /\ DirShown

DesktopInv == StoreTypes /\ MountInv /\ ShareInv /\ ArchiveInv /\ CtrlInv

-----------------------------------------------------------------------------
(* The shared links                                                        *)

(* The insertion waits for every save, so that no saver's copy grows old,  *)
(* and its id has never been used before.                                  *)
LEMMA AddShareKeeps ==
  ASSUME ShareInv, NEW c \in Callers, AddShare(c)
  PROVE  ShareInv'
<1>1. PICK id \in Ids \ kept.drawn, path \in Paths :
        /\ shares' = shares \cup {[id |-> id, path |-> path]}
        /\ kept' = [kept EXCEPT !.drawn = @ \cup {id}]
        /\ target' = [target EXCEPT ![c] = id]
  BY DEF AddShare
<1>2. /\ cpc[c] = "idle" /\ saving = {} /\ cpc' = [cpc EXCEPT ![c] = "added"]
      /\ UNCHANGED <<shareFile, saving, json, public, lossy>>
  BY DEF AddShare, CGoto
<1>3. /\ kept'.created = kept.created /\ kept'.revoked = kept.revoked
      /\ kept'.drawn = kept.drawn \cup {id}
      /\ kept' \in [created : SUBSET Ids, revoked : SUBSET Ids, drawn : SUBSET Ids]
  BY <1>1 DEF ShareInv, ShareTypes
<1> DEFINE s == [id |-> id, path |-> path]
<1>4. s \in Links /\ s.id = id
  BY DEF Links
<1> HIDE DEF s
<1>5. IdsIn(shares') = IdsIn(shares) \cup {id} /\ shares' = shares \cup {s}
  BY <1>1, <1>4 DEF IdsIn, s
<1>6. ShareTypes'
  BY <1>1, <1>2, <1>3 DEF ShareInv, ShareTypes, CPcs
<1>7. IsShareMap(shares') /\ IdsIn(shares') \subseteq kept'.drawn
  <2>1. IsShareMap(shares) /\ IdsIn(shares) \subseteq kept.drawn
    BY DEF ShareInv, MapsDrawn
  <2>2. \A t \in shares : t.id # id
    BY <1>1, <2>1 DEF IdsIn
  <2> QED  BY <1>3, <1>4, <1>5, <2>1, <2>2 DEF IsShareMap
<1>8. MapsDrawn'
  BY <1>2, <1>3, <1>7 DEF ShareInv, MapsDrawn, IsShareMap, IdsIn
<1>9. AckedSharesLast'
  BY <1>1, <1>3, <1>5 DEF ShareInv, MapsDrawn, AckedSharesLast, IdsIn
<1>10. FileIsCurrent'
  BY <1>2, <1>3 DEF ShareInv, FileIsCurrent, IdsIn
<1>11. ASSUME NEW d \in Callers PROVE CallerOK(d)'
  <2>1. CallerOK(d) /\ cpc[d] \notin Saving
    BY <1>2 DEF ShareInv, CallerOK
  <2>2. CASE d = c
    <3>1. cpc'[d] = "added"
      BY <1>2, <2>2 DEF ShareInv, ShareTypes
    <3> QED  BY <3>1 DEF CallerOK, Revoking, Saving
  <2>3. CASE d # c
    <3>1. cpc'[d] = cpc[d] /\ target'[d] = target[d]
      BY <1>1, <1>2, <2>3 DEF ShareInv, ShareTypes
    <3>2. cpc[d] \in Revoking => target[d] \in kept'.drawn /\ target[d] \notin IdsIn(shares')
      BY <1>1, <1>3, <1>5, <2>1 DEF CallerOK
    <3> QED  BY <2>1, <3>1, <3>2 DEF CallerOK, IdsIn
  <2> QED  BY <2>2, <2>3
<1> QED  BY <1>6, <1>8, <1>9, <1>10, <1>11 DEF ShareInv

(* The removal waits as well, and what it removes was the only share with  *)
(* its id.                                                                 *)
LEMMA RevokeShareKeeps ==
  ASSUME ShareInv, NEW c \in Callers, RevokeShare(c)
  PROVE  ShareInv'
<1>1. PICK s \in shares :
        /\ shares' = shares \ {s}
        /\ kept' = [kept EXCEPT !.created = @ \ {s.id}]
        /\ target' = [target EXCEPT ![c] = s.id]
  BY DEF RevokeShare
<1>2. /\ cpc[c] = "idle" /\ saving = {} /\ cpc' = [cpc EXCEPT ![c] = "revoked"]
      /\ UNCHANGED <<shareFile, saving, json, public, lossy>>
  BY DEF RevokeShare, CGoto
<1>3. /\ kept'.created = kept.created \ {s.id} /\ kept'.revoked = kept.revoked
      /\ kept'.drawn = kept.drawn
      /\ kept' \in [created : SUBSET Ids, revoked : SUBSET Ids, drawn : SUBSET Ids]
  BY <1>1 DEF ShareInv, ShareTypes
<1>4. IsShareMap(shares) /\ IdsIn(shares) \subseteq kept.drawn
  BY DEF ShareInv, MapsDrawn
<1>5. s.id \in Ids /\ s.id \in kept.drawn
  BY <1>1, <1>4 DEF IsShareMap, Links, IdsIn
<1>6. IdsIn(shares') = IdsIn(shares) \ {s.id}
  BY <1>1, <1>4 DEF IsShareMap, IdsIn
<1>7. ShareTypes'
  BY <1>1, <1>2, <1>3, <1>5 DEF ShareInv, ShareTypes, CPcs
<1>8. MapsDrawn'
  <2>1. IsShareMap(shares') /\ IdsIn(shares') \subseteq kept'.drawn
    BY <1>1, <1>3, <1>4, <1>6 DEF IsShareMap
  <2> QED  BY <1>2, <1>3, <2>1 DEF ShareInv, MapsDrawn, IsShareMap, IdsIn
<1>9. AckedSharesLast'
  <2>1. kept'.created \subseteq IdsIn(shares') /\ kept'.revoked \cap IdsIn(shares') = {}
    BY <1>3, <1>6 DEF ShareInv, AckedSharesLast
  <2> QED  BY <2>1 DEF AckedSharesLast, IdsIn
<1>10. FileIsCurrent'
  BY <1>2, <1>3 DEF ShareInv, FileIsCurrent, IdsIn
<1>11. ASSUME NEW d \in Callers PROVE CallerOK(d)'
  <2>1. CallerOK(d) /\ cpc[d] \notin Saving
    BY <1>2 DEF ShareInv, CallerOK
  <2>2. CASE d = c
    <3>1. cpc'[d] = "revoked" /\ target'[d] = s.id
      BY <1>1, <1>2, <2>2 DEF ShareInv, ShareTypes
    <3>2. s.id \notin IdsIn(shares')
      BY <1>6
    <3> QED  BY <1>3, <1>5, <3>1, <3>2 DEF CallerOK, Revoking, Saving, IdsIn
  <2>3. CASE d # c
    <3>1. cpc'[d] = cpc[d] /\ target'[d] = target[d]
      BY <1>1, <1>2, <2>3 DEF ShareInv, ShareTypes
    <3>2. cpc[d] \in Revoking => target[d] \in kept'.drawn /\ target[d] \notin IdsIn(shares')
      BY <1>3, <1>6, <2>1 DEF CallerOK
    <3> QED  BY <2>1, <3>1, <3>2 DEF CallerOK, IdsIn
  <2> QED  BY <2>2, <2>3
<1> QED  BY <1>7, <1>8, <1>9, <1>10, <1>11 DEF ShareInv

LEMMA BeginSaveKeeps ==
  ASSUME ShareInv, NEW c \in Callers, BeginSave(c)
  PROVE  ShareInv'
<1> DEFINE l == IF cpc[c] = "added" THEN "saveAdded" ELSE "saveRevoked"
<1>1. /\ cpc[c] \in {"added", "revoked"} /\ saving' = saving \cup {c}
      /\ json' = [json EXCEPT ![c] = shares] /\ cpc' = [cpc EXCEPT ![c] = l]
      /\ UNCHANGED <<shares, shareFile, target, public, kept, lossy>>
  BY DEF BeginSave, HeldBySave, CGoto
<1>2. shares \subseteq Links
  BY DEF ShareInv, MapsDrawn, IsShareMap
<1>3. ShareTypes'
  BY <1>1, <1>2 DEF ShareInv, ShareTypes, CPcs
<1>4. MapsDrawn' /\ AckedSharesLast' /\ FileIsCurrent'
  BY <1>1 DEF ShareInv, MapsDrawn, AckedSharesLast, FileIsCurrent, IsShareMap, IdsIn
<1>5. ASSUME NEW d \in Callers PROVE CallerOK(d)'
  <2>1. CallerOK(d) /\ CallerOK(c)
    BY DEF ShareInv
  <2>2. CASE d = c
    <3>1. cpc'[d] = l /\ json'[d] = shares /\ d \in saving'
      BY <1>1, <2>2 DEF ShareInv, ShareTypes
    <3>2. l \in Revoking => cpc[c] \in Revoking
      BY <1>1 DEF Revoking
    <3> QED  BY <1>1, <2>1, <2>2, <3>1, <3>2 DEF CallerOK, IdsIn
  <2>3. CASE d # c
    <3>1. cpc'[d] = cpc[d] /\ json'[d] = json[d]
      BY <1>1, <2>3 DEF ShareInv, ShareTypes
    <3> QED  BY <1>1, <2>1, <3>1 DEF CallerOK, IdsIn
  <2> QED  BY <2>2, <2>3
<1> QED  BY <1>3, <1>4, <1>5 DEF ShareInv

LEMMA TruncateKeeps ==
  ASSUME ShareInv, NEW c \in Callers, Truncate(c)
  PROVE  ShareInv'
<1> DEFINE l == IF cpc[c] = "saveAdded" THEN "writeAdded" ELSE "writeRevoked"
<1>1. /\ cpc[c] \in {"saveAdded", "saveRevoked"} /\ shareFile' = Torn
      /\ cpc' = [cpc EXCEPT ![c] = l]
      /\ UNCHANGED <<shares, saving, json, target, public, kept, lossy>>
  BY DEF Truncate, CGoto
<1>2. ShareTypes'
  BY <1>1 DEF ShareInv, ShareTypes, CPcs
<1>3. MapsDrawn' /\ AckedSharesLast' /\ FileIsCurrent'
  BY <1>1 DEF ShareInv, MapsDrawn, AckedSharesLast, FileIsCurrent, IsShareMap, IdsIn
<1>4. ASSUME NEW d \in Callers PROVE CallerOK(d)'
  <2>1. CallerOK(d) /\ CallerOK(c)
    BY DEF ShareInv
  <2>2. CASE d = c
    <3>1. cpc'[d] = l /\ cpc[c] \in Saving /\ (l \in Revoking => cpc[c] \in Revoking)
      BY <1>1, <2>2 DEF ShareInv, ShareTypes, Revoking, Saving
    <3> QED  BY <1>1, <2>1, <2>2, <3>1 DEF CallerOK, IdsIn
  <2>3. CASE d # c
    <3>1. cpc'[d] = cpc[d]
      BY <1>1, <2>3 DEF ShareInv, ShareTypes
    <3> QED  BY <1>1, <2>1, <3>1 DEF CallerOK, IdsIn
  <2> QED  BY <2>2, <2>3
<1> QED  BY <1>2, <1>3, <1>4 DEF ShareInv

(* The answer: what the caller acknowledges is so in the map.              *)
LEMMA AnsweredKeeps ==
  ASSUME ShareInv, NEW c \in Callers, cpc[c] \in Saving, Answered(c),
         lossy' \in BOOLEAN,
         \/ lossy' = TRUE /\ shareFile' = shareFile
         \/ shareFile' = shares
  PROVE  ShareInv'
<1>1. /\ saving' = saving \ {c} /\ json' = [json EXCEPT ![c] = {}]
      /\ target' = [target EXCEPT ![c] = Torn] /\ cpc' = [cpc EXCEPT ![c] = "idle"]
      /\ UNCHANGED <<shares, public>>
  BY DEF Answered, CGoto
<1>2. CallerOK(c) /\ cpc[c] \in Saving /\ target[c] \in Ids \cup {Torn}
  BY DEF ShareInv, ShareTypes
<1>3. /\ kept' \in [created : SUBSET Ids, revoked : SUBSET Ids, drawn : SUBSET Ids]
      /\ kept'.drawn = kept.drawn /\ kept'.revoked \subseteq kept'.drawn
      /\ kept'.created \subseteq IdsIn(shares)
      /\ kept'.revoked \cap IdsIn(shares) = {}
  <2>1. /\ kept \in [created : SUBSET Ids, revoked : SUBSET Ids, drawn : SUBSET Ids]
        /\ kept.created \subseteq IdsIn(shares) /\ kept.revoked \cap IdsIn(shares) = {}
        /\ kept.revoked \subseteq kept.drawn /\ IdsIn(shares) \subseteq Ids
    BY DEF ShareInv, ShareTypes, MapsDrawn, AckedSharesLast, IsShareMap, Links, IdsIn
  <2>2. CASE cpc[c] \in {"saveAdded", "writeAdded"}
    <3> DEFINE new == kept.created \cup {x \in {target[c]} : x \in IdsIn(shares)}
    <3>1. kept' = [kept EXCEPT !.created = new]
      BY <2>2 DEF Answered
    <3>2. new \subseteq IdsIn(shares)
      BY <2>1
    <3> HIDE DEF new
    <3> QED  BY <2>1, <3>1, <3>2
  <2>3. CASE cpc[c] \notin {"saveAdded", "writeAdded"}
    <3>1. kept' = [kept EXCEPT !.revoked = @ \cup {target[c]}]
      BY <2>3 DEF Answered
    <3>2. target[c] \in kept.drawn /\ target[c] \notin IdsIn(shares)
      BY <1>2, <2>3 DEF CallerOK, Saving, Revoking
    <3> QED  BY <2>1, <3>1, <3>2
  <2> QED  BY <2>2, <2>3
<1>4. ShareTypes'
  BY <1>1, <1>3 DEF ShareInv, ShareTypes, CPcs
<1>5. MapsDrawn'
  BY <1>1, <1>3 DEF ShareInv, MapsDrawn, IsShareMap, IdsIn
<1>6. AckedSharesLast'
  BY <1>1, <1>3 DEF AckedSharesLast, IdsIn
<1>7. FileIsCurrent'
  BY <1>3 DEF FileIsCurrent, IdsIn
<1>8. ASSUME NEW d \in Callers PROVE CallerOK(d)'
  <2>1. CallerOK(d)
    BY DEF ShareInv
  <2>2. CASE d = c
    <3>1. cpc'[d] = "idle"
      BY <1>1, <2>2 DEF ShareInv, ShareTypes
    <3> QED  BY <3>1 DEF CallerOK, Revoking, Saving
  <2>3. CASE d # c
    <3>1. cpc'[d] = cpc[d] /\ json'[d] = json[d] /\ target'[d] = target[d]
      BY <1>1, <2>3 DEF ShareInv, ShareTypes
    <3> QED  BY <1>1, <1>3, <2>1, <2>3, <3>1 DEF CallerOK, IdsIn
  <2> QED  BY <2>2, <2>3
<1> QED  BY <1>4, <1>5, <1>6, <1>7, <1>8 DEF ShareInv

LEMMA WriteSharesKeeps ==
  ASSUME ShareInv, NEW c \in Callers, WriteShares(c)
  PROVE  ShareInv'
<1>1. /\ cpc[c] \in Saving /\ shareFile' = json[c] /\ lossy' = FALSE /\ Answered(c)
  BY DEF WriteShares, Saving
<1>2. json[c] = shares
  BY <1>1 DEF ShareInv, CallerOK
<1> QED  BY <1>1, <1>2, AnsweredKeeps

LEMMA SaveFailsKeeps ==
  ASSUME ShareInv, NEW c \in Callers, SaveFails(c)
  PROVE  ShareInv'
<1>1. cpc[c] \in Saving /\ shareFile' = shareFile /\ lossy' = TRUE /\ Answered(c)
  BY DEF SaveFails, Saving
<1> QED  BY <1>1, AnsweredKeeps

(* A restart loads a file that has what was acknowledged.                  *)
LEMMA LoadSharesKeeps ==
  ASSUME ShareInv, LoadShares
  PROVE  ShareInv'
<1>1. /\ shares' = (IF shareFile = Torn THEN {} ELSE shareFile)
      /\ json' = [c \in Callers |-> {}] /\ cpc' = [c \in Callers |-> "idle"]
      /\ target' = [c \in Callers |-> Torn] /\ lossy' = FALSE /\ shareFile' = shareFile
  BY DEF LoadShares
<1>2. IsShareMap(shares') /\ IdsIn(shares') \subseteq kept.drawn /\ kept.drawn \subseteq Ids
  BY <1>1 DEF ShareInv, ShareTypes, MapsDrawn, IsShareMap, IdsIn
<1>3. /\ kept' \in [created : SUBSET Ids, revoked : SUBSET Ids, drawn : SUBSET Ids]
      /\ kept'.drawn = kept.drawn /\ kept'.revoked \subseteq kept'.drawn
      /\ kept'.created \subseteq IdsIn(shares')
      /\ kept'.revoked \cap IdsIn(shares') = {}
  <2> DEFINE m == IdsIn(shares')
             gone == kept.revoked \ m
  <2>1. /\ kept \in [created : SUBSET Ids, revoked : SUBSET Ids, drawn : SUBSET Ids]
        /\ kept.revoked \subseteq kept.drawn
    BY DEF ShareInv, ShareTypes, MapsDrawn
  <2>2. CASE lossy \/ shareFile = Torn
    <3>1. kept' = [kept EXCEPT !.created = m, !.revoked = gone]
      BY <2>2 DEF LoadShares
    <3>2. m \subseteq Ids /\ gone \subseteq kept.drawn /\ gone \cap m = {} /\ gone \subseteq Ids
      BY <1>2, <2>1
    <3>3. m = IdsIn(shares')
      OBVIOUS
    <3> HIDE DEF m, gone
    <3> QED  BY <2>1, <3>1, <3>2, <3>3
  <2>3. CASE ~(lossy \/ shareFile = Torn)
    <3>1. kept' = kept
      BY <2>3 DEF LoadShares
    <3>2. kept.created \subseteq m /\ kept.revoked \cap m = {}
      BY <1>1, <2>3 DEF ShareInv, FileIsCurrent
    <3> QED  BY <2>1, <3>1, <3>2
  <2> QED  BY <2>2, <2>3
<1>4. ShareTypes'
  BY <1>1, <1>3 DEF ShareTypes, CPcs
<1>5. MapsDrawn'
  BY <1>1, <1>2, <1>3 DEF ShareInv, MapsDrawn, IsShareMap, IdsIn
<1>6. AckedSharesLast'
  BY <1>3 DEF AckedSharesLast, IdsIn
<1>7. FileIsCurrent'
  BY <1>1, <1>3 DEF FileIsCurrent, IdsIn
<1>8. \A c \in Callers : CallerOK(c)'
  BY <1>1 DEF CallerOK, Revoking, Saving
<1> QED  BY <1>4, <1>5, <1>6, <1>7, <1>8 DEF ShareInv

(* A caller that goes to the controller or comes from it concerns no share. *)
LEMMA CtrlStepKeepsShares ==
  ASSUME ShareInv, NEW c \in Callers, NEW l \in Controlling \cup {"idle"}, CtrlStep(c, l)
  PROVE  ShareInv'
<1>1. /\ cpc' = [cpc EXCEPT ![c] = l]
      /\ UNCHANGED <<shares, shareFile, saving, json, target, kept, lossy>>
  BY DEF CtrlStep, CGoto
<1>2. ShareTypes' /\ MapsDrawn' /\ AckedSharesLast' /\ FileIsCurrent'
  BY <1>1 DEF ShareInv, ShareTypes, MapsDrawn, AckedSharesLast, FileIsCurrent, IsShareMap,
              IdsIn, CPcs, Controlling
<1>3. ASSUME NEW d \in Callers PROVE CallerOK(d)'
  <2>1. CallerOK(d)
    BY DEF ShareInv
  <2>2. cpc'[d] = cpc[d] \/ cpc'[d] \in Controlling \cup {"idle"}
    BY <1>1 DEF ShareInv, ShareTypes
  <2> QED  BY <1>1, <2>1, <2>2 DEF CallerOK, IdsIn, Controlling, Revoking, Saving
<1> QED  BY <1>2, <1>3 DEF ShareInv

LEMMA SharesBegin ==
  ASSUME SharesInit
  PROVE  ShareInv
<1>1. kept = [created |-> {}, revoked |-> {}, drawn |-> {}]
  BY DEF SharesInit
<1>2. /\ kept \in [created : SUBSET Ids, revoked : SUBSET Ids, drawn : SUBSET Ids]
      /\ kept.created = {} /\ kept.revoked = {}
  BY <1>1
<1>3. ShareTypes
  BY <1>2 DEF SharesInit, ShareTypes, CPcs
<1>4. MapsDrawn /\ AckedSharesLast /\ FileIsCurrent
  BY <1>2 DEF SharesInit, MapsDrawn, AckedSharesLast, FileIsCurrent, IsShareMap, IdsIn
<1>5. \A c \in Callers : CallerOK(c)
  BY DEF SharesInit, CallerOK, Revoking, Saving
<1> QED  BY <1>3, <1>4, <1>5 DEF ShareInv

-----------------------------------------------------------------------------
(* The archive of a shared folder                                          *)

\* What is extracted for a name, and for all of them.
PackOf(fs, n) == [name |-> n, content |-> Last(fs[n].versions).content]
AllPacks(fs) == {PackOf(fs, n) : n \in {m \in Names : fs[m].versions # << >>}}

LEMMA PacksType ==
  ASSUME NEW fs \in [Names -> FileRecords], NEW n \in Names, fs[n].versions # << >>
  PROVE  PackOf(fs, n) \in Packs /\ PackOf(fs, n).name = n
<1> DEFINE vs == fs[n].versions
           V == [version : Nat, content : Contents]
<1>1. vs \in Seq(V) /\ vs # << >>
  BY DEF FileRecords
<1> HIDE DEF vs
<1>2. Len(vs) \in 1..Len(vs)
  BY <1>1, EmptySeq
<1>3. vs[Len(vs)] \in V
  BY <1>1, <1>2, ElementOfSeq
<1>4. Last(vs).content \in Contents
  BY <1>3 DEF Last
<1> QED  BY <1>4 DEF vs, PackOf, Packs

LEMMA NoDownloadType == NoDownload \in Downloads /\ NoDownload.pc = "idle"
BY DEF NoDownload, Downloads

(* A download begins with all that is listed still to come.                *)
LEMMA BeginDownloadKeeps ==
  ASSUME StoreTypes, ShareInv, ArchiveInv, BeginDownload, files' = files
  PROVE  ArchiveInv'
<1>1. PICK s \in shares :
        LET listed == {n \in Under[s.path] : IsFile(n)} IN
        \/ public' = [NoDownload EXCEPT
             !.pc = IF listed = {} THEN "single" ELSE "pack",
             !.path = s.path, !.todo = listed,
             !.stayed = {n \in listed : HasVersion(n)},
             !.held = {Current(n) : n \in {m \in Names : HasVersion(m)}}]
        \/ public' = [NoDownload EXCEPT !.pc = "single", !.path = s.path]
  BY DEF BeginDownload
<1>2. s.path \in Paths
  BY <1>1 DEF ShareInv, MapsDrawn, IsShareMap, Links
<1> DEFINE listed == {n \in Under[s.path] : IsFile(n)}
           l == IF listed = {} THEN "single" ELSE "pack"
           stayed == {n \in listed : HasVersion(n)}
           held == AllPacks(files)
           z == NoDownload
<1>3. listed \subseteq Names /\ stayed \subseteq listed
  BY <1>2, SharesAssumption
<1>4. held \subseteq Packs
  BY PacksType DEF StoreTypes, AllPacks
<1>5. l \in {"single", "pack"}
  OBVIOUS
<1>6. /\ \A n \in stayed : files[n].versions # << >>
      /\ \A n \in Names : files[n].versions # << >> => PackOf(files, n) \in held
  BY DEF AllPacks, HasVersion
<1>7. z \in Downloads /\ z.packed = {} /\ z.todo = {} /\ z.stayed = {} /\ z.held = {}
  BY DEF NoDownload, Downloads
<1>8. \/ public' = [z EXCEPT !.pc = l, !.path = s.path, !.todo = listed,
                             !.stayed = stayed, !.held = held]
      \/ public' = [z EXCEPT !.pc = "single", !.path = s.path]
  <2>1. held = {Current(n) : n \in {m \in Names : HasVersion(m)}}
    BY DEF AllPacks, PackOf, Current, HasVersion
  <2> HIDE DEF held
  <2> QED  BY <1>1, <2>1
<1> HIDE DEF z, l, listed, stayed, held
<1>9. CASE public' = [z EXCEPT !.pc = l, !.path = s.path, !.todo = listed,
                               !.stayed = stayed, !.held = held]
  <2>1. /\ public' \in Downloads /\ public'.packed = {} /\ public'.todo = listed
        /\ public'.stayed = stayed /\ public'.held = held
    BY <1>2, <1>3, <1>4, <1>5, <1>7, <1>9 DEF Downloads
  <2>2. PackOK(public', files)
    BY <1>3, <1>6, <2>1 DEF PackOK, PackOf
  <2> QED  BY <2>1, <2>2 DEF ArchiveInv, PackOK, NamesIn
<1>10. CASE public' = [z EXCEPT !.pc = "single", !.path = s.path]
  BY <1>2, <1>7, <1>10 DEF Downloads, ArchiveInv
<1> QED  BY <1>8, <1>9, <1>10

(* One file more: it was still to come, so that no name is packed twice.   *)
LEMMA PackFileKeeps ==
  ASSUME StoreTypes, ArchiveInv, PackFile, files' = files
  PROVE  ArchiveInv'
<1>1. public.pc = "pack" /\ public \in Downloads /\ PackOK(public, files)
  BY DEF PackFile, ArchiveInv
<1>2. PICK n \in public.todo :
        public' = IF HasVersion(n)
                    THEN [public EXCEPT !.todo = @ \ {n}, !.packed = @ \cup {Current(n)}]
                    ELSE [public EXCEPT !.todo = AfterMissing(n)]
  BY DEF PackFile
<1>3. n \in Names
  BY <1>1, <1>2 DEF Downloads
<1>4. CASE HasVersion(n)
  <2> DEFINE x == PackOf(files, n)
  <2>1. x \in Packs /\ x.name = n /\ x = Current(n)
    BY <1>3, <1>4, PacksType DEF StoreTypes, HasVersion, Current, PackOf
  <2>2. x \in public.held
    BY <1>1, <1>3, <1>4 DEF PackOK, PackOf, HasVersion
  <2> HIDE DEF x
  <2>3. public' = [public EXCEPT !.todo = @ \ {n}, !.packed = @ \cup {x}]
    BY <1>2, <1>4, <2>1
  <2>4. /\ public' \in Downloads /\ public'.todo = public.todo \ {n}
        /\ public'.packed = public.packed \cup {x} /\ public'.pc = "pack"
        /\ public'.stayed = public.stayed /\ public'.held = public.held
        /\ public'.clean = public.clean
    BY <1>1, <2>1, <2>3 DEF Downloads
  <2>5. PackOK(public', files)
    <3>1. \A f, g \in public'.packed : f.name = g.name => f = g
      BY <1>1, <1>2, <2>1, <2>4 DEF PackOK
    <3>2. \A f \in public'.packed : f.name \notin public'.todo
      BY <1>1, <2>1, <2>4 DEF PackOK
    <3>3. public'.clean => public'.stayed \subseteq NamesIn(public'.packed) \cup public'.todo
      BY <1>1, <2>1, <2>4 DEF PackOK, NamesIn
    <3>4. public'.packed \subseteq public'.held
      BY <1>1, <2>2, <2>4 DEF PackOK
    <3> QED  BY <1>1, <2>4, <3>1, <3>2, <3>3, <3>4 DEF PackOK
  <2> QED  BY <2>4, <2>5 DEF ArchiveInv, PackOK, NamesIn
<1>5. CASE ~HasVersion(n)
  <2>1. public' = [public EXCEPT !.todo = public.todo \ {n}]
    BY <1>2, <1>5 DEF AfterMissing
  <2>2. /\ public' \in Downloads /\ public'.todo = public.todo \ {n}
        /\ public'.packed = public.packed
        /\ public'.stayed = public.stayed /\ public'.held = public.held
        /\ public'.clean = public.clean
    BY <1>1, <2>1 DEF Downloads
  <2>3. n \notin public.stayed
    BY <1>1, <1>5 DEF PackOK, HasVersion
  <2>4. PackOK(public', files)
    BY <1>1, <2>2, <2>3 DEF PackOK, NamesIn
  <2> QED  BY <2>2, <2>4 DEF ArchiveInv, PackOK, NamesIn
<1> QED  BY <1>4, <1>5

LEMMA PackFailsKeeps ==
  ASSUME ArchiveInv, PackFails, files' = files
  PROVE  ArchiveInv'
<1>1. public.pc = "pack" /\ public \in Downloads /\ PackOK(public, files)
  BY DEF PackFails, ArchiveInv
<1>2. PICK n \in public.todo : public' = [public EXCEPT !.todo = public.todo \ {n}, !.clean = FALSE]
  BY DEF PackFails, AfterMissing
<1>3. /\ public' \in Downloads /\ public'.todo = public.todo \ {n}
      /\ public'.packed = public.packed
      /\ public'.stayed = public.stayed /\ public'.held = public.held
      /\ public'.clean = FALSE
  BY <1>1, <1>2 DEF Downloads
<1>4. PackOK(public', files)
  BY <1>1, <1>3 DEF PackOK
<1> QED  BY <1>3, <1>4 DEF ArchiveInv, PackOK, NamesIn

(* A change of the store takes names out of those that stayed, and adds to *)
(* what the names have had.                                                *)
LEMMA ObserveKeeps ==
  ASSUME StoreTypes', ArchiveInv, ObserveStore
  PROVE  ArchiveInv'
<1>1. CASE public.pc # "pack"
  BY <1>1 DEF ObserveStore, ArchiveInv
<1>2. CASE public.pc = "pack"
  <2>1. public \in Downloads /\ PackOK(public, files)
    BY <1>2 DEF ArchiveInv
  <2> DEFINE stayed == {n \in public.stayed : files'[n].versions # << >>}
             held == public.held \cup AllPacks(files')
  <2>2. public' = [public EXCEPT !.stayed = stayed, !.held = held]
    BY <1>2 DEF ObserveStore, AllPacks, PackOf
  <2>3. AllPacks(files') \subseteq Packs
    BY PacksType DEF StoreTypes, AllPacks
  <2>4. held \subseteq Packs /\ stayed \subseteq Names
    BY <2>1, <2>3 DEF Downloads
  <2>5. /\ \A n \in stayed : files'[n].versions # << >>
        /\ \A n \in Names : files'[n].versions # << >> => PackOf(files', n) \in held
        /\ stayed \subseteq public.stayed /\ public.held \subseteq held
    BY DEF AllPacks
  <2> HIDE DEF stayed, held
  <2>6. /\ public' \in Downloads /\ public'.todo = public.todo
        /\ public'.packed = public.packed
        /\ public'.stayed = stayed /\ public'.held = held
        /\ public'.clean = public.clean
    BY <2>1, <2>2, <2>4 DEF Downloads
  <2>7. PackOK(public', files')
    BY <2>1, <2>5, <2>6 DEF PackOK, PackOf
  <2> QED  BY <2>6, <2>7 DEF ArchiveInv, PackOK, NamesIn
<1> QED  BY <1>1, <1>2

LEMMA ArchiveStays ==
  ASSUME ArchiveInv, files' = files, public' = public \/ public' = NoDownload
  PROVE  ArchiveInv'
BY NoDownloadType DEF ArchiveInv, PackOK, NamesIn

-----------------------------------------------------------------------------
(* The watcher's controller                                                *)

LEMMA NoWatcherIsNone == NoWatcher \notin Watchers
BY DesktopAssumption DEF NoWatcher, Watchers

(* Only the caller that holds the controller's lock uses the controller.   *)
LEMMA LockedByOne ==
  ASSUME CtrlInv, NEW c \in Callers, cpc[c] \in Controlling
  PROVE  ctrl.lock = c /\ c # Nobody /\ \A d \in Callers : cpc[d] \in Controlling => d = c
BY DesktopAssumption DEF CtrlInv, CtrlHeld

LEMMA LockCtrlKeeps ==
  ASSUME ShareTypes, CtrlInv, NEW c \in Callers, LockCtrl(c)
  PROVE  CtrlInv'
<1>1. PICK l \in {"stop", "restart"} : cpc' = [cpc EXCEPT ![c] = l]
  BY DEF LockCtrl, CtrlStep, CGoto
<1>2. cpc[c] = "idle" /\ ctrl.lock = Nobody /\ ctrl' = [ctrl EXCEPT !.lock = c]
      /\ UNCHANGED <<live, config>>
  BY DEF LockCtrl
<1>3. /\ CtrlTypes' /\ ctrl'.lock = c /\ ctrl'.handle = ctrl.handle
      /\ ctrl'.dir = ctrl.dir /\ ctrl'.saved = ctrl.saved
  BY <1>2 DEF CtrlInv, CtrlTypes
<1>4. c # Nobody
  BY DesktopAssumption
<1>5. CtrlHeld'
  BY <1>1, <1>2, <1>3, <1>4 DEF CtrlInv, CtrlHeld, ShareTypes, Controlling
<1>6. LiveKnown'
  <2>1. live \subseteq {ctrl.handle}
    BY <1>2 DEF CtrlInv, LiveKnown
  <2>2. \A d \in Callers : cpc'[d] # "start"
    BY <1>1, <1>2 DEF CtrlInv, CtrlHeld, ShareTypes, Controlling
  <2> QED  BY <1>2, <1>3, <1>4, <2>1, <2>2 DEF LiveKnown
<1>7. DirShown'
  BY <1>2, <1>3 DEF CtrlInv, DirShown
<1> QED  BY <1>3, <1>5, <1>6, <1>7 DEF CtrlInv

LEMMA WatcherEndsKeeps ==
  ASSUME CtrlInv, WatcherEnds, cpc' = cpc
  PROVE  CtrlInv'
<1>1. PICK c \in Callers : cpc[c] \in {"stop", "restart"}
  BY DEF WatcherEnds
<1>2. live' = live \ {ctrl.handle} /\ UNCHANGED <<ctrl, config>>
  BY DEF WatcherEnds
<1>3. ctrl.lock = c /\ c # Nobody
  BY <1>1, LockedByOne DEF Controlling
<1>4. LiveKnown'
  BY <1>2, <1>3 DEF CtrlInv, LiveKnown
<1>5. CtrlTypes' /\ CtrlHeld' /\ DirShown'
  BY <1>2 DEF CtrlInv, CtrlTypes, CtrlHeld, DirShown
<1> QED  BY <1>4, <1>5 DEF CtrlInv

(* A stop returns only when the watcher's thread has ended.                *)
LEMMA StopWatcherKeeps ==
  ASSUME ShareTypes, CtrlInv, NEW c \in Callers, StopWatcher(c)
  PROVE  CtrlInv'
<1>1. /\ cpc[c] = "stop" /\ ctrl.handle \notin live
      /\ ctrl' = [ctrl EXCEPT !.handle = NoWatcher, !.lock = Nobody]
      /\ cpc' = [cpc EXCEPT ![c] = "idle"] /\ UNCHANGED <<live, config>>
  BY DEF StopWatcher, Joined, CtrlStep, CGoto
<1>2. /\ CtrlTypes' /\ ctrl'.lock = Nobody /\ ctrl'.handle = NoWatcher
      /\ ctrl'.dir = ctrl.dir /\ ctrl'.saved = ctrl.saved
  BY <1>1 DEF CtrlInv, CtrlTypes
<1>3. live = {}
  BY <1>1 DEF CtrlInv, LiveKnown
<1>4. \A d \in Callers : cpc'[d] \notin Controlling
  BY <1>1, LockedByOne DEF Controlling, ShareTypes
<1>5. CtrlHeld'
  BY <1>2, <1>4 DEF CtrlHeld
<1>6. LiveKnown'
  BY <1>1, <1>2, <1>3 DEF LiveKnown
<1>7. DirShown'
  BY <1>1, <1>2 DEF CtrlInv, DirShown
<1> QED  BY <1>2, <1>5, <1>6, <1>7 DEF CtrlInv

LEMMA StopOldKeeps ==
  ASSUME ShareTypes, CtrlInv, NEW c \in Callers, StopOld(c)
  PROVE  CtrlInv'
<1>1. /\ cpc[c] = "restart" /\ ctrl.handle \notin live
      /\ ctrl' = [ctrl EXCEPT !.handle = NoWatcher]
      /\ cpc' = [cpc EXCEPT ![c] = "start"] /\ UNCHANGED <<live, config>>
  BY DEF StopOld, Joined, CtrlStep, CGoto
<1>2. /\ CtrlTypes' /\ ctrl'.lock = ctrl.lock /\ ctrl'.handle = NoWatcher
      /\ ctrl'.dir = ctrl.dir /\ ctrl'.saved = ctrl.saved
  BY <1>1 DEF CtrlInv, CtrlTypes
<1>3. live = {}
  BY <1>1 DEF CtrlInv, LiveKnown
<1>4. CtrlHeld'
  BY <1>1, <1>2 DEF CtrlInv, CtrlHeld, ShareTypes, Controlling
<1>5. LiveKnown'
  BY <1>1, <1>2, <1>3 DEF LiveKnown
<1>6. DirShown'
  BY <1>1, <1>2 DEF CtrlInv, DirShown
<1> QED  BY <1>2, <1>4, <1>5, <1>6 DEF CtrlInv

LEMMA StartNewKeeps ==
  ASSUME ShareTypes, CtrlInv, NEW c \in Callers, NEW ok \in BOOLEAN, StartNew(c, ok)
  PROVE  CtrlInv'
<1>1. PICK d \in Dirs :
        /\ live' = live \cup {[by |-> c, dir |-> d]}
        /\ ctrl' = [lock |-> Nobody, handle |-> [by |-> c, dir |-> d], dir |-> d, saved |-> ok]
        /\ config' = IF ok THEN d ELSE config
  BY DEF StartNew
<1> DEFINE h == [by |-> c, dir |-> d]
<1>2. h \in Watchers /\ h.dir = d
  BY DEF Watchers
<1> HIDE DEF h
<1>3. /\ live' = live \cup {h} /\ config' = (IF ok THEN d ELSE config)
      /\ ctrl' = [lock |-> Nobody, handle |-> h, dir |-> d, saved |-> ok]
  BY <1>1 DEF h
<1>4. cpc[c] = "start" /\ cpc' = [cpc EXCEPT ![c] = "idle"]
  BY DEF StartNew, CtrlStep, CGoto
<1>5. h # NoWatcher
  BY <1>2, NoWatcherIsNone
<1>6. live = {}
  BY <1>4 DEF CtrlInv, LiveKnown
<1>7. /\ ctrl'.lock = Nobody /\ ctrl'.handle = h /\ ctrl'.dir = d /\ ctrl'.saved = ok
      /\ CtrlTypes'
  BY <1>2, <1>3, <1>6 DEF CtrlInv, CtrlTypes
<1>8. \A e \in Callers : cpc'[e] \notin Controlling
  BY <1>4, LockedByOne DEF Controlling, ShareTypes
<1>9. CtrlHeld'
  BY <1>7, <1>8 DEF CtrlHeld
<1>10. LiveKnown'
  BY <1>3, <1>5, <1>6, <1>7, <1>8 DEF LiveKnown, Controlling
<1>11. DirShown'
  BY <1>2, <1>3, <1>7 DEF DirShown
<1> QED  BY <1>7, <1>9, <1>10, <1>11 DEF CtrlInv

LEMMA StartFailsKeeps ==
  ASSUME ShareTypes, CtrlInv, NEW c \in Callers, StartFails(c)
  PROVE  CtrlInv'
<1>1. /\ cpc[c] = "start" /\ ctrl' = [ctrl EXCEPT !.lock = Nobody]
      /\ cpc' = [cpc EXCEPT ![c] = "idle"] /\ UNCHANGED <<live, config>>
  BY DEF StartFails, CtrlStep, CGoto
<1>2. /\ CtrlTypes' /\ ctrl'.lock = Nobody /\ ctrl'.handle = ctrl.handle
      /\ ctrl'.dir = ctrl.dir /\ ctrl'.saved = ctrl.saved
  BY <1>1 DEF CtrlInv, CtrlTypes
<1>3. live = {} /\ ctrl.handle = NoWatcher
  BY <1>1 DEF CtrlInv, LiveKnown
<1>4. \A d \in Callers : cpc'[d] \notin Controlling
  BY <1>1, LockedByOne DEF Controlling, ShareTypes
<1>5. CtrlHeld'
  BY <1>2, <1>4 DEF CtrlHeld
<1>6. LiveKnown'
  BY <1>1, <1>2, <1>3 DEF LiveKnown
<1>7. DirShown'
  BY <1>1, <1>2 DEF CtrlInv, DirShown
<1> QED  BY <1>2, <1>5, <1>6, <1>7 DEF CtrlInv

(* Calls about shares do not concern the controller.                       *)
LEMMA ShareStepKeepsCtrl ==
  ASSUME CtrlInv, ShareTypes, NEW c \in Callers, NEW l \in CPcs \ Controlling,
         cpc[c] \notin Controlling, cpc' = [cpc EXCEPT ![c] = l], UNCHANGED watchVars
  PROVE  CtrlInv'
<1>1. UNCHANGED <<ctrl, live, config>>
  BY DEF watchVars
<1>2. \A d \in Callers : cpc'[d] = cpc[d] \/ (cpc'[d] \notin Controlling /\ cpc[d] \notin Controlling)
  BY DEF ShareTypes
<1>3. CtrlHeld'
  BY <1>1, <1>2 DEF CtrlInv, CtrlHeld
<1>4. LiveKnown'
  BY <1>1, <1>2 DEF CtrlInv, LiveKnown, Controlling
<1>5. CtrlTypes' /\ DirShown'
  BY <1>1 DEF CtrlInv, CtrlTypes, DirShown
<1> QED  BY <1>3, <1>4, <1>5 DEF CtrlInv

LEMMA CtrlStays ==
  ASSUME CtrlInv, cpc' = cpc, UNCHANGED watchVars
  PROVE  CtrlInv'
BY DEF CtrlInv, CtrlTypes, CtrlHeld, LiveKnown, DirShown, watchVars

-----------------------------------------------------------------------------
(* The process                                                             *)

LEMMA RestartKeepsMount ==
  ASSUME StoreTypes, MountInv, Restart
  PROVE  MountInv'
<1>1. /\ tree' = [files |-> files, snaps |-> snaps] /\ newTree' = EmptyTree
      /\ refresher' = Nobody /\ cache' = EmptyCache /\ mode' = mode
      /\ wpc' = [w \in Workers |-> "idle"] /\ read' = [w \in Workers |-> NoRead]
  BY DEF Restart
<1>2. TreeTypes(tree)' /\ TreeTypes(newTree)' /\ mode' \in {"webdav", "fuse"}
  BY <1>1, NoFileType DEF MountInv, TreeTypes, StoreTypes, EmptyTree
<1>3. IsCache(cache)'
  BY <1>1, EmptyIsCache DEF IsCache
<1>4. (wpc \in [Workers -> WPcs])' /\ ReadTypes'
  BY <1>1 DEF WPcs, ReadTypes
<1>5. RefreshHeld'
  BY <1>1 DEF RefreshHeld, Refreshing
<1>6. \A w \in Workers : ReadOK(w)'
  BY <1>1 DEF ReadOK, Resting
<1> QED  BY <1>2, <1>3, <1>4, <1>5, <1>6 DEF MountInv

LEMMA RestartKeepsCtrl ==
  ASSUME CtrlInv, Restart
  PROVE  CtrlInv'
<1>1. /\ ctrl' = [lock |-> Nobody, handle |-> NoWatcher, dir |-> config, saved |-> TRUE]
      /\ live' = {} /\ config' = config /\ cpc' = [c \in Callers |-> "idle"]
  BY DEF Restart, LoadShares
<1>2. config \in Dirs \cup {Nobody}
  BY DEF CtrlInv, CtrlTypes
<1>3. /\ ctrl'.lock = Nobody /\ ctrl'.handle = NoWatcher /\ ctrl'.dir = config
      /\ ctrl' \in [lock : Callers \cup {Nobody}, handle : Watchers \cup {NoWatcher},
                    dir : Dirs \cup {Nobody}, saved : BOOLEAN]
  BY <1>1, <1>2
<1>4. CtrlTypes' /\ DirShown'
  BY <1>1, <1>2, <1>3 DEF CtrlTypes, DirShown
<1>5. CtrlHeld' /\ LiveKnown'
  BY <1>1, <1>3 DEF CtrlHeld, LiveKnown, Controlling
<1> QED  BY <1>4, <1>5 DEF CtrlInv

LEMMA MountStays ==
  ASSUME MountInv, UNCHANGED storeVars, UNCHANGED mountVars
  PROVE  MountInv'
BY DEF MountInv, TreeTypes, ReadTypes, IsCache, RefreshHeld, ReadOK, Announced, mountVars, storeVars

LEMMA SharesStay ==
  ASSUME ShareInv, UNCHANGED <<shares, shareFile, saving, json, cpc, target, kept, lossy>>
  PROVE  ShareInv'
BY DEF ShareInv, ShareTypes, MapsDrawn, AckedSharesLast, FileIsCurrent, CallerOK, IsShareMap,
       IdsIn

LEMMA StoreStays ==
  ASSUME StoreTypes, UNCHANGED storeVars
  PROVE  StoreTypes' /\ files' = files
BY DEF StoreTypes, storeVars

LEMMA DesktopBegins ==
  ASSUME Init
  PROVE  DesktopInv
<1>1. /\ files = FilesAtStart /\ snaps = {} /\ readable = Referenced /\ SharesInit
      /\ ctrl = [lock |-> Nobody, handle |-> NoWatcher, dir |-> Nobody, saved |-> TRUE]
      /\ live = {} /\ config = Nobody
  BY DEF Init
<1>2. StoreTypes
  <2>1. files \in [Names -> FileRecords]
    BY <1>1, DesktopAssumption
  <2>2. ASSUME NEW n \in Names, NEW i \in DOMAIN files[n].versions
        PROVE  files[n].versions[i].content \in Contents
    <3> DEFINE vs == files[n].versions
               V == [version : Nat, content : Contents]
    <3>1. vs \in Seq(V) /\ i \in DOMAIN vs
      BY <2>1 DEF FileRecords
    <3> HIDE DEF vs
    <3>2. i \in 1..Len(vs)
      BY <3>1, LenProperties
    <3>3. vs[i] \in V
      BY <3>1, <3>2, ElementOfSeq
    <3> QED  BY <3>3 DEF vs
  <2>3. readable \subseteq Contents
    BY <1>1, <2>2 DEF Referenced
  <2> QED  BY <1>1, <2>1, <2>3 DEF StoreTypes
<1>3. MountInv
  BY <1>2, MountBegins DEF Init
<1>4. ShareInv
  BY <1>1, SharesBegin
<1>5. ArchiveInv
  BY <1>1, NoDownloadType DEF SharesInit, ArchiveInv
<1>6. CtrlInv
  <2>1. /\ ctrl.lock = Nobody /\ ctrl.handle = NoWatcher /\ ctrl.dir = Nobody
        /\ ctrl \in [lock : Callers \cup {Nobody}, handle : Watchers \cup {NoWatcher},
                     dir : Dirs \cup {Nobody}, saved : BOOLEAN]
    BY <1>1
  <2>2. cpc = [c \in Callers |-> "idle"]
    BY <1>1 DEF SharesInit
  <2>3. CtrlTypes /\ DirShown
    BY <1>1, <2>1 DEF CtrlTypes, DirShown
  <2>4. CtrlHeld /\ LiveKnown
    BY <1>1, <2>1, <2>2 DEF CtrlHeld, LiveKnown, Controlling
  <2> QED  BY <2>3, <2>4 DEF CtrlInv
<1> QED  BY <1>2, <1>3, <1>4, <1>5, <1>6 DEF DesktopInv

(* A step of a worker of the mount, and nothing else.                      *)
LEMMA MountWorksKeeps ==
  ASSUME DesktopInv, NEW w \in Workers, UNCHANGED <<storeVars, shareVars, watchVars>>,
         WorkerStep(w) \/ Receive(w) \/ FuseRead(w) \/ BuildFails(w) \/ FetchFails(w)
  PROVE  DesktopInv'
<1>1. UNCHANGED storeVars /\ UNCHANGED watchVars
      /\ UNCHANGED <<shares, shareFile, saving, json, cpc, target, public, kept, lossy>>
  BY DEF shareVars
<1>2. StoreTypes' /\ files' = files
  BY <1>1, StoreStays DEF DesktopInv
<1>3. MountInv'
  BY <1>1, WorkerKeeps DEF DesktopInv
<1>4. ShareInv' /\ ArchiveInv' /\ CtrlInv'
  BY <1>1, <1>2, SharesStay, ArchiveStays, CtrlStays DEF DesktopInv
<1> QED  BY <1>2, <1>3, <1>4 DEF DesktopInv

(* A call about shares, and nothing else.                                  *)
LEMMA ShareCallKeeps ==
  ASSUME DesktopInv, NEW c \in Callers, UNCHANGED <<storeVars, mountVars, watchVars>>,
         AddShare(c) \/ RevokeShare(c) \/ CallerSaves(c) \/ SaveFails(c)
  PROVE  DesktopInv'
<1>1. UNCHANGED storeVars /\ UNCHANGED mountVars /\ UNCHANGED watchVars
  OBVIOUS
<1>2. StoreTypes' /\ files' = files /\ MountInv'
  BY <1>1, StoreStays, MountStays DEF DesktopInv
<1>3. ShareInv'
  BY AddShareKeeps, RevokeShareKeeps, BeginSaveKeeps, TruncateKeeps, WriteSharesKeeps,
     SaveFailsKeeps DEF DesktopInv, CallerSaves
<1>4. public' = public
  BY DEF AddShare, RevokeShare, CallerSaves, BeginSave, Truncate, WriteShares, SaveFails, Answered
<1>5. ArchiveInv'
  BY <1>2, <1>4, ArchiveStays DEF DesktopInv
<1>6. PICK l \in CPcs \ Controlling : cpc' = [cpc EXCEPT ![c] = l]
  <2>1. {"added", "revoked", "saveAdded", "saveRevoked", "writeAdded", "writeRevoked", "idle"}
          \subseteq CPcs \ Controlling
    BY DEF CPcs, Controlling
  <2> QED  BY <2>1 DEF AddShare, RevokeShare, CallerSaves, BeginSave, Truncate, WriteShares,
                       SaveFails, Answered, CGoto
<1>7. cpc[c] \notin Controlling
  BY DEF AddShare, RevokeShare, CallerSaves, BeginSave, Truncate, WriteShares, SaveFails,
         Controlling
<1>8. CtrlInv'
  BY <1>1, <1>6, <1>7, ShareStepKeepsCtrl DEF DesktopInv, ShareInv
<1> QED  BY <1>2, <1>3, <1>5, <1>8 DEF DesktopInv

(* A call of the controller, and nothing else.                             *)
LEMMA WatchCallKeeps ==
  ASSUME DesktopInv, NEW c \in Callers, UNCHANGED <<storeVars, mountVars>>,
         \/ LockCtrl(c) \/ StopWatcher(c) \/ StopOld(c)
         \/ StartNew(c, TRUE) \/ StartNew(c, FALSE) \/ StartFails(c)
  PROVE  DesktopInv'
<1>1. UNCHANGED storeVars /\ UNCHANGED mountVars
  OBVIOUS
<1>2. StoreTypes' /\ files' = files /\ MountInv'
  BY <1>1, StoreStays, MountStays DEF DesktopInv
<1>3. PICK l \in Controlling \cup {"idle"} : CtrlStep(c, l)
  <2>1. {"stop", "restart", "start", "idle"} \subseteq Controlling \cup {"idle"}
    BY DEF Controlling
  <2> QED  BY <2>1 DEF LockCtrl, StopWatcher, StopOld, StartNew, StartFails
<1>4. ShareInv'
  BY <1>3, CtrlStepKeepsShares DEF DesktopInv
<1>5. public' = public
  BY <1>3 DEF CtrlStep
<1>6. ArchiveInv'
  BY <1>2, <1>5, ArchiveStays DEF DesktopInv
<1>7. ShareTypes /\ CtrlInv
  BY DEF DesktopInv, ShareInv
<1>8. CtrlInv'
  BY <1>7, LockCtrlKeeps, StopWatcherKeeps, StopOldKeeps, StartNewKeeps, StartFailsKeeps
<1> QED  BY <1>2, <1>4, <1>6, <1>8 DEF DesktopInv

(* A step of the public server, and nothing else.                          *)
LEMMA PublicKeeps ==
  ASSUME DesktopInv, UNCHANGED <<storeVars, mountVars, watchVars>>,
         BeginDownload \/ PublicStep \/ PackFails
  PROVE  DesktopInv'
<1>1. /\ UNCHANGED storeVars /\ UNCHANGED mountVars /\ UNCHANGED watchVars
      /\ UNCHANGED <<shares, shareFile, saving, json, cpc, target, kept, lossy>>
  BY DEF BeginDownload, PublicStep, PackFile, SendDownload, PackFails
<1>2. StoreTypes' /\ files' = files /\ MountInv' /\ ShareInv' /\ CtrlInv'
  BY <1>1, StoreStays, MountStays, SharesStay, CtrlStays DEF DesktopInv
<1>3. SendDownload => public' = NoDownload
  BY DEF SendDownload
<1>4. ArchiveInv'
  BY <1>2, <1>3, BeginDownloadKeeps, PackFileKeeps, PackFailsKeeps, ArchiveStays
     DEF DesktopInv, PublicStep
<1> QED  BY <1>2, <1>4 DEF DesktopInv

LEMMA ChangeStoreKeeps ==
  ASSUME DesktopInv, ChangeStore
  PROVE  DesktopInv'
<1>1. /\ StoreStep /\ ObserveStore /\ UNCHANGED mountVars /\ UNCHANGED watchVars
      /\ UNCHANGED <<shares, shareFile, saving, json, cpc, target, kept, lossy>>
  BY DEF ChangeStore
<1>2. StoreTypes'
  BY <1>1, StoreStepTypes DEF DesktopInv
<1>3. MountInv'
  BY <1>1, StoreKeepsMount DEF DesktopInv
<1>4. ShareInv' /\ CtrlInv'
  BY <1>1, SharesStay, CtrlStays DEF DesktopInv
<1>5. ArchiveInv'
  BY <1>1, <1>2, ObserveKeeps DEF DesktopInv
<1> QED  BY <1>2, <1>3, <1>4, <1>5 DEF DesktopInv

LEMMA RestartKeeps ==
  ASSUME DesktopInv, Restart
  PROVE  DesktopInv'
<1>1. UNCHANGED storeVars /\ LoadShares /\ public' = NoDownload
  BY DEF Restart, LoadShares
<1>2. StoreTypes' /\ files' = files
  BY <1>1, StoreStays DEF DesktopInv
<1>3. MountInv' /\ CtrlInv'
  BY RestartKeepsMount, RestartKeepsCtrl DEF DesktopInv
<1>4. ShareInv' /\ ArchiveInv'
  BY <1>1, <1>2, LoadSharesKeeps, ArchiveStays DEF DesktopInv
<1> QED  BY <1>2, <1>3, <1>4 DEF DesktopInv

LEMMA WatcherStopsKeeps ==
  ASSUME DesktopInv, WatcherStops
  PROVE  DesktopInv'
<1>1. /\ WatcherEnds /\ UNCHANGED storeVars /\ UNCHANGED mountVars
      /\ UNCHANGED <<shares, shareFile, saving, json, cpc, target, public, kept, lossy>>
  BY DEF WatcherStops, shareVars
<1>2. StoreTypes' /\ files' = files /\ MountInv' /\ ShareInv'
  BY <1>1, StoreStays, MountStays, SharesStay DEF DesktopInv
<1>3. ArchiveInv' /\ CtrlInv'
  BY <1>1, <1>2, ArchiveStays, WatcherEndsKeeps DEF DesktopInv
<1> QED  BY <1>2, <1>3 DEF DesktopInv

LEMMA DesktopSteps ==
  ASSUME DesktopInv, [Next]_vars
  PROVE  DesktopInv'
<1>1. CASE BeginRequest
  BY <1>1, MountWorksKeeps DEF BeginRequest
<1>2. CASE BeginShareCall
  BY <1>2, ShareCallKeeps DEF BeginShareCall
<1>3. CASE BeginWatchCall
  BY <1>3, WatchCallKeeps DEF BeginWatchCall
<1>4. CASE AnswerDownload
  BY <1>4, PublicKeeps DEF AnswerDownload
<1>5. CASE ChangeStore
  BY <1>5, ChangeStoreKeeps
<1>6. CASE Fault
  <2>1. UNCHANGED storeVars
    BY <1>6 DEF Fault
  <2>2. CASE /\ \E w \in Workers : BuildFails(w) \/ FetchFails(w)
             /\ UNCHANGED <<shareVars, watchVars>>
    BY <2>1, <2>2, MountWorksKeeps
  <2>3. CASE (\E c \in Callers : SaveFails(c)) /\ UNCHANGED <<mountVars, watchVars>>
    BY <2>1, <2>3, ShareCallKeeps
  <2>4. CASE PackFails /\ UNCHANGED <<mountVars, watchVars>>
    BY <2>1, <2>4, PublicKeeps
  <2>5. CASE (\E c \in Callers : StartFails(c) \/ StartNew(c, FALSE)) /\ UNCHANGED mountVars
    BY <2>1, <2>5, WatchCallKeeps
  <2> QED  BY <1>6, <2>2, <2>3, <2>4, <2>5 DEF Fault
<1>7. CASE Restart
  BY <1>7, RestartKeeps
<1>8. ASSUME NEW w \in Workers, MountWorks(w) PROVE DesktopInv'
  BY <1>8, MountWorksKeeps DEF MountWorks
<1>9. ASSUME NEW c \in Callers, CallerWorks(c) PROVE DesktopInv'
  BY <1>9, ShareCallKeeps, WatchCallKeeps DEF CallerWorks
<1>10. CASE PublicWorks
  BY <1>10, PublicKeeps DEF PublicWorks
<1>11. CASE WatcherStops
  BY <1>11, WatcherStopsKeeps
<1>12. CASE UNCHANGED vars
  <2>1. /\ UNCHANGED storeVars /\ UNCHANGED mountVars /\ UNCHANGED watchVars
        /\ UNCHANGED <<shares, shareFile, saving, json, cpc, target, public, kept, lossy>>
    BY <1>12 DEF vars, shareVars
  <2>2. StoreTypes' /\ files' = files /\ MountInv' /\ ShareInv' /\ CtrlInv'
    BY <2>1, StoreStays, MountStays, SharesStay, CtrlStays DEF DesktopInv
  <2>3. ArchiveInv'
    BY <2>1, <2>2, ArchiveStays DEF DesktopInv
  <2> QED  BY <2>2, <2>3 DEF DesktopInv
<1> QED
  BY <1>1, <1>2, <1>3, <1>4, <1>5, <1>6, <1>7, <1>8, <1>9, <1>10, <1>11, <1>12 DEF Next, Work

LEMMA DesktopInvariant == Spec => []DesktopInv
<1>1. Init => DesktopInv
  BY DesktopBegins
<1>2. DesktopInv /\ [Next]_vars => DesktopInv'
  BY DesktopSteps
<1> QED  BY <1>1, <1>2, PTL DEF Spec

-----------------------------------------------------------------------------
(* The theorems                                                            *)

(* The state of the desktop process has its type; last_refresh is held by  *)
(* the one worker that refreshes the tree and the watcher's controller by  *)
(* the one caller that uses it, through every restart.                     *)
THEOREM DesktopTypeCorrect == Spec => []TypeOK
<1>1. DesktopInv => TypeOK
  <2> SUFFICES ASSUME DesktopInv PROVE TypeOK
    OBVIOUS
  <2>1. IsTree(tree) /\ IsTree(newTree)
    BY TreeIsTree DEF DesktopInv, MountInv
  <2>2. readable \subseteq Contents /\ wpc \in [Workers -> WPcs] /\ cpc \in [Callers -> CPcs]
    BY DEF DesktopInv, StoreTypes, MountInv, ShareInv, ShareTypes
  <2>3. ToSet(cache.order) \subseteq Chunks
    <3> DEFINE s == cache.order
    <3>1. s \in Seq(Chunks)
      BY DEF DesktopInv, MountInv, IsCache
    <3> HIDE DEF s
    <3>2. \A i \in DOMAIN s : s[i] \in Chunks
      BY <3>1
    <3> QED  BY <3>2 DEF ToSet, s
  <2>4. IdsIn(shares) \subseteq kept.drawn
    BY DEF DesktopInv, ShareInv, MapsDrawn
  <2>5. /\ {w \in Workers : wpc[w] \in {"names", "snaps", "swap"}} = {refresher} \ {Nobody}
        /\ {c \in Callers : cpc[c] \in {"stop", "restart", "start"}} = {ctrl.lock} \ {Nobody}
    BY DEF DesktopInv, MountInv, RefreshHeld, Refreshing, CtrlInv, CtrlHeld, Controlling
  <2> QED  BY <2>1, <2>2, <2>3, <2>4, <2>5 DEF TypeOK
<1> QED  BY <1>1, DesktopInvariant, PTL

(* A finished GET or FUSE read returns exactly the bytes of the requested  *)
(* range, and a GET as many as it announces (read_range), for every file,  *)
(* every division into chunks, every cache and every range.                *)
THEOREM ReadsExact == Spec => []ReadsAreExact
<1>1. DesktopInv => ReadsAreExact
  BY MountInvSays DEF DesktopInv
<1> QED  BY <1>1, DesktopInvariant, PTL

(* The chunk cache holds every chunk once, counts its bytes right and      *)
(* stays within its capacity, whatever workers insert at the same time     *)
(* (DecompressedChunkCache::insert).                                       *)
THEOREM CacheConsistent == Spec => []CacheIsConsistent
<1>1. DesktopInv => CacheIsConsistent
  BY MountInvSays DEF DesktopInv
<1> QED  BY <1>1, DesktopInvariant, PTL

(* A read that has found its manifest finds every chunk: op_lock keeps     *)
(* collections away until the read is over (read_range).                   *)
THEOREM ReadsFindTheirChunks == Spec => []ReadsComplete
<1>1. DesktopInv => ReadsComplete
  BY MountInvSays DEF DesktopInv
<1> QED  BY <1>1, DesktopInvariant, PTL

(* Acknowledged shares stay and revoked ones stay away, also after any     *)
(* number of restarts, unless a save failed or was cut (save, load).       *)
THEOREM AckedSharesStay == Spec => []AckedSharesLast
<1>1. DesktopInv => AckedSharesLast
  BY DEF DesktopInv, ShareInv
<1> QED  BY <1>1, DesktopInvariant, PTL

(* The archive of a shared folder has every listed file that stayed, once  *)
(* and with a content it had (start_public_server).                        *)
THEOREM ArchivesAreTrue == Spec => []ArchiveIsTrue
<1>1. DesktopInv => ArchiveIsTrue
  BY DEF DesktopInv, ArchiveInv, ArchiveIsTrue, PackOK, NamesIn
<1> QED  BY <1>1, DesktopInvariant, PTL

(* At most one watcher runs; while nobody holds the controller, it is the  *)
(* one the controller can stop, in the directory it shows (start_watcher,  *)
(* stop_watcher).                                                          *)
THEOREM WatcherIsUnique == Spec => []OneWatcher
<1>1. DesktopInv => OneWatcher
  <2> SUFFICES ASSUME DesktopInv PROVE OneWatcher
    OBVIOUS
  <2>1. CtrlTypes /\ CtrlHeld /\ LiveKnown /\ DirShown
    BY DEF DesktopInv, CtrlInv
  <2>2. live \subseteq {ctrl.handle}
    <3>1. CASE ctrl.lock = Nobody
      BY <2>1, <3>1 DEF LiveKnown
    <3>2. CASE ctrl.lock # Nobody
      <4>1. ctrl.lock \in Callers /\ cpc[ctrl.lock] \in Controlling
        BY <2>1, <3>2 DEF CtrlHeld
      <4> QED  BY <2>1, <4>1 DEF LiveKnown, Controlling
    <3> QED  BY <3>1, <3>2
  <2>3. Cardinality(live) <= 1
    <3> DEFINE h == {ctrl.handle}
    <3>1. IsFiniteSet(h) /\ Cardinality(h) = 1
      BY FS_Singleton
    <3> HIDE DEF h
    <3>2. live \subseteq h
      BY <2>2 DEF h
    <3> QED  BY <3>1, <3>2, FS_Subset
  <2>4. ctrl.lock = Nobody => /\ live = {ctrl.handle} \ {NoWatcher}
                              /\ \A h \in live : h.dir = ctrl.dir
                              /\ ctrl.saved => ctrl.dir = config
    BY <2>1 DEF LiveKnown, DirShown
  <2> QED  BY <2>3, <2>4 DEF OneWatcher
<1> QED  BY <1>1, DesktopInvariant, PTL
=============================================================================
