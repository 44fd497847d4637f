-------------------------- MODULE SegmentStoreProofs --------------------------
(***************************************************************************)
(* The segment store keeps what its runs check, for any number of chunks,  *)
(* segments, appends, compactions, crashes and I/O errors.                 *)
(*                                                                         *)
(* The inductive invariant has four layers.  WriteInv: who writes where,   *)
(* and that the staged segments are what the new index says; it needs no   *)
(* assumption on errors.  IndexInv: the index is right as long as no       *)
(* append and no rename failed.  ByteInv: what is kept is durable in the   *)
(* files that recovery would use, as long as no removal failed and no      *)
(* compaction ran over the backups of a failed one.  CleanInv: where       *)
(* nothing failed at all no fragment lies in front of it.                  *)
(*                                                                         *)
(* The refinement of ChunkStore needs the converse of the index being      *)
(* right as well: without errors no file holds a chunk that the index does *)
(* not have (CompleteInv), or a crash would bring back what a compaction   *)
(* has removed.                                                            *)
(***************************************************************************)
EXTENDS SegmentRefinement, SequenceFacts

Shut == {"closed", "recover", "scan", "failed"}
Opened == {"header", "ready", "append", "rotate", "stage"}
Swapped == {"marker", "markerWrite", "dropOld", "attach"}

Recs(f) == {f.recs[i] : i \in DOMAIN f.recs}
AllDurable(f) == f.durable = Len(f.recs)

\* A file that is not there is empty, and an fsync covers only what is there.
FileOK(f) == f.durable <= Len(f.recs) /\ (~f.present => f = NoFile)

FilesOK == \A s \in SegIds : FileOK(active[s]) /\ FileOK(old[s]) /\ FileOK(staged[s])

\* Every chunk of an index is where the index says.
Located(ix, files) ==
  \A c \in Chunks : ix[c] # NoLoc =>
    /\ ix[c].seg \in SegIds /\ ix[c].pos \in DOMAIN files[ix[c].seg].recs
    /\ files[ix[c].seg].recs[ix[c].pos] = c

\* The compacted segments, where they are by now.
NewFiles ==
  IF pc \in {"stage", "renameOld"} THEN staged
  ELSE [s \in SegIds |-> IF staged[s].present THEN staged[s] ELSE active[s]]

WriterOK ==
  /\ pc \in Shut => index = NoIndex
  /\ pc \notin Shut => writer.seg \in SegIds
  /\ pc \in Opened \cup {"renameOld"} => \A s \in Present(active) : s <= writer.seg
  /\ pc \in Opened /\ writer.open => active[writer.seg].present
  /\ pc \in {"append", "header"} => writer.open
  /\ pc \in {"renameOld", "moveIn"} \cup Swapped => ~writer.open
  /\ pc = "rotate" => writer.seg < MaxSegments
  /\ pc \in {"append", "rotate"} => pending \in Chunks

\* What the staged segments hold, until they are attached.
StageOK ==
  pc \in {"stage", "renameOld", "moveIn"} \cup Swapped =>
    /\ newWriter.seg \in SegIds /\ newWriter.open
    /\ Located(newIndex, NewFiles)
    /\ kept = toStage \cup Indexed(newIndex)
    /\ pc # "stage" => toStage = {}
    /\ pc = "moveIn" => Indexed(newIndex) # {}
    /\ \A s \in Present(NewFiles) : s <= newWriter.seg
    /\ pc \in {"stage", "renameOld"} \/ Indexed(newIndex) # {} =>
         /\ NewFiles[newWriter.seg].present
         /\ newWriter.count = Len(NewFiles[newWriter.seg].recs)
    /\ pc \in Swapped => Present(staged) = {}
    /\ pc \in Swapped /\ Indexed(newIndex) = {} => Present(active) = {}
    /\ \A s \in SegIds : Torn \notin Recs(NewFiles[s])
    /\ pc # "stage" => \A s \in SegIds : AllDurable(NewFiles[s])

WriteInv == TypeOK /\ FilesOK /\ WriterOK /\ StageOK

IndexInv ==
  spent.append + spent.rename = 0 /\ pc \in Opened =>
    /\ writer.open /\ writer.count = Len(active[writer.seg].recs)
    /\ Located(index, active)

\* The file that recovery would use as a segment, and the chunks that are durable
\* in these files.
FileFor(a, o, m, s) == IF m # "done" /\ o[s].present THEN o[s] ELSE a[s]
DurablesOf(a, o, m) == UNION {DurableChunks(FileFor(a, o, m, s)) : s \in SegIds}
Durables == DurablesOf(active, old, marker)

MarkerOK ==
  /\ pc \in Opened \cup {"renameOld", "moveIn", "marker", "markerWrite", "attach"} => marker # "done"
  /\ pc = "scan" => marker = "none"
  /\ pc = "dropOld" => marker = "done"

BackupsOK ==
  /\ pc \in {"stage", "attach", "scan"} => Present(old) = {}
  /\ pc \in {"renameOld", "moveIn", "marker", "markerWrite", "dropOld"} => Present(old) = toDrop
  /\ pc = "renameOld" => Present(old) \cap Present(active) = {}
  /\ pc = "moveIn" => Present(staged) \cap Present(active) = {}
  /\ pc \in Opened \cup {"renameOld", "moveIn", "marker", "markerWrite"} =>
       \A s \in Present(old) : s <= writer.seg
  /\ pc \in Opened /\ writer.open => ~old[writer.seg].present

\* Only the newest file may have records that no fsync covers.
TailsOK ==
  /\ \A s \in SegIds : AllDurable(old[s])
  /\ pc \in {"header", "ready", "append", "rotate"} =>
       \A s \in SegIds : s # writer.seg => AllDurable(active[s])
  /\ pc \in {"stage", "renameOld", "moveIn"} \cup Swapped =>
       \A s \in SegIds : AllDurable(active[s])
  /\ pc \in Shut =>
       \A s \in SegIds : ~AllDurable(active[s]) =>
         \A t \in Present(active) \cup Present(old) : t <= s

IndexDurable ==
  /\ pc \in {"header", "ready", "append", "rotate"} =>
       \A c \in Indexed(index) :
         c \in Durables \/ (c \in Recs(active[writer.seg]) /\ ~old[writer.seg].present)
  /\ pc \in {"stage", "renameOld", "moveIn", "marker", "markerWrite"} =>
       Indexed(index) \subseteq Durables

KeptOK == kept \subseteq Durables

BytesKept == MarkerOK /\ BackupsOK /\ TailsOK /\ IndexDurable /\ KeptOK

ByteInv == spent.remove = 0 /\ spent.overBackups = 0 => BytesKept

\* No fragment is durable or before another record.
FragmentsOK(f) ==
  /\ \A i \in DOMAIN f.recs : i <= f.durable => f.recs[i] # Torn
  /\ TornAt(f) \subseteq {Len(f.recs)}

\* What holds while there was no I/O error.
Clean ==
  /\ spent.overBackups = 0
  /\ pc \in Opened => Present(old) = {}
  /\ \A s \in SegIds : FragmentsOK(active[s]) /\ Torn \notin Recs(old[s])
  /\ pc \notin Shut => \A s \in SegIds : Torn \notin Recs(active[s])

CleanInv == Faults = 0 => Clean

-----------------------------------------------------------------------------
(* Files                                                                   *)

Records == Chunks \cup {Torn}

LEMMA FileFields ==
  ASSUME NEW f \in File
  PROVE  /\ f.present \in BOOLEAN /\ f.header \in BOOLEAN
         /\ f.recs \in Seq(Records) /\ f.durable \in Nat
         /\ Len(f.recs) \in Nat /\ DOMAIN f.recs = 1..Len(f.recs)
<1>1. f.present \in BOOLEAN /\ f.header \in BOOLEAN /\ f.recs \in Seq(Records) /\ f.durable \in Nat
  BY DEF File, Records
<1> QED  BY <1>1, LenProperties

(* Files that are equal in what matters.                                   *)
LEMMA NoFileFacts ==
  /\ NoFile \in File /\ ~NoFile.present /\ Len(NoFile.recs) = 0 /\ NoFile.durable = 0
  /\ DOMAIN NoFile.recs = {} /\ FileOK(NoFile) /\ AllDurable(NoFile) /\ Recs(NoFile) = {}
  /\ DurableChunks(NoFile) = {}
<1>1. << >> \in Seq(Chunks \cup {Torn}) /\ Len(<< >>) = 0 /\ DOMAIN << >> = {}
  BY EmptySeq
<1>2. /\ NoFile \in File /\ NoFile.present = FALSE /\ NoFile.recs = << >> /\ NoFile.durable = 0
  BY <1>1 DEF NoFile, File
<1> QED  BY <1>1, <1>2 DEF FileOK, AllDurable, Recs, DurableChunks

LEMMA CreatedFacts ==
  /\ Created \in File /\ Created.present /\ Len(Created.recs) = 0 /\ Created.durable = 0
  /\ DOMAIN Created.recs = {} /\ FileOK(Created) /\ AllDurable(Created) /\ Recs(Created) = {}
  /\ DurableChunks(Created) = {}
<1>1. << >> \in Seq(Chunks \cup {Torn}) /\ Len(<< >>) = 0 /\ DOMAIN << >> = {}
  BY EmptySeq
<1>2. /\ NoFile \in File /\ NoFile.recs = << >> /\ NoFile.durable = 0
  BY <1>1 DEF NoFile, File
<1>3. /\ Created \in File /\ Created.present = TRUE /\ Created.recs = << >> /\ Created.durable = 0
  BY <1>2 DEF Created, File
<1> QED  BY <1>1, <1>3 DEF FileOK, AllDurable, Recs, DurableChunks

(* The header changes nothing else.                                        *)
LEMMA HeaderFacts ==
  ASSUME NEW f \in File, f.present, FileOK(f)
  PROVE  LET g == [f EXCEPT !.header = TRUE] IN
         /\ g \in File /\ g.present /\ FileOK(g) /\ g.recs = f.recs /\ g.durable = f.durable
         /\ AllDurable(f) => AllDurable(g)
<1> DEFINE g == [f EXCEPT !.header = TRUE]
<1>1. g \in File /\ g.present = f.present /\ g.recs = f.recs /\ g.durable = f.durable
  BY DEF File
<1> HIDE DEF g
<1>2. f.durable <= Len(f.recs)
  BY DEF FileOK
<1>3. g.present /\ FileOK(g) /\ (AllDurable(f) => AllDurable(g))
  BY <1>1, <1>2 DEF FileOK, AllDurable
<1> QED  BY <1>1, <1>3 DEF g

LEMMA SyncedFacts ==
  ASSUME NEW f \in File, FileOK(f)
  PROVE  /\ Synced(f) \in File /\ Synced(f).present = f.present /\ Synced(f).header = f.header
         /\ Synced(f).recs = f.recs /\ AllDurable(Synced(f)) /\ FileOK(Synced(f))
         /\ Synced(NoFile) = NoFile
<1>1. Len(f.recs) \in Nat
  BY FileFields
<1>2. /\ Synced(f) \in File /\ Synced(f).present = f.present /\ Synced(f).header = f.header
      /\ Synced(f).recs = f.recs /\ Synced(f).durable = Len(f.recs)
  BY <1>1 DEF Synced, File
<1>3. AllDurable(Synced(f))
  BY <1>2 DEF AllDurable
<1>4. Synced(NoFile) = NoFile
  <2> DEFINE z == NoFile
  <2>1. z \in File /\ z.durable = Len(z.recs)
    BY NoFileFacts
  <2> HIDE DEF z
  <2>2. [z EXCEPT !.durable = Len(z.recs)] = z
    BY <2>1 DEF File
  <2> QED  BY <2>2 DEF Synced, z
<1>5. FileOK(Synced(f))
  <2>1. f.present => Synced(f).present
    BY <1>2
  <2>2. ~f.present => Synced(f) = NoFile
    BY <1>4 DEF FileOK
  <2>3. Synced(f).durable <= Len(Synced(f).recs)
    BY <1>1, <1>2
  <2> QED  BY <2>1, <2>2, <2>3 DEF FileOK
<1> QED  BY <1>2, <1>3, <1>4, <1>5

LEMMA AddRecordFacts ==
  ASSUME NEW f \in File, f.present, FileOK(f), NEW r \in Records
  PROVE  LET g == AddRecord(f, r)
             n == Len(f.recs) IN
         /\ g \in File /\ g.present /\ FileOK(g) /\ g.durable = f.durable
         /\ Len(g.recs) = n + 1 /\ DOMAIN g.recs = 1..(n + 1)
         /\ g.recs[n + 1] = r /\ \A i \in 1..n : g.recs[i] = f.recs[i]
         /\ Recs(g) = Recs(f) \cup {r}
<1> DEFINE s == f.recs
           a == Append(s, r)
           g == AddRecord(f, r)
<1>1. s \in Seq(Records) /\ f.durable \in Nat /\ Len(s) \in Nat /\ DOMAIN s = 1..Len(s)
  BY FileFields
<1>2. g = [f EXCEPT !.recs = a]
  BY DEF AddRecord
<1> HIDE DEF s
<1>3. /\ a \in Seq(Records) /\ Len(a) = Len(s) + 1 /\ a[Len(s) + 1] = r
      /\ \A i \in 1..Len(s) : a[i] = s[i]
  BY <1>1, AppendProperties
<1>4. DOMAIN a = 1..(Len(s) + 1)
  <2> HIDE DEF a
  <2> QED  BY <1>3, LenProperties
<1> HIDE DEF a, g
<1>5. g \in File /\ g.present = f.present /\ g.recs = a /\ g.durable = f.durable
  BY <1>2, <1>3 DEF File, Records
<1>6. FileOK(g)
  <2>1. f.durable <= Len(s)
    BY DEF FileOK, s
  <2>2. g.durable <= Len(g.recs)
    BY <1>1, <1>3, <1>5, <2>1
  <2> QED  BY <1>5, <2>2 DEF FileOK
<1>7. Recs(g) = Recs(f) \cup {r}
  <2>1. Recs(f) = {s[i] : i \in 1..Len(s)}
    BY <1>1 DEF Recs, s
  <2>2. Recs(g) = {a[i] : i \in 1..(Len(s) + 1)}
    BY <1>4, <1>5 DEF Recs
  <2>3. 1..(Len(s) + 1) = 1..Len(s) \cup {Len(s) + 1}
    BY <1>1
  <2> QED  BY <1>3, <2>1, <2>2, <2>3
<1> QED  BY <1>3, <1>4, <1>5, <1>6, <1>7 DEF s, g

CutAt(f, k, q) == q = SubSeq(f.recs, 1, k) \/ q = Append(SubSeq(f.recs, 1, k), Torn)
WithRecs(f, q) == [f EXCEPT !.recs = q]

(* What a crash leaves of the newest file: at least what an fsync covers.  *)
LEMMA CutFacts ==
  ASSUME NEW f \in File, f.present, NEW k \in f.durable..Len(f.recs), NEW q, CutAt(f, k, q),
         NEW g, g = WithRecs(f, q)
  PROVE  /\ g \in File /\ g.present /\ FileOK(g) /\ g.durable = f.durable
         /\ Len(g.recs) \in {k, k + 1}
         /\ \A i \in 1..k : i \in DOMAIN f.recs /\ i \in DOMAIN g.recs /\ g.recs[i] = f.recs[i]
         /\ q = SubSeq(f.recs, 1, k) => Len(g.recs) = k
         /\ Recs(g) \subseteq Recs(f) \cup {Torn}
<1> DEFINE s == f.recs
           p == SubSeq(s, 1, k)
<1>1. s \in Seq(Records) /\ f.durable \in Nat /\ Len(s) \in Nat /\ DOMAIN s = 1..Len(s)
  BY FileFields
<1>2. k \in 0..Len(s) /\ f.durable <= k /\ k <= Len(s) /\ k \in Nat
  BY <1>1
<1> HIDE DEF s
<1>3. p \in Seq(Records) /\ Len(p) = k /\ \A i \in 1..k : p[i] = s[i]
  BY <1>1, <1>2, SplitAt
<1> HIDE DEF p
<1>4. /\ q \in Seq(Records) /\ Len(q) \in {k, k + 1} /\ \A i \in 1..k : q[i] = s[i]
      /\ q = p => Len(q) = k
      /\ Len(q) = k + 1 => q[k + 1] = Torn
  <2>1. CASE q = p
    BY <1>2, <1>3, <2>1
  <2>2. CASE q = Append(p, Torn)
    <3>1. Torn \in Records
      BY DEF Records
    <3>2. /\ q \in Seq(Records) /\ Len(q) = k + 1 /\ q[k + 1] = Torn
          /\ \A i \in 1..k : q[i] = p[i]
      BY <1>3, <2>2, <3>1, AppendProperties
    <3> QED  BY <1>2, <1>3, <3>2
  <2> QED  BY <2>1, <2>2 DEF p, s, CutAt
<1>5. DOMAIN q = 1..Len(q)
  BY <1>4, LenProperties
<1>6. g \in File /\ g.present = f.present /\ g.recs = q /\ g.durable = f.durable
  BY <1>4 DEF File, Records, WithRecs
<1>7. g.durable <= Len(g.recs)
  BY <1>1, <1>2, <1>4, <1>6
<1>8. \A i \in 1..k : i \in 1..Len(s) /\ i \in 1..Len(q)
  BY <1>1, <1>2, <1>4
<1>9. Recs(g) \subseteq Recs(f) \cup {Torn}
  <2>1. ASSUME NEW i \in 1..Len(q) PROVE q[i] \in Recs(f) \cup {Torn}
    <3>1. CASE i \in 1..k
      <4>1. i \in DOMAIN s /\ q[i] = s[i]
        BY <1>1, <1>4, <1>8, <3>1
      <4> QED  BY <4>1 DEF Recs, s
    <3>2. CASE i \notin 1..k
      <4>1. i = k + 1 /\ Len(q) = k + 1
        BY <1>2, <1>4, <2>1, <3>2
      <4> QED  BY <1>4, <4>1
    <3> QED  BY <3>1, <3>2
  <2> QED  BY <1>5, <1>6, <2>1 DEF Recs
<1> QED  BY <1>1, <1>4, <1>5, <1>6, <1>7, <1>8, <1>9 DEF FileOK, s, p

(* A set of segment numbers has a largest one.                             *)
LEMMA LargestNumber ==
  ASSUME NEW N \in Nat, NEW T, T \subseteq 1..N, T # {}
  PROVE  \E x \in T : \A y \in T : y <= x
<1> DEFINE U == {N - y : y \in T}
<1>1. U \subseteq Nat /\ U # {}
  <2>1. \A y \in T : N - y \in Nat
    OBVIOUS
  <2>2. PICK y \in T : TRUE
    OBVIOUS
  <2>3. N - y \in U
    OBVIOUS
  <2> QED  BY <2>1, <2>3
<1>2. PICK u \in U : \A v \in U : u <= v
  <2> HIDE DEF U
  <2> QED  BY <1>1, LeastNatural
<1>3. PICK x \in T : u = N - x
  OBVIOUS
<1>4. ASSUME NEW y \in T PROVE y <= x
  <2>1. N - x <= N - y
    BY <1>2, <1>3
  <2>2. x \in Int /\ y \in Int
    OBVIOUS
  <2> QED  BY <2>1, <2>2
<1> QED  BY <1>4

LEMMA NewestFacts ==
  ASSUME NEW files, Present(files) # {}
  PROVE  Newest(files) \in Present(files) /\ \A t \in Present(files) : t <= Newest(files)
<1>1. Present(files) \subseteq 1..MaxSegments /\ MaxSegments \in Nat
  BY BoundAssumption DEF Present, SegIds
<1>2. \E x \in Present(files) : \A y \in Present(files) : y <= x
  BY <1>1, LargestNumber
<1> QED  BY <1>2 DEF Newest

(* The index that a scan builds is right, and has every chunk it read.     *)
LEMMA ScannedFacts ==
  ASSUME NEW files \in [SegIds -> File]
  PROVE  /\ ScannedIndex(files) \in [Chunks -> Location]
         /\ Located(ScannedIndex(files), files)
         /\ \A s \in SegIds : Recs(files[s]) \cap Chunks \subseteq Indexed(ScannedIndex(files))
<1> DEFINE Holds(c) == \E s \in SegIds : \E i \in DOMAIN files[s].recs : files[s].recs[i] = c
           Places == [seg : SegIds, pos : UNION {DOMAIN files[s].recs : s \in SegIds}]
<1>1. \A s \in SegIds : DOMAIN files[s].recs = 1..Len(files[s].recs) /\ Len(files[s].recs) \in Nat
  BY FileFields
<1>2. ASSUME NEW c \in Chunks, Holds(c)
      PROVE  \E l \in Places : IsLastLocation(files, c, l)
  <2> DEFINE T == {s \in SegIds : \E i \in DOMAIN files[s].recs : files[s].recs[i] = c}
  <2>1. T \subseteq 1..MaxSegments /\ T # {} /\ MaxSegments \in Nat
    BY <1>2, BoundAssumption DEF SegIds
  <2>2. PICK x \in T : \A y \in T : y <= x
    <3> HIDE DEF T
    <3> QED  BY <2>1, LargestNumber
  <2> DEFINE r == files[x].recs
             P == {i \in DOMAIN r : r[i] = c}
  <2>3. P \subseteq 1..Len(r) /\ P # {} /\ Len(r) \in Nat /\ x \in SegIds
    BY <1>1, <2>2
  <2>4. PICK p \in P : \A j \in P : j <= p
    <3> HIDE DEF P, r
    <3> QED  BY <2>3, LargestNumber
  <2> DEFINE l == [seg |-> x, pos |-> p]
  <2>5. l \in Places /\ l.seg = x /\ l.pos = p
    BY <2>3
  <2>6. ASSUME NEW s \in SegIds, NEW i \in DOMAIN files[s].recs, files[s].recs[i] = c
        PROVE  s < x \/ (s = x /\ i <= p)
    <3>1. s \in T
      BY <2>6
    <3>2. s <= x /\ s \in Int /\ x \in Int
      BY <2>2, <3>1 DEF SegIds
    <3>3. s = x => i <= p
      BY <2>4, <2>6
    <3> QED  BY <3>2, <3>3
  <2> HIDE DEF l
  <2>7. IsLastLocation(files, c, l)
    BY <2>2, <2>3, <2>4, <2>5, <2>6 DEF IsLastLocation
  <2> QED  BY <2>5, <2>7
<1>3. Places \subseteq Location
  <2>1. UNION {DOMAIN files[s].recs : s \in SegIds} \subseteq Nat
    BY <1>1
  <2>2. SegIds \subseteq 0..MaxSegments
    BY BoundAssumption DEF SegIds
  <2> QED  BY <2>1, <2>2 DEF Location
<1>4. NoLoc \in Location
  BY BoundAssumption DEF NoLoc, Location
<1> DEFINE ix == ScannedIndex(files)
<1>5. ix = [c \in Chunks |-> IF Holds(c) THEN CHOOSE l \in Places : IsLastLocation(files, c, l)
                             ELSE NoLoc]
  BY DEF ScannedIndex
<1> HIDE DEF Places, ix
<1>6. ASSUME NEW c \in Chunks
      PROVE  /\ ix[c] \in Location
             /\ ix[c] # NoLoc => IsLastLocation(files, c, ix[c])
             /\ Holds(c) => IsLastLocation(files, c, ix[c])
  <2> HIDE DEF Holds
  <2> QED  BY <1>2, <1>3, <1>4, <1>5
<1>7. ix \in [Chunks -> Location]
  <2> HIDE DEF Holds
  <2> QED  BY <1>5, <1>6
<1>8. Located(ix, files)
  <2> HIDE DEF Holds
  <2> QED  BY <1>6 DEF Located, IsLastLocation
<1>9. ASSUME NEW s \in SegIds, NEW c \in Recs(files[s]) \cap Chunks PROVE c \in Indexed(ix)
  <2>1. Holds(c)
    BY <1>9 DEF Recs
  <2>2. ix[c].seg \in SegIds
    <3> HIDE DEF Holds
    <3> QED  BY <1>6, <2>1 DEF IsLastLocation
  <2>3. ix[c] # NoLoc
    BY <2>2 DEF NoLoc, SegIds
  <2> QED  BY <2>3 DEF Indexed
<1> QED  BY <1>7, <1>8, <1>9 DEF ix

(* The segment is cut at its first fragment, with what is behind it.       *)
LEMMA TornTailFacts ==
  ASSUME NEW f \in File, FileOK(f), f.present
  PROVE  LET g == WithoutTornTail(f)
             b == BehindFragment(f) IN
         /\ g \in File /\ g.present /\ FileOK(g) /\ Torn \notin Recs(g)
         /\ DurableChunks(f) \subseteq DurableChunks(g) \cup {Torn} \cup b
         /\ Recs(g) \subseteq Recs(f) /\ Recs(f) \subseteq Recs(g) \cup {Torn} \cup b
         /\ g = f \/ AllDurable(g)
         /\ TornAt(f) \subseteq {Len(f.recs)} => b = {}
<1> DEFINE s == f.recs
           n == Len(s)
           b == BehindFragment(f)
<1>1. s \in Seq(Records) /\ n \in Nat /\ DOMAIN s = 1..n /\ f.durable \in Nat /\ f.durable <= n
  BY FileFields DEF FileOK
<1>2. TornAt(f) \subseteq {n} => b = {}
  <2>1. ASSUME TornAt(f) \subseteq {n}, NEW j \in 1..n, NEW h \in TornAt(f) PROVE ~(h < j)
    BY <1>1, <2>1
  <2> QED  BY <1>1, <2>1 DEF BehindFragment
<1>3. CASE TornAt(f) = {}
  <2>1. WithoutTornTail(f) = f
    BY <1>3 DEF WithoutTornTail
  <2>2. Torn \notin Recs(f)
    BY <1>3 DEF TornAt, Recs
  <2> QED  BY <1>2, <2>1, <2>2
<1>4. CASE TornAt(f) # {}
  <2> DEFINE First(i) == i \in TornAt(f) /\ \A j \in TornAt(f) : i <= j
             m == CHOOSE i \in TornAt(f) : \A j \in TornAt(f) : i <= j
  <2>1. First(m)
    <3>1. TornAt(f) \subseteq Nat
      BY <1>1 DEF TornAt
    <3>2. \E i \in TornAt(f) : \A j \in TornAt(f) : i <= j
      BY <1>4, <3>1, LeastNatural
    <3> QED  BY <3>2
  <2>2. m \in 1..n /\ s[m] = Torn /\ \A i \in 1..n : i < m => s[i] # Torn
    BY <1>1, <2>1 DEF TornAt
  <2> DEFINE p == SubSeq(s, 1, m - 1)
             h == [f EXCEPT !.recs = p]
             g == Synced(h)
  <2>3. WithoutTornTail(f) = g
    BY <1>4 DEF WithoutTornTail
  <2> HIDE DEF m
  <2>4. m - 1 \in 0..n /\ m - 1 \in Nat
    BY <1>1, <2>2
  <2>5. p \in Seq(Records) /\ Len(p) = m - 1 /\ \A i \in 1..(m - 1) : p[i] = s[i]
    <3> DEFINE k == m - 1
    <3> HIDE DEF s, n, k
    <3>1. k \in 0..Len(s) /\ k \in Nat
      BY <2>4 DEF k, n
    <3>2. SubSeq(s, 1, k) \in Seq(Records) /\ Len(SubSeq(s, 1, k)) = k
          /\ \A i \in 1..k : SubSeq(s, 1, k)[i] = s[i]
      BY <1>1, <3>1, SplitAt
    <3> QED  BY <3>2 DEF k
  <2>6. DOMAIN p = 1..(m - 1)
    <3> HIDE DEF p
    <3> QED  BY <2>5, LenProperties
  <2> HIDE DEF p
  <2>7. /\ h \in File /\ h.present = f.present /\ h.recs = p
    BY <2>5 DEF File, Records
  <2> HIDE DEF h
  <2>8. g \in File /\ g.present = f.present /\ g.recs = p /\ g.durable = m - 1
    BY <2>4, <2>5, <2>7 DEF Synced, File
  <2> HIDE DEF g
  <2>9. FileOK(g) /\ AllDurable(g)
    BY <2>4, <2>5, <2>8 DEF FileOK, AllDurable
  <2>10. Torn \notin Recs(g)
    <3>1. ASSUME NEW i \in 1..(m - 1) PROVE p[i] # Torn
      <4>1. i \in 1..n /\ i < m
        BY <1>1, <2>2
      <4> QED  BY <2>2, <2>5, <4>1
    <3> QED  BY <2>6, <2>8, <3>1 DEF Recs
  <2>11. ASSUME NEW j \in 1..n, s[j] # Torn PROVE s[j] \in DurableChunks(g) \cup b
    <3>1. CASE j < m
      <4>1. j \in 1..(m - 1) /\ j <= m - 1
        BY <1>1, <2>2, <3>1
      <4>2. p[j] = s[j] /\ j \in DOMAIN g.recs /\ j <= g.durable
        BY <2>5, <2>6, <2>8, <4>1
      <4> QED  BY <2>8, <4>2 DEF DurableChunks
    <3>2. CASE ~(j < m)
      <4>1. m < j
        BY <2>2, <2>11, <3>2
      <4>2. m \in TornAt(f) /\ j \in DOMAIN f.recs
        BY <1>1, <2>1
      <4> QED  BY <4>1, <4>2 DEF BehindFragment
    <3> QED  BY <3>1, <3>2
  <2>12. DurableChunks(f) \subseteq DurableChunks(g) \cup {Torn} \cup b
    BY <1>1, <2>11 DEF DurableChunks
  <2>13. DurableChunks(g) \subseteq Recs(g)
    BY DEF DurableChunks, Recs
  <2>14. Recs(f) \subseteq Recs(g) \cup {Torn} \cup b
    BY <1>1, <2>11, <2>13 DEF Recs
  <2>15. Recs(g) \subseteq Recs(f)
    <3>1. \A i \in 1..(m - 1) : i \in 1..n
      BY <1>1, <2>2
    <3> QED  BY <1>1, <2>5, <2>6, <2>8, <3>1 DEF Recs
  <2> QED  BY <1>2, <2>3, <2>8, <2>9, <2>10, <2>12, <2>14, <2>15
<1> QED  BY <1>3, <1>4

-----------------------------------------------------------------------------
(* WriteInv                                                                *)

Kinds == {"appends", "compactions", "crashes", "append", "remove", "rename"}

SpentType == [appends : Nat, compactions : Nat, crashes : Nat, append : Nat,
              remove : Nat, rename : Nat, overBackups : Nat]

(* A step is counted under its kind, and only there.                       *)
LEMMA SpendFacts ==
  ASSUME spent \in SpentType, NEW kind \in Kinds, Spend(kind)
  PROVE  /\ spent' \in SpentType
         /\ spent'.overBackups = spent.overBackups
         /\ spent'.append = (IF kind = "append" THEN spent.append + 1 ELSE spent.append)
         /\ spent'.remove = (IF kind = "remove" THEN spent.remove + 1 ELSE spent.remove)
         /\ spent'.rename = (IF kind = "rename" THEN spent.rename + 1 ELSE spent.rename)
BY DEF Spend, SpentType, Kinds

\* The types of what is not a file.
MemoryTypes ==
  /\ marker \in {"none", "empty", "done"}
  /\ index \in [Chunks -> Location] /\ newIndex \in [Chunks -> Location]
  /\ writer \in [seg : 0..MaxSegments, count : Nat, open : BOOLEAN]
  /\ newWriter \in [seg : 0..MaxSegments, count : Nat, open : BOOLEAN]
  /\ toStage \subseteq Chunks /\ toDrop \subseteq SegIds
  /\ pending \in Chunks \cup {NoChunk}
  /\ pc \in Pcs
  /\ kept \subseteq Chunks
  /\ spent \in SpentType

FileTypes == active \in [SegIds -> File] /\ old \in [SegIds -> File] /\ staged \in [SegIds -> File]

LEMMA TypeParts == TypeOK <=> FileTypes /\ MemoryTypes
BY DEF TypeOK, FileTypes, MemoryTypes, SpentType

LEMMA TypePartsPrimed == TypeOK' <=> FileTypes' /\ MemoryTypes'
BY DEF TypeOK, FileTypes, MemoryTypes, SpentType

(* Empty values have their types.                                          *)
LEMMA EmptyTypes ==
  /\ NoFiles \in [SegIds -> File] /\ \A s \in SegIds : NoFiles[s] = NoFile
  /\ Present(NoFiles) = {}
  /\ NoLoc \in Location /\ NoIndex \in [Chunks -> Location] /\ Indexed(NoIndex) = {}
  /\ \A c \in Chunks : NoIndex[c] = NoLoc
  /\ Closed \in [seg : 0..MaxSegments, count : Nat, open : BOOLEAN]
  /\ 1 \in SegIds /\ SegIds \subseteq Nat
<1>1. NoLoc \in Location
  BY BoundAssumption DEF NoLoc, Location
<1>2. NoFiles \in [SegIds -> File] /\ \A s \in SegIds : NoFiles[s] = NoFile
  BY NoFileFacts DEF NoFiles
<1>3. Closed \in [seg : 0..MaxSegments, count : Nat, open : BOOLEAN]
  BY BoundAssumption DEF Closed
<1>4. 1 \in SegIds /\ SegIds \subseteq Nat
  BY BoundAssumption DEF SegIds
<1>5. Present(NoFiles) = {}
  BY <1>2, NoFileFacts DEF Present
<1>6. NoIndex \in [Chunks -> Location] /\ \A c \in Chunks : NoIndex[c] = NoLoc
  BY <1>1 DEF NoIndex
<1>7. Indexed(NoIndex) = {}
  BY <1>6 DEF Indexed
<1> QED  BY <1>1, <1>2, <1>3, <1>4, <1>5, <1>6, <1>7

\* While nothing is staged StageOK says nothing.
Staging == {"stage", "renameOld", "moveIn"} \cup Swapped

LEMMA NotStaging ==
  ASSUME pc' \notin Staging
  PROVE  StageOK'
BY DEF Staging, StageOK

LEMMA PutChunkWrite ==
  ASSUME WriteInv, PutChunk
  PROVE  WriteInv'
<1>1. /\ UNCHANGED <<fileVars, stageVars, index, writer, kept>> /\ pc = "ready"
      /\ pending' \in Chunks /\ Spend("appends")
      /\ \/ pc' = "append" /\ writer.open
         \/ pc' = "rotate" /\ writer.seg < MaxSegments
  BY DEF PutChunk
<1>2. UNCHANGED <<active, old, staged, marker, newIndex, newWriter, toStage, toDrop>>
  BY <1>1 DEF fileVars, stageVars
<1>3. FileTypes /\ MemoryTypes /\ FilesOK /\ WriterOK
  BY TypeParts DEF WriteInv
<1>4. spent' \in SpentType
  BY <1>1, <1>3, SpendFacts DEF MemoryTypes, Kinds
<1>5. MemoryTypes' /\ FileTypes'
  BY <1>1, <1>2, <1>3, <1>4 DEF MemoryTypes, FileTypes, Pcs
<1>6. FilesOK' /\ StageOK'
  BY <1>1, <1>2, <1>3, NotStaging DEF FilesOK, Staging, Swapped
<1>7. WriterOK'
  BY <1>1, <1>2, <1>3 DEF WriterOK, Shut, Opened, Swapped, Present
<1> QED  BY <1>5, <1>6, <1>7, TypePartsPrimed DEF WriteInv

LEMMA RotateWrite ==
  ASSUME WriteInv, Rotate
  PROVE  WriteInv'
<1> DEFINE w == writer.seg
<1>1. /\ pc = "rotate" /\ pc' = "header"
      /\ active' = [active EXCEPT ![w] = Synced(@), ![w + 1] = Created]
      /\ writer' = [seg |-> w + 1, count |-> 0, open |-> TRUE]
      /\ UNCHANGED <<old, staged, marker, newIndex, newWriter, toStage, toDrop, index, pending,
                     kept, spent>>
  BY DEF Rotate, stageVars
<1>2. FileTypes /\ MemoryTypes /\ FilesOK /\ WriterOK
  BY TypeParts DEF WriteInv
<1>3. w \in SegIds /\ w < MaxSegments /\ pending \in Chunks /\ \A s \in Present(active) : s <= w
  BY <1>1, <1>2 DEF WriterOK, Shut, Opened
<1> HIDE DEF w
<1>4. w \in Nat /\ w + 1 \in SegIds /\ w # w + 1
  BY <1>3, BoundAssumption DEF SegIds
<1>5. /\ active'[w] = Synced(active[w]) /\ active'[w + 1] = Created
      /\ \A s \in SegIds : s # w /\ s # w + 1 => active'[s] = active[s]
      /\ active' \in [SegIds -> File]
  BY <1>1, <1>2, <1>3, <1>4, SyncedFacts, CreatedFacts DEF FileTypes, FilesOK
<1>6. writer'.seg = w + 1 /\ writer'.open = TRUE
      /\ writer' \in [seg : 0..MaxSegments, count : Nat, open : BOOLEAN]
  BY <1>1, <1>4, BoundAssumption DEF SegIds
<1>7. MemoryTypes' /\ FileTypes'
  BY <1>1, <1>2, <1>5, <1>6 DEF MemoryTypes, FileTypes, Pcs
<1>8. FilesOK'
  <2>1. \A s \in SegIds : FileOK(active'[s])
    BY <1>2, <1>3, <1>5, SyncedFacts, CreatedFacts DEF FilesOK, FileTypes
  <2> QED  BY <1>1, <1>2, <2>1 DEF FilesOK, FileOK
<1>9. \A s \in Present(active') : s <= w + 1
  <2>1. ASSUME NEW s \in SegIds, active'[s].present PROVE s <= w + 1
    <3>1. CASE s = w \/ s = w + 1
      BY <1>4, <3>1
    <3>2. CASE s # w /\ s # w + 1
      <4>1. s \in Present(active)
        BY <1>5, <2>1, <3>2 DEF Present
      <4>2. s <= w /\ s \in Nat
        BY <1>3, <4>1 DEF SegIds
      <4> QED  BY <1>4, <4>2
    <3> QED  BY <3>1, <3>2
  <2> QED  BY <2>1 DEF Present
<1>10. WriterOK'
  <2>1. active'[w + 1].present
    BY <1>5, CreatedFacts
  <2> QED  BY <1>1, <1>4, <1>6, <1>9, <2>1 DEF WriterOK, Shut, Opened, Swapped, Present
<1>11. StageOK'
  BY <1>1, NotStaging DEF Staging, Swapped
<1> QED  BY <1>7, <1>8, <1>10, <1>11, TypePartsPrimed DEF WriteInv

LEMMA WriteHeaderWrite ==
  ASSUME WriteInv, WriteHeader
  PROVE  WriteInv'
<1> DEFINE w == writer.seg
           g == [active[w] EXCEPT !.header = TRUE]
<1>1. /\ pc = "header" /\ pc' = (IF pending = NoChunk THEN "ready" ELSE "append")
      /\ active' = [active EXCEPT ![w] = g]
      /\ UNCHANGED <<old, staged, marker, newIndex, newWriter, toStage, toDrop, index, writer,
                     pending, kept, spent>>
  BY DEF WriteHeader, stageVars
<1>2. FileTypes /\ MemoryTypes /\ FilesOK /\ WriterOK
  BY TypeParts DEF WriteInv
<1>3. w \in SegIds /\ writer.open /\ active[w].present /\ \A s \in Present(active) : s <= w
  BY <1>1, <1>2 DEF WriterOK, Shut, Opened
<1>4. g \in File /\ g.present /\ FileOK(g)
  BY <1>2, <1>3, HeaderFacts DEF FileTypes, FilesOK
<1> HIDE DEF w, g
<1>5. /\ active'[w] = g /\ \A s \in SegIds : s # w => active'[s] = active[s]
      /\ active' \in [SegIds -> File]
  BY <1>1, <1>2, <1>3, <1>4 DEF FileTypes
<1>6. MemoryTypes' /\ FileTypes'
  BY <1>1, <1>2, <1>5 DEF MemoryTypes, FileTypes, Pcs
<1>7. FilesOK'
  BY <1>1, <1>2, <1>4, <1>5 DEF FilesOK, FileOK
<1>8. Present(active') = Present(active)
  BY <1>3, <1>4, <1>5 DEF Present
<1>9. WriterOK'
  <2>1. pending \in Chunks \cup {NoChunk}
    BY <1>2 DEF MemoryTypes
  <2>2. active'[w].present /\ \A s \in Present(active') : s <= w
    BY <1>3, <1>4, <1>5, <1>8
  <2> QED  BY <1>1, <1>3, <2>1, <2>2 DEF WriterOK, Shut, Opened, Swapped, Present, w
<1>10. StageOK'
  BY <1>1, NotStaging DEF Staging, Swapped
<1> QED  BY <1>6, <1>7, <1>9, <1>10, TypePartsPrimed DEF WriteInv

(* A record is added to the segment being written.                         *)
LEMMA AddedWrite ==
  ASSUME WriteInv, pc = "append", pc' = "ready", NEW r \in Records,
         active' = [active EXCEPT ![writer.seg] = AddRecord(@, r)],
         index' \in [Chunks -> Location], spent' \in SpentType,
         writer' \in [seg : 0..MaxSegments, count : Nat, open : BOOLEAN],
         writer'.seg = writer.seg, writer'.open = writer.open, pending' = NoChunk,
         UNCHANGED <<old, staged, marker, newIndex, newWriter, toStage, toDrop, kept>>
  PROVE  WriteInv'
<1> DEFINE w == writer.seg
           g == AddRecord(active[w], r)
<1>1. active' = [active EXCEPT ![w] = g]
  OBVIOUS
<1>2. FileTypes /\ MemoryTypes /\ FilesOK /\ WriterOK
  BY TypeParts DEF WriteInv
<1>3. w \in SegIds /\ writer.open /\ active[w].present /\ \A s \in Present(active) : s <= w
  BY <1>2 DEF WriterOK, Shut, Opened
<1>4. g \in File /\ g.present /\ FileOK(g)
  BY <1>2, <1>3, AddRecordFacts DEF FileTypes, FilesOK
<1> HIDE DEF w, g
<1>5. /\ active'[w] = g /\ \A s \in SegIds : s # w => active'[s] = active[s]
      /\ active' \in [SegIds -> File]
  BY <1>1, <1>2, <1>3, <1>4 DEF FileTypes
<1>6. MemoryTypes' /\ FileTypes'
  BY <1>2, <1>5 DEF MemoryTypes, FileTypes, Pcs
<1>7. FilesOK'
  BY <1>2, <1>4, <1>5 DEF FilesOK, FileOK
<1>8. Present(active') = Present(active)
  BY <1>3, <1>4, <1>5 DEF Present
<1>9. WriterOK'
  <2>1. active'[w].present /\ \A s \in Present(active') : s <= w
    BY <1>3, <1>4, <1>5, <1>8
  <2> QED  BY <1>3, <2>1 DEF WriterOK, Shut, Opened, Swapped, Present, w
<1>10. StageOK'
  BY NotStaging DEF Staging, Swapped
<1> QED  BY <1>6, <1>7, <1>9, <1>10, TypePartsPrimed DEF WriteInv

LEMMA AppendChunkWrite ==
  ASSUME WriteInv, AppendChunk
  PROVE  WriteInv'
<1> DEFINE W == [seg : 0..MaxSegments, count : Nat, open : BOOLEAN]
           l == [seg |-> writer.seg, pos |-> writer.count + 1]
<1>1. /\ pc = "append" /\ pc' = "ready" /\ pending' = NoChunk
      /\ active' = [active EXCEPT ![writer.seg] = AddRecord(@, pending)]
      /\ index' = [index EXCEPT ![pending] = l]
      /\ writer' = [writer EXCEPT !.count = @ + 1]
      /\ UNCHANGED <<old, staged, marker, newIndex, newWriter, toStage, toDrop, kept, spent>>
  BY DEF AppendChunk, stageVars
<1>2. MemoryTypes /\ WriterOK
  BY TypeParts DEF WriteInv
<1>3. pending \in Chunks /\ pending \in Records
  BY <1>1, <1>2 DEF WriterOK, Records
<1>4. writer \in W /\ index \in [Chunks -> Location] /\ spent \in SpentType
  BY <1>2 DEF MemoryTypes
<1>5. writer' \in W /\ writer'.seg = writer.seg /\ writer'.open = writer.open
  BY <1>1, <1>4
<1>6. l \in Location
  BY <1>4 DEF Location
<1> HIDE DEF l
<1>7. index' \in [Chunks -> Location]
  BY <1>1, <1>4, <1>6
<1> QED  BY <1>1, <1>3, <1>4, <1>5, <1>7, AddedWrite

LEMMA AppendFailsWrite ==
  ASSUME WriteInv, AppendFails
  PROVE  WriteInv'
<1>1. /\ pc = "append" /\ pc' = "ready" /\ pending' = NoChunk /\ Spend("append")
      /\ UNCHANGED <<old, staged, marker, newIndex, newWriter, toStage, toDrop, index, writer, kept>>
  BY DEF AppendFails, Fault, stageVars
<1>2. MemoryTypes /\ WriterOK
  BY TypeParts DEF WriteInv
<1>3. spent' \in SpentType
  BY <1>1, <1>2, SpendFacts DEF MemoryTypes, Kinds
<1>4. PICK r \in Records : active' = [active EXCEPT ![writer.seg] = AddRecord(@, r)]
  <2>1. pending \in Records /\ Torn \in Records
    BY <1>1, <1>2 DEF WriterOK, Records
  <2> QED  BY <2>1 DEF AppendFails
<1> QED  BY <1>1, <1>2, <1>3, <1>4, AddedWrite DEF MemoryTypes

(* The files after the segment being written is synced.                    *)
LEMMA SyncedFiles ==
  ASSUME WriteInv, pc = "ready", active' = [active EXCEPT ![writer.seg] = Synced(@)]
  PROVE  /\ writer.seg \in SegIds
         /\ active'[writer.seg] = Synced(active[writer.seg])
         /\ \A s \in SegIds : s # writer.seg => active'[s] = active[s]
         /\ active' \in [SegIds -> File]
         /\ \A s \in SegIds : FileOK(active'[s])
         /\ \A s \in SegIds : active'[s].recs = active[s].recs
         /\ \A s \in SegIds : active'[s].present = active[s].present
         /\ Present(active') = Present(active)
<1>1. FileTypes /\ FilesOK /\ WriterOK
  BY TypeParts DEF WriteInv
<1> DEFINE w == writer.seg
           g == Synced(active[w])
<1>2. w \in SegIds
  BY <1>1 DEF WriterOK, Shut
<1>3. g \in File /\ g.present = active[w].present /\ FileOK(g) /\ g.recs = active[w].recs
  BY <1>1, <1>2, SyncedFacts DEF FileTypes, FilesOK
<1> HIDE DEF g, w
<1>4. /\ active'[w] = g /\ \A s \in SegIds : s # w => active'[s] = active[s]
      /\ active' \in [SegIds -> File]
  BY <1>1, <1>2, <1>3 DEF FileTypes, g, w
<1>5. \A s \in SegIds : /\ FileOK(active'[s]) /\ active'[s].present = active[s].present
                        /\ active'[s].recs = active[s].recs
  BY <1>1, <1>3, <1>4 DEF FilesOK
<1>6. Present(active') = Present(active)
  BY <1>5 DEF Present
<1> QED  BY <1>2, <1>4, <1>5, <1>6 DEF g, w

LEMMA SyncWrite ==
  ASSUME WriteInv, Sync
  PROVE  WriteInv'
<1>1. /\ pc = "ready" /\ kept' = kept \cup Indexed(index)
      /\ active' = [active EXCEPT ![writer.seg] = Synced(@)]
      /\ UNCHANGED <<old, staged, marker, newIndex, newWriter, toStage, toDrop, index, writer,
                     pending, pc, spent>>
  BY DEF Sync, stageVars
<1>2. FileTypes /\ MemoryTypes /\ FilesOK /\ WriterOK
  BY TypeParts DEF WriteInv
<1>3. /\ writer.seg \in SegIds /\ active' \in [SegIds -> File] /\ Present(active') = Present(active)
      /\ \A s \in SegIds : FileOK(active'[s]) /\ active'[s].present = active[s].present
  BY <1>1, SyncedFiles
<1>4. MemoryTypes' /\ FileTypes'
  BY <1>1, <1>2, <1>3 DEF MemoryTypes, FileTypes, Indexed
<1>5. FilesOK'
  BY <1>1, <1>2, <1>3 DEF FilesOK, FileOK
<1>6. WriterOK'
  BY <1>1, <1>2, <1>3 DEF WriterOK, Shut, Opened, Present
<1>7. StageOK'
  BY <1>1, NotStaging DEF Staging, Swapped
<1> QED  BY <1>4, <1>5, <1>6, <1>7, TypePartsPrimed DEF WriteInv

(* A compaction that starts over backups is counted.                       *)
LEMMA BeginSpend ==
  ASSUME spent \in SpentType,
         spent' = [spent EXCEPT !.compactions = @ + 1,
                                !.overBackups = IF Present(old) = {} THEN @ ELSE @ + 1]
  PROVE  /\ spent' \in SpentType
         /\ spent'.append = spent.append /\ spent'.remove = spent.remove
         /\ spent'.rename = spent.rename
         /\ spent'.overBackups =
              (IF Present(old) = {} THEN spent.overBackups ELSE spent.overBackups + 1)
<1> DEFINE o == IF Present(old) = {} THEN spent.overBackups ELSE spent.overBackups + 1
           k == spent.compactions + 1
           m == [spent EXCEPT !.compactions = k]
           z == [m EXCEPT !.overBackups = o]
<1>1. spent.compactions \in Nat /\ spent.overBackups \in Nat
  BY DEF SpentType
<1>2. k \in Nat /\ o \in Nat
  BY <1>1
<1>3. m.overBackups = spent.overBackups
  BY DEF SpentType
<1>4. spent' = z
  BY <1>3
<1> HIDE DEF k, o
<1>5. m \in SpentType /\ m.append = spent.append /\ m.remove = spent.remove /\ m.rename = spent.rename
  BY <1>2 DEF SpentType
<1> HIDE DEF m
<1>6. z \in SpentType /\ z.append = m.append /\ z.remove = m.remove /\ z.rename = m.rename
      /\ z.overBackups = o
  BY <1>2, <1>5 DEF SpentType
<1> HIDE DEF z
<1> QED  BY <1>4, <1>5, <1>6 DEF o

(* The staging directory gets its first segment.                           *)
LEMMA BeginCompactWrite ==
  ASSUME WriteInv, BeginCompact
  PROVE  WriteInv'
<1> DEFINE h == [Created EXCEPT !.header = TRUE]
<1>1. /\ pc = "ready" /\ pc' = "stage"
      /\ spent' = [spent EXCEPT !.compactions = @ + 1,
                                !.overBackups = IF Present(old) = {} THEN @ ELSE @ + 1]
      /\ active' = [active EXCEPT ![writer.seg] = Synced(@)]
      /\ kept' \subseteq Indexed(index) /\ toStage' = kept'
      /\ staged' = [NoFiles EXCEPT ![1] = h]
      /\ newIndex' = NoIndex
      /\ newWriter' = [seg |-> 1, count |-> 0, open |-> TRUE]
      /\ UNCHANGED <<old, marker, toDrop, index, writer, pending>>
  BY DEF BeginCompact
<1>2. FileTypes /\ MemoryTypes /\ FilesOK /\ WriterOK
  BY TypeParts DEF WriteInv
<1>3. /\ writer.seg \in SegIds /\ active' \in [SegIds -> File] /\ Present(active') = Present(active)
      /\ \A s \in SegIds : FileOK(active'[s]) /\ active'[s].present = active[s].present
  BY <1>1, SyncedFiles
<1>4. h \in File /\ h.present /\ FileOK(h) /\ h.recs = Created.recs
  BY CreatedFacts, HeaderFacts
<1>5. Len(h.recs) = 0 /\ Recs(h) = {}
  BY <1>4, CreatedFacts DEF Recs
<1> HIDE DEF h
<1>6. /\ staged' \in [SegIds -> File] /\ staged'[1] = h
      /\ \A s \in SegIds : s # 1 => staged'[s] = NoFile
  BY <1>1, <1>4, EmptyTypes
<1>7. spent' \in SpentType
  <2>1. spent \in SpentType
    BY <1>2 DEF MemoryTypes
  <2> QED  BY <1>1, <2>1, BeginSpend
<1>8. /\ newWriter' \in [seg : 0..MaxSegments, count : Nat, open : BOOLEAN]
      /\ newWriter'.seg = 1 /\ newWriter'.count = 0 /\ newWriter'.open
  BY <1>1, BoundAssumption
<1>9. MemoryTypes' /\ FileTypes'
  BY <1>1, <1>2, <1>3, <1>6, <1>7, <1>8, EmptyTypes DEF MemoryTypes, FileTypes, Indexed, Pcs
<1>10. FilesOK'
  BY <1>1, <1>2, <1>3, <1>4, <1>6, NoFileFacts DEF FilesOK
<1>11. WriterOK'
  BY <1>1, <1>2, <1>3 DEF WriterOK, Shut, Opened, Swapped, Present
<1>12. NewFiles' = staged'
  BY <1>1 DEF NewFiles
<1>13. /\ Located(newIndex', staged') /\ Indexed(newIndex') = {}
  BY <1>1, EmptyTypes DEF Located, Indexed
<1>14. Present(staged') = {1}
  BY ZenonT(30), <1>4, <1>6, EmptyTypes, NoFileFacts DEF Present
<1>15. \A s \in SegIds : Torn \notin Recs(staged'[s])
  BY <1>5, <1>6, NoFileFacts
<1>16. StageOK'
  <2>1. \A s \in Present(staged') : s <= newWriter'.seg
    BY <1>8, <1>14
  <2>2. staged'[newWriter'.seg].present /\ newWriter'.count = Len(staged'[newWriter'.seg].recs)
    BY <1>4, <1>5, <1>6, <1>8
  <2>3. kept' = toStage' \cup Indexed(newIndex') /\ newWriter'.seg \in SegIds
    BY <1>1, <1>8, <1>13, EmptyTypes
  <2> QED  BY <1>1, <1>8, <1>12, <1>13, <1>15, <2>1, <2>2, <2>3 DEF StageOK, Swapped
<1> QED  BY <1>9, <1>10, <1>11, <1>16, TypePartsPrimed DEF WriteInv

AddedAt(files, s, f, c) == [files EXCEPT ![s] = AddRecord(f, c)]
IndexedAt(ix, s, f, c) == [ix EXCEPT ![c] = [seg |-> s, pos |-> Len(f.recs) + 1]]

(* A record at the end of a staged segment, or at the start of the next    *)
(* one, moves no other record.                                             *)
LEMMA StagedRecord ==
  ASSUME NEW files \in [SegIds -> File], NEW s \in SegIds, NEW f \in File, NEW c \in Chunks,
         f.present, FileOK(f),
         f = files[s] \/ files[s] = NoFile,
         NEW ix \in [Chunks -> Location], Located(ix, files),
         NEW files2, files2 = AddedAt(files, s, f, c),
         NEW ix2, ix2 = IndexedAt(ix, s, f, c)
  PROVE  /\ files2 \in [SegIds -> File] /\ ix2 \in [Chunks -> Location]
         /\ files2[s].present /\ FileOK(files2[s]) /\ Len(files2[s].recs) = Len(f.recs) + 1
         /\ Recs(files2[s]) = Recs(f) \cup {c} /\ files2[s].durable = f.durable
         /\ \A t \in SegIds : t # s => files2[t] = files[t]
         /\ Located(ix2, files2)
         /\ Indexed(ix2) = Indexed(ix) \cup {c}
<1> DEFINE g == AddRecord(f, c)
           n == Len(f.recs)
           l == [seg |-> s, pos |-> n + 1]
<1>1. c \in Records
  BY DEF Records
<1>2. /\ g \in File /\ g.present /\ g.durable = f.durable /\ FileOK(g) /\ Len(g.recs) = n + 1 /\ DOMAIN g.recs = 1..(n + 1)
      /\ g.recs[n + 1] = c /\ \A i \in 1..n : g.recs[i] = f.recs[i]
      /\ Recs(g) = Recs(f) \cup {c}
  BY <1>1, AddRecordFacts
<1>3. n \in Nat /\ DOMAIN f.recs = 1..n
  BY FileFields
<1> HIDE DEF g, n
<1>4. files2[s] = g /\ (\A t \in SegIds : t # s => files2[t] = files[t]) /\ files2 \in [SegIds -> File]
  BY <1>2 DEF g, AddedAt
<1>5. l \in Location /\ l # NoLoc /\ l.seg = s /\ l.pos = n + 1
  BY <1>3, BoundAssumption DEF Location, SegIds, NoLoc
<1> HIDE DEF l
<1>6. ix2[c] = l /\ (\A d \in Chunks : d # c => ix2[d] = ix[d]) /\ ix2 \in [Chunks -> Location]
  BY <1>5 DEF l, n, IndexedAt
<1>7. Indexed(ix2) = Indexed(ix) \cup {c}
  BY <1>5, <1>6 DEF Indexed
<1>8. ASSUME NEW i \in DOMAIN files[s].recs
      PROVE  i \in DOMAIN g.recs /\ g.recs[i] = files[s].recs[i]
  <2>1. files[s] = f
    BY <1>8, NoFileFacts
  <2>2. i \in 1..n /\ i \in 1..(n + 1)
    BY <1>3, <1>8, <2>1
  <2> QED  BY <1>2, <2>1, <2>2
<1>9. ASSUME NEW d \in Chunks, ix2[d] # NoLoc
      PROVE  /\ ix2[d].seg \in SegIds /\ ix2[d].pos \in DOMAIN files2[ix2[d].seg].recs
             /\ files2[ix2[d].seg].recs[ix2[d].pos] = d
  <2>1. CASE d = c
    <3>1. n + 1 \in 1..(n + 1)
      BY <1>3
    <3> QED  BY <1>2, <1>4, <1>5, <1>6, <2>1, <3>1
  <2>2. CASE d # c
    <3>1. /\ ix2[d] = ix[d] /\ ix[d].seg \in SegIds /\ ix[d].pos \in DOMAIN files[ix[d].seg].recs
          /\ files[ix[d].seg].recs[ix[d].pos] = d
      BY <1>6, <1>9, <2>2 DEF Located
    <3> QED  BY <1>4, <1>8, <3>1
  <2> QED  BY <2>1, <2>2
<1>10. Located(ix2, files2)
  BY <1>9 DEF Located
<1> QED  BY <1>1, <1>2, <1>4, <1>6, <1>7, <1>10 DEF n

LEMMA StageChunkWrite ==
  ASSUME WriteInv, StageChunk
  PROVE  WriteInv'
<1>1. PICK c \in toStage, s \in SegIds :
        /\ ReadOk(c)
        /\ \/ s = newWriter.seg
           \/ s = newWriter.seg + 1 /\ newWriter.count > 0
        /\ LET n == IF s = newWriter.seg THEN newWriter.count ELSE 0
               f == IF s = newWriter.seg THEN staged[s]
                    ELSE [Created EXCEPT !.header = TRUE]
           IN  /\ staged' = [staged EXCEPT ![s] = AddRecord(f, RecordAt(index[c]))]
               /\ newIndex' = [newIndex EXCEPT ![c] = [seg |-> s, pos |-> n + 1]]
               /\ newWriter' = [seg |-> s, count |-> n + 1, open |-> TRUE]
        /\ toStage' = toStage \ {c}
  BY DEF StageChunk
<1>2. /\ pc = "stage"
      /\ UNCHANGED <<active, old, marker, toDrop, index, writer, pending, pc, kept, spent>>
  BY DEF StageChunk
<1> DEFINE h == [Created EXCEPT !.header = TRUE]
           n == IF s = newWriter.seg THEN newWriter.count ELSE 0
           f == IF s = newWriter.seg THEN staged[s] ELSE h
<1>3. RecordAt(index[c]) = c
  BY <1>1 DEF ReadOk
<1>4. /\ staged' = [staged EXCEPT ![s] = AddRecord(f, c)]
      /\ newIndex' = [newIndex EXCEPT ![c] = [seg |-> s, pos |-> n + 1]]
      /\ newWriter' = [seg |-> s, count |-> n + 1, open |-> TRUE]
  BY <1>1, <1>3
<1>5. FileTypes /\ MemoryTypes /\ FilesOK /\ WriterOK /\ StageOK
  BY TypeParts DEF WriteInv
<1>6. NewFiles = staged
  BY <1>2 DEF NewFiles
<1>7. /\ newWriter.seg \in SegIds /\ Located(newIndex, staged)
      /\ kept = toStage \cup Indexed(newIndex)
      /\ \A t \in Present(staged) : t <= newWriter.seg
      /\ staged[newWriter.seg].present /\ newWriter.count = Len(staged[newWriter.seg].recs)
      /\ \A t \in SegIds : Torn \notin Recs(staged[t])
  BY <1>2, <1>5, <1>6 DEF StageOK
<1>8. h \in File /\ h.present /\ FileOK(h) /\ Len(h.recs) = 0 /\ Recs(h) = {}
  <2>1. h \in File /\ h.present /\ FileOK(h) /\ h.recs = Created.recs
    BY CreatedFacts, HeaderFacts
  <2> QED  BY <2>1, CreatedFacts DEF Recs
<1> HIDE DEF h
<1>9. /\ f \in File /\ f.present /\ FileOK(f) /\ Torn \notin Recs(f) /\ n = Len(f.recs) /\ n \in Nat
      /\ f = staged[s] \/ staged[s] = NoFile
  <2>1. CASE s = newWriter.seg
    <3>1. f = staged[s] /\ n = Len(f.recs)
      BY <1>7, <2>1
    <3> HIDE DEF f, n
    <3>2. f \in File
      BY <1>5, <3>1 DEF FileTypes
    <3>3. n \in Nat
      BY <3>1, <3>2, FileFields
    <3> QED  BY <1>5, <1>7, <2>1, <3>1, <3>2, <3>3 DEF FilesOK
  <2>2. CASE s # newWriter.seg
    <3>1. ~staged[s].present
      <4>1. s = newWriter.seg + 1 /\ newWriter.seg \in Nat
        BY <1>1, <1>7, <2>2 DEF SegIds
      <4>2. ~(s <= newWriter.seg)
        BY <4>1
      <4> QED  BY <1>7, <4>2 DEF Present
    <3>2. staged[s] = NoFile
      BY <1>5, <3>1 DEF FilesOK, FileOK
    <3> QED  BY <1>8, <2>2, <3>2
  <2> QED  BY <2>1, <2>2
<1>10. newWriter.seg <= s
  BY <1>1, <1>7 DEF SegIds
<1> HIDE DEF f, n
<1>11. c \in Chunks /\ newIndex \in [Chunks -> Location] /\ staged \in [SegIds -> File]
  BY <1>5 DEF MemoryTypes, FileTypes
<1>12. /\ staged' \in [SegIds -> File] /\ newIndex' \in [Chunks -> Location]
       /\ staged'[s].present /\ FileOK(staged'[s]) /\ Len(staged'[s].recs) = n + 1
       /\ Recs(staged'[s]) = Recs(f) \cup {c}
       /\ \A t \in SegIds : t # s => staged'[t] = staged[t]
       /\ Located(newIndex', staged')
       /\ Indexed(newIndex') = Indexed(newIndex) \cup {c}
  <2>1. /\ f.present /\ FileOK(f) /\ Located(newIndex, staged)
        /\ f = staged[s] \/ staged[s] = NoFile
        /\ f \in File /\ c \in Chunks /\ s \in SegIds
        /\ staged' = AddedAt(staged, s, f, c)
        /\ newIndex' = IndexedAt(newIndex, s, f, c)
    BY <1>4, <1>7, <1>9, <1>11 DEF AddedAt, IndexedAt
  <2>2. Len(f.recs) = n
    BY <1>9
  <2> QED  BY <1>11, <2>1, <2>2, StagedRecord
<1>13. /\ newWriter' \in [seg : 0..MaxSegments, count : Nat, open : BOOLEAN]
       /\ newWriter'.seg = s /\ newWriter'.count = n + 1 /\ newWriter'.open
  BY <1>4, <1>9, BoundAssumption DEF SegIds
<1>14. toStage' = toStage \ {c}
  BY <1>1
<1>15. MemoryTypes' /\ FileTypes'
  BY <1>2, <1>5, <1>12, <1>13, <1>14 DEF MemoryTypes, FileTypes
<1>16. FilesOK'
  BY <1>2, <1>5, <1>12 DEF FilesOK
<1>17. WriterOK'
  BY <1>2, <1>5 DEF WriterOK
<1>18. NewFiles' = staged'
  BY <1>2 DEF NewFiles
<1>19. kept' = toStage' \cup Indexed(newIndex')
  BY <1>2, <1>7, <1>12, <1>14
<1>20. \A t \in Present(staged') : t <= s
  <2>1. ASSUME NEW t \in SegIds, staged'[t].present, t # s PROVE t <= s
    <3>1. t <= newWriter.seg
      BY <1>7, <1>12, <2>1 DEF Present
    <3> QED  BY <1>7, <1>10, <3>1 DEF SegIds
  <2>2. s <= s
    BY DEF SegIds
  <2> QED  BY <2>1, <2>2 DEF Present
<1>21. \A t \in SegIds : Torn \notin Recs(staged'[t])
  BY <1>7, <1>9, <1>11, <1>12, ChunkAssumption
<1>22. StageOK'
  BY <1>2, <1>12, <1>13, <1>18, <1>19, <1>20, <1>21 DEF StageOK, Swapped
<1> QED  BY <1>15, <1>16, <1>17, <1>22, TypePartsPrimed DEF WriteInv

LEMMA StageFailsWrite ==
  ASSUME WriteInv, StageFails
  PROVE  WriteInv'
<1>1. /\ pc = "stage" /\ pc' = "ready"
      /\ staged' = NoFiles /\ newIndex' = NoIndex /\ newWriter' = Closed /\ toStage' = {}
      /\ UNCHANGED <<active, old, marker, toDrop, index, writer, pending, kept, spent>>
  BY DEF StageFails
<1>2. FileTypes /\ MemoryTypes /\ FilesOK /\ WriterOK
  BY TypeParts DEF WriteInv
<1>3. MemoryTypes' /\ FileTypes'
  BY <1>1, <1>2, EmptyTypes DEF MemoryTypes, FileTypes, Pcs
<1>4. FilesOK'
  BY <1>1, <1>2, EmptyTypes, NoFileFacts DEF FilesOK
<1>5. WriterOK'
  BY <1>1, <1>2 DEF WriterOK, Shut, Opened, Swapped
<1>6. StageOK'
  BY <1>1, NotStaging DEF Staging, Swapped
<1> QED  BY <1>3, <1>4, <1>5, <1>6, TypePartsPrimed DEF WriteInv

(* A chunk stays where it is when the records stay.                        *)
LEMMA LocatedStays ==
  ASSUME NEW ix, NEW files, NEW files2, Located(ix, files),
         \A s \in SegIds : files2[s].recs = files[s].recs
  PROVE  Located(ix, files2)
BY DEF Located

LEMMA FinishStageWrite ==
  ASSUME WriteInv, FinishStage
  PROVE  WriteInv'
<1>1. /\ pc = "stage" /\ pc' = "renameOld" /\ toStage = {} /\ toDrop' = {}
      /\ staged' = [s \in SegIds |-> Synced(staged[s])]
      /\ writer' = [writer EXCEPT !.open = FALSE]
      /\ UNCHANGED <<active, old, marker, newIndex, newWriter, toStage, index, pending, kept, spent>>
  BY DEF FinishStage
<1>2. FileTypes /\ MemoryTypes /\ FilesOK /\ WriterOK /\ StageOK
  BY TypeParts DEF WriteInv
<1>3. ASSUME NEW s \in SegIds
      PROVE  /\ staged'[s] \in File /\ staged'[s].present = staged[s].present
             /\ staged'[s].recs = staged[s].recs /\ AllDurable(staged'[s]) /\ FileOK(staged'[s])
  <2>1. staged'[s] = Synced(staged[s]) /\ staged[s] \in File /\ FileOK(staged[s])
    BY <1>1, <1>2 DEF FilesOK, FileTypes
  <2> QED  BY <2>1, SyncedFacts
<1>4. staged' \in [SegIds -> File]
  BY <1>1, <1>3
<1>5. /\ writer' \in [seg : 0..MaxSegments, count : Nat, open : BOOLEAN]
      /\ writer'.seg = writer.seg /\ writer'.open = FALSE
  BY <1>1, <1>2 DEF MemoryTypes
<1>6. MemoryTypes' /\ FileTypes'
  BY <1>1, <1>2, <1>4, <1>5 DEF MemoryTypes, FileTypes, Pcs
<1>7. FilesOK'
  BY <1>1, <1>2, <1>3 DEF FilesOK
<1>8. WriterOK'
  BY <1>1, <1>2, <1>5 DEF WriterOK, Shut, Opened, Present
<1>9. NewFiles = staged /\ NewFiles' = staged'
  BY <1>1 DEF NewFiles
<1>10. Present(staged') = Present(staged)
  BY <1>3 DEF Present
<1>11. Located(newIndex, staged')
  BY <1>1, <1>2, <1>3, <1>9, LocatedStays DEF StageOK
<1>12. \A s \in SegIds : Recs(staged'[s]) = Recs(staged[s])
  BY <1>3 DEF Recs
<1>13. StageOK'
  <2>1. /\ newWriter.seg \in SegIds /\ newWriter.open /\ kept = toStage \cup Indexed(newIndex)
        /\ \A s \in Present(staged) : s <= newWriter.seg
        /\ staged[newWriter.seg].present /\ newWriter.count = Len(staged[newWriter.seg].recs)
        /\ \A s \in SegIds : Torn \notin Recs(staged[s])
    BY <1>1, <1>2, <1>9 DEF StageOK
  <2>2. staged'[newWriter.seg].present /\ newWriter.count = Len(staged'[newWriter.seg].recs)
    BY <1>3, <2>1
  <2> QED  BY <1>1, <1>3, <1>9, <1>10, <1>11, <1>12, <2>1, <2>2 DEF StageOK, Swapped
<1> QED  BY <1>6, <1>7, <1>8, <1>13, TypePartsPrimed DEF WriteInv

LEMMA RenameToOldWrite ==
  ASSUME WriteInv, RenameToOld
  PROVE  WriteInv'
<1>1. PICK s \in Present(active) :
        /\ old' = [old EXCEPT ![s] = active[s]]
        /\ active' = [active EXCEPT ![s] = NoFile]
        /\ toDrop' = toDrop \cup {s}
  BY DEF RenameToOld
<1>2. /\ pc = "renameOld"
      /\ UNCHANGED <<staged, marker, newIndex, newWriter, toStage, index, writer, pending, pc, kept,
                     spent>>
  BY DEF RenameToOld
<1>3. FileTypes /\ MemoryTypes /\ FilesOK /\ WriterOK /\ StageOK
  BY TypeParts DEF WriteInv
<1>4. s \in SegIds
  BY DEF Present
<1>5. /\ old'[s] = active[s] /\ \A t \in SegIds : t # s => old'[t] = old[t]
      /\ old' \in [SegIds -> File]
  BY <1>1, <1>3, <1>4 DEF FileTypes
<1>6. /\ active'[s] = NoFile /\ \A t \in SegIds : t # s => active'[t] = active[t]
      /\ active' \in [SegIds -> File]
  BY <1>1, <1>3, <1>4, NoFileFacts DEF FileTypes
<1>7. MemoryTypes' /\ FileTypes'
  BY <1>1, <1>2, <1>3, <1>4, <1>5, <1>6 DEF MemoryTypes, FileTypes
<1>8. FilesOK'
  BY <1>2, <1>3, <1>5, <1>6, NoFileFacts DEF FilesOK
<1>9. \A t \in Present(active') : t <= writer.seg
  <2>1. \A t \in Present(active') : t \in Present(active)
    BY <1>6, NoFileFacts DEF Present
  <2> QED  BY <1>2, <1>3, <2>1 DEF WriterOK
<1>10. WriterOK'
  BY <1>2, <1>3, <1>9 DEF WriterOK, Shut, Opened
<1>11. NewFiles' = NewFiles
  BY <1>2 DEF NewFiles
<1>12. StageOK'
  BY <1>2, <1>3, <1>11 DEF StageOK, Swapped
<1> QED  BY <1>7, <1>8, <1>10, <1>12, TypePartsPrimed DEF WriteInv

LEMMA FinishRenameWrite ==
  ASSUME WriteInv, FinishRename
  PROVE  WriteInv'
<1>1. /\ pc = "renameOld" /\ Present(active) = {}
      /\ \/ Indexed(newIndex) = {} /\ staged' = NoFiles /\ pc' = "marker"
         \/ Indexed(newIndex) # {} /\ staged' = staged /\ pc' = "moveIn"
      /\ UNCHANGED <<active, old, marker, newIndex, newWriter, toStage, toDrop, index, writer,
                     pending, kept, spent>>
  BY DEF FinishRename, stageVars
<1>2. FileTypes /\ MemoryTypes /\ FilesOK /\ WriterOK /\ StageOK
  BY TypeParts DEF WriteInv
<1>3. MemoryTypes' /\ FileTypes'
  BY <1>1, <1>2, EmptyTypes DEF MemoryTypes, FileTypes, Pcs
<1>4. FilesOK'
  BY <1>1, <1>2, EmptyTypes, NoFileFacts DEF FilesOK
<1>5. WriterOK'
  BY <1>1, <1>2 DEF WriterOK, Shut, Opened
<1>6. \A s \in SegIds : active[s] = NoFile
  BY <1>1, <1>2 DEF FilesOK, FileOK, Present
<1>7. NewFiles = staged
  BY <1>1 DEF NewFiles
<1>8. /\ newWriter.seg \in SegIds /\ newWriter.open /\ Located(newIndex, staged)
      /\ kept = toStage \cup Indexed(newIndex) /\ toStage = {}
      /\ \A s \in Present(staged) : s <= newWriter.seg
      /\ staged[newWriter.seg].present /\ newWriter.count = Len(staged[newWriter.seg].recs)
      /\ \A s \in SegIds : Torn \notin Recs(staged[s])
      /\ \A s \in SegIds : AllDurable(staged[s])
  BY <1>1, <1>2, <1>7 DEF StageOK
<1>9. NewFiles' = [s \in SegIds |-> IF staged'[s].present THEN staged'[s] ELSE active[s]]
  BY <1>1 DEF NewFiles
<1>10. CASE Indexed(newIndex) = {}
  <2>1. staged' = NoFiles /\ pc' = "marker"
    BY <1>1, <1>10
  <2>2. \A s \in SegIds : NewFiles'[s] = NoFile
    BY <1>6, <1>9, <2>1, EmptyTypes, NoFileFacts
  <2>3. Located(newIndex, NewFiles')
    BY <1>10 DEF Located, Indexed
  <2>4. Present(NewFiles') = {} /\ Present(staged') = {} /\ Present(active') = {}
    BY <1>1, <2>1, <2>2, EmptyTypes, NoFileFacts DEF Present
  <2>5. \A s \in SegIds : Torn \notin Recs(NewFiles'[s]) /\ AllDurable(NewFiles'[s])
    BY <2>2, NoFileFacts
  <2>6. StageOK'
    BY <1>1, <1>8, <1>10, <2>1, <2>3, <2>4, <2>5 DEF StageOK, Swapped
  <2> QED  BY <1>3, <1>4, <1>5, <2>6, TypePartsPrimed DEF WriteInv
<1>11. CASE Indexed(newIndex) # {}
  <2>1. staged' = staged /\ pc' = "moveIn"
    BY <1>1, <1>11
  <2>2. \A s \in SegIds : ~staged[s].present => staged[s] = active[s]
    BY <1>2, <1>6 DEF FilesOK, FileOK
  <2>3. NewFiles' = staged
    <3>1. staged \in [SegIds -> File]
      BY <1>2 DEF FileTypes
    <3>2. staged = [s \in SegIds |-> staged[s]]
      BY <3>1
    <3> QED  BY <1>9, <2>1, <2>2, <3>2
  <2>4. StageOK'
    BY <1>1, <1>8, <1>11, <2>1, <2>3 DEF StageOK, Swapped
  <2> QED  BY <1>3, <1>4, <1>5, <2>4, TypePartsPrimed DEF WriteInv
<1> QED  BY <1>10, <1>11

LEMMA MoveInWrite ==
  ASSUME WriteInv, MoveIn
  PROVE  WriteInv' /\ NewFiles' = NewFiles
<1>1. PICK s \in Present(staged) :
        /\ active' = [active EXCEPT ![s] = staged[s]]
        /\ staged' = [staged EXCEPT ![s] = NoFile]
  BY DEF MoveIn
<1>2. /\ pc = "moveIn"
      /\ UNCHANGED <<old, marker, newIndex, newWriter, toStage, toDrop, index, writer, pending, pc,
                     kept, spent>>
  BY DEF MoveIn, stageVars
<1>3. FileTypes /\ MemoryTypes /\ FilesOK /\ WriterOK /\ StageOK
  BY TypeParts DEF WriteInv
<1>4. s \in SegIds /\ staged[s].present
  BY DEF Present
<1>5. /\ active'[s] = staged[s] /\ \A t \in SegIds : t # s => active'[t] = active[t]
      /\ active' \in [SegIds -> File]
  BY <1>1, <1>3, <1>4 DEF FileTypes
<1>6. /\ staged'[s] = NoFile /\ \A t \in SegIds : t # s => staged'[t] = staged[t]
      /\ staged' \in [SegIds -> File]
  BY <1>1, <1>3, <1>4, NoFileFacts DEF FileTypes
<1>7. MemoryTypes' /\ FileTypes'
  BY <1>2, <1>3, <1>5, <1>6 DEF MemoryTypes, FileTypes
<1>8. FilesOK'
  BY <1>2, <1>3, <1>5, <1>6, NoFileFacts DEF FilesOK
<1>9. WriterOK'
  BY <1>2, <1>3 DEF WriterOK, Shut, Opened
<1>10. NewFiles' = NewFiles
  <2>1. /\ NewFiles = [t \in SegIds |-> IF staged[t].present THEN staged[t] ELSE active[t]]
        /\ NewFiles' = [t \in SegIds |-> IF staged'[t].present THEN staged'[t] ELSE active'[t]]
    BY <1>2 DEF NewFiles
  <2>2. \A t \in SegIds : (IF staged'[t].present THEN staged'[t] ELSE active'[t])
                           = (IF staged[t].present THEN staged[t] ELSE active[t])
    BY <1>4, <1>5, <1>6, NoFileFacts
  <2> QED  BY <2>1, <2>2
<1>11. StageOK'
  BY <1>2, <1>3, <1>10 DEF StageOK, Swapped
<1> QED  BY <1>7, <1>8, <1>9, <1>10, <1>11, TypePartsPrimed DEF WriteInv

LEMMA FinishMoveInWrite ==
  ASSUME WriteInv, FinishMoveIn
  PROVE  WriteInv'
<1>1. /\ pc = "moveIn" /\ pc' = "marker" /\ Present(staged) = {}
      /\ UNCHANGED <<active, old, staged, marker, newIndex, newWriter, toStage, toDrop, index, writer,
                     pending, kept, spent>>
  BY DEF FinishMoveIn, stageVars, fileVars
<1>2. FileTypes /\ MemoryTypes /\ FilesOK /\ WriterOK /\ StageOK
  BY TypeParts DEF WriteInv
<1>3. MemoryTypes' /\ FileTypes' /\ FilesOK'
  BY <1>1, <1>2 DEF MemoryTypes, FileTypes, Pcs, FilesOK
<1>4. WriterOK'
  BY <1>1, <1>2 DEF WriterOK, Shut, Opened
<1>5. NewFiles' = NewFiles
  BY <1>1 DEF NewFiles
<1>6. StageOK'
  BY <1>1, <1>2, <1>5 DEF StageOK, Swapped
<1> QED  BY <1>3, <1>4, <1>6, TypePartsPrimed DEF WriteInv

LEMMA SwapFailsWrite ==
  ASSUME WriteInv, SwapFails
  PROVE  WriteInv'
<1>1. /\ pc \in {"renameOld", "moveIn", "marker", "markerWrite"} /\ pc' = "ready" /\ Spend("rename")
      /\ \A s \in Present(active) : s <= writer.seg
      /\ staged' = NoFiles /\ newIndex' = NoIndex /\ newWriter' = Closed /\ toDrop' = {}
      /\ UNCHANGED <<active, old, marker, toStage, index, writer, pending, kept>>
  BY DEF SwapFails, Fault
<1>2. FileTypes /\ MemoryTypes /\ FilesOK /\ WriterOK
  BY TypeParts DEF WriteInv
<1>3. spent' \in SpentType
  BY <1>1, <1>2, SpendFacts DEF MemoryTypes, Kinds
<1>4. MemoryTypes' /\ FileTypes'
  BY <1>1, <1>2, <1>3, EmptyTypes DEF MemoryTypes, FileTypes, Pcs
<1>5. FilesOK'
  BY <1>1, <1>2, EmptyTypes, NoFileFacts DEF FilesOK
<1>6. WriterOK'
  BY <1>1, <1>2 DEF WriterOK, Shut, Opened, Swapped
<1>7. StageOK'
  BY <1>1, NotStaging DEF Staging, Swapped
<1> QED  BY <1>4, <1>5, <1>6, <1>7, TypePartsPrimed DEF WriteInv

(* After the swap only the marker and the backups change.                  *)
LEMMA SwappedWrite ==
  ASSUME WriteInv, pc \in Swapped, pc' \in Swapped,
         UNCHANGED <<active, staged, newIndex, newWriter, toStage, index, writer, pending, kept>>,
         old' \in [SegIds -> File], \A s \in SegIds : FileOK(old'[s]),
         toDrop' \subseteq SegIds, marker' \in {"none", "empty", "done"}, spent' \in SpentType
  PROVE  WriteInv'
<1>1. FileTypes /\ MemoryTypes /\ FilesOK /\ WriterOK /\ StageOK
  BY TypeParts DEF WriteInv
<1>2. MemoryTypes' /\ FileTypes' /\ FilesOK'
  BY <1>1 DEF MemoryTypes, FileTypes, FilesOK, Swapped, Pcs
<1>3. WriterOK'
  BY <1>1 DEF WriterOK, Shut, Opened, Swapped
<1>4. NewFiles' = NewFiles
  BY DEF NewFiles, Swapped
<1>5. StageOK'
  BY <1>1, <1>4 DEF StageOK, Swapped
<1> QED  BY <1>2, <1>3, <1>5, TypePartsPrimed DEF WriteInv

LEMMA MarkerWrite ==
  ASSUME WriteInv, CreateMarker \/ WriteMarker
  PROVE  WriteInv'
<1>1. /\ pc \in Swapped /\ pc' \in Swapped /\ marker' \in {"none", "empty", "done"}
      /\ UNCHANGED <<active, staged, newIndex, newWriter, toStage, index, writer, pending, kept>>
      /\ UNCHANGED <<old, toDrop, spent>>
  BY DEF CreateMarker, WriteMarker, stageVars, Swapped
<1>2. FileTypes /\ MemoryTypes /\ FilesOK
  BY TypeParts DEF WriteInv
<1>3. /\ old' \in [SegIds -> File] /\ \A s \in SegIds : FileOK(old'[s])
      /\ toDrop' \subseteq SegIds /\ spent' \in SpentType
  BY <1>1, <1>2 DEF FileTypes, MemoryTypes, FilesOK
<1> QED  BY <1>1, <1>3, SwappedWrite

LEMMA DropOldWrite ==
  ASSUME WriteInv, DropOld
  PROVE  WriteInv'
<1>1. PICK s \in toDrop :
        /\ toDrop' = toDrop \ {s}
        /\ \/ old' = [old EXCEPT ![s] = NoFile] /\ UNCHANGED spent
           \/ Fault("remove") /\ UNCHANGED old
  BY DEF DropOld
<1>2. /\ pc = "dropOld" /\ pc' = "dropOld" /\ marker' = marker
      /\ UNCHANGED <<active, staged, newIndex, newWriter, toStage, index, writer, pending, kept>>
  BY DEF DropOld
<1>3. FileTypes /\ MemoryTypes /\ FilesOK
  BY TypeParts DEF WriteInv
<1>4. s \in SegIds /\ spent \in SpentType /\ toDrop \subseteq SegIds /\ old \in [SegIds -> File]
      /\ marker \in {"none", "empty", "done"}
  BY <1>3 DEF MemoryTypes, FileTypes
<1>5. spent' \in SpentType
  BY <1>1, <1>4, SpendFacts DEF Fault, Kinds
<1>6. old' \in [SegIds -> File] /\ \A t \in SegIds : FileOK(old'[t])
  <2>1. CASE old' = [old EXCEPT ![s] = NoFile]
    <3>1. /\ old'[s] = NoFile /\ \A t \in SegIds : t # s => old'[t] = old[t]
          /\ old' \in [SegIds -> File]
      BY <1>4, <2>1, NoFileFacts
    <3> QED  BY <1>3, <3>1, NoFileFacts DEF FilesOK
  <2>2. CASE old' = old
    BY <1>3, <1>4, <2>2 DEF FilesOK
  <2> QED  BY <1>1, <2>1, <2>2
<1>7. pc \in Swapped /\ pc' \in Swapped
  BY <1>2 DEF Swapped
<1>8. toDrop' \subseteq SegIds /\ marker' \in {"none", "empty", "done"}
  BY <1>1, <1>2, <1>4
<1> QED  BY <1>2, <1>5, <1>6, <1>7, <1>8, SwappedWrite

LEMMA DropMarkerWrite ==
  ASSUME WriteInv, DropMarker
  PROVE  WriteInv'
<1>1. /\ pc \in Swapped /\ pc' \in Swapped
      /\ (marker' = "none" /\ UNCHANGED spent) \/ (Fault("remove") /\ UNCHANGED marker)
      /\ UNCHANGED <<active, staged, newIndex, newWriter, toStage, index, writer, pending, kept>>
      /\ UNCHANGED <<old, toDrop>>
  BY DEF DropMarker, stageVars, Swapped
<1>2. FileTypes /\ MemoryTypes /\ FilesOK
  BY TypeParts DEF WriteInv
<1>3. spent' \in SpentType
  BY <1>1, <1>2, SpendFacts DEF Fault, Kinds, MemoryTypes
<1>4. /\ old' \in [SegIds -> File] /\ \A s \in SegIds : FileOK(old'[s])
      /\ toDrop' \subseteq SegIds /\ marker' \in {"none", "empty", "done"}
  BY <1>1, <1>2 DEF FileTypes, MemoryTypes, FilesOK
<1> QED  BY <1>1, <1>3, <1>4, SwappedWrite

(* After the swap the compacted segments are the active ones.              *)
LEMMA SwappedFiles ==
  ASSUME WriteInv, pc \in Swapped
  PROVE  /\ \A s \in SegIds : NewFiles[s] = active[s]
         /\ Located(newIndex, active) /\ kept = Indexed(newIndex)
         /\ \A s \in Present(active) : s <= newWriter.seg
         /\ Indexed(newIndex) # {} => /\ active[newWriter.seg].present
                                      /\ newWriter.count = Len(active[newWriter.seg].recs)
         /\ Indexed(newIndex) = {} => Present(active) = {}
         /\ \A s \in SegIds : AllDurable(active[s]) /\ Torn \notin Recs(active[s])
<1>1. StageOK /\ FilesOK
  BY DEF WriteInv
<1>2. pc \in {"stage", "renameOld", "moveIn"} \cup Swapped /\ pc \notin {"stage", "renameOld"}
      /\ pc # "stage"
  BY DEF Swapped
<1>3. /\ newWriter.seg \in SegIds
      /\ Located(newIndex, NewFiles)
      /\ kept = toStage \cup Indexed(newIndex) /\ toStage = {}
      /\ \A s \in Present(NewFiles) : s <= newWriter.seg
      /\ Indexed(newIndex) # {} => /\ NewFiles[newWriter.seg].present
                                   /\ newWriter.count = Len(NewFiles[newWriter.seg].recs)
      /\ Present(staged) = {}
      /\ Indexed(newIndex) = {} => Present(active) = {}
      /\ \A s \in SegIds : Torn \notin Recs(NewFiles[s])
      /\ \A s \in SegIds : AllDurable(NewFiles[s])
  BY <1>1, <1>2 DEF StageOK
<1>4. \A s \in SegIds : NewFiles[s] = active[s]
  BY <1>2, <1>3 DEF NewFiles, Present
<1>5. Located(newIndex, active)
  BY <1>3, <1>4, LocatedStays
<1>6. Present(NewFiles) = Present(active)
  BY <1>4 DEF Present
<1> QED  BY <1>3, <1>4, <1>5, <1>6

LEMMA AttachWrite ==
  ASSUME WriteInv, Attach
  PROVE  WriteInv'
<1>1. /\ pc = "attach" /\ index' = newIndex /\ newIndex' = NoIndex /\ newWriter' = Closed
      /\ \/ /\ Indexed(newIndex) # {} /\ writer' = newWriter /\ pc' = "ready" /\ active' = active
         \/ /\ Indexed(newIndex) = {} /\ pc' = "header"
            /\ active' = [active EXCEPT ![1] = Created]
            /\ writer' = [seg |-> 1, count |-> 0, open |-> TRUE]
      /\ UNCHANGED <<old, staged, marker, toStage, toDrop, pending, kept, spent>>
  BY DEF Attach
<1>2. FileTypes /\ MemoryTypes /\ FilesOK /\ WriterOK /\ StageOK
  BY TypeParts DEF WriteInv
<1>3. /\ newWriter.seg \in SegIds /\ newWriter.open
      /\ \A s \in Present(active) : s <= newWriter.seg
      /\ Indexed(newIndex) # {} => active[newWriter.seg].present
      /\ Indexed(newIndex) = {} => Present(active) = {}
  <2>1. newWriter.seg \in SegIds /\ newWriter.open
    BY <1>1, <1>2 DEF StageOK, Swapped
  <2> QED  BY <1>1, <2>1, SwappedFiles DEF Swapped
<1>4. StageOK'
  BY <1>1, NotStaging DEF Staging, Swapped
<1>5. CASE Indexed(newIndex) # {}
  <2>1. writer' = newWriter /\ pc' = "ready" /\ active' = active
    BY <1>1, <1>5
  <2>2. MemoryTypes' /\ FileTypes' /\ FilesOK'
    BY <1>1, <1>2, <2>1, EmptyTypes DEF MemoryTypes, FileTypes, FilesOK, Pcs
  <2>3. WriterOK'
    BY <1>1, <1>3, <1>5, <2>1 DEF WriterOK, Shut, Opened, Swapped
  <2> QED  BY <1>4, <2>2, <2>3, TypePartsPrimed DEF WriteInv
<1>6. CASE Indexed(newIndex) = {}
  <2>1. /\ pc' = "header" /\ active' = [active EXCEPT ![1] = Created]
        /\ writer' = [seg |-> 1, count |-> 0, open |-> TRUE]
    BY <1>1, <1>6
  <2>2. /\ active'[1] = Created /\ \A t \in SegIds : t # 1 => active'[t] = active[t]
        /\ active' \in [SegIds -> File]
    BY <1>2, <2>1, CreatedFacts, EmptyTypes DEF FileTypes
  <2>3. /\ writer' \in [seg : 0..MaxSegments, count : Nat, open : BOOLEAN]
        /\ writer'.seg = 1 /\ writer'.open = TRUE
    BY <2>1, BoundAssumption
  <2>4. MemoryTypes' /\ FileTypes'
    BY <1>1, <1>2, <2>1, <2>2, <2>3, EmptyTypes DEF MemoryTypes, FileTypes, Pcs
  <2>5. FilesOK'
    BY <1>1, <1>2, <2>2, CreatedFacts DEF FilesOK
  <2>6. Present(active') = {1}
    BY ZenonT(30), <1>3, <1>6, <2>2, CreatedFacts, EmptyTypes DEF Present
  <2>7. WriterOK'
    <3>1. \A s \in Present(active') : s <= writer'.seg
      BY <2>3, <2>6
    <3>2. active'[writer'.seg].present /\ writer'.seg \in SegIds
      BY <2>2, <2>3, CreatedFacts, EmptyTypes
    <3> QED  BY <2>1, <2>3, <3>1, <3>2 DEF WriterOK, Shut, Opened, Swapped
  <2> QED  BY <1>4, <2>4, <2>5, <2>7, TypePartsPrimed DEF WriteInv
<1> QED  BY <1>5, <1>6

(* A closed store has files and nothing else.                              *)
LEMMA ShutWrite ==
  ASSUME pc' \in Shut, index' = NoIndex, FileTypes', MemoryTypes', FilesOK'
  PROVE  WriteInv'
<1>1. WriterOK'
  BY DEF WriterOK, Shut, Opened, Swapped
<1>2. StageOK'
  BY NotStaging DEF Staging, Swapped, Shut
<1> QED  BY <1>1, <1>2, TypePartsPrimed DEF WriteInv

(* What a crash does to the files: the newest one may lose records that no *)
(* fsync covers and end in a fragment.                                     *)
LEMMA CrashFiles ==
  ASSUME WriteInv, Crash
  PROVE  /\ active' \in [SegIds -> File] /\ \A s \in SegIds : FileOK(active'[s])
         /\ Present(active') = Present(active)
         /\ \A s \in SegIds : active'[s].durable = active[s].durable
         /\ \A s \in SegIds : \A i \in 1..active[s].durable :
              /\ i \in DOMAIN active[s].recs /\ i \in DOMAIN active'[s].recs
              /\ active'[s].recs[i] = active[s].recs[i]
         /\ \A s \in SegIds : active'[s] # active[s] => s = Newest(active)
         /\ \A s \in SegIds : Recs(active'[s]) \subseteq Recs(active[s]) \cup {Torn}
         /\ \A s \in SegIds : AllDurable(active[s]) /\ ~(pc = "append" /\ writer.seg = s) =>
              AllDurable(active'[s])
         /\ \A s \in SegIds : TornAt(active[s]) \subseteq {Len(active[s].recs)}
                             /\ (pc = "append" => Torn \notin Recs(active[s])) =>
              TornAt(active'[s]) \subseteq {Len(active'[s].recs)}
<1>1. FileTypes /\ FilesOK
  BY TypeParts DEF WriteInv
<1>2. ASSUME NEW s \in SegIds, NEW i \in 1..active[s].durable
      PROVE  i \in DOMAIN active[s].recs
  <2>1. /\ active[s].durable \in Nat /\ Len(active[s].recs) \in Nat
        /\ DOMAIN active[s].recs = 1..Len(active[s].recs)
    BY <1>1, FileFields DEF FileTypes
  <2>2. active[s].durable <= Len(active[s].recs)
    BY <1>1 DEF FilesOK, FileOK
  <2> QED  BY <2>1, <2>2
<1>3. CASE active' = active
  BY <1>1, <1>2, <1>3 DEF FileTypes, FilesOK
<1>4. CASE active' # active
  <2> DEFINE n == Newest(active)
             f == active[n]
  <2>1. Present(active) # {}
    BY <1>4 DEF Crash
  <2>2. PICK k \in f.durable..Len(f.recs) :
          \/ active' = [active EXCEPT ![n].recs = SubSeq(@, 1, k)]
          \/ /\ k < Len(f.recs) \/ (pc = "append" /\ writer.seg = n)
             /\ active' = [active EXCEPT ![n].recs = Append(SubSeq(@, 1, k), Torn)]
    BY <2>1 DEF Crash
  <2>3. n \in SegIds /\ f.present /\ f \in File /\ FileOK(f)
    BY <1>1, <2>1, NewestFacts DEF Present, FileTypes, FilesOK
  <2> DEFINE p == SubSeq(f.recs, 1, k)
  <2>4. \E q : /\ active' = [active EXCEPT ![n] = [f EXCEPT !.recs = q]]
               /\ \/ q = p
                  \/ q = Append(p, Torn) /\ (k < Len(f.recs) \/ (pc = "append" /\ writer.seg = n))
    BY <2>2
  <2>5. PICK q : /\ active' = [active EXCEPT ![n] = [f EXCEPT !.recs = q]]
                 /\ \/ q = p
                    \/ q = Append(p, Torn) /\ (k < Len(f.recs) \/ (pc = "append" /\ writer.seg = n))
    BY <2>4
  <2> DEFINE g == [f EXCEPT !.recs = q]
  <2>6. CutAt(f, k, q) /\ g = WithRecs(f, q)
    BY <2>5 DEF CutAt, WithRecs
  <2>7. /\ g \in File /\ g.present /\ FileOK(g) /\ g.durable = f.durable
        /\ \A i \in 1..k : i \in DOMAIN f.recs /\ i \in DOMAIN g.recs /\ g.recs[i] = f.recs[i]
        /\ q = SubSeq(f.recs, 1, k) => Len(g.recs) = k
        /\ Len(g.recs) \in {k, k + 1}
        /\ Recs(g) \subseteq Recs(f) \cup {Torn}
    <3> HIDE DEF f, g
    <3> QED  BY <2>3, <2>6, CutFacts
  <2>8. f.durable \in Nat /\ Len(f.recs) \in Nat
    BY <2>3, FileFields
  <2>9. active' = [active EXCEPT ![n] = g]
    BY <2>5
  <2>10. AllDurable(f) /\ ~(pc = "append" /\ writer.seg = n) => AllDurable(g)
    <3>1. SUFFICES ASSUME AllDurable(f), ~(pc = "append" /\ writer.seg = n) PROVE AllDurable(g)
      OBVIOUS
    <3>2. f.durable = Len(f.recs)
      BY <3>1 DEF AllDurable
    <3>3. k = Len(f.recs) /\ ~(k < Len(f.recs))
      <4> HIDE DEF f
      <4> QED  BY <2>8, <3>2
    <3>4. q = p
      BY <2>5, <3>1, <3>3
    <3> HIDE DEF f, g
    <3> QED  BY <2>7, <3>2, <3>3, <3>4 DEF AllDurable, p
  <2>a. ASSUME TornAt(f) \subseteq {Len(f.recs)}, pc = "append" => Torn \notin Recs(f),
               NEW i \in TornAt(g), i # Len(g.recs)
        PROVE  FALSE
    <3> HIDE DEF f, g
    <3>1. i \in 1..Len(g.recs) /\ g.recs[i] = Torn
      BY <2>7, <2>a, FileFields DEF TornAt
    <3>2. k \in Nat /\ k <= Len(f.recs) /\ i \in 1..k
      BY <2>7, <2>8, <2>a, <3>1
    <3>3. i \in DOMAIN f.recs /\ f.recs[i] = Torn
      BY <2>7, <3>1, <3>2
    <3>4. i = Len(f.recs) /\ Torn \in Recs(f)
      BY <2>a, <3>3 DEF TornAt, Recs
    <3>5. k = Len(f.recs) /\ ~(k < Len(f.recs))
      BY <2>8, <3>2, <3>4
    <3>6. q = p
      BY <2>5, <2>a, <3>4, <3>5
    <3> QED  BY <2>7, <2>a, <3>4, <3>5, <3>6 DEF p
  <2> HIDE DEF g
  <2>11. /\ active'[n] = g /\ \A s \in SegIds : s # n => active'[s] = active[s]
         /\ active' \in [SegIds -> File]
    BY <1>1, <2>3, <2>7, <2>9 DEF FileTypes
  <2>12. \A i \in 1..f.durable : i \in 1..k
    <3> HIDE DEF f
    <3> QED  BY <2>2, <2>8
  <2>13. Present(active') = Present(active)
    BY <2>3, <2>7, <2>11 DEF Present
  <2>14. \A s \in SegIds : FileOK(active'[s]) /\ active'[s].durable = active[s].durable
    BY <1>1, <2>7, <2>11 DEF FilesOK
  <2>15. ASSUME NEW s \in SegIds, NEW i \in 1..active[s].durable
         PROVE  i \in DOMAIN active'[s].recs /\ active'[s].recs[i] = active[s].recs[i]
    BY <1>2, <2>7, <2>11, <2>12
  <2>16. \A s \in SegIds : AllDurable(active[s]) /\ ~(pc = "append" /\ writer.seg = s) =>
              AllDurable(active'[s])
    BY <2>10, <2>11
  <2>17. \A s \in SegIds : Recs(active'[s]) \subseteq Recs(active[s]) \cup {Torn}
    BY <2>7, <2>11
  <2>18. \A s \in SegIds : TornAt(active[s]) \subseteq {Len(active[s].recs)}
                            /\ (pc = "append" => Torn \notin Recs(active[s])) =>
              TornAt(active'[s]) \subseteq {Len(active'[s].recs)}
    BY <2>11, <2>a
  <2> QED  BY <1>2, <2>11, <2>13, <2>14, <2>15, <2>16, <2>17, <2>18
<1> QED  BY <1>3, <1>4

LEMMA CrashWrite ==
  ASSUME WriteInv, Crash
  PROVE  WriteInv'
<1>1. /\ pc' = "closed" /\ Spend("crashes")
      /\ index' = NoIndex /\ writer' = Closed
      /\ newIndex' = NoIndex /\ newWriter' = Closed /\ toStage' = {} /\ toDrop' = {}
      /\ pending' = NoChunk
      /\ UNCHANGED <<old, staged, marker, kept>>
  BY DEF Crash
<1>2. FileTypes /\ MemoryTypes /\ FilesOK
  BY TypeParts DEF WriteInv
<1>3. spent' \in SpentType
  BY <1>1, <1>2, SpendFacts DEF MemoryTypes, Kinds
<1>4. MemoryTypes'
  BY <1>1, <1>2, <1>3, EmptyTypes DEF MemoryTypes, Pcs
<1>5. FileTypes' /\ FilesOK'
  BY <1>1, <1>2, CrashFiles DEF FileTypes, FilesOK
<1>6. pc' \in Shut
  BY <1>1 DEF Shut
<1> QED  BY <1>1, <1>4, <1>5, <1>6, ShutWrite

LEMMA OpenWrite ==
  ASSUME WriteInv, Open
  PROVE  WriteInv'
<1>1. /\ pc \in Shut /\ pc' = "recover" /\ staged' = NoFiles
      /\ UNCHANGED <<active, old, marker, newIndex, newWriter, toStage, toDrop, index, writer, pending,
                     kept, spent>>
  BY DEF Open, stageVars, Shut
<1>2. FileTypes /\ MemoryTypes /\ FilesOK /\ WriterOK
  BY TypeParts DEF WriteInv
<1>3. MemoryTypes' /\ FileTypes'
  BY <1>1, <1>2, EmptyTypes DEF MemoryTypes, FileTypes, Pcs
<1>4. FilesOK'
  BY <1>1, <1>2, EmptyTypes, NoFileFacts DEF FilesOK
<1>5. pc' \in Shut /\ index' = NoIndex
  BY <1>1, <1>2 DEF Shut, WriterOK
<1> QED  BY <1>3, <1>4, <1>5, ShutWrite

(* Recovery moves and removes files.                                       *)
LEMMA RecoverWrite ==
  ASSUME WriteInv, pc = "recover", pc' \in Shut,
         active' \in [SegIds -> File], \A s \in SegIds : FileOK(active'[s]),
         old' \in [SegIds -> File], \A s \in SegIds : FileOK(old'[s]),
         marker' \in {"none", "empty", "done"},
         UNCHANGED <<staged, newIndex, newWriter, toStage, toDrop, index, writer, pending, kept, spent>>
  PROVE  WriteInv'
<1>1. FileTypes /\ MemoryTypes /\ FilesOK /\ WriterOK
  BY TypeParts DEF WriteInv
<1>2. MemoryTypes' /\ FileTypes' /\ FilesOK'
  BY <1>1 DEF MemoryTypes, FileTypes, FilesOK, Pcs, Shut
<1>3. index' = NoIndex
  BY <1>1 DEF WriterOK, Shut
<1> QED  BY <1>2, <1>3, ShutWrite

(* Removing a file.                                                        *)
LEMMA RemovedFile ==
  ASSUME NEW files \in [SegIds -> File], \A t \in SegIds : FileOK(files[t]), NEW s \in SegIds,
         NEW files2, files2 = [files EXCEPT ![s] = NoFile]
  PROVE  /\ files2 \in [SegIds -> File] /\ \A t \in SegIds : FileOK(files2[t])
         /\ files2[s] = NoFile /\ \A t \in SegIds : t # s => files2[t] = files[t]
         /\ Present(files2) = Present(files) \ {s}
<1>1. /\ files2[s] = NoFile /\ \A t \in SegIds : t # s => files2[t] = files[t]
      /\ files2 \in [SegIds -> File]
  BY NoFileFacts
<1>2. \A t \in SegIds : FileOK(files2[t])
  BY <1>1, NoFileFacts
<1>3. Present(files2) = Present(files) \ {s}
  BY <1>1, NoFileFacts DEF Present
<1> QED  BY <1>1, <1>2, <1>3

(* Putting a file where none was.                                          *)
LEMMA PlacedFile ==
  ASSUME NEW files \in [SegIds -> File], \A t \in SegIds : FileOK(files[t]), NEW s \in SegIds,
         NEW f \in File, FileOK(f), f.present,
         NEW files2, files2 = [files EXCEPT ![s] = f]
  PROVE  /\ files2 \in [SegIds -> File] /\ \A t \in SegIds : FileOK(files2[t])
         /\ files2[s] = f /\ \A t \in SegIds : t # s => files2[t] = files[t]
         /\ Present(files2) = Present(files) \cup {s}
<1>1. /\ files2[s] = f /\ \A t \in SegIds : t # s => files2[t] = files[t]
      /\ files2 \in [SegIds -> File]
  OBVIOUS
<1>2. \A t \in SegIds : FileOK(files2[t])
  BY <1>1
<1>3. Present(files2) = Present(files) \cup {s}
  BY <1>1 DEF Present
<1> QED  BY <1>1, <1>2, <1>3

LEMMA RecoverStepsWrite ==
  ASSUME WriteInv, \/ RecoverDropOld \/ RecoverRemoveActive \/ RecoverRestoreOld
                   \/ RecoverDropMarker
  PROVE  WriteInv'
<1>1. FileTypes /\ MemoryTypes /\ FilesOK
  BY TypeParts DEF WriteInv
<1>2. /\ active \in [SegIds -> File] /\ \A s \in SegIds : FileOK(active[s])
      /\ old \in [SegIds -> File] /\ \A s \in SegIds : FileOK(old[s])
      /\ marker \in {"none", "empty", "done"}
  BY <1>1 DEF FileTypes, MemoryTypes, FilesOK
<1>3. /\ pc = "recover" /\ pc' \in Shut
      /\ UNCHANGED <<staged, newIndex, newWriter, toStage, toDrop, index, writer, pending, kept, spent>>
  BY DEF RecoverDropOld, RecoverRemoveActive, RecoverRestoreOld, RecoverDropMarker, stageVars, Shut
<1>4. CASE RecoverDropOld
  <2>1. PICK s \in SegIds : old' = [old EXCEPT ![s] = NoFile]
    BY <1>4 DEF RecoverDropOld, Present
  <2>2. active' = active /\ marker' = marker
    BY <1>4 DEF RecoverDropOld
  <2>3. old' \in [SegIds -> File] /\ \A t \in SegIds : FileOK(old'[t])
    BY <1>2, <2>1, RemovedFile
  <2> QED  BY <1>2, <1>3, <2>2, <2>3, RecoverWrite
<1>5. CASE RecoverRemoveActive
  <2>1. PICK s \in SegIds : active' = [active EXCEPT ![s] = NoFile]
    BY <1>5 DEF RecoverRemoveActive, Present
  <2>2. old' = old /\ marker' = marker
    BY <1>5 DEF RecoverRemoveActive
  <2>3. active' \in [SegIds -> File] /\ \A t \in SegIds : FileOK(active'[t])
    BY <1>2, <2>1, RemovedFile
  <2> QED  BY <1>2, <1>3, <2>2, <2>3, RecoverWrite
<1>6. CASE RecoverRestoreOld
  <2>1. PICK s \in SegIds : /\ old[s].present
                            /\ active' = [active EXCEPT ![s] = old[s]]
                            /\ old' = [old EXCEPT ![s] = NoFile]
    BY <1>6 DEF RecoverRestoreOld, Present
  <2>2. marker' = marker
    BY <1>6 DEF RecoverRestoreOld
  <2>3. old' \in [SegIds -> File] /\ \A t \in SegIds : FileOK(old'[t])
    BY <1>2, <2>1, RemovedFile
  <2>4. active' \in [SegIds -> File] /\ \A t \in SegIds : FileOK(active'[t])
    <3>1. old[s] \in File /\ FileOK(old[s])
      BY <1>2
    <3> QED  BY <1>2, <2>1, <3>1, PlacedFile
  <2> QED  BY <1>2, <1>3, <2>2, <2>3, <2>4, RecoverWrite
<1>7. CASE RecoverDropMarker
  <2>1. active' = active /\ old' = old /\ marker' = "none"
    BY <1>7 DEF RecoverDropMarker
  <2> QED  BY <1>2, <1>3, <2>1, RecoverWrite
<1> QED  BY <1>4, <1>5, <1>6, <1>7

(* What a scan does to the files: the newest one is cut at its first       *)
(* fragment.                                                               *)
LEMMA ScanFiles ==
  ASSUME WriteInv, Scan
  PROVE  LET n == Newest(active)
             g == WithoutTornTail(active[n])
             b == BehindFragment(active[n]) IN
         /\ n \in Present(active) /\ n \in SegIds /\ \A t \in Present(active) : t <= n
         /\ active[n] \in File /\ FileOK(active[n]) /\ active[n].present
         /\ g \in File /\ g.present /\ FileOK(g) /\ Torn \notin Recs(g)
         /\ DurableChunks(active[n]) \subseteq DurableChunks(g) \cup {Torn} \cup b
         /\ Recs(g) \subseteq Recs(active[n])
         /\ Recs(active[n]) \subseteq Recs(g) \cup {Torn} \cup b
         /\ g = active[n] \/ AllDurable(g)
         /\ TornAt(active[n]) \subseteq {Len(active[n].recs)} => b = {}
         /\ kept' = kept \ b
         /\ active'[n] = g /\ \A t \in SegIds : t # n => active'[t] = active[t]
         /\ active' \in [SegIds -> File] /\ \A t \in SegIds : FileOK(active'[t])
         /\ Present(active') = Present(active)
         /\ writer' = [seg |-> n, count |-> Len(active'[n].recs), open |-> TRUE]
<1> DEFINE n == Newest(active)
           g == WithoutTornTail(active[n])
           b == BehindFragment(active[n])
<1>1. FileTypes /\ FilesOK
  BY TypeParts DEF WriteInv
<1>2. n \in Present(active) /\ n \in SegIds /\ \A t \in Present(active) : t <= n
  BY NewestFacts DEF Scan, Present
<1>3. active[n] \in File /\ FileOK(active[n]) /\ active[n].present
  BY <1>1, <1>2 DEF FileTypes, FilesOK, Present
<1>4. kept' = kept \ b
  BY DEF Scan
<1>5. /\ g \in File /\ g.present /\ FileOK(g) /\ Torn \notin Recs(g)
      /\ DurableChunks(active[n]) \subseteq DurableChunks(g) \cup {Torn} \cup b
      /\ Recs(g) \subseteq Recs(active[n])
      /\ Recs(active[n]) \subseteq Recs(g) \cup {Torn} \cup b
      /\ g = active[n] \/ AllDurable(g)
      /\ TornAt(active[n]) \subseteq {Len(active[n].recs)} => b = {}
  BY <1>3, TornTailFacts
<1>6. /\ active' = [active EXCEPT ![n] = g]
      /\ writer' = [seg |-> n, count |-> Len(active'[n].recs), open |-> TRUE]
  BY DEF Scan
<1> HIDE DEF n, g, b
<1>7. /\ active'[n] = g /\ \A t \in SegIds : t # n => active'[t] = active[t]
      /\ active' \in [SegIds -> File]
  BY <1>1, <1>2, <1>5, <1>6 DEF FileTypes
<1>8. \A t \in SegIds : FileOK(active'[t])
  BY <1>1, <1>5, <1>7 DEF FilesOK
<1>9. Present(active') = Present(active)
  BY <1>2, <1>3, <1>5, <1>7 DEF Present
<1> QED  BY <1>2, <1>3, <1>4, <1>5, <1>6, <1>7, <1>8, <1>9 DEF n, g, b

LEMMA ScanWrite ==
  ASSUME WriteInv, Scan
  PROVE  WriteInv'
<1> DEFINE n == Newest(active)
<1>1. /\ pc = "scan" /\ pc' = "ready" /\ index' = ScannedIndex(active')
      /\ UNCHANGED <<old, staged, marker, newIndex, newWriter, toStage, toDrop, pending, spent>>
      /\ kept' \subseteq kept
  BY DEF Scan, stageVars
<1>2. FileTypes /\ MemoryTypes /\ FilesOK
  BY TypeParts DEF WriteInv
<1>3. /\ n \in SegIds /\ \A t \in Present(active) : t <= n
      /\ active'[n].present /\ Present(active') = Present(active)
      /\ active' \in [SegIds -> File] /\ \A t \in SegIds : FileOK(active'[t])
      /\ writer' = [seg |-> n, count |-> Len(active'[n].recs), open |-> TRUE]
  BY ScanFiles
<1> HIDE DEF n
<1>4. Len(active'[n].recs) \in Nat
  <2>1. active'[n] \in File
    BY <1>3
  <2> QED  BY <2>1, FileFields
<1>5. /\ writer' \in [seg : 0..MaxSegments, count : Nat, open : BOOLEAN]
      /\ writer'.seg = n /\ writer'.open = TRUE
  BY <1>3, <1>4, BoundAssumption DEF SegIds
<1>6. index' \in [Chunks -> Location]
  BY <1>1, <1>3, ScannedFacts
<1>7. MemoryTypes' /\ FileTypes' /\ FilesOK'
  BY <1>1, <1>2, <1>3, <1>5, <1>6 DEF MemoryTypes, FileTypes, FilesOK, Pcs
<1>8. WriterOK'
  BY <1>1, <1>3, <1>5 DEF WriterOK, Shut, Opened, Swapped
<1>9. StageOK'
  BY <1>1, NotStaging DEF Staging, Swapped
<1> QED  BY <1>7, <1>8, <1>9, TypePartsPrimed DEF WriteInv

LEMMA ScanNothingWrite ==
  ASSUME WriteInv, ScanNothing
  PROVE  WriteInv'
<1>1. /\ pc = "scan" /\ Present(active) = {} /\ pc' = "header"
      /\ active' = [active EXCEPT ![1] = Created]
      /\ writer' = [seg |-> 1, count |-> 0, open |-> TRUE]
      /\ UNCHANGED <<old, staged, marker, newIndex, newWriter, toStage, toDrop, index, pending, kept,
                     spent>>
  BY DEF ScanNothing, stageVars
<1>2. FileTypes /\ MemoryTypes /\ FilesOK
  BY TypeParts DEF WriteInv
<1>3. /\ active' \in [SegIds -> File] /\ \A t \in SegIds : FileOK(active'[t])
      /\ active'[1] = Created /\ Present(active') = Present(active) \cup {1}
  <2>1. active \in [SegIds -> File] /\ \A t \in SegIds : FileOK(active[t])
    BY <1>2 DEF FileTypes, FilesOK
  <2>2. 1 \in SegIds /\ Created \in File /\ FileOK(Created) /\ Created.present
    BY CreatedFacts, EmptyTypes
  <2>3. /\ active'[1] = Created /\ \A t \in SegIds : t # 1 => active'[t] = active[t]
        /\ active' \in [SegIds -> File]
    BY <1>1, <2>1, <2>2
  <2> QED  BY <2>1, <2>2, <2>3 DEF Present
<1>4. /\ writer' \in [seg : 0..MaxSegments, count : Nat, open : BOOLEAN]
      /\ writer'.seg = 1 /\ writer'.open = TRUE
  BY <1>1, BoundAssumption
<1>5. MemoryTypes' /\ FileTypes' /\ FilesOK'
  BY <1>1, <1>2, <1>3, <1>4 DEF MemoryTypes, FileTypes, FilesOK, Pcs
<1>6. WriterOK'
  <2>1. \A s \in Present(active') : s <= writer'.seg
    BY <1>1, <1>3, <1>4
  <2>2. active'[writer'.seg].present /\ writer'.seg \in SegIds
    BY <1>3, <1>4, CreatedFacts, EmptyTypes
  <2> QED  BY <1>1, <1>4, <2>1, <2>2 DEF WriterOK, Shut, Opened, Swapped
<1>7. StageOK'
  BY <1>1, NotStaging DEF Staging, Swapped
<1> QED  BY <1>5, <1>6, <1>7, TypePartsPrimed DEF WriteInv

LEMMA ScanFailsWrite ==
  ASSUME WriteInv, ScanFails
  PROVE  WriteInv'
<1>1. /\ pc = "scan" /\ pc' = "failed"
      /\ UNCHANGED <<active, old, staged, marker, newIndex, newWriter, toStage, toDrop, index, writer,
                     pending, kept, spent>>
  BY DEF ScanFails, fileVars, stageVars
<1>2. FileTypes /\ MemoryTypes /\ FilesOK /\ WriterOK
  BY TypeParts DEF WriteInv
<1>3. MemoryTypes' /\ FileTypes' /\ FilesOK'
  BY <1>1, <1>2 DEF MemoryTypes, FileTypes, FilesOK, Pcs
<1>4. pc' \in Shut /\ index' = NoIndex
  BY <1>1, <1>2 DEF Shut, WriterOK
<1> QED  BY <1>3, <1>4, ShutWrite

LEMMA InitWrite ==
  ASSUME Init
  PROVE  WriteInv
<1>1. /\ active = NoFiles /\ old = NoFiles /\ staged = NoFiles /\ marker = "none"
      /\ index = NoIndex /\ writer = Closed
      /\ newIndex = NoIndex /\ newWriter = Closed /\ toStage = {} /\ toDrop = {}
      /\ pending = NoChunk /\ pc = "closed" /\ kept = {}
  BY DEF Init
<1>2. spent \in SpentType
  BY DEF Init, SpentType
<1>3. FileTypes /\ MemoryTypes
  BY <1>1, <1>2, EmptyTypes DEF FileTypes, MemoryTypes, Pcs
<1>4. FilesOK
  BY <1>1, EmptyTypes, NoFileFacts DEF FilesOK
<1>5. WriterOK /\ StageOK
  BY <1>1 DEF WriterOK, StageOK, Shut, Opened, Swapped
<1> QED  BY <1>3, <1>4, <1>5, TypeParts DEF WriteInv

LEMMA NextWrite ==
  ASSUME WriteInv, [Next]_vars
  PROVE  WriteInv'
<1>1. CASE WriteStep
  BY <1>1, PutChunkWrite, RotateWrite, WriteHeaderWrite, AppendChunkWrite, AppendFailsWrite, SyncWrite
  DEF WriteStep
<1>2. CASE BeginCompact
  BY <1>2, BeginCompactWrite
<1>3. CASE CompactStep
  BY <1>3, StageChunkWrite, StageFailsWrite, FinishStageWrite, RenameToOldWrite, FinishRenameWrite,
     MoveInWrite, FinishMoveInWrite, SwapFailsWrite, MarkerWrite, DropOldWrite, DropMarkerWrite,
     AttachWrite
  DEF CompactStep
<1>4. CASE Crash
  BY <1>4, CrashWrite
<1>5. CASE RecoverStep
  BY <1>5, OpenWrite, RecoverStepsWrite, ScanWrite, ScanNothingWrite, ScanFailsWrite DEF RecoverStep
<1>6. CASE UNCHANGED vars
  <2>1. UNCHANGED <<active, old, staged, marker, newIndex, newWriter, toStage, toDrop, index, writer,
                    pending, pc, kept, spent>>
    BY <1>6 DEF vars, fileVars, stageVars
  <2>2. TypeOK' /\ FilesOK' /\ WriterOK'
    BY <2>1 DEF WriteInv, TypeOK, FilesOK, WriterOK
  <2>3. NewFiles' = NewFiles
    BY <2>1 DEF NewFiles
  <2>4. StageOK'
    BY <2>1, <2>3 DEF WriteInv, StageOK
  <2> QED  BY <2>2, <2>4 DEF WriteInv
<1> QED  BY <1>1, <1>2, <1>3, <1>4, <1>5, <1>6 DEF Next

(* Every variable of the segment store has the type the code gives it, for *)
(* any bounds on segments, appends, compactions, crashes and errors.       *)
THEOREM SegmentTypeCorrect == Spec => []TypeOK
<1>1. Init => WriteInv
  BY InitWrite
<1>2. WriteInv /\ [Next]_vars => WriteInv'
  BY NextWrite
<1>3. WriteInv => TypeOK
  BY DEF WriteInv
<1> QED  BY <1>1, <1>2, <1>3, PTL DEF Spec

-----------------------------------------------------------------------------
(* IndexInv                                                                *)

LEMMA NotOpened ==
  ASSUME pc' \notin Opened
  PROVE  IndexInv'
BY DEF IndexInv

(* What IndexInv says of a state in which nothing it depends on has failed.*)
IndexGood == /\ writer.open /\ writer.count = Len(active[writer.seg].recs)
             /\ Located(index, active)

LEMMA IndexIsGood ==
  ASSUME IndexInv, spent.append + spent.rename = 0, pc \in Opened
  PROVE  IndexGood
BY DEF IndexInv, IndexGood

LEMMA IndexByCases ==
  ASSUME spent'.append + spent'.rename = 0 => IndexGood'
  PROVE  IndexInv'
BY DEF IndexInv, IndexGood

(* Nothing changes for the index when the records stay and the counters of *)
(* failures do.                                                            *)
LEMMA IndexStays ==
  ASSUME IndexInv, pc \in Opened,
         writer.seg \in SegIds, UNCHANGED <<index, writer>>,
         \A s \in SegIds : active'[s].recs = active[s].recs,
         spent'.append = spent.append, spent'.rename = spent.rename
  PROVE  IndexInv'
<1>1. SUFFICES ASSUME spent'.append + spent'.rename = 0 PROVE IndexGood'
  BY IndexByCases
<1>2. spent.append + spent.rename = 0
  BY <1>1
<1>3. writer.open /\ writer.count = Len(active[writer.seg].recs) /\ Located(index, active)
  BY <1>2, IndexIsGood DEF IndexGood
<1>4. Located(index, active')
  BY <1>3, LocatedStays
<1> QED  BY <1>3, <1>4 DEF IndexGood

LEMMA RotateIndex ==
  ASSUME WriteInv, IndexInv, Rotate
  PROVE  IndexInv'
<1> DEFINE w == writer.seg
<1>1. /\ pc = "rotate"
      /\ active' = [active EXCEPT ![w] = Synced(@), ![w + 1] = Created]
      /\ writer' = [seg |-> w + 1, count |-> 0, open |-> TRUE]
      /\ UNCHANGED <<index, spent>>
  BY DEF Rotate
<1>2. FileTypes /\ FilesOK /\ WriterOK
  BY TypeParts DEF WriteInv
<1>3. w \in SegIds /\ w < MaxSegments /\ \A s \in Present(active) : s <= w
  BY <1>1, <1>2 DEF WriterOK, Shut, Opened
<1> HIDE DEF w
<1>4. w \in Nat /\ w + 1 \in SegIds /\ w # w + 1 /\ ~(w + 1 <= w)
  BY <1>3, BoundAssumption DEF SegIds
<1>5. /\ active'[w] = Synced(active[w]) /\ active'[w + 1] = Created
      /\ \A s \in SegIds : s # w /\ s # w + 1 => active'[s] = active[s]
  BY <1>1, <1>2, <1>3, <1>4 DEF FileTypes
<1>6. active[w + 1] = NoFile
  BY <1>2, <1>3, <1>4 DEF FilesOK, FileOK, Present
<1>7. \A s \in SegIds : active'[s].recs = active[s].recs \/ DOMAIN active[s].recs = {}
  <2>1. Synced(active[w]).recs = active[w].recs
    BY <1>2, <1>3, SyncedFacts DEF FileTypes, FilesOK
  <2> QED  BY <1>5, <1>6, <2>1, NoFileFacts
<1>8. SUFFICES ASSUME spent'.append + spent'.rename = 0 PROVE IndexGood'
  BY IndexByCases
<1>9. Located(index, active)
  BY <1>1, <1>8, IndexIsGood DEF IndexGood, Opened
<1>10. Located(index, active')
  BY <1>7, <1>9 DEF Located
<1>11. writer'.open /\ writer'.count = Len(active'[writer'.seg].recs)
  BY <1>1, <1>5, CreatedFacts
<1> QED  BY <1>1, <1>10, <1>11 DEF IndexGood

LEMMA AppendChunkIndex ==
  ASSUME WriteInv, IndexInv, AppendChunk
  PROVE  IndexInv'
<1> DEFINE w == writer.seg
           f == active[w]
<1>1. /\ pc = "append"
      /\ active' = [active EXCEPT ![w] = AddRecord(f, pending)]
      /\ index' = [index EXCEPT ![pending] = [seg |-> w, pos |-> writer.count + 1]]
      /\ writer' = [writer EXCEPT !.count = @ + 1]
      /\ spent' = spent
  BY DEF AppendChunk
<1>2. FileTypes /\ MemoryTypes /\ FilesOK /\ WriterOK
  BY TypeParts DEF WriteInv
<1>3. w \in SegIds /\ f.present /\ pending \in Chunks /\ writer.open
  BY <1>1, <1>2 DEF WriterOK, Shut, Opened
<1>4. SUFFICES ASSUME spent'.append + spent'.rename = 0 PROVE IndexGood'
  BY IndexByCases
<1>5. writer.count = Len(f.recs) /\ Located(index, active)
  BY <1>1, <1>4, IndexIsGood DEF IndexGood, Opened
<1>6. active' = AddedAt(active, w, f, pending) /\ index' = IndexedAt(index, w, f, pending)
  BY <1>1, <1>5 DEF AddedAt, IndexedAt
<1>7. /\ active \in [SegIds -> File] /\ f \in File /\ FileOK(f) /\ index \in [Chunks -> Location]
  BY <1>2, <1>3 DEF FileTypes, FilesOK, MemoryTypes
<1>8. f = active[w] \/ active[w] = NoFile
  OBVIOUS
<1>9. writer'.open /\ writer'.seg = w /\ writer'.count = writer.count + 1
  BY <1>1, <1>2, <1>3 DEF MemoryTypes
<1> HIDE DEF f, w
<1>10. Located(index', active') /\ Len(active'[w].recs) = Len(f.recs) + 1
  BY <1>3, <1>5, <1>6, <1>7, <1>8, StagedRecord
<1> QED  BY <1>5, <1>9, <1>10 DEF IndexGood

LEMMA AttachIndex ==
  ASSUME WriteInv, Attach
  PROVE  IndexInv'
<1>1. /\ pc = "attach" /\ index' = newIndex
      /\ \/ /\ Indexed(newIndex) # {} /\ writer' = newWriter /\ active' = active
         \/ /\ Indexed(newIndex) = {}
            /\ active' = [active EXCEPT ![1] = Created]
            /\ writer' = [seg |-> 1, count |-> 0, open |-> TRUE]
  BY DEF Attach
<1>2. FileTypes /\ StageOK
  BY TypeParts DEF WriteInv
<1>3. SUFFICES IndexGood'
  BY IndexByCases
<1>4. pc \in Swapped /\ newWriter.open
  BY <1>1, <1>2 DEF Swapped, StageOK
<1>5. CASE Indexed(newIndex) # {}
  BY <1>1, <1>4, <1>5, SwappedFiles DEF IndexGood
<1>6. CASE Indexed(newIndex) = {}
  <2>1. active' = [active EXCEPT ![1] = Created] /\ writer' = [seg |-> 1, count |-> 0, open |-> TRUE]
    BY <1>1, <1>6
  <2>2. active'[1] = Created
    BY <1>2, <2>1, EmptyTypes DEF FileTypes
  <2>3. Located(index', active')
    BY <1>1, <1>6 DEF Located, Indexed
  <2> QED  BY <2>1, <2>2, <2>3, CreatedFacts DEF IndexGood
<1> QED  BY <1>5, <1>6

LEMMA ScanIndex ==
  ASSUME WriteInv, Scan
  PROVE  IndexInv'
<1>1. SUFFICES IndexGood'
  BY IndexByCases
<1>2. /\ active' \in [SegIds -> File]
      /\ writer' = [seg |-> Newest(active), count |-> Len(active'[Newest(active)].recs), open |-> TRUE]
  BY ScanFiles
<1>3. index' = ScannedIndex(active')
  BY DEF Scan
<1> QED  BY <1>2, <1>3, ScannedFacts DEF IndexGood

LEMMA ScanNothingIndex ==
  ASSUME WriteInv, ScanNothing
  PROVE  IndexInv'
<1>1. /\ pc = "scan" /\ active' = [active EXCEPT ![1] = Created]
      /\ writer' = [seg |-> 1, count |-> 0, open |-> TRUE] /\ index' = index
  BY DEF ScanNothing
<1>2. FileTypes /\ index = NoIndex
  BY <1>1, TypeParts DEF WriteInv, WriterOK, Shut
<1>3. SUFFICES IndexGood'
  BY IndexByCases
<1>4. active'[1] = Created
  BY <1>1, <1>2, EmptyTypes DEF FileTypes
<1>5. Located(index', active')
  BY <1>1, <1>2, EmptyTypes DEF Located
<1> QED  BY <1>1, <1>4, <1>5, CreatedFacts DEF IndexGood

LEMMA NextIndex ==
  ASSUME WriteInv, IndexInv, [Next]_vars
  PROVE  IndexInv'
<1>1. FileTypes /\ MemoryTypes /\ FilesOK /\ WriterOK
  BY TypeParts DEF WriteInv
<1>2. spent \in SpentType
  BY <1>1 DEF MemoryTypes
<1>3. pc \in Opened => writer.seg \in SegIds
  BY <1>1 DEF WriterOK, Shut, Opened
<1>4. CASE PutChunk
  <2>1. pc = "ready" /\ UNCHANGED <<index, writer, active>> /\ Spend("appends")
    BY <1>4 DEF PutChunk, fileVars
  <2>2. spent'.append = spent.append /\ spent'.rename = spent.rename
    BY <1>2, <2>1, SpendFacts DEF Kinds
  <2> QED  BY <1>3, <2>1, <2>2, IndexStays DEF Opened
<1>5. CASE Rotate
  BY <1>5, RotateIndex
<1>6. CASE WriteHeader
  <2> DEFINE w == writer.seg
             g == [active[w] EXCEPT !.header = TRUE]
  <2>1. pc = "header" /\ UNCHANGED <<index, writer, spent>> /\ active' = [active EXCEPT ![w] = g]
    BY <1>6 DEF WriteHeader
  <2>2. w \in SegIds /\ active[w] \in File
    BY <1>1, <1>3, <2>1 DEF FileTypes, Opened
  <2>3. g.recs = active[w].recs
    BY <2>2 DEF File
  <2> HIDE DEF g
  <2>4. \A s \in SegIds : active'[s].recs = active[s].recs
    BY <1>1, <2>1, <2>2, <2>3 DEF FileTypes
  <2> QED  BY <2>1, <2>2, <2>4, IndexStays DEF Opened
<1>7. CASE AppendChunk
  BY <1>7, AppendChunkIndex
<1>8. CASE AppendFails \/ SwapFails
  <2>1. Spend("append") \/ Spend("rename")
    BY <1>8 DEF AppendFails, SwapFails, Fault
  <2>2. spent' \in SpentType /\ (spent'.append = spent.append + 1 \/ spent'.rename = spent.rename + 1)
    BY <1>2, <2>1, SpendFacts DEF Kinds
  <2>3. spent.append \in Nat /\ spent.rename \in Nat /\ spent'.append \in Nat /\ spent'.rename \in Nat
    BY <1>2, <2>2 DEF SpentType
  <2>4. spent'.append + spent'.rename # 0
    BY <2>2, <2>3
  <2> QED  BY <2>4, IndexByCases
<1>9. CASE Sync
  <2>1. pc = "ready" /\ UNCHANGED <<index, writer, spent>>
        /\ active' = [active EXCEPT ![writer.seg] = Synced(@)]
    BY <1>9 DEF Sync
  <2> QED  BY <1>3, <2>1, IndexStays, SyncedFiles DEF Opened
<1>10. CASE BeginCompact
  <2>1. /\ pc = "ready" /\ UNCHANGED <<index, writer>>
        /\ active' = [active EXCEPT ![writer.seg] = Synced(@)]
        /\ spent'.append = spent.append /\ spent'.rename = spent.rename
    BY <1>2, <1>10, BeginSpend DEF BeginCompact
  <2> QED  BY <1>3, <2>1, IndexStays, SyncedFiles DEF Opened
<1>11. CASE StageChunk \/ StageFails
  <2>1. pc = "stage" /\ UNCHANGED <<index, writer, active, spent>>
    BY <1>11 DEF StageChunk, StageFails
  <2> QED  BY <1>3, <2>1, IndexStays DEF Opened
<1>12. CASE FinishStage \/ RenameToOld \/ FinishRename \/ MoveIn \/ FinishMoveIn \/ CreateMarker
             \/ WriteMarker \/ DropOld \/ DropMarker
  <2>1. pc' \in {"renameOld", "moveIn"} \cup Swapped
    BY <1>12 DEF FinishStage, RenameToOld, FinishRename, MoveIn, FinishMoveIn, CreateMarker,
                 WriteMarker, DropOld, DropMarker, Swapped
  <2> QED  BY <2>1, NotOpened DEF Opened, Swapped
<1>13. CASE Attach
  BY <1>13, AttachIndex
<1>14. CASE Crash \/ Open \/ RecoverDropOld \/ RecoverRemoveActive \/ RecoverRestoreOld
             \/ RecoverDropMarker \/ ScanFails
  <2>1. pc' \in Shut
    BY <1>14 DEF Crash, Open, RecoverDropOld, RecoverRemoveActive, RecoverRestoreOld,
                 RecoverDropMarker, ScanFails, Shut
  <2> QED  BY <2>1, NotOpened DEF Opened, Shut
<1>15. CASE Scan
  BY <1>15, ScanIndex
<1>16. CASE ScanNothing
  BY <1>16, ScanNothingIndex
<1>17. CASE UNCHANGED vars
  BY <1>17 DEF vars, fileVars, IndexInv
<1> QED  BY <1>4, <1>5, <1>6, <1>7, <1>8, <1>9, <1>10, <1>11, <1>12, <1>13, <1>14, <1>15, <1>16, <1>17
         DEF Next, WriteStep, CompactStep, RecoverStep

(* While the store is open every indexed chunk is at its location, for any *)
(* number of appends, rotations, compactions, crashes and failed removals, *)
(* as long as no append and no rename failed (SegmentIndex::replace_with,  *)
(* append_chunk, recover_and_index).                                       *)
THEOREM IndexIsExact == Spec => []IndexLocatesChunks
<1> DEFINE Inv == WriteInv /\ IndexInv
<1>1. Init => Inv
  <2>1. Init => pc = "closed"
    BY DEF Init
  <2> QED  BY <2>1, InitWrite DEF IndexInv, Opened
<1>2. Inv /\ [Next]_vars => Inv'
  BY NextWrite, NextIndex
<1>3. Inv => IndexLocatesChunks
  <2>1. ASSUME Inv, pc \in {"ready", "append", "rotate"}, spent.append + spent.rename = 0,
               NEW c \in Chunks, index[c] # NoLoc
        PROVE  ReadOk(c)
    <3>1. Located(index, active)
      BY <2>1, IndexIsGood DEF Opened, IndexGood
    <3> QED  BY <2>1, <3>1 DEF Located, ReadOk, RecordAt
  <2> QED  BY <2>1 DEF IndexLocatesChunks
<1> HIDE DEF Inv
<1> QED  BY <1>1, <1>2, <1>3, PTL DEF Spec

-----------------------------------------------------------------------------
(* ByteInv                                                                 *)

(* The counters of failures only grow.                                     *)
LEMMA SpentGrows ==
  ASSUME spent \in SpentType, [Next]_vars
  PROVE  /\ spent' \in SpentType
         /\ spent'.append >= spent.append /\ spent'.rename >= spent.rename
         /\ spent'.remove >= spent.remove /\ spent'.overBackups >= spent.overBackups
<1>1. /\ spent.append \in Nat /\ spent.rename \in Nat
      /\ spent.remove \in Nat /\ spent.overBackups \in Nat
  BY DEF SpentType
<1>2. CASE spent' = spent
  BY <1>1, <1>2
<1>3. CASE \E kind \in Kinds : Spend(kind)
  <2>1. PICK kind \in Kinds : Spend(kind)
    BY <1>3
  <2>2. /\ spent' \in SpentType /\ spent'.overBackups = spent.overBackups
        /\ spent'.append = spent.append \/ spent'.append = spent.append + 1
        /\ spent'.remove = spent.remove \/ spent'.remove = spent.remove + 1
        /\ spent'.rename = spent.rename \/ spent'.rename = spent.rename + 1
    BY <2>1, SpendFacts
  <2> QED  BY <1>1, <2>2
<1>4. CASE BeginCompact
  <2>1. /\ spent' \in SpentType
        /\ spent'.append = spent.append /\ spent'.remove = spent.remove
        /\ spent'.rename = spent.rename
        /\ spent'.overBackups = spent.overBackups \/ spent'.overBackups = spent.overBackups + 1
    BY <1>4, BeginSpend DEF BeginCompact
  <2> QED  BY <1>1, <2>1
<1>5. spent' = spent \/ (\E kind \in Kinds : Spend(kind)) \/ BeginCompact
  <2>1. CASE PutChunk \/ AppendFails \/ SwapFails \/ DropOld \/ DropMarker \/ Crash
    BY <2>1 DEF PutChunk, AppendFails, SwapFails, DropOld, DropMarker, Crash, Fault, Kinds
  <2>2. CASE Rotate \/ WriteHeader \/ AppendChunk \/ Sync \/ StageChunk \/ StageFails \/ FinishStage
    BY <2>2 DEF Rotate, WriteHeader, AppendChunk, Sync, StageChunk, StageFails, FinishStage
  <2>3. CASE RenameToOld \/ FinishRename \/ MoveIn \/ FinishMoveIn \/ CreateMarker \/ WriteMarker
             \/ Attach
    BY <2>3 DEF RenameToOld, FinishRename, MoveIn, FinishMoveIn, CreateMarker, WriteMarker, Attach
  <2>4. CASE RecoverStep
    BY <2>4 DEF RecoverStep, Open, RecoverDropOld, RecoverRemoveActive, RecoverRestoreOld,
                RecoverDropMarker, Scan, ScanNothing, ScanFails
  <2>5. CASE UNCHANGED vars
    BY <2>5 DEF vars
  <2> QED  BY <2>1, <2>2, <2>3, <2>4, <2>5 DEF Next, WriteStep, CompactStep
<1> QED  BY <1>2, <1>3, <1>4, <1>5

(* Recovery chooses the file of each segment on its own.                   *)
LEMMA RecoverableFiles ==
  ASSUME NEW s \in SegIds
  PROVE  Recoverable[s] = FileFor(active, old, marker, s)
BY DEF Recoverable, FileFor, Present

LEMMA DurablesGrow ==
  ASSUME NEW a, NEW o, NEW m, NEW a2, NEW o2, NEW m2, NEW C,
         \A s \in SegIds : DurableChunks(FileFor(a, o, m, s)) \cap C
                             \subseteq DurableChunks(FileFor(a2, o2, m2, s))
  PROVE  DurablesOf(a, o, m) \cap C \subseteq DurablesOf(a2, o2, m2)
BY DEF DurablesOf

LEMMA InDurables ==
  ASSUME NEW a, NEW o, NEW m, NEW s \in SegIds, NEW c, c \in DurableChunks(FileFor(a, o, m, s))
  PROVE  c \in DurablesOf(a, o, m)
BY DEF DurablesOf

(* The durable chunks of a file are among its records, and all of them     *)
(* when it is synced.                                                      *)
LEMMA DurableFacts ==
  ASSUME NEW f \in File, FileOK(f)
  PROVE  /\ DurableChunks(f) \subseteq Recs(f)
         /\ AllDurable(f) => DurableChunks(f) = Recs(f)
         /\ Recs(Synced(f)) = Recs(f) /\ DurableChunks(Synced(f)) = Recs(f)
<1>1. ASSUME NEW h \in File PROVE AllDurable(h) => DurableChunks(h) = Recs(h)
  <2>1. Len(h.recs) \in Nat /\ DOMAIN h.recs = 1..Len(h.recs)
    BY FileFields
  <2>2. ASSUME AllDurable(h) PROVE \A i \in DOMAIN h.recs : i <= h.durable
    BY <2>1, <2>2 DEF AllDurable
  <2> QED  BY <2>2 DEF DurableChunks, Recs
<1>2. DurableChunks(f) \subseteq Recs(f)
  BY DEF DurableChunks, Recs
<1>3. Synced(f) \in File /\ AllDurable(Synced(f)) /\ Synced(f).recs = f.recs
  BY SyncedFacts
<1>4. Recs(Synced(f)) = Recs(f)
  BY <1>3 DEF Recs
<1> QED  BY <1>1, <1>2, <1>3, <1>4

(* What is durable stays durable when the durable records stay.            *)
LEMMA DurableStays ==
  ASSUME NEW f \in File, NEW g \in File, FileOK(f), g.durable = f.durable,
         \A i \in 1..f.durable : i \in DOMAIN g.recs /\ g.recs[i] = f.recs[i]
  PROVE  DurableChunks(f) \subseteq DurableChunks(g)
<1>1. f.durable \in Nat /\ DOMAIN f.recs = 1..Len(f.recs) /\ Len(f.recs) \in Nat
  BY FileFields
<1>2. ASSUME NEW j \in DOMAIN f.recs, j <= f.durable PROVE f.recs[j] \in DurableChunks(g)
  <2>1. j \in 1..f.durable
    BY <1>1, <1>2
  <2>2. j \in DOMAIN g.recs /\ g.recs[j] = f.recs[j] /\ j <= g.durable
    BY <1>2, <2>1
  <2> QED  BY <2>2 DEF DurableChunks
<1> QED  BY <1>2 DEF DurableChunks

OpenPcs == {"header", "ready", "append", "rotate"}

(* What BytesKept says while chunks are put.                               *)
OpenBytes(a, o, m, w, ix, kp) ==
  /\ m # "done"
  /\ \A s \in Present(o) : s <= w.seg
  /\ w.open => ~o[w.seg].present
  /\ \A s \in SegIds : AllDurable(o[s])
  /\ \A s \in SegIds : s # w.seg => AllDurable(a[s])
  /\ \A c \in Indexed(ix) :
       c \in DurablesOf(a, o, m) \/ (c \in Recs(a[w.seg]) /\ ~o[w.seg].present)
  /\ kp \subseteq DurablesOf(a, o, m)

LEMMA OpenBytesBefore ==
  ASSUME BytesKept, pc \in OpenPcs
  PROVE  OpenBytes(active, old, marker, writer, index, kept)
BY DEF BytesKept, MarkerOK, BackupsOK, TailsOK, IndexDurable, KeptOK, Durables, OpenBytes, OpenPcs,
       Opened, Shut, Swapped

LEMMA OpenBytesAfter ==
  ASSUME pc' \in OpenPcs, OpenBytes(active', old', marker', writer', index', kept')
  PROVE  BytesKept'
<1>1. MarkerOK'
  BY DEF OpenBytes, OpenPcs, MarkerOK, Opened
<1>2. BackupsOK'
  BY DEF OpenBytes, OpenPcs, BackupsOK, Opened
<1>3. TailsOK'
  BY DEF OpenBytes, OpenPcs, TailsOK, Swapped, Shut
<1>4. IndexDurable' /\ KeptOK'
  BY DEF OpenBytes, OpenPcs, IndexDurable, KeptOK, Durables
<1> QED  BY <1>1, <1>2, <1>3, <1>4 DEF BytesKept

LEMMA PutChunkBytes ==
  ASSUME BytesKept, PutChunk
  PROVE  BytesKept'
<1>1. pc \in OpenPcs /\ pc' \in OpenPcs /\ UNCHANGED <<active, old, marker, writer, index, kept>>
  BY DEF PutChunk, OpenPcs, fileVars
<1>2. OpenBytes(active', old', marker', writer', index', kept')
  BY <1>1, OpenBytesBefore
<1> QED  BY <1>1, <1>2, OpenBytesAfter

LEMMA ActiveGrows ==
  ASSUME NEW a, NEW a2, NEW o, NEW m,
         \A s \in SegIds : DurableChunks(a[s]) \subseteq DurableChunks(a2[s])
  PROVE  DurablesOf(a, o, m) \subseteq DurablesOf(a2, o, m)
BY DEF DurablesOf, FileFor

LEMMA RotateBytes ==
  ASSUME WriteInv, BytesKept, Rotate
  PROVE  BytesKept'
<1> DEFINE w == writer.seg
<1>1. /\ pc = "rotate" /\ pc' = "header"
      /\ active' = [active EXCEPT ![w] = Synced(@), ![w + 1] = Created]
      /\ writer' = [seg |-> w + 1, count |-> 0, open |-> TRUE]
      /\ UNCHANGED <<old, marker, index, kept>>
  BY DEF Rotate
<1>2. FileTypes /\ FilesOK /\ WriterOK
  BY TypeParts DEF WriteInv
<1>3. w \in SegIds /\ w < MaxSegments /\ \A s \in Present(active) : s <= w
  BY <1>1, <1>2 DEF WriterOK, Shut, Opened
<1> HIDE DEF w
<1>4. w \in Nat /\ w + 1 \in SegIds /\ w # w + 1 /\ ~(w + 1 <= w)
  BY <1>3, BoundAssumption DEF SegIds
<1>5. /\ active'[w] = Synced(active[w]) /\ active'[w + 1] = Created
      /\ \A s \in SegIds : s # w /\ s # w + 1 => active'[s] = active[s]
  BY <1>1, <1>2, <1>3, <1>4 DEF FileTypes
<1>6. active[w + 1] = NoFile
  BY <1>2, <1>3, <1>4 DEF FilesOK, FileOK, Present
<1>7. /\ DurableChunks(active[w]) \subseteq Recs(active[w])
      /\ DurableChunks(active'[w]) = Recs(active[w]) /\ AllDurable(active'[w])
  BY <1>2, <1>3, <1>5, DurableFacts, SyncedFacts DEF FileTypes, FilesOK
<1>8. \A s \in SegIds : DurableChunks(active[s]) \subseteq DurableChunks(active'[s])
  BY <1>5, <1>6, <1>7, NoFileFacts
<1>9. DurablesOf(active, old, marker) \subseteq DurablesOf(active', old, marker)
  BY <1>8, ActiveGrows
<1>10. OpenBytes(active, old, marker, writer, index, kept)
  BY <1>1, OpenBytesBefore DEF OpenPcs
<1>11. /\ marker # "done" /\ \A s \in Present(old) : s <= w
       /\ \A s \in SegIds : AllDurable(old[s])
       /\ \A s \in SegIds : s # w => AllDurable(active[s])
       /\ \A c \in Indexed(index) :
            c \in DurablesOf(active, old, marker) \/ (c \in Recs(active[w]) /\ ~old[w].present)
       /\ kept \subseteq DurablesOf(active, old, marker)
  BY <1>10 DEF OpenBytes, w
<1>12. writer'.seg = w + 1 /\ writer'.open
  BY <1>1
<1>13. \A s \in Present(old) : s <= w + 1
  <2>1. \A s \in Present(old) : s \in Nat
    BY DEF Present, SegIds
  <2> QED  BY <1>4, <1>11, <2>1
<1>14. ~old[w + 1].present
  BY <1>4, <1>11 DEF Present
<1>15. \A s \in SegIds : s # w + 1 => AllDurable(active'[s])
  BY <1>5, <1>7, <1>11
<1>16. ASSUME NEW c \in Indexed(index) PROVE c \in DurablesOf(active', old, marker)
  <2>1. CASE c \in DurablesOf(active, old, marker)
    BY <1>9, <2>1
  <2>2. CASE c \in Recs(active[w]) /\ ~old[w].present
    <3>1. FileFor(active', old, marker, w) = active'[w]
      BY <2>2 DEF FileFor
    <3> QED  BY <1>3, <1>7, <2>2, <3>1, InDurables
  <2> QED  BY <1>11, <2>1, <2>2
<1>17. OpenBytes(active', old', marker', writer', index', kept')
  BY <1>1, <1>9, <1>11, <1>12, <1>13, <1>14, <1>15, <1>16 DEF OpenBytes
<1> QED  BY <1>1, <1>17, OpenBytesAfter DEF OpenPcs

(* The segment being written changes, and nothing that was durable is lost.*)
LEMMA TailBytes ==
  ASSUME WriteInv, BytesKept, pc \in OpenPcs, pc' \in OpenPcs, NEW g,
         active' = [active EXCEPT ![writer.seg] = g],
         DurableChunks(active[writer.seg]) \subseteq DurableChunks(g),
         Recs(active[writer.seg]) \subseteq Recs(g),
         \A c \in Indexed(index') : c \in Indexed(index) \/ (c \in Recs(g) /\ writer.open),
         writer'.seg = writer.seg, writer'.open = writer.open,
         UNCHANGED <<old, marker>>,
         \A c \in kept' : c \in kept \/ (c \in Indexed(index) /\ Recs(active[writer.seg]) \subseteq DurableChunks(g))
  PROVE  BytesKept'
<1> DEFINE w == writer.seg
<1>1. FileTypes /\ w \in SegIds
  BY TypeParts DEF WriteInv, WriterOK, OpenPcs, Shut
<1>2. OpenBytes(active, old, marker, writer, index, kept)
  BY OpenBytesBefore
<1> HIDE DEF w
<1>3. active'[w] = g /\ \A s \in SegIds : s # w => active'[s] = active[s]
  BY <1>1 DEF FileTypes, w
<1>4. DurablesOf(active, old, marker) \subseteq DurablesOf(active', old, marker)
  <2>1. \A s \in SegIds : DurableChunks(active[s]) \subseteq DurableChunks(active'[s])
    BY <1>3 DEF w
  <2> QED  BY <2>1, ActiveGrows
<1>5. /\ marker # "done" /\ \A s \in Present(old) : s <= w
      /\ writer.open => ~old[w].present
      /\ \A s \in SegIds : AllDurable(old[s])
      /\ \A s \in SegIds : s # w => AllDurable(active[s])
      /\ \A c \in Indexed(index) :
           c \in DurablesOf(active, old, marker) \/ (c \in Recs(active[w]) /\ ~old[w].present)
      /\ kept \subseteq DurablesOf(active, old, marker)
  BY <1>2 DEF OpenBytes, w
<1>6. \A s \in SegIds : s # w => AllDurable(active'[s])
  BY <1>3, <1>5
<1>7. \A c \in Indexed(index') :
        c \in DurablesOf(active', old, marker) \/ (c \in Recs(active'[w]) /\ ~old[w].present)
  BY <1>3, <1>4, <1>5 DEF w
<1>8. ASSUME NEW c \in kept' PROVE c \in DurablesOf(active', old, marker)
  <2>1. CASE c \in DurablesOf(active, old, marker)
    BY <1>4, <2>1
  <2>2. CASE c \in Recs(active[w]) /\ ~old[w].present /\ Recs(active[w]) \subseteq DurableChunks(g)
    <3>1. FileFor(active', old, marker, w) = g
      BY <1>3, <2>2 DEF FileFor
    <3> QED  BY <1>1, <2>2, <3>1, InDurables
  <2> QED  BY <1>5, <2>1, <2>2 DEF w
<1>9. OpenBytes(active', old', marker', writer', index', kept')
  BY <1>5, <1>6, <1>7, <1>8 DEF OpenBytes, w
<1> QED  BY <1>9, OpenBytesAfter

LEMMA WriteHeaderBytes ==
  ASSUME WriteInv, BytesKept, WriteHeader
  PROVE  BytesKept'
<1> DEFINE w == writer.seg
           g == [active[w] EXCEPT !.header = TRUE]
<1>1. /\ pc \in OpenPcs /\ pc' \in OpenPcs /\ active' = [active EXCEPT ![w] = g]
      /\ UNCHANGED <<old, marker, index, writer, kept>> /\ pc = "header"
  BY DEF WriteHeader, OpenPcs
<1>2. FileTypes /\ FilesOK /\ w \in SegIds /\ active[w].present
  BY <1>1, TypeParts DEF WriteInv, WriterOK, Shut, Opened
<1>3. g.recs = active[w].recs /\ g.durable = active[w].durable
  BY <1>2, HeaderFacts DEF FileTypes, FilesOK
<1> HIDE DEF g
<1>4. DurableChunks(g) = DurableChunks(active[w]) /\ Recs(g) = Recs(active[w])
  BY <1>3 DEF DurableChunks, Recs
<1> QED  BY <1>1, <1>4, TailBytes

LEMMA AppendBytes ==
  ASSUME WriteInv, BytesKept, AppendChunk \/ AppendFails
  PROVE  BytesKept'
<1> DEFINE w == writer.seg
           f == active[w]
<1>1. \E r \in Records :
        /\ active' = [active EXCEPT ![w] = AddRecord(f, r)]
        /\ \A c \in Indexed(index') : c \in Indexed(index) \/ c = r
  <2>1. FileTypes /\ MemoryTypes /\ WriterOK
    BY TypeParts DEF WriteInv
  <2>2. CASE AppendChunk
    <3>1. /\ active' = [active EXCEPT ![w] = AddRecord(f, pending)]
          /\ index' = [index EXCEPT ![pending] = [seg |-> w, pos |-> writer.count + 1]]
          /\ pending \in Records
      BY <2>1, <2>2 DEF AppendChunk, WriterOK, Records
    <3>2. \A c \in Indexed(index') : c \in Indexed(index) \/ c = pending
      BY <2>1, <3>1 DEF Indexed, MemoryTypes
    <3> QED  BY <3>1, <3>2
  <2>3. CASE AppendFails
    <3>1. pending \in Records /\ Torn \in Records /\ index' = index
      BY <2>1, <2>3 DEF AppendFails, WriterOK, Records
    <3> QED  BY <2>3, <3>1 DEF AppendFails
  <2> QED  BY <2>2, <2>3
<1>2. PICK r \in Records :
        /\ active' = [active EXCEPT ![w] = AddRecord(f, r)]
        /\ \A c \in Indexed(index') : c \in Indexed(index) \/ c = r
  BY <1>1
<1>3. /\ pc = "append" /\ pc' = "ready" /\ UNCHANGED <<old, marker, kept>>
      /\ writer'.seg = writer.seg /\ writer'.open = writer.open
  <2>1. writer \in [seg : 0..MaxSegments, count : Nat, open : BOOLEAN]
    BY TypeParts DEF WriteInv, MemoryTypes
  <2> QED  BY <2>1 DEF AppendChunk, AppendFails
<1>4. FileTypes /\ FilesOK /\ w \in SegIds /\ f.present /\ writer.open
  BY <1>3, TypeParts DEF WriteInv, WriterOK, Shut, Opened
<1> DEFINE g == AddRecord(f, r)
           n == Len(f.recs)
<1>5. f \in File /\ FileOK(f)
  BY <1>4 DEF FileTypes, FilesOK
<1>6. /\ g \in File /\ g.durable = f.durable /\ DOMAIN g.recs = 1..(n + 1)
      /\ \A i \in 1..n : g.recs[i] = f.recs[i]
      /\ Recs(g) = Recs(f) \cup {r}
  BY <1>4, <1>5, AddRecordFacts
<1>7. n \in Nat /\ f.durable \in Nat /\ f.durable <= n
  BY <1>5, FileFields DEF FileOK
<1>8. active' = [active EXCEPT ![w] = g]
  BY <1>2
<1> HIDE DEF g, n, f
<1>9. \A i \in 1..f.durable : i \in 1..n /\ i \in 1..(n + 1)
  BY <1>7
<1>10. DurableChunks(f) \subseteq DurableChunks(g)
  BY <1>5, <1>6, <1>9, DurableStays
<1>11. DurableChunks(active[w]) \subseteq DurableChunks(g) /\ Recs(active[w]) \subseteq Recs(g)
  BY <1>6, <1>10 DEF f
<1>12. \A c \in Indexed(index') : c \in Indexed(index) \/ (c \in Recs(g) /\ writer.open)
  BY <1>2, <1>4, <1>6
<1>13. pc \in OpenPcs /\ pc' \in OpenPcs
  BY <1>3 DEF OpenPcs
<1> QED  BY <1>3, <1>8, <1>11, <1>12, <1>13, TailBytes

LEMMA SyncBytes ==
  ASSUME WriteInv, BytesKept, Sync
  PROVE  BytesKept'
<1> DEFINE w == writer.seg
           g == Synced(active[w])
<1>1. /\ pc = "ready" /\ pc' = "ready" /\ active' = [active EXCEPT ![w] = g]
      /\ kept' = kept \cup Indexed(index) /\ UNCHANGED <<old, marker, index, writer>>
  BY DEF Sync
<1>2. FileTypes /\ FilesOK /\ w \in SegIds
  BY <1>1, TypeParts DEF WriteInv, WriterOK, Shut
<1>3. /\ DurableChunks(active[w]) \subseteq DurableChunks(g) /\ Recs(active[w]) \subseteq Recs(g)
      /\ Recs(active[w]) \subseteq DurableChunks(g)
  BY <1>2, DurableFacts DEF FileTypes, FilesOK
<1> HIDE DEF g
<1>4. pc \in OpenPcs /\ pc' \in OpenPcs
  BY <1>1 DEF OpenPcs
<1> QED  BY <1>1, <1>3, <1>4, TailBytes

(* A compaction without backups to run over starts with everything synced. *)
LEMMA BeginCompactBytes ==
  ASSUME WriteInv, BytesKept, BeginCompact, Present(old) = {}
  PROVE  BytesKept'
<1> DEFINE w == writer.seg
           g == Synced(active[w])
<1>1. /\ pc = "ready" /\ pc' = "stage" /\ active' = [active EXCEPT ![w] = g]
      /\ kept' \subseteq Indexed(index) /\ UNCHANGED <<old, marker, index, writer>>
  BY DEF BeginCompact
<1>2. FileTypes /\ FilesOK /\ w \in SegIds
  BY <1>1, TypeParts DEF WriteInv, WriterOK, Shut
<1>3. /\ DurableChunks(active[w]) \subseteq DurableChunks(g)
      /\ Recs(active[w]) \subseteq DurableChunks(g) /\ AllDurable(g)
  BY <1>2, DurableFacts, SyncedFacts DEF FileTypes, FilesOK
<1>4. active'[w] = g /\ \A s \in SegIds : s # w => active'[s] = active[s]
  BY <1>1, <1>2 DEF FileTypes
<1> HIDE DEF g
<1>5. OpenBytes(active, old, marker, writer, index, kept)
  BY <1>1, OpenBytesBefore DEF OpenPcs
<1>6. DurablesOf(active, old, marker) \subseteq DurablesOf(active', old, marker)
  <2>1. \A s \in SegIds : DurableChunks(active[s]) \subseteq DurableChunks(active'[s])
    BY <1>3, <1>4
  <2> QED  BY <2>1, ActiveGrows
<1>7. /\ marker # "done" /\ \A s \in SegIds : AllDurable(old[s])
      /\ \A s \in SegIds : s # w => AllDurable(active[s])
      /\ \A c \in Indexed(index) :
           c \in DurablesOf(active, old, marker) \/ (c \in Recs(active[w]) /\ ~old[w].present)
  BY <1>5 DEF OpenBytes
<1>8. \A s \in SegIds : AllDurable(active'[s])
  BY <1>3, <1>4, <1>7
<1>9. ASSUME NEW c \in Indexed(index) PROVE c \in DurablesOf(active', old, marker)
  <2>1. CASE c \in DurablesOf(active, old, marker)
    BY <1>6, <2>1
  <2>2. CASE c \in Recs(active[w]) /\ ~old[w].present
    <3>1. FileFor(active', old, marker, w) = g
      BY <1>4, <2>2 DEF FileFor
    <3> QED  BY <1>2, <1>3, <2>2, <3>1, InDurables
  <2> QED  BY <1>7, <2>1, <2>2
<1>10. MarkerOK'
  BY <1>1, <1>7 DEF MarkerOK
<1>11. BackupsOK'
  BY <1>1, <1>2 DEF BackupsOK, Present
<1>12. TailsOK'
  BY <1>1, <1>7, <1>8 DEF TailsOK, Shut
<1>13. IndexDurable' /\ KeptOK'
  BY <1>1, <1>9 DEF IndexDurable, KeptOK, Durables
<1> QED  BY <1>10, <1>11, <1>12, <1>13 DEF BytesKept

LEMMA StagedBytes ==
  ASSUME BytesKept, StageChunk \/ StageFails
  PROVE  BytesKept'
<1>1. pc = "stage" /\ pc' \in {"stage", "ready"} /\ UNCHANGED <<active, old, marker, index, writer, kept>>
  BY DEF StageChunk, StageFails
<1>2. MarkerOK' /\ BackupsOK'
  BY <1>1 DEF BytesKept, MarkerOK, BackupsOK, Opened
<1>3. TailsOK' /\ IndexDurable' /\ KeptOK'
  BY <1>1 DEF BytesKept, TailsOK, IndexDurable, KeptOK, Durables, Shut, Swapped
<1> QED  BY <1>2, <1>3 DEF BytesKept

LEMMA FinishStageBytes ==
  ASSUME WriteInv, BytesKept, FinishStage
  PROVE  BytesKept'
<1>1. /\ pc = "stage" /\ pc' = "renameOld" /\ toDrop' = {}
      /\ UNCHANGED <<active, old, marker, index, kept>>
      /\ writer' = [writer EXCEPT !.open = FALSE]
  BY DEF FinishStage
<1>2. Present(old) = {}
  BY <1>1 DEF BytesKept, BackupsOK
<1>3. MarkerOK' /\ BackupsOK'
  BY <1>1, <1>2 DEF BytesKept, MarkerOK, BackupsOK, Opened
<1>4. TailsOK' /\ IndexDurable' /\ KeptOK'
  BY <1>1 DEF BytesKept, TailsOK, IndexDurable, KeptOK, Durables, Shut, Swapped
<1> QED  BY <1>3, <1>4 DEF BytesKept

LEMMA RenameToOldBytes ==
  ASSUME WriteInv, BytesKept, RenameToOld
  PROVE  BytesKept'
<1>1. PICK s \in Present(active) :
        /\ old' = [old EXCEPT ![s] = active[s]]
        /\ active' = [active EXCEPT ![s] = NoFile]
        /\ toDrop' = toDrop \cup {s}
  BY DEF RenameToOld
<1>2. pc = "renameOld" /\ UNCHANGED <<marker, index, writer, pc, kept>>
  BY DEF RenameToOld
<1>3. FileTypes /\ FilesOK /\ WriterOK
  BY TypeParts DEF WriteInv
<1>4. s \in SegIds /\ active[s].present /\ s <= writer.seg
  BY <1>2, <1>3 DEF Present, WriterOK
<1>5. old'[s] = active[s] /\ \A t \in SegIds : t # s => old'[t] = old[t]
  BY <1>1, <1>3, <1>4 DEF FileTypes
<1>6. active'[s] = NoFile /\ \A t \in SegIds : t # s => active'[t] = active[t]
  BY <1>1, <1>3, <1>4, NoFileFacts DEF FileTypes
<1>7. /\ marker # "done" /\ Present(old) = toDrop /\ Present(old) \cap Present(active) = {}
      /\ \A t \in Present(old) : t <= writer.seg
      /\ \A t \in SegIds : AllDurable(old[t]) /\ AllDurable(active[t])
      /\ Indexed(index) \subseteq Durables /\ kept \subseteq Durables
  BY <1>2 DEF BytesKept, MarkerOK, BackupsOK, TailsOK, IndexDurable, KeptOK
<1>8. \A t \in SegIds : FileFor(active', old', marker', t) = FileFor(active, old, marker, t)
  BY <1>2, <1>4, <1>5, <1>6, <1>7 DEF FileFor, Present
<1>9. Durables' = Durables
  BY <1>8 DEF Durables, DurablesOf
<1>10. Present(old') = Present(old) \cup {s} /\ Present(active') = Present(active) \ {s}
  BY <1>4, <1>5, <1>6, NoFileFacts DEF Present
<1>11. MarkerOK'
  BY <1>2, <1>7 DEF MarkerOK
<1>12. BackupsOK'
  BY <1>1, <1>2, <1>4, <1>7, <1>10 DEF BackupsOK, Opened
<1>13. TailsOK'
  BY <1>2, <1>5, <1>6, <1>7, NoFileFacts DEF TailsOK, Shut
<1>14. IndexDurable' /\ KeptOK'
  BY <1>2, <1>7, <1>9 DEF IndexDurable, KeptOK
<1> QED  BY <1>11, <1>12, <1>13, <1>14 DEF BytesKept

LEMMA FinishRenameBytes ==
  ASSUME BytesKept, FinishRename
  PROVE  BytesKept'
<1>1. /\ pc = "renameOld" /\ pc' \in {"moveIn", "marker"} /\ Present(active) = {}
      /\ UNCHANGED <<active, old, marker, index, writer, kept, toDrop>>
  BY DEF FinishRename, stageVars
<1>2. MarkerOK' /\ BackupsOK'
  BY <1>1 DEF BytesKept, MarkerOK, BackupsOK, Opened
<1>3. TailsOK' /\ IndexDurable' /\ KeptOK'
  BY <1>1 DEF BytesKept, TailsOK, IndexDurable, KeptOK, Durables, Shut, Swapped
<1> QED  BY <1>2, <1>3 DEF BytesKept

LEMMA MoveInBytes ==
  ASSUME WriteInv, BytesKept, MoveIn
  PROVE  BytesKept'
<1>1. PICK s \in Present(staged) :
        /\ active' = [active EXCEPT ![s] = staged[s]]
        /\ staged' = [staged EXCEPT ![s] = NoFile]
  BY DEF MoveIn
<1>2. pc = "moveIn" /\ UNCHANGED <<old, marker, toDrop, index, writer, pc, kept>>
  BY DEF MoveIn, stageVars
<1>3. FileTypes /\ FilesOK /\ StageOK
  BY TypeParts DEF WriteInv
<1>4. s \in SegIds /\ staged[s].present
  BY DEF Present
<1>5. active'[s] = staged[s] /\ \A t \in SegIds : t # s => active'[t] = active[t]
  BY <1>1, <1>3, <1>4 DEF FileTypes
<1>6. staged'[s] = NoFile /\ \A t \in SegIds : t # s => staged'[t] = staged[t]
  BY <1>1, <1>3, <1>4, NoFileFacts DEF FileTypes
<1>7. /\ marker # "done" /\ Present(old) = toDrop /\ Present(staged) \cap Present(active) = {}
      /\ \A t \in Present(old) : t <= writer.seg
      /\ \A t \in SegIds : AllDurable(old[t]) /\ AllDurable(active[t])
      /\ Indexed(index) \subseteq Durables /\ kept \subseteq Durables
  BY <1>2 DEF BytesKept, MarkerOK, BackupsOK, TailsOK, IndexDurable, KeptOK
<1>8. active[s] = NoFile
  BY <1>1, <1>3, <1>4, <1>7 DEF FilesOK, FileOK, Present
<1>9. AllDurable(staged[s])
  <2>1. NewFiles[s] = staged[s]
    BY <1>2, <1>4 DEF NewFiles
  <2>2. AllDurable(NewFiles[s])
    BY <1>2, <1>3, <1>4 DEF StageOK
  <2> QED  BY <2>1, <2>2
<1>10. Durables \subseteq Durables'
  <2>1. \A t \in SegIds : DurableChunks(active[t]) \subseteq DurableChunks(active'[t])
    BY <1>5, <1>8, NoFileFacts
  <2> QED  BY <1>2, <2>1, ActiveGrows DEF Durables
<1>11. Present(staged') = Present(staged) \ {s} /\ Present(active') = Present(active) \cup {s}
  BY <1>4, <1>5, <1>6, NoFileFacts DEF Present
<1>12. MarkerOK'
  BY <1>2, <1>7 DEF MarkerOK
<1>13. BackupsOK'
  BY <1>2, <1>7, <1>11 DEF BackupsOK, Opened
<1>14. TailsOK'
  BY <1>2, <1>5, <1>7, <1>9 DEF TailsOK, Shut
<1>15. IndexDurable' /\ KeptOK'
  BY <1>2, <1>7, <1>10 DEF IndexDurable, KeptOK
<1> QED  BY <1>12, <1>13, <1>14, <1>15 DEF BytesKept

LEMMA FinishMoveInBytes ==
  ASSUME BytesKept, FinishMoveIn
  PROVE  BytesKept'
<1>1. pc = "moveIn" /\ pc' = "marker" /\ UNCHANGED <<active, old, marker, index, writer, kept, toDrop>>
  BY DEF FinishMoveIn, stageVars, fileVars
<1>2. MarkerOK' /\ BackupsOK'
  BY <1>1 DEF BytesKept, MarkerOK, BackupsOK, Opened
<1>3. TailsOK' /\ IndexDurable' /\ KeptOK'
  BY <1>1 DEF BytesKept, TailsOK, IndexDurable, KeptOK, Durables, Shut, Swapped
<1> QED  BY <1>2, <1>3 DEF BytesKept

LEMMA SwapFailsBytes ==
  ASSUME WriteInv, BytesKept, SwapFails
  PROVE  BytesKept'
<1>1. /\ pc \in {"renameOld", "moveIn", "marker", "markerWrite"} /\ pc' = "ready"
      /\ UNCHANGED <<active, old, marker, index, writer, kept>>
  BY DEF SwapFails
<1>2. ~writer.open
  BY <1>1 DEF WriteInv, WriterOK, Swapped
<1>3. MarkerOK' /\ BackupsOK'
  BY <1>1, <1>2 DEF BytesKept, MarkerOK, BackupsOK, Opened
<1>4. TailsOK' /\ IndexDurable' /\ KeptOK'
  BY <1>1 DEF BytesKept, TailsOK, IndexDurable, KeptOK, Durables, Shut, Swapped
<1> QED  BY <1>3, <1>4 DEF BytesKept

LEMMA CreateMarkerBytes ==
  ASSUME BytesKept, CreateMarker
  PROVE  BytesKept'
<1>1. /\ pc = "marker" /\ pc' = "markerWrite" /\ marker' = "empty"
      /\ UNCHANGED <<active, old, index, writer, kept, toDrop>>
  BY DEF CreateMarker, stageVars
<1>2. marker # "done"
  BY <1>1 DEF BytesKept, MarkerOK
<1>3. Durables' = Durables
  BY <1>1, <1>2 DEF Durables, DurablesOf, FileFor
<1>4. MarkerOK' /\ BackupsOK'
  BY <1>1 DEF BytesKept, MarkerOK, BackupsOK, Opened
<1>5. TailsOK' /\ IndexDurable' /\ KeptOK'
  BY <1>1, <1>3 DEF BytesKept, TailsOK, IndexDurable, KeptOK, Shut, Swapped
<1> QED  BY <1>4, <1>5 DEF BytesKept

(* From here on recovery uses the compacted segments: they hold what is    *)
(* kept.                                                                   *)
LEMMA WriteMarkerBytes ==
  ASSUME WriteInv, BytesKept, WriteMarker
  PROVE  BytesKept'
<1>1. /\ pc = "markerWrite" /\ pc' = "dropOld" /\ marker' = "done"
      /\ UNCHANGED <<active, old, index, writer, kept, toDrop>>
  BY DEF WriteMarker, stageVars
<1>2. /\ Located(newIndex, active) /\ kept = Indexed(newIndex)
      /\ \A s \in SegIds : AllDurable(active[s])
  BY <1>1, SwappedFiles DEF Swapped
<1>3. ASSUME NEW c \in kept PROVE c \in DurablesOf(active, old, "done")
  <2> DEFINE l == newIndex[c]
  <2>1. l.seg \in SegIds /\ l.pos \in DOMAIN active[l.seg].recs /\ active[l.seg].recs[l.pos] = c
    BY <1>2, <1>3 DEF Located, Indexed
  <2>2. c \in Recs(active[l.seg])
    BY <2>1 DEF Recs
  <2>3. active[l.seg] \in File /\ FileOK(active[l.seg])
    BY <2>1, TypeParts DEF WriteInv, FileTypes, FilesOK
  <2>4. c \in DurableChunks(active[l.seg])
    BY <1>2, <2>1, <2>2, <2>3, DurableFacts
  <2>5. FileFor(active, old, "done", l.seg) = active[l.seg]
    BY DEF FileFor
  <2> QED  BY <2>1, <2>4, <2>5, InDurables
<1>4. MarkerOK' /\ BackupsOK'
  BY <1>1 DEF BytesKept, MarkerOK, BackupsOK, Opened
<1>5. TailsOK' /\ IndexDurable'
  BY <1>1 DEF BytesKept, TailsOK, IndexDurable, Shut, Swapped
<1>6. KeptOK'
  BY <1>1, <1>3 DEF KeptOK, Durables
<1> QED  BY <1>4, <1>5, <1>6 DEF BytesKept

LEMMA DropOldBytes ==
  ASSUME WriteInv, BytesKept, DropOld, spent'.remove = 0
  PROVE  BytesKept'
<1>1. PICK s \in toDrop :
        /\ toDrop' = toDrop \ {s}
        /\ \/ old' = [old EXCEPT ![s] = NoFile] /\ UNCHANGED spent
           \/ Fault("remove") /\ UNCHANGED old
  BY DEF DropOld
<1>2. pc = "dropOld" /\ UNCHANGED <<active, marker, index, writer, pc, kept>>
  BY DEF DropOld
<1>3. FileTypes /\ MemoryTypes /\ FilesOK
  BY TypeParts DEF WriteInv
<1>4. ~Fault("remove")
  <2>1. ASSUME Fault("remove") PROVE FALSE
    <3>1. spent'.remove = spent.remove + 1 /\ spent.remove \in Nat
      BY <1>3, <2>1, SpendFacts DEF Fault, Kinds, MemoryTypes, SpentType
    <3> QED  BY <3>1
  <2> QED  BY <2>1
<1>5. s \in SegIds /\ old' = [old EXCEPT ![s] = NoFile]
  BY <1>1, <1>3, <1>4 DEF MemoryTypes
<1>6. /\ old'[s] = NoFile /\ (\A t \in SegIds : t # s => old'[t] = old[t])
      /\ Present(old') = Present(old) \ {s}
  <2>1. old \in [SegIds -> File] /\ \A t \in SegIds : FileOK(old[t])
    BY <1>3 DEF FileTypes, FilesOK
  <2> QED  BY <1>5, <2>1, RemovedFile
<1>7. /\ marker = "done" /\ Present(old) = toDrop /\ kept \subseteq Durables
      /\ \A t \in SegIds : AllDurable(old[t]) /\ AllDurable(active[t])
  BY <1>2 DEF BytesKept, MarkerOK, BackupsOK, TailsOK, KeptOK, Swapped
<1>8. Durables' = Durables
  BY <1>2, <1>7 DEF Durables, DurablesOf, FileFor
<1>9. MarkerOK' /\ BackupsOK'
  BY <1>1, <1>2, <1>6, <1>7 DEF MarkerOK, BackupsOK, Opened
<1>10. TailsOK'
  BY <1>2, <1>6, <1>7, NoFileFacts DEF TailsOK, Shut
<1>11. IndexDurable' /\ KeptOK'
  BY <1>2, <1>7, <1>8 DEF IndexDurable, KeptOK
<1> QED  BY <1>9, <1>10, <1>11 DEF BytesKept

LEMMA DropMarkerBytes ==
  ASSUME WriteInv, BytesKept, DropMarker, spent'.remove = 0
  PROVE  BytesKept'
<1>1. /\ pc = "dropOld" /\ pc' = "attach" /\ toDrop = {}
      /\ (marker' = "none" /\ UNCHANGED spent) \/ (Fault("remove") /\ UNCHANGED marker)
      /\ UNCHANGED <<active, old, index, writer, kept>>
  BY DEF DropMarker
<1>2. ~Fault("remove")
  <2>1. ASSUME Fault("remove") PROVE FALSE
    <3>1. MemoryTypes
      BY TypeParts DEF WriteInv
    <3>2. spent'.remove = spent.remove + 1 /\ spent.remove \in Nat
      BY <2>1, <3>1, SpendFacts DEF Fault, Kinds, MemoryTypes, SpentType
    <3> QED  BY <3>2
  <2> QED  BY <2>1
<1>3. /\ marker = "done" /\ Present(old) = {} /\ kept \subseteq Durables
      /\ \A t \in SegIds : AllDurable(old[t]) /\ AllDurable(active[t])
  BY <1>1 DEF BytesKept, MarkerOK, BackupsOK, TailsOK, KeptOK, Swapped
<1>4. \A s \in SegIds : FileFor(active', old', marker', s) = FileFor(active, old, marker, s)
  BY <1>1, <1>3 DEF FileFor, Present
<1>5. Durables' = Durables
  BY <1>4 DEF Durables, DurablesOf
<1>6. MarkerOK' /\ BackupsOK'
  BY <1>1, <1>2, <1>3 DEF MarkerOK, BackupsOK, Opened
<1>7. TailsOK'
  BY <1>1, <1>3 DEF TailsOK, Shut
<1>8. IndexDurable' /\ KeptOK'
  BY <1>1, <1>3, <1>5 DEF IndexDurable, KeptOK
<1> QED  BY <1>6, <1>7, <1>8 DEF BytesKept

LEMMA AttachBytes ==
  ASSUME WriteInv, BytesKept, Attach
  PROVE  BytesKept'
<1>1. /\ pc = "attach" /\ index' = newIndex
      /\ \/ /\ Indexed(newIndex) # {} /\ writer' = newWriter /\ pc' = "ready" /\ active' = active
         \/ /\ Indexed(newIndex) = {} /\ pc' = "header"
            /\ active' = [active EXCEPT ![1] = Created]
            /\ writer' = [seg |-> 1, count |-> 0, open |-> TRUE]
      /\ UNCHANGED <<old, marker, kept>>
  BY DEF Attach
<1>2. FileTypes /\ FilesOK /\ StageOK
  BY TypeParts DEF WriteInv
<1>3. /\ marker # "done" /\ Present(old) = {} /\ kept \subseteq Durables
      /\ \A t \in SegIds : AllDurable(old[t]) /\ AllDurable(active[t])
  BY <1>1 DEF BytesKept, MarkerOK, BackupsOK, TailsOK, KeptOK, Swapped
<1>4. kept = Indexed(newIndex) /\ newWriter.seg \in SegIds
  BY <1>1, <1>2, SwappedFiles DEF Swapped, StageOK
<1>5. pc' \in OpenPcs
  BY <1>1 DEF OpenPcs
<1>6. CASE Indexed(newIndex) # {}
  <2>1. writer' = newWriter /\ active' = active
    BY <1>1, <1>6
  <2>2. ~old[newWriter.seg].present
    BY <1>3, <1>4 DEF Present
  <2>3. OpenBytes(active', old', marker', writer', index', kept')
    BY <1>1, <1>3, <1>4, <2>1, <2>2 DEF OpenBytes, Durables
  <2> QED  BY <1>5, <2>3, OpenBytesAfter
<1>7. CASE Indexed(newIndex) = {}
  <2>1. active' = [active EXCEPT ![1] = Created] /\ writer' = [seg |-> 1, count |-> 0, open |-> TRUE]
    BY <1>1, <1>7
  <2>2. writer'.seg = 1 /\ writer'.open /\ ~old[1].present
    BY <1>3, <2>1, EmptyTypes DEF Present
  <2>3. \A s \in SegIds : s # 1 => AllDurable(active'[s])
    BY <1>2, <1>3, <2>1 DEF FileTypes
  <2>4. OpenBytes(active', old', marker', writer', index', kept')
    BY <1>1, <1>3, <1>4, <1>7, <2>2, <2>3 DEF OpenBytes
  <2> QED  BY <1>5, <2>4, OpenBytesAfter
<1> QED  BY <1>6, <1>7

(* What BytesKept says of a closed store.                                  *)
ShutBytes(a, o, m, kp) ==
  /\ \A s \in SegIds : AllDurable(o[s])
  /\ \A s \in SegIds : ~AllDurable(a[s]) => \A t \in Present(a) \cup Present(o) : t <= s
  /\ kp \subseteq DurablesOf(a, o, m)

LEMMA ShutBytesBefore ==
  ASSUME BytesKept, pc \in Shut
  PROVE  ShutBytes(active, old, marker, kept)
BY DEF BytesKept, TailsOK, KeptOK, Durables, ShutBytes

LEMMA ShutBytesAfter ==
  ASSUME pc' \in Shut, pc' # "scan" \/ (marker' = "none" /\ Present(old') = {}),
         ShutBytes(active', old', marker', kept')
  PROVE  BytesKept'
<1>1. MarkerOK' /\ BackupsOK'
  BY DEF MarkerOK, BackupsOK, Shut, Opened
<1>2. TailsOK'
  BY DEF TailsOK, Shut, Swapped, ShutBytes
<1>3. IndexDurable' /\ KeptOK'
  BY DEF IndexDurable, KeptOK, Shut, ShutBytes, Durables
<1> QED  BY <1>1, <1>2, <1>3 DEF BytesKept

(* A crash keeps what is durable, and only the newest file may end in      *)
(* records that no fsync covers.                                           *)
LEMMA CrashBytes ==
  ASSUME WriteInv, BytesKept, Crash
  PROVE  BytesKept'
<1>1. pc' = "closed" /\ UNCHANGED <<old, marker, kept>> /\ pc # "closed"
  BY DEF Crash
<1>2. FileTypes /\ MemoryTypes /\ FilesOK /\ WriterOK
  BY TypeParts DEF WriteInv
<1>3. /\ active' \in [SegIds -> File] /\ Present(active') = Present(active)
      /\ \A s \in SegIds : active'[s].durable = active[s].durable
      /\ \A s \in SegIds : \A i \in 1..active[s].durable :
           i \in DOMAIN active'[s].recs /\ active'[s].recs[i] = active[s].recs[i]
      /\ \A s \in SegIds : AllDurable(active[s]) /\ ~(pc = "append" /\ writer.seg = s) =>
           AllDurable(active'[s])
  BY CrashFiles
<1>4. \A s \in SegIds : DurableChunks(active[s]) \subseteq DurableChunks(active'[s])
  BY <1>2, <1>3, DurableStays DEF FileTypes, FilesOK
<1>5. kept \subseteq DurablesOf(active, old, marker) /\ \A s \in SegIds : AllDurable(old[s])
  BY DEF BytesKept, KeptOK, Durables, TailsOK
<1>6. kept \subseteq DurablesOf(active', old, marker)
  BY <1>4, <1>5, ActiveGrows
<1>7. ASSUME NEW s \in SegIds, ~AllDurable(active'[s]), NEW t \in Present(active) \cup Present(old)
      PROVE  t <= s
  <2>1. CASE pc \in OpenPcs
    <3>1. s = writer.seg
      <4>1. CASE s # writer.seg
        <5>1. AllDurable(active[s])
          BY <2>1, <4>1, OpenBytesBefore DEF OpenBytes
        <5> QED  BY <1>3, <1>7, <4>1, <5>1
      <4> QED  BY <4>1
    <3>2. \A u \in Present(active) : u <= writer.seg
      BY <1>2, <2>1 DEF WriterOK, OpenPcs, Opened
    <3>3. \A u \in Present(old) : u <= writer.seg
      BY <2>1, OpenBytesBefore DEF OpenBytes
    <3> QED  BY <3>1, <3>2, <3>3
  <2>2. CASE pc \in {"stage", "renameOld", "moveIn"} \cup Swapped
    <3>1. AllDurable(active[s]) /\ pc # "append"
      BY <2>2 DEF BytesKept, TailsOK, Swapped
    <3> QED  BY <1>3, <1>7, <3>1
  <2>3. CASE pc \in Shut
    <3>1. ~AllDurable(active[s])
      BY <1>3, <1>7, <2>3 DEF Shut
    <3> QED  BY <1>7, <2>3, <3>1, ShutBytesBefore DEF ShutBytes
  <2>4. pc \in Pcs
    BY <1>2 DEF MemoryTypes
  <2> QED  BY <2>1, <2>2, <2>3, <2>4 DEF OpenPcs, Swapped, Shut, Pcs
<1>8. ShutBytes(active', old', marker', kept')
  BY <1>1, <1>3, <1>5, <1>6, <1>7 DEF ShutBytes
<1> QED  BY <1>1, <1>8, ShutBytesAfter DEF Shut

LEMMA OpenAndFailBytes ==
  ASSUME BytesKept, Open \/ ScanFails
  PROVE  BytesKept'
<1>1. pc \in Shut /\ pc' \in Shut /\ pc' # "scan" /\ UNCHANGED <<active, old, marker, kept>>
  BY DEF Open, ScanFails, Shut, fileVars
<1>2. ShutBytes(active', old', marker', kept')
  BY <1>1, ShutBytesBefore
<1> QED  BY <1>1, <1>2, ShutBytesAfter

LEMMA RecoverBytes ==
  ASSUME WriteInv, BytesKept, \/ RecoverDropOld \/ RecoverRemoveActive \/ RecoverRestoreOld
                              \/ RecoverDropMarker
  PROVE  BytesKept'
<1>1. pc \in Shut /\ pc' \in Shut /\ kept' = kept
  BY DEF RecoverDropOld, RecoverRemoveActive, RecoverRestoreOld, RecoverDropMarker, Shut
<1>2. FileTypes /\ FilesOK
  BY TypeParts DEF WriteInv
<1>3. /\ active \in [SegIds -> File] /\ \A s \in SegIds : FileOK(active[s])
      /\ old \in [SegIds -> File] /\ \A s \in SegIds : FileOK(old[s])
  BY <1>2 DEF FileTypes, FilesOK
<1>4. /\ \A s \in SegIds : AllDurable(old[s])
      /\ \A s \in SegIds : ~AllDurable(active[s]) =>
           \A t \in Present(active) \cup Present(old) : t <= s
      /\ kept \subseteq DurablesOf(active, old, marker)
  BY <1>1, ShutBytesBefore DEF ShutBytes
<1>5. CASE RecoverDropOld
  <2>1. PICK s \in SegIds : old' = [old EXCEPT ![s] = NoFile]
    BY <1>5 DEF RecoverDropOld, Present
  <2>2. pc' = "recover" /\ marker = "done" /\ active' = active /\ marker' = marker
    BY <1>5 DEF RecoverDropOld
  <2>3. /\ old'[s] = NoFile /\ (\A t \in SegIds : t # s => old'[t] = old[t])
        /\ Present(old') = Present(old) \ {s}
    BY <1>3, <2>1, RemovedFile
  <2>4. DurablesOf(active', old', marker') = DurablesOf(active, old, marker)
    BY <2>2 DEF DurablesOf, FileFor
  <2>5. \A t \in SegIds : AllDurable(old'[t])
    BY <1>4, <2>3, NoFileFacts
  <2>6. ShutBytes(active', old', marker', kept')
    BY <1>1, <1>4, <2>2, <2>3, <2>4, <2>5 DEF ShutBytes
  <2> QED  BY <1>1, <2>2, <2>6, ShutBytesAfter
<1>6. CASE RecoverRemoveActive
  <2>1. PICK s \in SegIds : old[s].present /\ active' = [active EXCEPT ![s] = NoFile]
    BY <1>6 DEF RecoverRemoveActive, Present
  <2>2. pc' = "recover" /\ marker # "done" /\ old' = old /\ marker' = marker
    BY <1>6 DEF RecoverRemoveActive
  <2>3. /\ active'[s] = NoFile /\ (\A t \in SegIds : t # s => active'[t] = active[t])
        /\ Present(active') = Present(active) \ {s}
    BY <1>3, <2>1, RemovedFile
  <2>4. \A t \in SegIds : FileFor(active', old', marker', t) = FileFor(active, old, marker, t)
    BY <2>1, <2>2, <2>3 DEF FileFor
  <2>5. DurablesOf(active', old', marker') = DurablesOf(active, old, marker)
    BY <2>4 DEF DurablesOf
  <2>6. \A t \in SegIds : ~AllDurable(active'[t]) => ~AllDurable(active[t])
    BY <2>3, NoFileFacts
  <2>7. ShutBytes(active', old', marker', kept')
    BY <1>1, <1>4, <2>2, <2>3, <2>5, <2>6 DEF ShutBytes
  <2> QED  BY <1>1, <2>2, <2>7, ShutBytesAfter
<1>7. CASE RecoverRestoreOld
  <2>1. PICK s \in SegIds : /\ old[s].present
                            /\ active' = [active EXCEPT ![s] = old[s]]
                            /\ old' = [old EXCEPT ![s] = NoFile]
    BY <1>7 DEF RecoverRestoreOld, Present
  <2>2. pc' = "recover" /\ marker # "done" /\ marker' = marker
    BY <1>7 DEF RecoverRestoreOld
  <2>3. /\ old'[s] = NoFile /\ (\A t \in SegIds : t # s => old'[t] = old[t])
        /\ Present(old') = Present(old) \ {s}
    BY <1>3, <2>1, RemovedFile
  <2>4. /\ active'[s] = old[s] /\ (\A t \in SegIds : t # s => active'[t] = active[t])
        /\ Present(active') = Present(active) \cup {s}
    <3>1. active'[s] = old[s] /\ \A t \in SegIds : t # s => active'[t] = active[t]
      BY <1>3, <2>1
    <3> QED  BY <2>1, <3>1 DEF Present
  <2>5. \A t \in SegIds : FileFor(active', old', marker', t) = FileFor(active, old, marker, t)
    BY <2>1, <2>2, <2>3, <2>4, NoFileFacts DEF FileFor
  <2>6. DurablesOf(active', old', marker') = DurablesOf(active, old, marker)
    BY <2>5 DEF DurablesOf
  <2>7. \A t \in SegIds : AllDurable(old'[t]) /\ (~AllDurable(active'[t]) => ~AllDurable(active[t]))
    BY <1>4, <2>3, <2>4, NoFileFacts
  <2>8. Present(active') \cup Present(old') = Present(active) \cup Present(old)
    BY <2>1, <2>3, <2>4 DEF Present
  <2>9. ShutBytes(active', old', marker', kept')
    BY <1>1, <1>4, <2>6, <2>7, <2>8 DEF ShutBytes
  <2> QED  BY <1>1, <2>2, <2>9, ShutBytesAfter
<1>8. CASE RecoverDropMarker
  <2>1. Present(old) = {} /\ marker' = "none" /\ UNCHANGED <<active, old>>
    BY <1>8 DEF RecoverDropMarker
  <2>2. \A t \in SegIds : FileFor(active', old', marker', t) = FileFor(active, old, marker, t)
    BY <2>1 DEF FileFor, Present
  <2>3. DurablesOf(active', old', marker') = DurablesOf(active, old, marker)
    BY <2>2 DEF DurablesOf
  <2>4. ShutBytes(active', old', marker', kept')
    BY <1>1, <1>4, <2>1, <2>3 DEF ShutBytes
  <2> QED  BY <1>1, <2>1, <2>4, ShutBytesAfter
<1> QED  BY <1>5, <1>6, <1>7, <1>8

(* Cutting the fragment off takes no chunk with it but those behind it.    *)
LEMMA ScanBytes ==
  ASSUME WriteInv, BytesKept, Scan
  PROVE  BytesKept'
<1> DEFINE n == Newest(active)
           g == WithoutTornTail(active[n])
           b == BehindFragment(active[n])
<1>1. /\ pc = "scan" /\ pc' = "ready" /\ index' = ScannedIndex(active')
      /\ UNCHANGED <<old, marker>>
  BY DEF Scan
<1>2. FileTypes /\ MemoryTypes /\ FilesOK
  BY TypeParts DEF WriteInv
<1>3. /\ n \in SegIds /\ n \in Present(active) /\ \A t \in Present(active) : t <= n
      /\ DurableChunks(active[n]) \subseteq DurableChunks(g) \cup {Torn} \cup b
      /\ active'[n] = g /\ \A t \in SegIds : t # n => active'[t] = active[t]
      /\ active' \in [SegIds -> File] /\ \A t \in SegIds : FileOK(active'[t])
      /\ writer' = [seg |-> n, count |-> Len(active'[n].recs), open |-> TRUE]
      /\ kept' = kept \ b
  BY ScanFiles
<1> HIDE DEF n, g, b
<1>4. marker = "none" /\ Present(old) = {}
  BY <1>1 DEF BytesKept, MarkerOK, BackupsOK
<1>5. ShutBytes(active, old, marker, kept)
  BY <1>1, ShutBytesBefore DEF Shut
<1>6. ASSUME NEW s \in SegIds, s # n PROVE AllDurable(active'[s])
  <2>1. CASE active[s].present
    <3>1. s \in Present(active) /\ s <= n /\ s \in Nat /\ n \in Nat
      BY <1>3, <2>1 DEF Present, SegIds
    <3>2. ~(n <= s)
      BY <1>6, <3>1
    <3>3. AllDurable(active[s])
      BY <1>3, <1>5, <3>2 DEF ShutBytes
    <3> QED  BY <1>3, <1>6, <3>3
  <2>2. CASE ~active[s].present
    <3>1. active[s] = NoFile
      BY <1>2, <2>2 DEF FilesOK, FileOK
    <3> QED  BY <1>3, <1>6, <3>1, NoFileFacts
  <2> QED  BY <2>1, <2>2
<1>7. Located(index', active')
  BY <1>1, <1>3, ScannedFacts
<1>8. \A s \in SegIds : FileFor(active, old, marker, s) = active[s]
                        /\ FileFor(active', old, marker, s) = active'[s]
  BY <1>4 DEF FileFor, Present
<1>9. ASSUME NEW c \in Indexed(index')
      PROVE  c \in DurablesOf(active', old, marker) \/ (c \in Recs(active'[n]) /\ ~old[n].present)
  <2> DEFINE s == index'[c].seg
  <2>1. s \in SegIds /\ c \in Recs(active'[s])
    BY <1>7, <1>9 DEF Located, Indexed, Recs
  <2> HIDE DEF s
  <2>2. CASE s = n
    BY <1>3, <1>4, <2>1, <2>2 DEF Present
  <2>3. CASE s # n
    <3>1. active'[s] \in File /\ FileOK(active'[s]) /\ AllDurable(active'[s])
      BY <1>3, <1>6, <2>1, <2>3
    <3>2. c \in DurableChunks(active'[s])
      BY <2>1, <3>1, DurableFacts
    <3> QED  BY <1>8, <2>1, <3>2, InDurables
  <2> QED  BY <2>2, <2>3
<1>10. kept' \subseteq DurablesOf(active', old, marker)
  <2>1. kept \subseteq Chunks /\ Torn \notin Chunks
    BY <1>2, ChunkAssumption DEF MemoryTypes
  <2>2. \A s \in SegIds : DurableChunks(FileFor(active, old, marker, s)) \cap (Chunks \ b)
                            \subseteq DurableChunks(FileFor(active', old, marker, s))
    BY <1>3, <1>8, <2>1
  <2>3. DurablesOf(active, old, marker) \cap (Chunks \ b) \subseteq DurablesOf(active', old, marker)
    BY <2>2 DEF DurablesOf
  <2> QED  BY <1>3, <1>5, <2>1, <2>3 DEF ShutBytes
<1>11. /\ \A s \in Present(old) : s <= n
       /\ ~old[n].present /\ \A s \in SegIds : AllDurable(old[s])
  BY <1>3, <1>4, <1>5 DEF Present, ShutBytes
<1>12. writer'.seg = n /\ writer'.open
  BY <1>3
<1>13. OpenBytes(active', old', marker', writer', index', kept')
  BY <1>1, <1>4, <1>6, <1>9, <1>10, <1>11, <1>12 DEF OpenBytes
<1> QED  BY <1>1, <1>13, OpenBytesAfter DEF OpenPcs

LEMMA ScanNothingBytes ==
  ASSUME WriteInv, BytesKept, ScanNothing
  PROVE  BytesKept'
<1>1. /\ pc = "scan" /\ pc' = "header" /\ Present(active) = {}
      /\ active' = [active EXCEPT ![1] = Created]
      /\ writer' = [seg |-> 1, count |-> 0, open |-> TRUE]
      /\ UNCHANGED <<old, marker, index, kept>>
  BY DEF ScanNothing
<1>2. FileTypes /\ FilesOK /\ index = NoIndex
  BY <1>1, TypeParts DEF WriteInv, WriterOK, Shut
<1>3. marker = "none" /\ Present(old) = {}
  BY <1>1 DEF BytesKept, MarkerOK, BackupsOK
<1>4. kept \subseteq DurablesOf(active, old, marker) /\ \A s \in SegIds : AllDurable(old[s])
  BY <1>1, ShutBytesBefore DEF Shut, ShutBytes
<1>5. \A s \in SegIds : active[s] = NoFile
  BY <1>1, <1>2 DEF FilesOK, FileOK, Present
<1>6. active'[1] = Created /\ \A s \in SegIds : s # 1 => active'[s] = active[s]
  BY <1>1, <1>2, EmptyTypes DEF FileTypes
<1>7. \A s \in SegIds : DurableChunks(active[s]) \subseteq DurableChunks(active'[s])
  BY <1>5, NoFileFacts
<1>8. kept \subseteq DurablesOf(active', old, marker)
  BY <1>4, <1>7, ActiveGrows
<1>9. \A s \in SegIds : s # 1 => AllDurable(active'[s])
  BY <1>5, <1>6, NoFileFacts
<1>10. writer'.seg = 1 /\ ~old[1].present /\ Indexed(index') = {}
  BY <1>1, <1>2, <1>3, EmptyTypes DEF Present
<1>11. OpenBytes(active', old', marker', writer', index', kept')
  BY <1>1, <1>3, <1>4, <1>8, <1>9, <1>10 DEF OpenBytes
<1> QED  BY <1>1, <1>11, OpenBytesAfter DEF OpenPcs

LEMMA NextBytes ==
  ASSUME WriteInv, ByteInv, [Next]_vars
  PROVE  ByteInv'
<1>1. SUFFICES ASSUME spent'.remove = 0, spent'.overBackups = 0 PROVE BytesKept'
  BY DEF ByteInv
<1>2. spent \in SpentType
  BY TypeParts DEF WriteInv, MemoryTypes
<1>3. spent.remove = 0 /\ spent.overBackups = 0
  <2>1. spent'.remove >= spent.remove /\ spent'.overBackups >= spent.overBackups
    BY <1>2, SpentGrows
  <2>2. spent.remove \in Nat /\ spent.overBackups \in Nat
    BY <1>2 DEF SpentType
  <2> QED  BY <1>1, <2>1, <2>2
<1>4. BytesKept
  BY <1>3 DEF ByteInv
<1>5. CASE WriteStep
  BY <1>4, <1>5, PutChunkBytes, RotateBytes, WriteHeaderBytes, AppendBytes, SyncBytes DEF WriteStep
<1>6. CASE BeginCompact
  <2>1. spent'.overBackups = (IF Present(old) = {} THEN spent.overBackups ELSE spent.overBackups + 1)
    BY <1>2, <1>6, BeginSpend DEF BeginCompact
  <2>2. Present(old) = {}
    BY <1>1, <1>3, <2>1
  <2> QED  BY <1>4, <1>6, <2>2, BeginCompactBytes
<1>7. CASE CompactStep
  BY <1>1, <1>4, <1>7, StagedBytes, FinishStageBytes, RenameToOldBytes, FinishRenameBytes, MoveInBytes,
     FinishMoveInBytes, SwapFailsBytes, CreateMarkerBytes, WriteMarkerBytes, DropOldBytes,
     DropMarkerBytes, AttachBytes
  DEF CompactStep
<1>8. CASE Crash
  BY <1>4, <1>8, CrashBytes
<1>9. CASE RecoverStep
  BY <1>4, <1>9, OpenAndFailBytes, RecoverBytes, ScanBytes, ScanNothingBytes DEF RecoverStep
<1>10. CASE UNCHANGED vars
  <2>1. UNCHANGED <<active, old, staged, marker, toDrop, index, writer, pc, kept>>
    BY <1>10 DEF vars, fileVars, stageVars
  <2>2. MarkerOK' /\ BackupsOK' /\ TailsOK'
    BY <1>4, <2>1 DEF BytesKept, MarkerOK, BackupsOK, TailsOK
  <2>3. IndexDurable' /\ KeptOK'
    BY <1>4, <2>1 DEF BytesKept, IndexDurable, KeptOK, Durables
  <2> QED  BY <2>2, <2>3 DEF BytesKept
<1> QED  BY <1>5, <1>6, <1>7, <1>8, <1>9, <1>10 DEF Next

LEMMA InitBytes ==
  ASSUME Init
  PROVE  ByteInv
<1>1. active = NoFiles /\ old = NoFiles /\ kept = {} /\ pc = "closed"
  BY DEF Init
<1>2. \A s \in SegIds : AllDurable(old[s]) /\ AllDurable(active[s])
  BY <1>1, EmptyTypes, NoFileFacts
<1>3. MarkerOK /\ BackupsOK
  BY <1>1 DEF MarkerOK, BackupsOK, Opened
<1>4. TailsOK /\ IndexDurable /\ KeptOK
  BY <1>1, <1>2 DEF TailsOK, IndexDurable, KeptOK, Swapped
<1> QED  BY <1>3, <1>4 DEF ByteInv, BytesKept

(* Failed appends and swaps that fail half way destroy no bytes of a       *)
(* synced chunk, in any execution without a failed removal and without a   *)
(* compaction over the backups of a failed one: the files that recovery    *)
(* would use hold each of them, fsynced, up to the open that cuts the      *)
(* newest segment at a fragment, which takes what is behind the fragment   *)
(* and nothing else (compact_and_reclaim, read_chunk, recover_and_index).  *)
THEOREM BytesAreKept == Spec => []KeptBytesPresent
<1> DEFINE Inv == WriteInv /\ ByteInv
<1>1. Init => Inv
  BY InitWrite, InitBytes
<1>2. Inv /\ [Next]_vars => Inv'
  BY NextWrite, NextBytes
<1>3. Inv => KeptBytesPresent
  <2>1. ASSUME Inv, spent.remove = 0, spent.overBackups = 0, NEW c \in kept
        PROVE  \E s \in SegIds : c \in DurableChunks(Recoverable[s])
    <3>1. c \in DurablesOf(active, old, marker)
      BY <2>1 DEF ByteInv, BytesKept, KeptOK, Durables
    <3>2. PICK s \in SegIds : c \in DurableChunks(FileFor(active, old, marker, s))
      BY <3>1 DEF DurablesOf
    <3> QED  BY <3>2, RecoverableFiles
  <2> QED  BY <2>1 DEF KeptBytesPresent
<1> HIDE DEF Inv
<1> QED  BY <1>1, <1>2, <1>3, PTL DEF Spec

-----------------------------------------------------------------------------
(* CleanInv                                                                *)

LEMMA SumIsZero ==
  ASSUME NEW a \in Nat, NEW b \in Nat, NEW c \in Nat
  PROVE  a + b + c = 0 <=> a = 0 /\ b = 0 /\ c = 0
OBVIOUS

LEMMA FaultFree ==
  ASSUME spent \in SpentType
  PROVE  Faults = 0 <=> spent.append = 0 /\ spent.remove = 0 /\ spent.rename = 0
<1>1. spent.append \in Nat /\ spent.remove \in Nat /\ spent.rename \in Nat
  BY DEF SpentType
<1> QED  BY <1>1, SumIsZero DEF Faults

LEMMA FaultFreePrimed ==
  ASSUME spent' \in SpentType
  PROVE  Faults' = 0 <=> spent'.append = 0 /\ spent'.remove = 0 /\ spent'.rename = 0
<1>1. spent'.append \in Nat /\ spent'.remove \in Nat /\ spent'.rename \in Nat
  BY DEF SpentType
<1> QED  BY <1>1, SumIsZero DEF Faults

(* A file without a fragment has no durable one.                           *)
LEMMA NoFragments ==
  ASSUME NEW f, Torn \notin Recs(f)
  PROVE  FragmentsOK(f)
BY DEF Recs, FragmentsOK, TornAt

(* The records of every file stay among what they were and chunks.         *)
LEMMA CleanStays ==
  ASSUME Clean, pc \notin Shut, pc' \notin Shut, spent'.overBackups = spent.overBackups,
         pc' \in Opened => Present(old') = {},
         \A s \in SegIds : Torn \notin Recs(old'[s]),
         \A s \in SegIds : Torn \notin Recs(active'[s])
  PROVE  Clean'
BY NoFragments DEF Clean

LEMMA WriteStepClean ==
  ASSUME WriteInv, Clean, WriteStep, ~AppendFails
  PROVE  Clean'
<1>1. FileTypes /\ MemoryTypes /\ FilesOK /\ WriterOK
  BY TypeParts DEF WriteInv
<1>2. /\ pc \in Opened /\ pc' \in Opened /\ pc \notin Shut /\ pc' \notin Shut /\ old' = old
  BY DEF WriteStep, PutChunk, Rotate, WriteHeader, AppendChunk, Sync, AppendFails, Opened, Shut,
         fileVars
<1>3. /\ Present(old) = {} /\ \A s \in SegIds : Torn \notin Recs(old[s])
      /\ \A s \in SegIds : Torn \notin Recs(active[s])
  BY <1>2 DEF Clean
<1>4. spent'.overBackups = spent.overBackups
  <2>1. CASE PutChunk
    <3>1. Spend("appends") /\ spent \in SpentType
      BY <1>1, <2>1 DEF PutChunk, MemoryTypes
    <3> QED  BY <3>1, SpendFacts DEF Kinds
  <2>2. CASE ~PutChunk
    BY <2>2 DEF WriteStep, Rotate, WriteHeader, AppendChunk, Sync
  <2> QED  BY <2>1, <2>2
<1>5. \A s \in SegIds : Torn \notin Recs(active'[s])
  <2> DEFINE w == writer.seg
  <2>1. w \in SegIds /\ active[w] \in File /\ FileOK(active[w])
    BY <1>1, <1>2 DEF WriterOK, FileTypes, FilesOK
  <2>2. CASE PutChunk
    BY <1>3, <2>2 DEF PutChunk, fileVars
  <2>3. CASE Rotate
    <3>1. active' = [active EXCEPT ![w] = Synced(@), ![w + 1] = Created] /\ pc = "rotate"
      BY <2>3 DEF Rotate
    <3>2. \A s \in SegIds : active'[s] = active[s] \/ active'[s] = Synced(active[w]) \/ active'[s] = Created
      BY <1>1, <3>1 DEF FileTypes
    <3>3. Recs(Synced(active[w])) = Recs(active[w])
      BY <2>1, DurableFacts
    <3> QED  BY <1>3, <2>1, <3>2, <3>3, CreatedFacts
  <2>4. CASE WriteHeader
    <3> DEFINE g == [active[w] EXCEPT !.header = TRUE]
    <3>1. active' = [active EXCEPT ![w] = g]
      BY <2>4 DEF WriteHeader
    <3>2. g.recs = active[w].recs
      BY <2>1 DEF File
    <3> HIDE DEF g
    <3>3. \A s \in SegIds : active'[s].recs = active[s].recs
      BY <1>1, <2>1, <3>1, <3>2 DEF FileTypes
    <3> QED  BY <1>3, <3>3 DEF Recs
  <2>5. CASE AppendChunk
    <3> DEFINE g == AddRecord(active[w], pending)
    <3>1. active' = [active EXCEPT ![w] = g] /\ pc = "append"
      BY <2>5 DEF AppendChunk
    <3>2. pending \in Chunks /\ pending \in Records /\ active[w].present
      BY <1>1, <3>1 DEF WriterOK, Opened, Records
    <3>3. Recs(g) = Recs(active[w]) \cup {pending}
      BY <2>1, <3>2, AddRecordFacts
    <3> HIDE DEF g
    <3>4. \A s \in SegIds : active'[s] = active[s] \/ active'[s] = g
      BY <1>1, <2>1, <3>1 DEF FileTypes
    <3> QED  BY <1>3, <2>1, <3>2, <3>3, <3>4, ChunkAssumption
  <2>6. CASE Sync
    <3>1. pc = "ready" /\ active' = [active EXCEPT ![writer.seg] = Synced(@)]
      BY <2>6 DEF Sync
    <3>2. \A s \in SegIds : active'[s].recs = active[s].recs
      BY <3>1, SyncedFiles
    <3> QED  BY <1>3, <3>2 DEF Recs
  <2> QED  BY <2>2, <2>3, <2>4, <2>5, <2>6 DEF WriteStep
<1> QED  BY <1>2, <1>3, <1>4, <1>5, CleanStays

LEMMA BeginCompactClean ==
  ASSUME WriteInv, Clean, BeginCompact
  PROVE  Clean'
<1>1. /\ pc = "ready" /\ pc' = "stage" /\ old' = old
      /\ active' = [active EXCEPT ![writer.seg] = Synced(@)]
  BY DEF BeginCompact
<1>2. /\ Present(old) = {} /\ \A s \in SegIds : Torn \notin Recs(old[s])
      /\ \A s \in SegIds : Torn \notin Recs(active[s])
  BY <1>1 DEF Clean, Opened, Shut
<1>3. spent'.overBackups = spent.overBackups
  <2>1. spent \in SpentType
    BY TypeParts DEF WriteInv, MemoryTypes
  <2> QED  BY <1>2, <2>1, BeginSpend DEF BeginCompact
<1>4. \A s \in SegIds : Torn \notin Recs(active'[s])
  <2>1. \A s \in SegIds : active'[s].recs = active[s].recs
    BY <1>1, SyncedFiles
  <2> QED  BY <1>2, <2>1 DEF Recs
<1>5. pc \notin Shut /\ pc' \notin Shut
  BY <1>1 DEF Shut
<1> QED  BY <1>1, <1>2, <1>3, <1>4, <1>5, CleanStays

LEMMA CompactStepClean ==
  ASSUME WriteInv, BytesKept, Clean, CompactStep, ~SwapFails, spent'.remove = 0, spent.remove = 0
  PROVE  Clean'
<1>1. FileTypes /\ MemoryTypes /\ FilesOK /\ StageOK
  BY TypeParts DEF WriteInv
<1>2. pc \notin Shut /\ pc' \notin Shut
  BY DEF CompactStep, StageChunk, StageFails, FinishStage, RenameToOld, FinishRename, MoveIn,
         FinishMoveIn, SwapFails, CreateMarker, WriteMarker, DropOld, DropMarker, Attach, Shut
<1>3. /\ \A s \in SegIds : Torn \notin Recs(old[s])
      /\ \A s \in SegIds : Torn \notin Recs(active[s])
  BY <1>2 DEF Clean
<1>4. CASE StageChunk \/ StageFails
  <2>1. pc = "stage" /\ UNCHANGED <<active, old, spent>>
    BY <1>4 DEF StageChunk, StageFails
  <2>2. Present(old) = {}
    BY <2>1 DEF BytesKept, BackupsOK
  <2> QED  BY <1>2, <1>3, <2>1, <2>2, CleanStays
<1>5. CASE FinishStage \/ FinishRename \/ FinishMoveIn \/ CreateMarker \/ WriteMarker
  <2>1. pc' \notin Opened /\ UNCHANGED <<active, old, spent>>
    BY <1>5 DEF FinishStage, FinishRename, FinishMoveIn, CreateMarker, WriteMarker, Opened, fileVars
  <2> QED  BY <1>2, <1>3, <2>1, CleanStays
<1>6. CASE DropOld \/ DropMarker
  <2>1. pc' \notin Opened /\ active' = active
    BY <1>6 DEF DropOld, DropMarker, Opened
  <2>2. \A s \in SegIds : old'[s] = old[s] \/ old'[s] = NoFile
    BY <1>1, <1>6 DEF DropOld, DropMarker, FileTypes
  <2>3. spent'.overBackups = spent.overBackups
    <3>1. spent' = spent \/ Spend("remove")
      BY <1>6 DEF DropOld, DropMarker, Fault
    <3>2. spent \in SpentType
      BY <1>1 DEF MemoryTypes
    <3> QED  BY <3>1, <3>2, SpendFacts DEF Kinds
  <2>4. \A s \in SegIds : Torn \notin Recs(old'[s])
    BY <1>3, <2>2, NoFileFacts
  <2> QED  BY <1>2, <1>3, <2>1, <2>3, <2>4, CleanStays
<1>7. CASE RenameToOld
  <2>1. pc' \notin Opened /\ spent' = spent
    BY <1>7 DEF RenameToOld, Opened
  <2>2. \A s \in SegIds : /\ old'[s] = old[s] \/ old'[s] = active[s]
                          /\ active'[s] = active[s] \/ active'[s] = NoFile
    BY <1>1, <1>7 DEF RenameToOld, FileTypes
  <2>3. \A s \in SegIds : Torn \notin Recs(old'[s]) /\ Torn \notin Recs(active'[s])
    BY <1>3, <2>2, NoFileFacts
  <2> QED  BY <1>2, <2>1, <2>3, CleanStays
<1>8. CASE MoveIn
  <2>1. pc = "moveIn" /\ pc' \notin Opened /\ spent' = spent /\ old' = old
    BY <1>8 DEF MoveIn, Opened
  <2>2. \A s \in SegIds : active'[s] = active[s] \/ (active'[s] = staged[s] /\ staged[s].present)
    BY <1>1, <1>8 DEF MoveIn, FileTypes, Present
  <2>3. \A s \in SegIds : staged[s].present => Torn \notin Recs(staged[s])
    BY <1>1, <2>1 DEF StageOK, NewFiles
  <2>4. \A s \in SegIds : Torn \notin Recs(active'[s])
    BY <1>3, <2>2, <2>3
  <2> QED  BY <1>2, <1>3, <2>1, <2>4, CleanStays
<1>9. CASE Attach
  <2>1. pc = "attach" /\ UNCHANGED <<old, spent>>
    BY <1>9 DEF Attach
  <2>2. Present(old) = {}
    BY <2>1 DEF BytesKept, BackupsOK
  <2>3. \A s \in SegIds : active'[s] = active[s] \/ active'[s] = Created
    BY <1>1, <1>9 DEF Attach, FileTypes
  <2>4. \A s \in SegIds : Torn \notin Recs(active'[s])
    BY <1>3, <2>3, CreatedFacts
  <2> QED  BY <1>2, <1>3, <2>1, <2>2, <2>4, CleanStays
<1> QED  BY <1>4, <1>5, <1>6, <1>7, <1>8, <1>9 DEF CompactStep

LEMMA CrashClean ==
  ASSUME WriteInv, Clean, Crash
  PROVE  Clean'
<1>1. pc' = "closed" /\ old' = old /\ Spend("crashes")
  BY DEF Crash
<1>2. FileTypes /\ MemoryTypes
  BY TypeParts DEF WriteInv
<1>3. spent'.overBackups = spent.overBackups
  BY <1>1, <1>2, SpendFacts DEF MemoryTypes, Kinds
<1>4. /\ active' \in [SegIds -> File]
      /\ \A s \in SegIds : active'[s].durable = active[s].durable
      /\ \A s \in SegIds : \A i \in 1..active[s].durable :
           i \in DOMAIN active[s].recs /\ active'[s].recs[i] = active[s].recs[i]
  BY CrashFiles
<1>5. ASSUME NEW s \in SegIds, NEW i \in DOMAIN active'[s].recs, i <= active'[s].durable
      PROVE  active'[s].recs[i] # Torn
  <2>1. active'[s] \in File /\ active[s] \in File
    BY <1>2, <1>4 DEF FileTypes
  <2>2. DOMAIN active'[s].recs = 1..Len(active'[s].recs) /\ Len(active'[s].recs) \in Nat
        /\ active[s].durable \in Nat
    BY <2>1, FileFields
  <2>3. i \in 1..active[s].durable /\ i <= active[s].durable
    BY <1>4, <1>5, <2>2
  <2>4. i \in DOMAIN active[s].recs /\ active'[s].recs[i] = active[s].recs[i]
    BY <1>4, <2>3
  <2> QED  BY <2>3, <2>4 DEF Clean, FragmentsOK
<1>6. \A s \in SegIds : FragmentsOK(active'[s])
  <2>1. \A s \in SegIds : TornAt(active'[s]) \subseteq {Len(active'[s].recs)}
    BY CrashFiles DEF Clean, FragmentsOK, Shut
  <2> QED  BY <1>5, <2>1 DEF FragmentsOK
<1>7. pc' \notin Opened /\ pc' \in Shut
  BY <1>1 DEF Opened, Shut
<1> QED  BY <1>1, <1>3, <1>6, <1>7 DEF Clean

LEMMA RecoverStepClean ==
  ASSUME WriteInv, BytesKept, Clean, RecoverStep
  PROVE  Clean'
<1>1. FileTypes /\ FilesOK
  BY TypeParts DEF WriteInv
<1>2. /\ \A s \in SegIds : FragmentsOK(active[s]) /\ Torn \notin Recs(old[s])
      /\ spent.overBackups = 0
  BY DEF Clean
<1>3. FragmentsOK(NoFile) /\ Torn \notin Recs(NoFile)
  BY NoFileFacts, NoFragments
<1>4. spent' = spent
  BY DEF RecoverStep, Open, RecoverDropOld, RecoverRemoveActive, RecoverRestoreOld,
         RecoverDropMarker, Scan, ScanNothing, ScanFails
<1>5. CASE ~Scan /\ ~ScanNothing
  <2>1. pc' \in Shut /\ pc' \notin Opened
    BY <1>5 DEF RecoverStep, Open, RecoverDropOld, RecoverRemoveActive, RecoverRestoreOld,
                RecoverDropMarker, ScanFails, Shut, Opened
  <2>2. \A s \in SegIds : /\ active'[s] = active[s] \/ active'[s] = NoFile \/ active'[s] = old[s]
                          /\ old'[s] = old[s] \/ old'[s] = NoFile
    <3>1. CASE Open \/ RecoverDropMarker \/ ScanFails
      BY <3>1 DEF Open, RecoverDropMarker, ScanFails, fileVars
    <3>2. CASE RecoverDropOld
      BY <1>1, <3>2 DEF RecoverDropOld, FileTypes
    <3>3. CASE RecoverRemoveActive
      BY <1>1, <3>3 DEF RecoverRemoveActive, FileTypes
    <3>4. CASE RecoverRestoreOld
      BY <1>1, <3>4 DEF RecoverRestoreOld, FileTypes
    <3> QED  BY <1>5, <3>1, <3>2, <3>3, <3>4 DEF RecoverStep
  <2>3. \A s \in SegIds : FragmentsOK(active'[s]) /\ Torn \notin Recs(old'[s])
    BY <1>2, <1>3, <2>2, NoFragments
  <2> QED  BY <1>2, <1>4, <2>1, <2>3 DEF Clean
<1>6. CASE Scan \/ ScanNothing
  <2>1. pc = "scan" /\ old' = old
    BY <1>6 DEF Scan, ScanNothing
  <2>2. Present(old) = {}
    BY <2>1 DEF BytesKept, BackupsOK
  <2>3. \A s \in SegIds : ~active[s].present => Torn \notin Recs(active[s])
    BY <1>1, <1>3 DEF FilesOK, FileOK
  <2>4. \A s \in SegIds : Torn \notin Recs(active'[s])
    <3>1. CASE Scan
      <4> DEFINE n == Newest(active)
      <4>1. /\ n \in SegIds /\ Torn \notin Recs(active'[n])
            /\ \A t \in SegIds : t # n => active'[t] = active[t]
        BY <3>1, ScanFiles
      <4>2. ASSUME NEW s \in SegIds, s # n, active[s].present PROVE Torn \notin Recs(active[s])
        <5>1. TornAt(active[s]) = {}
          BY <3>1, <4>2 DEF Scan, ScanOk, Present
        <5> QED  BY <5>1 DEF TornAt, Recs
      <4> HIDE DEF n
      <4> QED  BY <2>3, <4>1, <4>2
    <3>2. CASE ScanNothing
      <4>1. \A s \in SegIds : (active'[s] = active[s] /\ ~active[s].present) \/ active'[s] = Created
        BY <1>1, <3>2 DEF ScanNothing, FileTypes, Present
      <4> QED  BY <2>3, <4>1, CreatedFacts
    <3> QED  BY <1>6, <3>1, <3>2
  <2>5. \A s \in SegIds : FragmentsOK(active'[s])
    BY <2>4, NoFragments
  <2> QED  BY <1>2, <1>4, <2>1, <2>2, <2>4, <2>5 DEF Clean
<1> QED  BY <1>5, <1>6

LEMMA NextClean ==
  ASSUME WriteInv, ByteInv, CleanInv, [Next]_vars
  PROVE  CleanInv'
<1>2. SUFFICES ASSUME Faults' = 0 PROVE Clean'
  BY DEF CleanInv
<1>3. spent \in SpentType
  BY TypeParts DEF WriteInv, MemoryTypes
<1>4. /\ spent' \in SpentType
      /\ spent'.append >= spent.append /\ spent'.rename >= spent.rename
      /\ spent'.remove >= spent.remove
  BY <1>3, SpentGrows
<1>5. spent'.append = 0 /\ spent'.remove = 0 /\ spent'.rename = 0
  BY <1>2, <1>4, FaultFreePrimed
<1>6. spent.append = 0 /\ spent.remove = 0 /\ spent.rename = 0
  <2>1. spent.append \in Nat /\ spent.remove \in Nat /\ spent.rename \in Nat
    BY <1>3 DEF SpentType
  <2> QED  BY <1>4, <1>5, <2>1
<1>7. Clean
  BY <1>3, <1>6, FaultFree DEF CleanInv
<1>8. BytesKept
  BY <1>6, <1>7 DEF Clean, ByteInv
<1>9. ~AppendFails /\ ~SwapFails
  <2>1. ASSUME AppendFails \/ SwapFails PROVE FALSE
    <3>1. Spend("append") \/ Spend("rename")
      BY <2>1 DEF AppendFails, SwapFails, Fault
    <3>2. spent'.append = spent.append + 1 \/ spent'.rename = spent.rename + 1
      BY <1>3, <3>1, SpendFacts DEF Kinds
    <3> QED  BY <1>5, <1>6, <3>2
  <2> QED  BY <2>1
<1>10. CASE UNCHANGED vars
  BY <1>7, <1>10 DEF vars, fileVars, Clean
<1> QED  BY <1>5, <1>6, <1>7, <1>8, <1>9, <1>10, WriteStepClean, BeginCompactClean, CompactStepClean,
            CrashClean, RecoverStepClean
         DEF Next

LEMMA InitClean ==
  ASSUME Init
  PROVE  CleanInv
<1>1. active = NoFiles /\ old = NoFiles /\ pc = "closed" /\ spent.overBackups = 0
  BY DEF Init
<1>2. \A s \in SegIds : FragmentsOK(active[s]) /\ Torn \notin Recs(old[s])
  BY <1>1, EmptyTypes, NoFileFacts, NoFragments
<1> QED  BY <1>1, <1>2 DEF CleanInv, Clean, Opened, Shut

(* A chunk that was synced and that no collection gave up survives a crash *)
(* at any step of append, rotation, compaction or of recovery itself, and  *)
(* any number of them: the files that recovery would keep hold it, fsynced *)
(* and ahead of any fragment (compact_and_reclaim, recover_and_index).     *)
THEOREM CrashSafety == Spec => []CrashesLoseNothing
<1> DEFINE Inv == WriteInv /\ ByteInv /\ CleanInv
<1>1. Init => Inv
  BY InitWrite, InitBytes, InitClean
<1>2. Inv /\ [Next]_vars => Inv'
  BY NextWrite, NextBytes, NextClean
<1>3. Inv => CrashesLoseNothing
  <2>1. SUFFICES ASSUME Inv, Faults = 0 PROVE KeptChunksRecoverable
    BY DEF CrashesLoseNothing
  <2>2. /\ spent.overBackups = 0
        /\ \A s \in SegIds : FragmentsOK(active[s]) /\ Torn \notin Recs(old[s])
    BY <2>1 DEF CleanInv, Clean
  <2>3. spent.remove = 0
    <3>1. spent \in SpentType
      BY <2>1, TypeParts DEF WriteInv, MemoryTypes
    <3> QED  BY <2>1, <3>1, FaultFree
  <2>4. kept \subseteq DurablesOf(active, old, marker)
    BY <2>1, <2>2, <2>3 DEF ByteInv, BytesKept, KeptOK, Durables
  <2>5. ASSUME NEW c \in kept PROVE \E s \in SegIds : c \in ScannableChunks(Recoverable[s])
    <3>1. PICK s \in SegIds : c \in DurableChunks(FileFor(active, old, marker, s))
      BY <2>4, <2>5 DEF DurablesOf
    <3> DEFINE f == FileFor(active, old, marker, s)
    <3>2. FragmentsOK(f)
      BY <2>2, NoFragments DEF FileFor
    <3>3. f \in File
      BY <2>1, TypeParts DEF WriteInv, FileTypes, FileFor
    <3>4. f = Recoverable[s]
      BY RecoverableFiles
    <3> HIDE DEF f
    <3>5. PICK j \in DOMAIN f.recs : j <= f.durable /\ f.recs[j] = c
      BY <3>1 DEF DurableChunks, f
    <3>6. DOMAIN f.recs = 1..Len(f.recs) /\ Len(f.recs) \in Nat /\ f.durable \in Nat
      BY <3>3, FileFields
    <3>7. ASSUME NEW h \in 1..j PROVE f.recs[h] # Torn
      <4>1. h \in DOMAIN f.recs /\ h <= f.durable
        BY <3>5, <3>6, <3>7
      <4> QED  BY <3>2, <4>1 DEF FragmentsOK
    <3>8. c \in ScannableChunks(f)
      BY <3>5, <3>7 DEF ScannableChunks
    <3> QED  BY <3>4, <3>8
  <2> QED  BY <2>5 DEF KeptChunksRecoverable
<1> HIDE DEF Inv
<1> QED  BY <1>1, <1>2, <1>3, PTL DEF Spec

-----------------------------------------------------------------------------
(* The refinement of ChunkStore                                            *)

\* The chunks in the files that recovery would use, and the durable ones of them.
HeldIn(a, o, m) == UNION {ChunksIn(FileFor(a, o, m, s)) : s \in SegIds}
SyncedIn(a, o, m) == DurablesOf(a, o, m) \ {Torn}

Visible == IF pc \in {"dropOld", "attach"} THEN Indexed(newIndex) ELSE Indexed(index)

\* Before its marker is written a compaction can be undone.
Undoable == {"stage", "renameOld", "moveIn", "marker", "markerWrite"}

\* No file holds a chunk that the index which goes with it does not have.
Complete ==
  /\ pc \notin Shut => HeldIn(active, old, marker) \subseteq Visible
  /\ pc \in Staging => \A s \in SegIds : Recs(NewFiles[s]) \subseteq Indexed(newIndex)
  /\ pc \in Undoable => kept \subseteq Indexed(index)

CompleteInv == Faults = 0 => Complete

\* A step of ChunkStore, or one that its caller does not see.
ChunkStep == [Store!ChunkNext]_(Store!chunkVars)

LEMMA ChunksSeen ==
  /\ ChunksStored = IF pc \in Shut THEN HeldIn(active, old, marker) ELSE Visible
  /\ ChunksSynced = SyncedIn(active, old, marker)
<1>1. \A s \in SegIds : Recoverable[s] = FileFor(active, old, marker, s)
  BY RecoverableFiles
<1>2. ChunksSynced = SyncedIn(active, old, marker)
  BY <1>1 DEF ChunksSynced, SyncedIn, DurablesOf
<1>3. UNION {ChunksIn(Recoverable[s]) : s \in SegIds} = HeldIn(active, old, marker)
  BY <1>1 DEF HeldIn
<1> QED  BY <1>2, <1>3 DEF ChunksStored, Visible, Shut

LEMMA ChunksSeenPrimed ==
  /\ ChunksStored' = IF pc' \in Shut THEN HeldIn(active', old', marker') ELSE Visible'
  /\ ChunksSynced' = SyncedIn(active', old', marker')
<1>1. \A s \in SegIds : Recoverable'[s] = FileFor(active', old', marker', s)
  BY DEF Recoverable, FileFor, Present
<1>2. ChunksSynced' = SyncedIn(active', old', marker')
  BY <1>1 DEF ChunksSynced, SyncedIn, DurablesOf
<1>3. UNION {ChunksIn(Recoverable'[s]) : s \in SegIds} = HeldIn(active', old', marker')
  BY <1>1 DEF HeldIn
<1> QED  BY <1>2, <1>3 DEF ChunksStored, Visible, Shut

(* The forms a step takes.                                                 *)
LEMMA UnseenStep ==
  ASSUME ChunksStored' = ChunksStored, ChunksSynced' = ChunksSynced
  PROVE  ChunkStep
BY DEF ChunkStep, Store!chunkVars

LEMMA StoreStep ==
  ASSUME NEW c \in Chunks, ChunksStored' = ChunksStored \cup {c}, ChunksSynced' = ChunksSynced
  PROVE  ChunkStep
<1>1. {c} \in SUBSET Chunks
  OBVIOUS
<1> QED  BY <1>1 DEF ChunkStep, Store!ChunkNext, Store!StoreChunks

LEMMA SyncStep ==
  ASSUME ChunksStored' = ChunksStored, ChunksSynced' = ChunksStored
  PROVE  ChunkStep
BY DEF ChunkStep, Store!ChunkNext, Store!SyncAll

LEMMA CollectStep ==
  ASSUME ChunksStored' = ChunksStored \cap kept, ChunksSynced' = ChunksStored'
  PROVE  ChunkStep
BY DEF ChunkStep, Store!ChunkNext, Store!Collect

LEMMA LoseStep ==
  ASSUME ChunksSynced \subseteq ChunksSynced', ChunksSynced' \subseteq ChunksStored',
         ChunksStored' \subseteq ChunksStored
  PROVE  ChunkStep
BY DEF ChunkStep, Store!ChunkNext, Store!LoseUnsynced

(* Sets of files that hold the same chunks.                                *)
LEMMA HeldByFiles ==
  ASSUME NEW a, NEW o, NEW m, NEW a2, NEW o2, NEW m2,
         \A s \in SegIds : /\ Recs(FileFor(a2, o2, m2, s)) = Recs(FileFor(a, o, m, s))
                           /\ DurableChunks(FileFor(a2, o2, m2, s)) = DurableChunks(FileFor(a, o, m, s))
  PROVE  HeldIn(a2, o2, m2) = HeldIn(a, o, m) /\ SyncedIn(a2, o2, m2) = SyncedIn(a, o, m)
<1>1. \A s \in SegIds : ChunksIn(FileFor(a2, o2, m2, s)) = ChunksIn(FileFor(a, o, m, s))
  BY DEF ChunksIn, Recs
<1>2. HeldIn(a2, o2, m2) = HeldIn(a, o, m)
  BY <1>1 DEF HeldIn
<1>3. SyncedIn(a2, o2, m2) = SyncedIn(a, o, m)
  BY DEF SyncedIn, DurablesOf
<1> QED  BY <1>2, <1>3

LEMMA SameFiles ==
  ASSUME NEW a, NEW o, NEW m, NEW a2, NEW o2, NEW m2,
         \A s \in SegIds : FileFor(a2, o2, m2, s) = FileFor(a, o, m, s)
  PROVE  HeldIn(a2, o2, m2) = HeldIn(a, o, m) /\ SyncedIn(a2, o2, m2) = SyncedIn(a, o, m)
BY HeldByFiles

(* Durable chunks are held; synced files hold no others.                   *)
LEMMA SyncedIsHeld ==
  ASSUME NEW a \in [SegIds -> File], NEW o \in [SegIds -> File], NEW m,
         \A s \in SegIds : FileOK(a[s]) /\ FileOK(o[s])
  PROVE  /\ SyncedIn(a, o, m) \subseteq HeldIn(a, o, m)
         /\ (\A s \in SegIds : AllDurable(a[s]) /\ AllDurable(o[s])) =>
              SyncedIn(a, o, m) = HeldIn(a, o, m)
<1>1. \A s \in SegIds : FileFor(a, o, m, s) \in File /\ FileOK(FileFor(a, o, m, s))
  BY DEF FileFor
<1>2. \A s \in SegIds : DurableChunks(FileFor(a, o, m, s)) \subseteq Recs(FileFor(a, o, m, s))
  BY <1>1, DurableFacts
<1>3. SyncedIn(a, o, m) \subseteq HeldIn(a, o, m)
  BY <1>2 DEF SyncedIn, HeldIn, DurablesOf, ChunksIn, Recs
<1>4. ASSUME \A s \in SegIds : AllDurable(a[s]) /\ AllDurable(o[s])
      PROVE  SyncedIn(a, o, m) = HeldIn(a, o, m)
  <2>1. \A s \in SegIds : DurableChunks(FileFor(a, o, m, s)) = Recs(FileFor(a, o, m, s))
    BY <1>1, <1>4, DurableFacts DEF FileFor
  <2> QED  BY <2>1 DEF SyncedIn, HeldIn, DurablesOf, ChunksIn, Recs
<1> QED  BY <1>3, <1>4

(* What an index locates is held.                                          *)
LEMMA LocatedIsHeld ==
  ASSUME NEW a, NEW o, NEW m, NEW ix, Located(ix, a),
         \A s \in SegIds : FileFor(a, o, m, s) = a[s]
  PROVE  Indexed(ix) \subseteq HeldIn(a, o, m)
<1>1. ASSUME NEW c \in Indexed(ix) PROVE c \in HeldIn(a, o, m)
  <2>1. /\ ix[c].seg \in SegIds /\ ix[c].pos \in DOMAIN a[ix[c].seg].recs
        /\ a[ix[c].seg].recs[ix[c].pos] = c
    BY <1>1 DEF Located, Indexed
  <2>2. c # Torn
    BY <1>1, ChunkAssumption DEF Indexed
  <2>3. c \in ChunksIn(a[ix[c].seg])
    BY <2>1, <2>2 DEF ChunksIn
  <2> QED  BY <2>1, <2>3 DEF HeldIn
<1> QED  BY <1>1

(* What the induction may assume of a state in which nothing has failed.   *)
Good == WriteInv /\ IndexInv /\ BytesKept /\ Clean /\ Complete
          /\ spent.append + spent.rename = 0

Typed == FileTypes /\ MemoryTypes /\ FilesOK

LEMMA GoodIsTyped ==
  ASSUME Good
  PROVE  /\ Typed /\ WriterOK /\ StageOK
         /\ \A s \in SegIds : FileOK(active[s]) /\ FileOK(old[s]) /\ FileOK(staged[s])
         /\ active \in [SegIds -> File] /\ old \in [SegIds -> File] /\ staged \in [SegIds -> File]
BY TypeParts DEF Good, Typed, WriteInv, FileTypes, FilesOK

(* While the store is open its index is what the files hold.               *)
LEMMA OpenIsComplete ==
  ASSUME Good, pc \in Opened
  PROVE  /\ marker # "done" /\ Present(old) = {} /\ writer.seg \in SegIds
         /\ \A s \in SegIds : ~old[s].present /\ old[s] = NoFile
         /\ \A s \in SegIds : FileFor(active, old, marker, s) = active[s]
         /\ \A s \in Present(active) : s <= writer.seg
         /\ pc \in OpenPcs => \A s \in SegIds : s # writer.seg => AllDurable(active[s])
         /\ Located(index, active)
         /\ HeldIn(active, old, marker) = Indexed(index)
         /\ ChunksStored = Indexed(index)
<1>1. Typed /\ WriterOK
  BY GoodIsTyped
<1>2. marker # "done" /\ Present(old) = {}
  BY DEF Good, Clean, BytesKept, MarkerOK
<1>3. \A s \in SegIds : ~old[s].present /\ old[s] = NoFile
  BY <1>1, <1>2 DEF Present, Typed, FilesOK, FileOK
<1>4. \A s \in SegIds : FileFor(active, old, marker, s) = active[s]
  BY <1>3 DEF FileFor
<1>5. writer.seg \in SegIds /\ \A s \in Present(active) : s <= writer.seg
  BY <1>1 DEF WriterOK, Shut, Opened
<1>6. Located(index, active)
  BY IndexIsGood DEF Good, IndexGood
<1>7. Visible = Indexed(index) /\ pc \notin Shut
  BY DEF Visible, Opened, Shut
<1>8. HeldIn(active, old, marker) = Indexed(index)
  BY <1>4, <1>6, <1>7, LocatedIsHeld DEF Good, Complete
<1>9. pc \in OpenPcs => \A s \in SegIds : s # writer.seg => AllDurable(active[s])
  BY OpenBytesBefore DEF Good, OpenBytes
<1> QED  BY <1>2, <1>3, <1>4, <1>5, <1>6, <1>7, <1>8, <1>9, ChunksSeen

(* A step that changes neither what the files hold nor what is visible.    *)
LEMMA QuietStep ==
  ASSUME HeldIn(active', old', marker') = HeldIn(active, old, marker),
         SyncedIn(active', old', marker') = SyncedIn(active, old, marker),
         Visible' = Visible, pc \in Shut <=> pc' \in Shut
  PROVE  ChunkStep
<1>1. ChunksStored' = ChunksStored /\ ChunksSynced' = ChunksSynced
  BY ChunksSeen, ChunksSeenPrimed
<1> QED  BY <1>1, UnseenStep

(* Nothing changes for the caller while the files of one segment keep      *)
(* their records.                                                          *)
LEMMA PutChunkChunks ==
  ASSUME Good, PutChunk
  PROVE  Complete' /\ ChunkStep
<1>1. /\ pc = "ready" /\ pc' \in {"append", "rotate"}
      /\ UNCHANGED <<active, old, marker, staged, index, newIndex, kept>>
  BY DEF PutChunk, fileVars, stageVars
<1>2. Visible' = Visible
  BY <1>1 DEF Visible
<1>3. Complete'
  BY <1>1, <1>2 DEF Good, Complete, Shut, Staging, Swapped, Undoable
<1>4. ChunkStep
  BY <1>1, <1>2, QuietStep DEF Shut
<1> QED  BY <1>3, <1>4

LEMMA WriteHeaderChunks ==
  ASSUME Good, WriteHeader
  PROVE  Complete' /\ ChunkStep
<1> DEFINE w == writer.seg
           g == [active[w] EXCEPT !.header = TRUE]
<1>1. /\ pc = "header" /\ pc' \in {"ready", "append"} /\ active' = [active EXCEPT ![w] = g]
      /\ UNCHANGED <<old, marker, index, newIndex>>
  BY DEF WriteHeader, stageVars
<1>2. Typed /\ w \in SegIds /\ \A s \in SegIds : FileFor(active, old, marker, s) = active[s]
      /\ ~old[s].present
  BY <1>1, GoodIsTyped, OpenIsComplete DEF Opened
<1>3. active[w] \in File
  BY <1>2 DEF Typed, FileTypes
<1>4. Recs(g) = Recs(active[w]) /\ DurableChunks(g) = DurableChunks(active[w])
  <2>1. g.recs = active[w].recs /\ g.durable = active[w].durable
    BY <1>3 DEF File
  <2> HIDE DEF g
  <2> QED  BY <2>1 DEF Recs, DurableChunks
<1> HIDE DEF g
<1>5. active'[w] = g /\ \A s \in SegIds : s # w => active'[s] = active[s]
  BY <1>1, <1>2 DEF Typed, FileTypes
<1>6. \A s \in SegIds : FileFor(active', old', marker', s) = active'[s]
  BY <1>1, <1>2 DEF FileFor
<1> HIDE DEF w
<1>7. /\ HeldIn(active', old', marker') = HeldIn(active, old, marker)
      /\ SyncedIn(active', old', marker') = SyncedIn(active, old, marker)
  <2>1. \A s \in SegIds :
          /\ Recs(FileFor(active', old', marker', s)) = Recs(FileFor(active, old, marker, s))
          /\ DurableChunks(FileFor(active', old', marker', s)) =
               DurableChunks(FileFor(active, old, marker, s))
    BY <1>2, <1>4, <1>5, <1>6
  <2> QED  BY <2>1, HeldByFiles
<1>8. Visible' = Visible
  BY <1>1 DEF Visible
<1>9. Complete'
  BY <1>1, <1>7, <1>8 DEF Good, Complete, Shut, Staging, Swapped, Undoable
<1>10. ChunkStep
  BY <1>1, <1>7, <1>8, QuietStep DEF Shut
<1> QED  BY <1>9, <1>10

(* The segment being written is synced, and perhaps the next one created:  *)
(* everything is durable, and nothing is held that was not.                *)
LEMMA SyncedChunks ==
  ASSUME Good, pc \in OpenPcs, NEW w, w = writer.seg, active' \in [SegIds -> File],
         active'[w] = Synced(active[w]),
         \A s \in SegIds : s # w => active'[s] = active[s] \/ (active[s] = NoFile /\ active'[s] = Created),
         UNCHANGED <<old, marker>>
  PROVE  /\ HeldIn(active', old', marker') = Indexed(index)
         /\ SyncedIn(active', old', marker') = Indexed(index)
<1>1. /\ Typed /\ w \in SegIds /\ HeldIn(active, old, marker) = Indexed(index)
      /\ \A s \in SegIds : FileFor(active, old, marker, s) = active[s] /\ ~old[s].present
                           /\ old[s] = NoFile
      /\ \A s \in SegIds : s # w => AllDurable(active[s])
  BY GoodIsTyped, OpenIsComplete DEF Opened, OpenPcs
<1>2. active[w] \in File /\ FileOK(active[w])
  BY <1>1 DEF Typed, FileTypes, FilesOK
<1>3. /\ Recs(active'[w]) = Recs(active[w]) /\ AllDurable(active'[w]) /\ FileOK(active'[w])
  BY <1>2, DurableFacts, SyncedFacts
<1>4. \A s \in SegIds : FileFor(active', old', marker', s) = active'[s]
  BY <1>1 DEF FileFor
<1>5. \A s \in SegIds : /\ Recs(active'[s]) = Recs(active[s]) /\ AllDurable(active'[s])
                        /\ FileOK(active'[s])
  <2>1. ASSUME NEW s \in SegIds, s # w
        PROVE  Recs(active'[s]) = Recs(active[s]) /\ AllDurable(active'[s]) /\ FileOK(active'[s])
    <3>1. CASE active'[s] = active[s]
      BY <1>1, <2>1, <3>1 DEF Typed, FilesOK
    <3>2. CASE active[s] = NoFile /\ active'[s] = Created
      BY <3>2, NoFileFacts, CreatedFacts
    <3> QED  BY <2>1, <3>1, <3>2
  <2> QED  BY <1>3, <2>1
<1>6. HeldIn(active', old', marker') = HeldIn(active, old, marker)
  <2>1. \A s \in SegIds : ChunksIn(FileFor(active', old', marker', s)) =
                            ChunksIn(FileFor(active, old, marker, s))
    BY <1>1, <1>4, <1>5 DEF ChunksIn, Recs
  <2> QED  BY <2>1 DEF HeldIn
<1>7. \A s \in SegIds : AllDurable(old'[s]) /\ FileOK(old'[s])
  BY <1>1, NoFileFacts
<1>8. old' \in [SegIds -> File]
  BY <1>1 DEF Typed, FileTypes
<1>9. SyncedIn(active', old', marker') = HeldIn(active', old', marker')
  BY <1>5, <1>7, <1>8, SyncedIsHeld
<1> QED  BY <1>1, <1>6, <1>9

LEMMA RotateChunks ==
  ASSUME Good, WriteInv', Rotate
  PROVE  Complete' /\ ChunkStep
<1> DEFINE w == writer.seg
<1>1. /\ pc = "rotate" /\ pc' = "header"
      /\ active' = [active EXCEPT ![w] = Synced(@), ![w + 1] = Created]
      /\ UNCHANGED <<old, marker, index, newIndex>>
  BY DEF Rotate, stageVars
<1>2. Typed /\ WriterOK /\ w \in SegIds /\ (\A s \in Present(active) : s <= w)
      /\ ChunksStored = Indexed(index)
  BY <1>1, GoodIsTyped, OpenIsComplete DEF Opened
<1>3. w < MaxSegments
  BY <1>1, <1>2 DEF WriterOK
<1>4. active' \in [SegIds -> File]
  BY TypePartsPrimed DEF WriteInv, FileTypes
<1> HIDE DEF w
<1>5. w \in Nat /\ w + 1 \in SegIds /\ w # w + 1 /\ ~(w + 1 <= w)
  BY <1>2, <1>3, BoundAssumption DEF SegIds
<1>6. /\ active'[w] = Synced(active[w]) /\ active'[w + 1] = Created
      /\ \A s \in SegIds : s # w /\ s # w + 1 => active'[s] = active[s]
  BY <1>1, <1>2, <1>5 DEF Typed, FileTypes
<1>7. active[w + 1] = NoFile
  BY <1>2, <1>5 DEF Typed, FilesOK, FileOK, Present
<1>8. \A s \in SegIds : s # w => active'[s] = active[s] \/ (active[s] = NoFile /\ active'[s] = Created)
  BY <1>6, <1>7
<1>9. pc \in OpenPcs
  BY <1>1 DEF OpenPcs
<1>10. /\ HeldIn(active', old', marker') = Indexed(index)
       /\ SyncedIn(active', old', marker') = Indexed(index)
  BY <1>1, <1>4, <1>6, <1>8, <1>9, SyncedChunks DEF w
<1>11. Visible' = Indexed(index)
  BY <1>1 DEF Visible
<1>12. Complete'
  BY <1>1, <1>10, <1>11 DEF Complete, Staging, Swapped, Undoable
<1>13. ChunksStored' = Indexed(index) /\ ChunksSynced' = Indexed(index)
  BY <1>1, <1>10, <1>11, ChunksSeenPrimed DEF Shut
<1> QED  BY <1>2, <1>12, <1>13, SyncStep

LEMMA SyncChunks ==
  ASSUME Good, WriteInv', Sync
  PROVE  Complete' /\ ChunkStep
<1> DEFINE w == writer.seg
<1>1. /\ pc = "ready" /\ pc' = "ready" /\ active' = [active EXCEPT ![w] = Synced(@)]
      /\ UNCHANGED <<old, marker, index, newIndex>>
  BY DEF Sync, stageVars
<1>2. Typed /\ w \in SegIds /\ ChunksStored = Indexed(index)
  BY <1>1, GoodIsTyped, OpenIsComplete DEF Opened
<1>3. active' \in [SegIds -> File]
  BY TypePartsPrimed DEF WriteInv, FileTypes
<1> HIDE DEF w
<1>4. active'[w] = Synced(active[w]) /\ \A s \in SegIds : s # w => active'[s] = active[s]
  BY <1>1, <1>2 DEF Typed, FileTypes
<1>5. pc \in OpenPcs
  BY <1>1 DEF OpenPcs
<1>6. /\ HeldIn(active', old', marker') = Indexed(index)
      /\ SyncedIn(active', old', marker') = Indexed(index)
  BY <1>1, <1>3, <1>4, <1>5, SyncedChunks DEF w
<1>7. Visible' = Indexed(index)
  BY <1>1 DEF Visible
<1>8. Complete'
  BY <1>1, <1>6, <1>7 DEF Complete, Staging, Swapped, Undoable
<1>9. ChunksStored' = Indexed(index) /\ ChunksSynced' = Indexed(index)
  BY <1>1, <1>6, <1>7, ChunksSeenPrimed DEF Shut
<1> QED  BY <1>2, <1>8, <1>9, SyncStep

LEMMA BeginCompactChunks ==
  ASSUME Good, WriteInv', BeginCompact
  PROVE  Complete' /\ ChunkStep
<1> DEFINE w == writer.seg
           h == [Created EXCEPT !.header = TRUE]
<1>1. /\ pc = "ready" /\ pc' = "stage" /\ active' = [active EXCEPT ![w] = Synced(@)]
      /\ kept' \subseteq Indexed(index) /\ staged' = [NoFiles EXCEPT ![1] = h]
      /\ UNCHANGED <<old, marker, index>>
  BY DEF BeginCompact
<1>2. Typed /\ w \in SegIds /\ ChunksStored = Indexed(index)
  BY <1>1, GoodIsTyped, OpenIsComplete DEF Opened
<1>3. active' \in [SegIds -> File]
  BY TypePartsPrimed DEF WriteInv, FileTypes
<1> HIDE DEF w
<1>4. active'[w] = Synced(active[w]) /\ \A s \in SegIds : s # w => active'[s] = active[s]
  BY <1>1, <1>2 DEF Typed, FileTypes
<1>5. pc \in OpenPcs
  BY <1>1 DEF OpenPcs
<1>6. /\ HeldIn(active', old', marker') = Indexed(index)
      /\ SyncedIn(active', old', marker') = Indexed(index)
  BY <1>1, <1>3, <1>4, <1>5, SyncedChunks DEF w
<1>7. Visible' = Indexed(index)
  BY <1>1 DEF Visible
<1>8. \A s \in SegIds : Recs(NewFiles'[s]) = {}
  <2>1. Recs(h) = {}
    <3>1. h.recs = Created.recs
      BY CreatedFacts, HeaderFacts
    <3> QED  BY <3>1, CreatedFacts DEF Recs
  <2> HIDE DEF h
  <2>2. \A s \in SegIds : staged'[s] = h \/ staged'[s] = NoFile
    BY <1>1, EmptyTypes
  <2>3. NewFiles' = staged'
    BY <1>1 DEF NewFiles
  <2> QED  BY <2>1, <2>2, <2>3, NoFileFacts
<1>9. Complete'
  BY <1>1, <1>6, <1>7, <1>8 DEF Complete
<1>10. ChunksStored' = Indexed(index) /\ ChunksSynced' = Indexed(index)
  BY <1>1, <1>6, <1>7, ChunksSeenPrimed DEF Shut
<1> QED  BY <1>2, <1>9, <1>10, SyncStep

LEMMA AppendChunkChunks ==
  ASSUME Good, AppendChunk
  PROVE  Complete' /\ ChunkStep
<1> DEFINE w == writer.seg
           g == AddRecord(active[w], pending)
           l == [seg |-> w, pos |-> writer.count + 1]
<1>1. /\ pc = "append" /\ pc' = "ready" /\ active' = [active EXCEPT ![w] = g]
      /\ index' = [index EXCEPT ![pending] = l] /\ UNCHANGED <<old, marker, newIndex>>
  BY DEF AppendChunk, stageVars
<1>2. /\ Typed /\ WriterOK /\ w \in SegIds /\ ChunksStored = Indexed(index)
      /\ \A s \in SegIds : FileFor(active, old, marker, s) = active[s] /\ ~old[s].present
      /\ HeldIn(active, old, marker) = Indexed(index)
  BY <1>1, GoodIsTyped, OpenIsComplete DEF Opened
<1>3. pending \in Chunks /\ pending \in Records /\ active[w] \in File /\ FileOK(active[w])
      /\ active[w].present
  BY <1>1, <1>2 DEF WriterOK, Typed, FileTypes, FilesOK, Opened, Records
<1>4. g \in File /\ Recs(g) = Recs(active[w]) \cup {pending}
  BY <1>3, AddRecordFacts
<1>5. DurableChunks(g) = DurableChunks(active[w])
  <2> DEFINE f == active[w]
             n == Len(f.recs)
  <2>1. /\ g.durable = f.durable /\ DOMAIN g.recs = 1..(n + 1)
        /\ \A i \in 1..n : g.recs[i] = f.recs[i]
    BY <1>3, AddRecordFacts
  <2>2. n \in Nat /\ DOMAIN f.recs = 1..n /\ f.durable \in Nat /\ f.durable <= n
    BY <1>3, FileFields DEF FileOK
  <2> HIDE DEF g, f, n
  <2>3. \A i \in 1..(n + 1) : i <= f.durable => i \in 1..n
    BY <2>2
  <2>4. \A i \in 1..n : i \in 1..(n + 1)
    BY <2>2
  <2> QED  BY <2>1, <2>2, <2>3, <2>4 DEF DurableChunks, f
<1> HIDE DEF g
<1>6. active'[w] = g /\ \A s \in SegIds : s # w => active'[s] = active[s]
  BY <1>1, <1>2 DEF Typed, FileTypes
<1>7. Indexed(index') = Indexed(index) \cup {pending}
  <2>1. l # NoLoc
    BY <1>2 DEF SegIds, NoLoc
  <2>2. index \in [Chunks -> Location]
    BY <1>2 DEF Typed, MemoryTypes
  <2> HIDE DEF l
  <2>3. index'[pending] = l /\ \A c \in Chunks : c # pending => index'[c] = index[c]
    BY <1>1, <1>3, <2>2
  <2> QED  BY <1>3, <2>1, <2>3 DEF Indexed
<1> HIDE DEF w, l
<1>8. \A s \in SegIds : FileFor(active', old', marker', s) = active'[s]
  BY <1>1, <1>2 DEF FileFor
<1>9. HeldIn(active', old', marker') \subseteq HeldIn(active, old, marker) \cup {pending}
  <2>1. \A s \in SegIds : ChunksIn(FileFor(active', old', marker', s)) \subseteq
                            ChunksIn(FileFor(active, old, marker, s)) \cup {pending}
    BY <1>2, <1>4, <1>6, <1>8 DEF ChunksIn, Recs
  <2> QED  BY <2>1 DEF HeldIn
<1>10. SyncedIn(active', old', marker') = SyncedIn(active, old, marker)
  <2>1. \A s \in SegIds : DurableChunks(FileFor(active', old', marker', s)) =
                            DurableChunks(FileFor(active, old, marker, s))
    BY <1>2, <1>5, <1>6, <1>8
  <2> QED  BY <2>1 DEF SyncedIn, DurablesOf
<1>11. Visible' = Indexed(index')
  BY <1>1 DEF Visible
<1>12. Complete'
  BY <1>1, <1>2, <1>7, <1>9, <1>11 DEF Complete, Staging, Swapped, Undoable
<1>13. ChunksStored' = ChunksStored \cup {pending} /\ ChunksSynced' = ChunksSynced
  BY <1>1, <1>2, <1>7, <1>10, <1>11, ChunksSeen, ChunksSeenPrimed DEF Shut
<1> QED  BY <1>3, <1>12, <1>13, StoreStep

(* The record that a copied chunk gets is the new index's.                 *)
LEMMA StageChunkRecords ==
  ASSUME Good, StageChunk, \A s \in SegIds : Recs(staged[s]) \subseteq Indexed(newIndex),
         NEW t \in SegIds
  PROVE  Recs(staged'[t]) \subseteq Indexed(newIndex')
<1> DEFINE h == [Created EXCEPT !.header = TRUE]
<1>1. PICK c \in toStage, s \in SegIds :
        /\ ReadOk(c)
        /\ LET n == IF s = newWriter.seg THEN newWriter.count ELSE 0
               f == IF s = newWriter.seg THEN staged[s] ELSE h
           IN  /\ staged' = [staged EXCEPT ![s] = AddRecord(f, RecordAt(index[c]))]
               /\ newIndex' = [newIndex EXCEPT ![c] = [seg |-> s, pos |-> n + 1]]
  BY DEF StageChunk
<1>2. RecordAt(index[c]) = c
  BY <1>1 DEF ReadOk
<1> DEFINE n == IF s = newWriter.seg THEN newWriter.count ELSE 0
           f == IF s = newWriter.seg THEN staged[s] ELSE h
           l == [seg |-> s, pos |-> n + 1]
<1>3. staged' = [staged EXCEPT ![s] = AddRecord(f, c)] /\ newIndex' = [newIndex EXCEPT ![c] = l]
  BY <1>1, <1>2
<1>4. /\ Typed /\ StageOK /\ pc = "stage"
      /\ staged \in [SegIds -> File] /\ newIndex \in [Chunks -> Location] /\ c \in Chunks
  BY GoodIsTyped DEF StageChunk, Typed, MemoryTypes
<1>5. h \in File /\ h.present /\ FileOK(h) /\ Recs(h) = {}
  <2>1. h \in File /\ h.present /\ FileOK(h) /\ h.recs = Created.recs
    BY CreatedFacts, HeaderFacts
  <2> QED  BY <2>1, CreatedFacts DEF Recs
<1> HIDE DEF h
<1>6. f \in File /\ f.present /\ FileOK(f) /\ Recs(f) \subseteq Indexed(newIndex)
  <2>1. CASE s = newWriter.seg
    <3>1. NewFiles = staged
      BY <1>4 DEF NewFiles
    <3>2. staged[s].present
      BY <1>4, <2>1, <3>1 DEF StageOK
    <3> QED  BY <1>4, <2>1, <3>2 DEF Typed, FilesOK
  <2>2. CASE s # newWriter.seg
    BY <1>5, <2>2
  <2> QED  BY <2>1, <2>2
<1>7. l # NoLoc
  BY DEF NoLoc, SegIds
<1> HIDE DEF f, l, n
<1>8. c \in Records
  BY <1>4 DEF Records
<1>9. AddRecord(f, c) \in File /\ Recs(AddRecord(f, c)) = Recs(f) \cup {c}
  BY <1>6, <1>8, AddRecordFacts
<1>10. staged'[s] = AddRecord(f, c) /\ \A u \in SegIds : u # s => staged'[u] = staged[u]
  BY <1>3, <1>4
<1>11. newIndex'[c] = l /\ \A d \in Chunks : d # c => newIndex'[d] = newIndex[d]
  BY <1>3, <1>4
<1>12. Indexed(newIndex') = Indexed(newIndex) \cup {c}
  BY <1>4, <1>7, <1>11 DEF Indexed
<1> QED  BY <1>6, <1>9, <1>10, <1>12

(* Staging touches no file that recovery would use.                        *)
LEMMA StagingChunks ==
  ASSUME Good, StageChunk \/ StageFails \/ FinishStage
  PROVE  Complete' /\ ChunkStep
<1>1. /\ pc = "stage" /\ pc' \in {"stage", "ready", "renameOld"}
      /\ UNCHANGED <<active, old, marker, index, kept>>
      /\ pc' \in {"stage", "renameOld"} => StageChunk \/ FinishStage
  BY DEF StageChunk, StageFails, FinishStage
<1>2. Visible' = Visible /\ Visible = Indexed(index)
  BY <1>1 DEF Visible
<1>3. /\ HeldIn(active, old, marker) \subseteq Visible /\ kept \subseteq Indexed(index)
      /\ \A s \in SegIds : Recs(NewFiles[s]) \subseteq Indexed(newIndex)
  BY <1>1 DEF Good, Complete, Shut, Staging, Undoable
<1>4. Typed /\ StageOK /\ NewFiles = staged
  BY <1>1, GoodIsTyped DEF NewFiles
<1>5. ASSUME pc' \in {"stage", "renameOld"}, NEW s \in SegIds
      PROVE  Recs(NewFiles'[s]) \subseteq Indexed(newIndex')
  <2>1. NewFiles' = staged'
    BY <1>5 DEF NewFiles
  <2>2. CASE FinishStage
    <3>1. staged'[s] = Synced(staged[s]) /\ newIndex' = newIndex
      BY <2>2 DEF FinishStage
    <3>2. Recs(Synced(staged[s])) = Recs(staged[s])
      BY <1>4, DurableFacts DEF Typed, FileTypes, FilesOK
    <3> QED  BY <1>3, <1>4, <2>1, <3>1, <3>2
  <2>3. CASE StageChunk
    BY <1>3, <1>4, <2>1, <2>3, StageChunkRecords
  <2> QED  BY <1>1, <1>5, <2>2, <2>3
<1>6. Complete'
  BY <1>1, <1>2, <1>3, <1>5 DEF Complete, Staging, Swapped, Undoable
<1>7. ChunkStep
  BY <1>1, <1>2, QuietStep DEF Shut
<1> QED  BY <1>6, <1>7

LEMMA RenameToOldChunks ==
  ASSUME Good, RenameToOld
  PROVE  Complete' /\ ChunkStep
<1>1. PICK s \in Present(active) :
        /\ old' = [old EXCEPT ![s] = active[s]]
        /\ active' = [active EXCEPT ![s] = NoFile]
  BY DEF RenameToOld
<1>2. pc = "renameOld" /\ UNCHANGED <<staged, marker, index, newIndex, pc, kept>>
  BY DEF RenameToOld
<1>3. Typed /\ s \in SegIds /\ active[s].present
  BY GoodIsTyped DEF Present
<1>4. /\ old'[s] = active[s] /\ active'[s] = NoFile
      /\ \A t \in SegIds : t # s => old'[t] = old[t] /\ active'[t] = active[t]
  BY <1>1, <1>3 DEF Typed, FileTypes
<1>5. marker # "done" /\ Present(old) \cap Present(active) = {}
  BY <1>2 DEF Good, BytesKept, MarkerOK, BackupsOK
<1>6. \A t \in SegIds : FileFor(active', old', marker', t) = FileFor(active, old, marker, t)
  BY <1>2, <1>3, <1>4, <1>5 DEF FileFor, Present
<1>7. /\ HeldIn(active', old', marker') = HeldIn(active, old, marker)
      /\ SyncedIn(active', old', marker') = SyncedIn(active, old, marker)
  BY <1>6, SameFiles
<1>8. Visible' = Visible /\ NewFiles' = staged /\ NewFiles = staged
  BY <1>2 DEF Visible, NewFiles
<1>9. Complete'
  BY <1>2, <1>7, <1>8 DEF Good, Complete
<1>10. ChunkStep
  BY <1>2, <1>7, <1>8, QuietStep
<1> QED  BY <1>9, <1>10

LEMMA FinishRenameChunks ==
  ASSUME Good, FinishRename
  PROVE  Complete' /\ ChunkStep
<1>1. /\ pc = "renameOld" /\ pc' \in {"moveIn", "marker"} /\ Present(active) = {}
      /\ UNCHANGED <<active, old, marker, index, newIndex, kept>>
      /\ staged' = staged \/ staged' = NoFiles
  BY DEF FinishRename, stageVars
<1>2. Typed
  BY GoodIsTyped
<1>3. /\ HeldIn(active, old, marker) \subseteq Visible /\ kept \subseteq Indexed(index)
      /\ \A s \in SegIds : Recs(NewFiles[s]) \subseteq Indexed(newIndex)
  BY <1>1 DEF Good, Complete, Shut, Staging, Undoable
<1>4. Visible' = Visible /\ NewFiles = staged
  BY <1>1 DEF Visible, NewFiles
<1>5. \A s \in SegIds : NewFiles'[s] = staged'[s] \/ NewFiles'[s] = active[s]
  BY <1>1 DEF NewFiles
<1>6. \A s \in SegIds : active[s] = NoFile
  BY <1>1, <1>2 DEF Typed, FilesOK, FileOK, Present
<1>7. \A s \in SegIds : staged'[s] = staged[s] \/ staged'[s] = NoFile
  BY <1>1, EmptyTypes
<1>8. \A s \in SegIds : Recs(NewFiles'[s]) \subseteq Indexed(newIndex')
  BY <1>1, <1>3, <1>4, <1>5, <1>6, <1>7, NoFileFacts
<1>9. Complete'
  BY <1>1, <1>3, <1>4, <1>8 DEF Complete
<1>10. ChunkStep
  BY <1>1, <1>4, QuietStep DEF Shut
<1> QED  BY <1>9, <1>10

(* A staged segment that has no backup joins the files recovery would use; *)
(* its chunks are durable in the backups already.                          *)
LEMMA MoveInChunks ==
  ASSUME Good, MoveIn
  PROVE  Complete' /\ ChunkStep
<1>1. PICK s \in Present(staged) :
        /\ active' = [active EXCEPT ![s] = staged[s]]
        /\ staged' = [staged EXCEPT ![s] = NoFile]
  BY DEF MoveIn
<1>2. pc = "moveIn" /\ UNCHANGED <<old, marker, index, newIndex, pc, kept>>
  BY DEF MoveIn, stageVars
<1>3. Typed /\ StageOK /\ s \in SegIds /\ staged[s].present
  BY GoodIsTyped DEF Present
<1>4. /\ active'[s] = staged[s] /\ staged'[s] = NoFile
      /\ \A t \in SegIds : t # s => active'[t] = active[t] /\ staged'[t] = staged[t]
  BY <1>1, <1>3 DEF Typed, FileTypes
<1>5. /\ HeldIn(active, old, marker) \subseteq Indexed(index) /\ kept \subseteq Indexed(index)
      /\ \A t \in SegIds : Recs(NewFiles[t]) \subseteq Indexed(newIndex)
  BY <1>2 DEF Good, Complete, Visible, Shut, Staging, Undoable
<1>6. kept = Indexed(newIndex) /\ kept \subseteq DurablesOf(active, old, marker)
  <2>1. kept = toStage \cup Indexed(newIndex) /\ toStage = {}
    BY <1>2, <1>3 DEF StageOK
  <2> QED  BY <2>1 DEF Good, BytesKept, KeptOK, Durables
<1>7. active[s] = NoFile
  <2>1. Present(staged) \cap Present(active) = {}
    BY <1>2 DEF Good, BytesKept, BackupsOK
  <2> QED  BY <1>1, <1>3, <2>1 DEF Typed, FilesOK, FileOK, Present
<1>8. Recs(staged[s]) \subseteq kept
  <2>1. NewFiles[s] = staged[s]
    BY <1>2, <1>3 DEF NewFiles
  <2> QED  BY <1>3, <1>5, <1>6, <2>1
<1>9. \A t \in SegIds : \/ FileFor(active', old', marker', t) = FileFor(active, old, marker, t)
                        \/ /\ FileFor(active', old', marker', t) = staged[s]
                           /\ FileFor(active, old, marker, t) = NoFile
  BY <1>2, <1>4, <1>7 DEF FileFor
<1>10. HeldIn(active', old', marker') \subseteq Indexed(index)
  <2>1. \A t \in SegIds : ChunksIn(FileFor(active', old', marker', t)) \subseteq
                            ChunksIn(FileFor(active, old, marker, t)) \cup kept
    BY <1>8, <1>9 DEF ChunksIn, Recs
  <2>2. HeldIn(active', old', marker') \subseteq HeldIn(active, old, marker) \cup kept
    BY <2>1 DEF HeldIn
  <2> QED  BY <1>5, <2>2
<1>11. SyncedIn(active', old', marker') = SyncedIn(active, old, marker)
  <2>1. DurableChunks(staged[s]) \subseteq kept
    <3>1. DurableChunks(staged[s]) \subseteq Recs(staged[s])
      BY DEF DurableChunks, Recs
    <3> QED  BY <1>8, <3>1
  <2>2. \A t \in SegIds :
          /\ DurableChunks(FileFor(active', old', marker', t)) \subseteq
               DurableChunks(FileFor(active, old, marker, t)) \cup kept
          /\ DurableChunks(FileFor(active, old, marker, t)) \subseteq
               DurableChunks(FileFor(active', old', marker', t))
    BY <1>9, <2>1, NoFileFacts
  <2>3. /\ DurablesOf(active', old', marker') \subseteq DurablesOf(active, old, marker) \cup kept
        /\ DurablesOf(active, old, marker) \subseteq DurablesOf(active', old', marker')
    BY <2>2 DEF DurablesOf
  <2> QED  BY <1>6, <2>3 DEF SyncedIn
<1>12. \A t \in SegIds : NewFiles'[t] = NewFiles[t]
  <2>1. \A t \in SegIds : /\ NewFiles[t] = IF staged[t].present THEN staged[t] ELSE active[t]
                          /\ NewFiles'[t] = IF staged'[t].present THEN staged'[t] ELSE active'[t]
    BY <1>2 DEF NewFiles
  <2> QED  BY <1>3, <1>4, <2>1, NoFileFacts
<1>13. Visible' = Visible /\ Visible = Indexed(index)
  BY <1>2 DEF Visible
<1>14. Complete'
  BY <1>2, <1>5, <1>10, <1>12, <1>13 DEF Complete, Staging
<1>15. ChunksStored' = ChunksStored /\ ChunksSynced' = ChunksSynced
  BY <1>2, <1>11, <1>13, ChunksSeen, ChunksSeenPrimed DEF Shut
<1> QED  BY <1>14, <1>15, UnseenStep

LEMMA BeforeMarkerChunks ==
  ASSUME Good, FinishMoveIn \/ CreateMarker
  PROVE  Complete' /\ ChunkStep
<1>1. /\ pc \in {"moveIn", "marker"} /\ pc' \in {"marker", "markerWrite"}
      /\ UNCHANGED <<active, old, staged, index, newIndex, kept>>
      /\ marker' = marker \/ (marker # "done" /\ marker' = "empty")
  <2>1. pc = "marker" => marker # "done"
    BY DEF Good, BytesKept, MarkerOK
  <2> QED  BY <2>1 DEF FinishMoveIn, CreateMarker, stageVars, fileVars
<1>2. \A t \in SegIds : FileFor(active', old', marker', t) = FileFor(active, old, marker, t)
  BY <1>1 DEF FileFor
<1>3. /\ HeldIn(active', old', marker') = HeldIn(active, old, marker)
      /\ SyncedIn(active', old', marker') = SyncedIn(active, old, marker)
  BY <1>2, SameFiles
<1>4. /\ HeldIn(active, old, marker) \subseteq Visible /\ kept \subseteq Indexed(index)
      /\ \A s \in SegIds : Recs(NewFiles[s]) \subseteq Indexed(newIndex)
  BY <1>1 DEF Good, Complete, Shut, Staging, Swapped, Undoable
<1>5. Visible' = Visible /\ NewFiles' = NewFiles
  BY <1>1 DEF Visible, NewFiles
<1>6. Complete'
  BY <1>1, <1>3, <1>4, <1>5 DEF Complete
<1>7. ChunkStep
  BY <1>1, <1>3, <1>5, QuietStep DEF Shut
<1> QED  BY <1>6, <1>7

(* The moment at which a compaction takes effect.                          *)
LEMMA WriteMarkerChunks ==
  ASSUME Good, BytesKept', WriteMarker
  PROVE  Complete' /\ ChunkStep
<1>1. /\ pc = "markerWrite" /\ pc' = "dropOld" /\ marker' = "done"
      /\ UNCHANGED <<active, old, staged, index, newIndex, kept>>
  BY DEF WriteMarker, stageVars
<1>2. /\ \A s \in SegIds : NewFiles[s] = active[s] /\ AllDurable(active[s])
      /\ kept = Indexed(newIndex)
  BY <1>1, SwappedFiles DEF Swapped, Good
<1>3. /\ \A s \in SegIds : Recs(NewFiles[s]) \subseteq Indexed(newIndex)
      /\ kept \subseteq Indexed(index)
  BY <1>1 DEF Good, Complete, Staging, Swapped, Undoable
<1>4. \A s \in SegIds : FileFor(active', old', marker', s) = active[s]
  BY <1>1 DEF FileFor
<1>5. HeldIn(active', old', marker') \subseteq kept
  <2>1. \A s \in SegIds : ChunksIn(FileFor(active', old', marker', s)) \subseteq kept
    BY <1>2, <1>3, <1>4 DEF ChunksIn, Recs
  <2> QED  BY <2>1 DEF HeldIn
<1>6. SyncedIn(active', old', marker') = kept
  <2>1. SyncedIn(active', old', marker') \subseteq HeldIn(active', old', marker')
    <3>1. /\ active' \in [SegIds -> File] /\ old' \in [SegIds -> File]
          /\ \A s \in SegIds : FileOK(active'[s]) /\ FileOK(old'[s])
      BY <1>1, GoodIsTyped
    <3> QED  BY <3>1, SyncedIsHeld
  <2>2. kept \subseteq DurablesOf(active', old', marker')
    BY <1>1 DEF BytesKept, KeptOK, Durables
  <2>3. Torn \notin kept
    BY <1>2, ChunkAssumption DEF Indexed
  <2> QED  BY <1>5, <2>1, <2>2, <2>3 DEF SyncedIn
<1>7. Visible' = kept /\ Visible = Indexed(index)
  BY <1>1, <1>2 DEF Visible
<1>8. \A s \in SegIds : NewFiles'[s] = NewFiles[s]
  BY <1>1 DEF NewFiles
<1>9. Complete'
  BY <1>1, <1>3, <1>5, <1>7, <1>8 DEF Complete, Undoable
<1>10. ChunksStored = Indexed(index) /\ ChunksStored' = kept /\ ChunksSynced' = kept
  BY <1>1, <1>6, <1>7, ChunksSeen, ChunksSeenPrimed DEF Shut
<1>11. ChunksStored' = ChunksStored \cap kept
  BY <1>3, <1>10
<1> QED  BY <1>9, <1>10, <1>11, CollectStep

LEMMA DropChunks ==
  ASSUME Good, BytesKept', DropOld \/ DropMarker
  PROVE  Complete' /\ ChunkStep
<1>1. /\ pc = "dropOld" /\ pc' \in {"dropOld", "attach"}
      /\ UNCHANGED <<active, staged, index, newIndex, kept>>
  BY DEF DropOld, DropMarker, stageVars
<1>2. marker = "done" /\ (pc' = "attach" => Present(old') = {}) /\ (pc' = "dropOld" => marker' = "done")
  BY <1>1 DEF Good, BytesKept, MarkerOK, BackupsOK
<1>3. \A s \in SegIds : FileFor(active', old', marker', s) = active[s]
                        /\ FileFor(active, old, marker, s) = active[s]
  BY <1>1, <1>2 DEF FileFor, Present
<1>4. /\ HeldIn(active', old', marker') = HeldIn(active, old, marker)
      /\ SyncedIn(active', old', marker') = SyncedIn(active, old, marker)
  BY <1>3, SameFiles
<1>5. /\ HeldIn(active, old, marker) \subseteq Visible
      /\ \A s \in SegIds : Recs(NewFiles[s]) \subseteq Indexed(newIndex)
  BY <1>1 DEF Good, Complete, Shut, Staging, Swapped
<1>6. Visible' = Visible /\ \A s \in SegIds : NewFiles'[s] = NewFiles[s]
  BY <1>1 DEF Visible, NewFiles
<1>7. Complete'
  BY <1>1, <1>4, <1>5, <1>6 DEF Complete, Undoable
<1>8. ChunkStep
  BY <1>1, <1>4, <1>6, QuietStep DEF Shut
<1> QED  BY <1>7, <1>8

LEMMA AttachChunks ==
  ASSUME Good, Attach
  PROVE  Complete' /\ ChunkStep
<1>1. /\ pc = "attach" /\ pc' \in {"ready", "header"} /\ index' = newIndex
      /\ UNCHANGED <<old, marker>>
      /\ \/ active' = active
         \/ Indexed(newIndex) = {} /\ active' = [active EXCEPT ![1] = Created]
  BY DEF Attach
<1>2. Typed /\ (Indexed(newIndex) = {} => Present(active) = {})
  BY <1>1, GoodIsTyped, SwappedFiles DEF Good, Swapped
<1>3. Present(old) = {}
  BY <1>1 DEF Good, BytesKept, BackupsOK
<1>4. \A s \in SegIds : active'[s] = active[s] \/ (active[s] = NoFile /\ active'[s] = Created)
  <2>1. CASE active' = active
    BY <2>1
  <2>2. CASE Indexed(newIndex) = {} /\ active' = [active EXCEPT ![1] = Created]
    BY <1>2, <2>2 DEF Typed, FileTypes, FilesOK, FileOK, Present
  <2> QED  BY <1>1, <2>1, <2>2
<1>5. \A s \in SegIds : FileFor(active', old', marker', s) = active'[s]
                        /\ FileFor(active, old, marker, s) = active[s]
  BY <1>1, <1>3 DEF FileFor, Present
<1>6. /\ HeldIn(active', old', marker') = HeldIn(active, old, marker)
      /\ SyncedIn(active', old', marker') = SyncedIn(active, old, marker)
  <2>1. \A s \in SegIds :
          /\ Recs(FileFor(active', old', marker', s)) = Recs(FileFor(active, old, marker, s))
          /\ DurableChunks(FileFor(active', old', marker', s)) =
               DurableChunks(FileFor(active, old, marker, s))
    BY <1>4, <1>5, NoFileFacts, CreatedFacts
  <2> QED  BY <2>1, HeldByFiles
<1>7. Visible' = Indexed(newIndex) /\ Visible = Indexed(newIndex)
  BY <1>1 DEF Visible
<1>8. HeldIn(active, old, marker) \subseteq Visible
  BY <1>1 DEF Good, Complete, Shut
<1>9. Complete'
  BY <1>1, <1>6, <1>7, <1>8 DEF Complete, Staging, Swapped, Undoable
<1>10. ChunkStep
  BY <1>1, <1>6, <1>7, QuietStep DEF Shut
<1> QED  BY <1>9, <1>10

-----------------------------------------------------------------------------
(* Crash and recovery                                                      *)

LEMMA CompleteWhenShut ==
  ASSUME pc' \in Shut
  PROVE  Complete'
BY DEF Complete, Shut, Staging, Swapped, Undoable

LEMMA CrashChunks ==
  ASSUME Good, Crash
  PROVE  Complete' /\ ChunkStep
<1>1. pc' = "closed" /\ UNCHANGED <<old, marker>>
  BY DEF Crash
<1>2. Typed /\ old \in [SegIds -> File] /\ \A s \in SegIds : FileOK(old[s])
  BY GoodIsTyped
<1>3. /\ active' \in [SegIds -> File] /\ Present(active') = Present(active)
      /\ \A s \in SegIds : FileOK(active'[s])
      /\ \A s \in SegIds : active'[s].durable = active[s].durable
      /\ \A s \in SegIds : \A i \in 1..active[s].durable :
           i \in DOMAIN active'[s].recs /\ active'[s].recs[i] = active[s].recs[i]
      /\ \A s \in SegIds : Recs(active'[s]) \subseteq Recs(active[s]) \cup {Torn}
  BY CrashFiles DEF Good
<1>4. SyncedIn(active, old, marker) \subseteq SyncedIn(active', old', marker')
  <2>1. \A s \in SegIds : DurableChunks(active[s]) \subseteq DurableChunks(active'[s])
    BY <1>2, <1>3, DurableStays DEF Typed, FileTypes, FilesOK
  <2>2. DurablesOf(active, old, marker) \subseteq DurablesOf(active', old, marker)
    BY <2>1, ActiveGrows
  <2> QED  BY <1>1, <2>2 DEF SyncedIn
<1>5. SyncedIn(active', old', marker') \subseteq HeldIn(active', old', marker')
  BY <1>1, <1>2, <1>3, SyncedIsHeld
<1>6. HeldIn(active', old', marker') \subseteq HeldIn(active, old, marker)
  <2>1. \A s \in SegIds : ChunksIn(FileFor(active', old', marker', s)) \subseteq
                            ChunksIn(FileFor(active, old, marker, s))
    BY <1>1, <1>3 DEF FileFor, ChunksIn, Recs
  <2> QED  BY <2>1 DEF HeldIn
<1>7. HeldIn(active, old, marker) \subseteq ChunksStored
  BY ChunksSeen DEF Good, Complete
<1>8. ChunksStored' = HeldIn(active', old', marker')
  BY <1>1, ChunksSeenPrimed DEF Shut
<1>9. /\ ChunksSynced \subseteq ChunksSynced' /\ ChunksSynced' \subseteq ChunksStored'
      /\ ChunksStored' \subseteq ChunksStored
  BY <1>4, <1>5, <1>6, <1>7, <1>8, ChunksSeen, ChunksSeenPrimed
<1>10. Complete'
  BY <1>1, CompleteWhenShut DEF Shut
<1> QED  BY <1>9, <1>10, LoseStep

LEMMA RecordsOfFile ==
  ASSUME NEW f \in File
  PROVE  Recs(f) \subseteq Records
<1>1. f.recs \in Seq(Records) /\ DOMAIN f.recs = 1..Len(f.recs)
  BY FileFields
<1>2. \A i \in 1..Len(f.recs) : f.recs[i] \in Records
  BY <1>1, ElementOfSeq
<1> QED  BY <1>1, <1>2 DEF Recs

LEMMA InitIndex ==
  ASSUME Init
  PROVE  IndexInv
<1>1. pc = "closed"
  BY DEF Init
<1> QED  BY <1>1 DEF IndexInv, Opened

LEMMA FaultsAreCounted ==
  ASSUME spent' \in SpentType, ~(Faults' > 0)
  PROVE  Faults' = 0
<1>1. spent'.append \in Nat /\ spent'.remove \in Nat /\ spent'.rename \in Nat
  BY DEF SpentType
<1> QED  BY <1>1 DEF Faults

(* Recovery moves files about, but what it would keep stays the same.      *)
LEMMA RecoverFiles ==
  ASSUME Typed, \/ Open \/ RecoverDropOld \/ RecoverRemoveActive \/ RecoverRestoreOld
                \/ RecoverDropMarker \/ ScanFails,
         NEW t \in SegIds
  PROVE  FileFor(active', old', marker', t) = FileFor(active, old, marker, t)
<1>1. active \in [SegIds -> File] /\ old \in [SegIds -> File]
  BY DEF Typed, FileTypes
<1>2. CASE Open \/ ScanFails
  BY <1>2 DEF Open, ScanFails, fileVars, FileFor
<1>3. CASE RecoverDropOld
  BY <1>3 DEF RecoverDropOld, FileFor
<1>4. CASE RecoverRemoveActive
  <2>1. PICK s \in SegIds : old[s].present /\ active' = [active EXCEPT ![s] = NoFile]
    BY <1>4 DEF RecoverRemoveActive, Present
  <2>2. marker # "done" /\ old' = old /\ marker' = marker
    BY <1>4 DEF RecoverRemoveActive
  <2>3. t # s => active'[t] = active[t]
    BY <1>1, <2>1
  <2> QED  BY <2>1, <2>2, <2>3 DEF FileFor
<1>5. CASE RecoverRestoreOld
  <2>1. PICK s \in SegIds : /\ old[s].present
                            /\ active' = [active EXCEPT ![s] = old[s]]
                            /\ old' = [old EXCEPT ![s] = NoFile]
    BY <1>5 DEF RecoverRestoreOld, Present
  <2>2. marker # "done" /\ marker' = marker
    BY <1>5 DEF RecoverRestoreOld
  <2>3. /\ active'[s] = old[s] /\ old'[s] = NoFile
        /\ t # s => active'[t] = active[t] /\ old'[t] = old[t]
    BY <1>1, <2>1
  <2> QED  BY <2>1, <2>2, <2>3, NoFileFacts DEF FileFor
<1>6. CASE RecoverDropMarker
  <2>1. Present(old) = {} /\ UNCHANGED <<active, old>>
    BY <1>6 DEF RecoverDropMarker
  <2> QED  BY <2>1 DEF FileFor, Present
<1> QED  BY <1>2, <1>3, <1>4, <1>5, <1>6

LEMMA RecoverChunks ==
  ASSUME Good, \/ Open \/ RecoverDropOld \/ RecoverRemoveActive \/ RecoverRestoreOld
               \/ RecoverDropMarker \/ ScanFails
  PROVE  Complete' /\ ChunkStep
<1>1. pc \in Shut /\ pc' \in Shut
  BY DEF Open, RecoverDropOld, RecoverRemoveActive, RecoverRestoreOld, RecoverDropMarker, ScanFails, Shut
<1>2. \A t \in SegIds : FileFor(active', old', marker', t) = FileFor(active, old, marker, t)
  BY GoodIsTyped, RecoverFiles
<1>3. /\ HeldIn(active', old', marker') = HeldIn(active, old, marker)
      /\ SyncedIn(active', old', marker') = SyncedIn(active, old, marker)
  BY <1>2, SameFiles
<1>4. ChunksStored' = ChunksStored /\ ChunksSynced' = ChunksSynced
  BY <1>1, <1>3, ChunksSeen, ChunksSeenPrimed
<1> QED  BY <1>1, <1>4, UnseenStep, CompleteWhenShut

(* The index that a scan builds has exactly the chunks in the files.       *)
LEMMA ScanChunks ==
  ASSUME Good, Scan
  PROVE  Complete' /\ ChunkStep
<1> DEFINE n == Newest(active)
           g == WithoutTornTail(active[n])
           b == BehindFragment(active[n])
<1>1. /\ pc = "scan" /\ pc' = "ready" /\ index' = ScannedIndex(active')
      /\ UNCHANGED <<old, marker>>
  BY DEF Scan
<1>2. Typed /\ old \in [SegIds -> File] /\ active \in [SegIds -> File]
      /\ \A s \in SegIds : FileOK(old[s])
  BY GoodIsTyped
<1>3. /\ n \in SegIds /\ n \in Present(active) /\ \A t \in Present(active) : t <= n
      /\ Recs(g) \subseteq Recs(active[n]) /\ Recs(active[n]) \subseteq Recs(g) \cup {Torn} \cup b
      /\ g = active[n] \/ AllDurable(g)
      /\ active'[n] = g /\ \A t \in SegIds : t # n => active'[t] = active[t]
      /\ active' \in [SegIds -> File] /\ \A t \in SegIds : FileOK(active'[t])
      /\ TornAt(active[n]) \subseteq {Len(active[n].recs)} => b = {}
      /\ kept' = kept \ b
  BY ScanFiles DEF Good
<1> HIDE DEF n, g, b
<1>a. b = {} /\ kept' = kept
  BY <1>3 DEF Good, Clean, FragmentsOK
<1>4. Present(old) = {}
  BY <1>1 DEF Good, BytesKept, BackupsOK
<1>5. \A s \in SegIds : FileFor(active', old', marker', s) = active'[s]
                        /\ FileFor(active, old, marker, s) = active[s]
  BY <1>1, <1>4 DEF FileFor, Present
<1>6. \A s \in SegIds : ChunksIn(active'[s]) = ChunksIn(active[s])
  BY <1>3, <1>a DEF ChunksIn, Recs
<1>7. HeldIn(active', old', marker') = HeldIn(active, old, marker)
  <2>1. \A s \in SegIds : ChunksIn(FileFor(active', old', marker', s)) =
                            ChunksIn(FileFor(active, old, marker, s))
    BY <1>5, <1>6
  <2> QED  BY <2>1 DEF HeldIn
<1>8. Indexed(index') = HeldIn(active', old', marker')
  <2>1. Located(index', active') /\ \A s \in SegIds : Recs(active'[s]) \cap Chunks \subseteq Indexed(index')
    BY <1>1, <1>3, ScannedFacts
  <2>2. Indexed(index') \subseteq HeldIn(active', old', marker')
    BY <1>5, <2>1, LocatedIsHeld
  <2>3. \A s \in SegIds : ChunksIn(active'[s]) \subseteq Recs(active'[s]) \cap Chunks
    <3>1. \A s \in SegIds : Recs(active'[s]) \subseteq Records
      BY <1>3, RecordsOfFile
    <3> QED  BY <3>1 DEF ChunksIn, Recs, Records
  <2>4. \A s \in SegIds : ChunksIn(FileFor(active', old', marker', s)) \subseteq Indexed(index')
    BY <1>5, <2>1, <2>3
  <2>5. HeldIn(active', old', marker') \subseteq Indexed(index')
    BY <2>4 DEF HeldIn
  <2> QED  BY <2>2, <2>5
<1>9. ChunksStored' = HeldIn(active', old', marker')
  BY <1>1, <1>8, ChunksSeenPrimed DEF Shut, Visible
<1>10. ChunksStored = HeldIn(active, old, marker)
  BY <1>1, ChunksSeen DEF Shut
<1>11. CASE g = active[n]
  <2>1. \A s \in SegIds : FileFor(active', old', marker', s) = FileFor(active, old, marker, s)
    BY <1>3, <1>5, <1>11
  <2>2. SyncedIn(active', old', marker') = SyncedIn(active, old, marker)
    BY <2>1, SameFiles
  <2>3. ChunkStep
    BY <1>7, <1>9, <1>10, <2>2, ChunksSeen, ChunksSeenPrimed, UnseenStep
  <2> QED  BY <1>1, <1>8, <2>3 DEF Complete, Visible, Staging, Swapped, Undoable
<1>12. CASE AllDurable(g)
  <2>1. ASSUME NEW s \in SegIds, s # n PROVE AllDurable(active'[s])
    <3>1. CASE active[s].present
      <4>1. s \in Present(active) /\ s <= n /\ s \in Nat /\ n \in Nat
        BY <1>3, <3>1 DEF Present, SegIds
      <4>2. ~(n <= s)
        BY <2>1, <4>1
      <4>3. AllDurable(active[s])
        BY <1>1, <1>3, <4>2, ShutBytesBefore DEF ShutBytes, Shut, Good
      <4> QED  BY <1>3, <2>1, <4>3
    <3>2. CASE ~active[s].present
      <4>1. active[s] = NoFile
        BY <1>2, <3>2 DEF Typed, FilesOK, FileOK
      <4> QED  BY <1>3, <2>1, <4>1, NoFileFacts
    <3> QED  BY <3>1, <3>2
  <2>2. \A s \in SegIds : AllDurable(active'[s]) /\ AllDurable(old'[s])
    BY <1>1, <1>3, <1>12, <2>1 DEF Good, BytesKept, TailsOK
  <2>3. SyncedIn(active', old', marker') = HeldIn(active', old', marker')
    BY <1>1, <1>2, <1>3, <2>2, SyncedIsHeld
  <2>4. ChunkStep
    BY <1>7, <1>9, <1>10, <2>3, ChunksSeenPrimed, SyncStep
  <2> QED  BY <1>1, <1>8, <2>4 DEF Complete, Visible, Staging, Swapped, Undoable
<1> QED  BY <1>3, <1>11, <1>12

LEMMA ScanNothingChunks ==
  ASSUME Good, ScanNothing
  PROVE  Complete' /\ ChunkStep
<1>1. /\ pc = "scan" /\ pc' = "header" /\ Present(active) = {}
      /\ active' = [active EXCEPT ![1] = Created] /\ UNCHANGED <<old, marker, index>>
  BY DEF ScanNothing
<1>2. Typed /\ index = NoIndex
  BY <1>1, GoodIsTyped DEF WriterOK, Shut
<1>3. Present(old) = {}
  BY <1>1 DEF Good, BytesKept, BackupsOK
<1>4. \A s \in SegIds : active[s] = NoFile /\ active'[s] \in {NoFile, Created}
  BY <1>1, <1>2, EmptyTypes DEF Typed, FileTypes, FilesOK, FileOK, Present
<1>5. \A s \in SegIds : FileFor(active', old', marker', s) = active'[s]
                        /\ FileFor(active, old, marker, s) = active[s]
  BY <1>1, <1>3 DEF FileFor, Present
<1>6. /\ HeldIn(active', old', marker') = HeldIn(active, old, marker)
      /\ SyncedIn(active', old', marker') = SyncedIn(active, old, marker)
  <2>1. \A s \in SegIds :
          /\ Recs(FileFor(active', old', marker', s)) = Recs(FileFor(active, old, marker, s))
          /\ DurableChunks(FileFor(active', old', marker', s)) =
               DurableChunks(FileFor(active, old, marker, s))
    BY <1>4, <1>5, NoFileFacts, CreatedFacts
  <2> QED  BY <2>1, HeldByFiles
<1>7. HeldIn(active, old, marker) = {}
  <2>1. \A s \in SegIds : ChunksIn(FileFor(active, old, marker, s)) = {}
    BY <1>4, <1>5, NoFileFacts DEF ChunksIn
  <2> QED  BY <2>1 DEF HeldIn
<1>8. Visible' = {}
  BY <1>1, <1>2, EmptyTypes DEF Visible
<1>9. Complete'
  BY <1>1, <1>6, <1>7 DEF Complete, Staging, Swapped, Undoable
<1>10. ChunksStored' = ChunksStored /\ ChunksSynced' = ChunksSynced
  BY <1>1, <1>6, <1>7, <1>8, ChunksSeen, ChunksSeenPrimed DEF Shut
<1> QED  BY <1>9, <1>10, UnseenStep

LEMMA InitChunks ==
  ASSUME Init
  PROVE  CompleteInv /\ Store!ChunkInit
<1>1. active = NoFiles /\ old = NoFiles /\ pc = "closed"
  BY DEF Init
<1>2. \A s \in SegIds : FileFor(active, old, marker, s) = NoFile
  BY <1>1, EmptyTypes DEF FileFor
<1>3. HeldIn(active, old, marker) = {} /\ SyncedIn(active, old, marker) = {}
  <2>1. \A s \in SegIds : /\ ChunksIn(FileFor(active, old, marker, s)) = {}
                          /\ DurableChunks(FileFor(active, old, marker, s)) = {}
    BY <1>2, NoFileFacts DEF ChunksIn
  <2> QED  BY <2>1 DEF HeldIn, SyncedIn, DurablesOf
<1>4. ChunksStored = {} /\ ChunksSynced = {}
  BY <1>1, <1>3, ChunksSeen DEF Shut
<1>5. Complete
  BY <1>1 DEF Complete, Shut, Staging, Swapped, Undoable
<1> QED  BY <1>4, <1>5 DEF Store!ChunkInit, CompleteInv

LEMMA NextChunks ==
  ASSUME WriteInv, IndexInv, ByteInv, CleanInv, CompleteInv, [Next]_vars, Faults' = 0
  PROVE  Complete' /\ ChunkStep
<1>1. spent \in SpentType
  BY TypeParts DEF WriteInv, MemoryTypes
<1>2. /\ spent' \in SpentType
      /\ spent'.append >= spent.append /\ spent'.rename >= spent.rename
      /\ spent'.remove >= spent.remove
  BY <1>1, SpentGrows
<1>3. spent'.append = 0 /\ spent'.remove = 0 /\ spent'.rename = 0
  BY <1>2, FaultFreePrimed
<1>4. spent.append = 0 /\ spent.remove = 0 /\ spent.rename = 0
  <2>1. spent.append \in Nat /\ spent.remove \in Nat /\ spent.rename \in Nat
    BY <1>1 DEF SpentType
  <2> QED  BY <1>2, <1>3, <2>1
<1>5. Clean /\ Complete
  BY <1>1, <1>4, FaultFree DEF CleanInv, CompleteInv
<1>6. Good
  <2>1. BytesKept
    BY <1>4, <1>5 DEF Clean, ByteInv
  <2> QED  BY <1>4, <1>5, <2>1 DEF Good
<1>7. WriteInv' /\ ByteInv' /\ CleanInv'
  BY NextWrite, NextBytes, NextClean
<1>8. BytesKept'
  BY <1>3, <1>7 DEF CleanInv, Clean, ByteInv
<1>9. ~AppendFails /\ ~SwapFails
  <2>1. ASSUME AppendFails \/ SwapFails PROVE FALSE
    <3>1. Spend("append") \/ Spend("rename")
      BY <2>1 DEF AppendFails, SwapFails, Fault
    <3>2. spent'.append = spent.append + 1 \/ spent'.rename = spent.rename + 1
      BY <1>1, <3>1, SpendFacts DEF Kinds
    <3> QED  BY <1>3, <1>4, <3>2
  <2> QED  BY <2>1
<1>10. CASE UNCHANGED vars
  <2>1. UNCHANGED <<active, old, marker, staged, index, newIndex, kept, pc>>
    BY <1>10 DEF vars, fileVars, stageVars
  <2>2. Visible' = Visible /\ NewFiles' = NewFiles
    BY <2>1 DEF Visible, NewFiles
  <2>3. Complete'
    BY <1>5, <2>1, <2>2 DEF Complete
  <2> QED  BY <2>1, <2>2, <2>3, QuietStep
<1>11. CASE WriteStep
  BY <1>6, <1>7, <1>9, <1>11, PutChunkChunks, RotateChunks, WriteHeaderChunks, AppendChunkChunks,
     SyncChunks
  DEF WriteStep
<1>12. CASE BeginCompact
  BY <1>6, <1>7, <1>12, BeginCompactChunks
<1>13. CASE CompactStep
  BY <1>6, <1>8, <1>9, <1>13, StagingChunks, RenameToOldChunks, FinishRenameChunks, MoveInChunks,
     BeforeMarkerChunks, WriteMarkerChunks, DropChunks, AttachChunks
  DEF CompactStep
<1>14. CASE Crash
  BY <1>6, <1>14, CrashChunks
<1>15. CASE RecoverStep
  BY <1>6, <1>15, RecoverChunks, ScanChunks, ScanNothingChunks DEF RecoverStep
<1> QED  BY <1>10, <1>11, <1>12, <1>13, <1>14, <1>15 DEF Next

(* As long as no I/O error joins the crashes, the segment store implements *)
(* ChunkStore for any number of chunks, segments, compactions and crashes: *)
(* a compaction takes effect at once when its marker is written and keeps  *)
(* exactly what it was asked to, a crash loses only what no fsync covers,  *)
(* and a scan indexes exactly the chunks the files hold                    *)
(* (compact_and_reclaim, recover_and_index).                               *)
THEOREM SegmentsImplementChunkStore == Spec => ImplementsChunkStore
<1> DEFINE Inv == WriteInv /\ IndexInv /\ ByteInv /\ CleanInv /\ CompleteInv
<1>1. Init => Inv /\ Store!ChunkInit
  BY InitWrite, InitBytes, InitClean, InitChunks, InitIndex
<1>2. Inv /\ [Next]_vars => Inv'
  <2>1. SUFFICES ASSUME Inv, [Next]_vars PROVE Inv'
    OBVIOUS
  <2>2. WriteInv' /\ IndexInv' /\ ByteInv' /\ CleanInv'
    BY <2>1, NextWrite, NextIndex, NextBytes, NextClean
  <2>3. CompleteInv'
    BY <2>1, NextChunks DEF CompleteInv
  <2> QED  BY <2>2, <2>3
<1>3. Inv /\ Inv' /\ [Next]_vars => [Faults' > 0 \/ Store!ChunkNext]_(Store!chunkVars)
  <2>1. SUFFICES ASSUME Inv, Inv', [Next]_vars, ~(Faults' > 0)
                 PROVE  [Faults' > 0 \/ Store!ChunkNext]_(Store!chunkVars)
    OBVIOUS
  <2>2. Faults' = 0
    <3>1. spent' \in SpentType
      BY <2>1, TypePartsPrimed DEF WriteInv, MemoryTypes
    <3> QED  BY <2>1, <3>1, FaultsAreCounted
  <2>3. ChunkStep
    BY <2>1, <2>2, NextChunks
  <2> QED  BY <2>3 DEF ChunkStep
<1> HIDE DEF Inv
<1> QED  BY <1>1, <1>2, <1>3, PTL DEF Spec, ImplementsChunkStore
===============================================================================
