---------------------------- MODULE WatcherProofs ----------------------------
(***************************************************************************)
(* Proofs about the directory watcher, for any directory and any number of *)
(* changes, clients, I/O errors, lost events, stops and kills.             *)
(*                                                                         *)
(* RemovalsAreSafe: a removal takes a name away only when the watcher      *)
(* itself had bound it and its file was missing after it was last read.    *)
(* The worker looks at the path in one step and changes the bindings in a  *)
(* later one, so what it saw has to be carried between the two             *)
(* (LookedAt).  That a file which is not there is known to be gone         *)
(* (GoneKnown) is false of a directory that nobody has changed yet: until  *)
(* then nothing may have been reported and every watched file must be      *)
(* there (Untouched).                                                      *)
(*                                                                         *)
(* WatcherTypeCorrect: what waits in the queues are known paths, names     *)
(* lead to objects.                                                        *)
(*                                                                         *)
(* HistoriesFollow: the object of a file that was only moved and changed   *)
(* is the one it had.  Between the change and the store stand the channel, *)
(* the halves that wait, and the queue of renames; the invariant says that *)
(* they lead from where the object is bound to where the file is: there is *)
(* a trail of places, a step for each rename of the queue (QueueLeads) and *)
(* for each notification of the channel (ChannelLeads).  A second half     *)
(* becomes the right rename because it finds the first one, whatever       *)
(* changes were reported between them (PairsMeet).  A rename that was      *)
(* applied but kept after a failed look at its target moves nothing any    *)
(* more (HeadApplied), and neither does one that was reported in halves    *)
(* and then whole: it stands right behind the first one in the queue, or   *)
(* that one has been applied and left no name at the old path (QueueTwins, *)
(* ChannelTwins).                                                          *)
(***************************************************************************)
EXTENDS Watcher, SequenceTheorems, FiniteSetTheorems, TLAPS

IsSequence(s) == \E S : s \in Seq(S)

Bound == {p \in Paths : names[p] # 0}

\* No object holds the mark of a missing file; what a scan may have to queue
\* is finite; the worker ingests a path.
Sound ==
  /\ \E S : NoFile \notin S /\ objects \in Seq(S)
  /\ names \in [Paths -> 0..Len(objects)]
  /\ pc \in {"ingest", "mark"} => path \in Paths
  /\ stage \in {"first", "loop", "manual"}
  /\ IsFiniteSet(tracked) /\ IsFiniteSet(Bound)
  /\ IsSequence(renames)

GoneKnown == \A p \in Paths : disk[p] = NoFile => p \in gone

Untouched ==
  /\ channel = << >> /\ froms = << >> /\ renames = << >>
  /\ \A p \in tracked : p \in Paths /\ disk[p] # NoFile
  /\ pc \in {"ingest", "mark"} => disk[path] # NoFile

\* What the worker saw when it took a removal from the queue.
LookedAt ==
  pc = "rename" =>
    /\ renames # << >>
    /\ Head(renames).to = Nowhere /\ Included(Head(renames).from) =>
         FilesUnder(Head(renames).from) \subseteq gone

RemovalInv == Sound /\ (GoneKnown \/ Untouched) /\ LookedAt

-----------------------------------------------------------------------------
(* Paths                                                                   *)

\* The components that paths are made of.
Parts == UNION {{n[i] : i \in DOMAIN n} : n \in Nodes}

LEMMA NodesAreSequences == Nodes \subseteq Seq(Parts)
BY PathAssumption DEF Parts

LEMMA PathIsUnderItself ==
  ASSUME NEW p \in Seq(Parts)
  PROVE  Under(p, p)
BY DEF Under, IsPrefix

(* p is under n when it goes on where n ends.                              *)
LEMMA UnderByParts ==
  ASSUME NEW p \in Seq(Parts), NEW n \in Seq(Parts)
  PROVE  Under(p, n) <=> Len(n) <= Len(p) /\ \A i \in 1..Len(n) : p[i] = n[i]
<1>1. CASE Len(n) <= Len(p)
  <2>1. SubSeq(n, 1, Len(n)) = n
    BY SubSeqFull
  <2>2. /\ SubSeq(p, 1, Len(n)) \in Seq(Parts) /\ Len(SubSeq(p, 1, Len(n))) = Len(n)
        /\ \A i \in 1..Len(n) : SubSeq(p, 1, Len(n))[i] = p[i]
    BY <1>1
  <2>3. SubSeq(p, 1, Len(n)) = n <=> \A i \in 1..Len(n) : p[i] = n[i]
    BY <2>2, SeqEqual
  <2> QED  BY <1>1, <2>1, <2>3 DEF Under, IsPrefix
<1>2. CASE ~(Len(n) <= Len(p))
  BY <1>2 DEF Under, IsPrefix
<1> QED  BY <1>1, <1>2

LEMMA UnderIsTransitive ==
  ASSUME NEW p \in Seq(Parts), NEW n \in Seq(Parts), NEW m \in Seq(Parts),
         Under(p, n), Under(n, m)
  PROVE  Under(p, m)
<1>1. Len(p) \in Nat /\ Len(n) \in Nat /\ Len(m) \in Nat
  OBVIOUS
<1>2. Len(n) <= Len(p) /\ \A i \in 1..Len(n) : p[i] = n[i]
  BY UnderByParts
<1>3. Len(m) <= Len(n) /\ \A i \in 1..Len(m) : n[i] = m[i]
  BY UnderByParts
<1>4. Len(m) <= Len(p) /\ \A i \in 1..Len(m) : p[i] = m[i]
  BY <1>1, <1>2, <1>3
<1> QED  BY <1>4, UnderByParts

(* Two directories of one path are not apart.                              *)
LEMMA UnderBothNotApart ==
  ASSUME NEW p \in Seq(Parts), NEW n \in Seq(Parts), NEW m \in Seq(Parts),
         Under(p, n), Under(p, m)
  PROVE  ~Apart(n, m)
<1>1. Len(p) \in Nat /\ Len(n) \in Nat /\ Len(m) \in Nat
  OBVIOUS
<1>2. \A i \in 1..Len(n) : p[i] = n[i]
  BY UnderByParts
<1>3. \A i \in 1..Len(m) : p[i] = m[i]
  BY UnderByParts
<1>4. CASE Len(m) <= Len(n)
  <2>1. \A i \in 1..Len(m) : n[i] = m[i]
    BY <1>1, <1>2, <1>3, <1>4
  <2> QED  BY <1>4, <2>1, UnderByParts DEF Apart
<1>5. CASE Len(n) <= Len(m)
  <2>1. \A i \in 1..Len(n) : m[i] = n[i]
    BY <1>1, <1>2, <1>3, <1>5
  <2> QED  BY <1>5, <2>1, UnderByParts DEF Apart
<1> QED  BY <1>1, <1>4, <1>5

(* What a move makes of a path below its source: the parts of the target,  *)
(* then the rest of the path.                                              *)
LEMMA MovedByParts ==
  ASSUME NEW p \in Seq(Parts), NEW n \in Seq(Parts), NEW m \in Seq(Parts), Under(p, n)
  PROVE  /\ Moved(p, n, m) \in Seq(Parts)
         /\ Len(Moved(p, n, m)) = Len(m) + Len(p) - Len(n)
         /\ \A i \in 1..Len(m) : Moved(p, n, m)[i] = m[i]
         /\ \A i \in 1..(Len(p) - Len(n)) : Moved(p, n, m)[Len(m) + i] = p[Len(n) + i]
<1> DEFINE k == Len(n)
           rest == SubSeq(p, k + 1, Len(p))
<1>1. k \in Nat /\ Len(p) \in Nat /\ k <= Len(p) /\ Len(m) \in Nat
  BY UnderByParts
<1>2. /\ rest \in Seq(Parts) /\ Len(rest) = Len(p) - k
      /\ \A i \in 1..(Len(p) - k) : rest[i] = p[k + i]
  <2> HIDE DEF k
  <2>1. \A i \in (k + 1)..Len(p) : p[i] \in Parts
    BY <1>1
  <2>2. rest \in Seq(Parts)
    BY <1>1, <2>1, SubSeqProperties
  <2>3. Len(rest) = Len(p) - k
    BY <1>1
  <2>4. \A i \in 1..(Len(p) - k) : rest[i] = p[k + i]
    BY <1>1
  <2> QED  BY <2>2, <2>3, <2>4
<1>3. Moved(p, n, m) = m \o rest
  BY DEF Moved
<1> HIDE DEF k, rest
<1>4. /\ m \o rest \in Seq(Parts) /\ Len(m \o rest) = Len(m) + Len(rest)
      /\ \A i \in 1..Len(m) : (m \o rest)[i] = m[i]
      /\ \A i \in 1..Len(rest) : (m \o rest)[Len(m) + i] = rest[i]
  <2>1. /\ m \o rest \in Seq(Parts) /\ Len(m \o rest) = Len(m) + Len(rest)
        /\ \A i \in 1..(Len(m) + Len(rest)) :
             (m \o rest)[i] = IF i <= Len(m) THEN m[i] ELSE rest[i - Len(m)]
    BY <1>2, ConcatProperties
  <2>2. ASSUME NEW i \in 1..Len(rest) PROVE (m \o rest)[Len(m) + i] = rest[i]
    <3>1. Len(rest) \in Nat
      BY <1>2
    <3>2. /\ Len(m) + i \in 1..(Len(m) + Len(rest)) /\ ~(Len(m) + i <= Len(m))
          /\ (Len(m) + i) - Len(m) = i
      BY <1>1, <3>1
    <3> QED  BY <2>1, <3>2
  <2>3. \A i \in 1..Len(m) : (m \o rest)[i] = m[i]
    <3>1. Len(rest) \in Nat
      BY <1>2
    <3> QED  BY <1>1, <2>1, <3>1
  <2> QED  BY <2>1, <2>2, <2>3
<1> QED  BY <1>1, <1>2, <1>3, <1>4 DEF k

LEMMA MovedIsUnder ==
  ASSUME NEW p \in Seq(Parts), NEW n \in Seq(Parts), NEW m \in Seq(Parts), Under(p, n)
  PROVE  Moved(p, n, m) \in Seq(Parts) /\ Under(Moved(p, n, m), m)
<1>1. Len(p) \in Nat /\ Len(n) \in Nat /\ Len(m) \in Nat /\ Len(n) <= Len(p)
  BY UnderByParts
<1>2. /\ Moved(p, n, m) \in Seq(Parts)
      /\ Len(Moved(p, n, m)) = Len(m) + Len(p) - Len(n)
      /\ \A i \in 1..Len(m) : Moved(p, n, m)[i] = m[i]
  BY MovedByParts
<1>3. Len(m) <= Len(Moved(p, n, m))
  BY <1>1, <1>2
<1> QED  BY <1>2, <1>3, UnderByParts

(* A move back undoes a move.                                              *)
LEMMA MovedBack ==
  ASSUME NEW p \in Seq(Parts), NEW n \in Seq(Parts), NEW m \in Seq(Parts), Under(p, n)
  PROVE  Moved(Moved(p, n, m), m, n) = p
<1> DEFINE q == Moved(p, n, m)
           b == Moved(q, m, n)
<1>1. Len(p) \in Nat /\ Len(n) \in Nat /\ Len(m) \in Nat /\ Len(n) <= Len(p)
  BY UnderByParts
<1>2. q \in Seq(Parts) /\ Under(q, m)
  BY MovedIsUnder
<1>3. /\ Len(q) = Len(m) + Len(p) - Len(n)
      /\ \A i \in 1..(Len(p) - Len(n)) : q[Len(m) + i] = p[Len(n) + i]
  BY MovedByParts
<1> HIDE DEF q
<1>4. /\ b \in Seq(Parts) /\ Len(b) = Len(n) + Len(q) - Len(m)
      /\ \A i \in 1..Len(n) : b[i] = n[i]
      /\ \A i \in 1..(Len(q) - Len(m)) : b[Len(n) + i] = q[Len(m) + i]
  BY ZenonT(30), <1>2, MovedByParts
<1> HIDE DEF b
<1>5. Len(b) = Len(p)
  BY <1>1, <1>3, <1>4
<1>6. \A i \in 1..Len(n) : b[i] = p[i]
  BY <1>4, UnderByParts
<1>7. \A i \in 1..(Len(p) - Len(n)) : b[Len(n) + i] = p[Len(n) + i]
  <2>1. Len(q) - Len(m) = Len(p) - Len(n)
    BY <1>1, <1>3
  <2>2. \A i \in 1..(Len(p) - Len(n)) : b[Len(n) + i] = q[Len(m) + i]
    BY <1>4, <2>1
  <2> QED  BY <1>3, <2>2
<1>8. ASSUME NEW i \in 1..Len(p) PROVE b[i] = p[i]
  <2>1. CASE i <= Len(n)
    BY <1>1, <1>6, <2>1
  <2>2. CASE i > Len(n)
    <3>1. i - Len(n) \in 1..(Len(p) - Len(n)) /\ Len(n) + (i - Len(n)) = i
      BY <1>1, <2>2
    <3> QED  BY <1>7, <3>1
  <2> QED  BY <1>1, <2>1, <2>2
<1>9. b = p
  BY <1>4, <1>5, <1>8, SeqEqual
<1> QED  BY <1>9 DEF b, q
-----------------------------------------------------------------------------
(* Sequences and finite sets                                               *)

(* Appending to a queue that is not empty leaves its head alone.           *)
LEMMA AppendKeepsHead ==
  ASSUME NEW s, NEW x, IsSequence(s)
  PROVE  /\ IsSequence(Append(s, x)) /\ Append(s, x) # << >>
         /\ s # << >> => Head(Append(s, x)) = Head(s)
<1>1. PICK S : s \in Seq(S)
  BY DEF IsSequence
<1> DEFINE T == S \cup {x}
<1>2. s \in Seq(T) /\ x \in T
  BY <1>1
<1> HIDE DEF T
<1>3. Append(s, x) \in Seq(T) /\ Append(s, x) # << >>
  BY <1>2, AppendProperties
<1>4. s # << >> => Head(Append(s, x)) = Head(s)
  BY <1>2, HeadTailAppend
<1> QED  BY <1>3, <1>4 DEF IsSequence

LEMMA TailIsSequence ==
  ASSUME NEW s, IsSequence(s), s # << >>
  PROVE  IsSequence(Tail(s))
<1>1. PICK S : s \in Seq(S)
  BY DEF IsSequence
<1>2. Tail(s) \in Seq(S)
  BY <1>1, HeadTailProperties
<1> QED  BY <1>2 DEF IsSequence

LEMMA EmptyIsSequence == IsSequence(<< >>)
<1>1. << >> \in Seq({})
  BY EmptySeq
<1> QED  BY <1>1 DEF IsSequence

\* The queue a scan makes of the files it misses.
RemovalsOf(M) == [i \in 1..Cardinality(M) |-> Removal(SetToSeq(M)[i])]

(* The removals a scan queues are a queue, and there are none when nothing *)
(* is missing.                                                             *)
LEMMA SweepQueue ==
  ASSUME NEW M, IsFiniteSet(M)
  PROVE  IsSequence(RemovalsOf(M)) /\ (M = {} => RemovalsOf(M) = << >>)
<1> DEFINE n == Cardinality(M)
           f == [i \in 1..n |-> Removal(SetToSeq(M)[i])]
           S == {f[i] : i \in 1..n}
<1>1. n \in Nat /\ (M = {} => n = 0)
  BY FS_CardinalityType, FS_EmptySet
<1>2. RemovalsOf(M) = f
  BY DEF RemovalsOf
<1> HIDE DEF n
<1>3. f \in Seq(S)
  <2>1. \A i \in 1..n : f[i] \in S
    BY DEF S
  <2>2. f = [i \in 1..n |-> f[i]]
    OBVIOUS
  <2> HIDE DEF f, S
  <2> QED  BY <1>1, <2>1, <2>2, IsASeq
<1>4. n = 0 => f = << >>
  <2>1. n = 0 => DOMAIN f = {}
    OBVIOUS
  <2>2. Len(f) = 0 => f = << >>
    <3> HIDE DEF f, S
    <3> QED  BY <1>3, EmptySeq
  <2> QED  BY <1>3, <2>1, <2>2
<1> QED  BY <1>1, <1>2, <1>3, <1>4 DEF IsSequence

(* A renamed subtree has finitely many names.                              *)
LEMMA TargetsFinite ==
  ASSUME NEW r, IsFiniteSet(Bound)
  PROVE  IsFiniteSet(Affected(r)) /\ IsFiniteSet(Targets(r))
<1>1. Affected(r) \in SUBSET Bound
  BY DEF Affected, Bound, FilesUnder
<1>2. IsFiniteSet(Affected(r))
  BY <1>1, FS_Subset
<1> DEFINE A == Affected(r)
           T == {Target(p, r) : p \in A}
           f == [p \in A |-> Target(p, r)]
<1>3. f \in Surjection(A, T)
  <2> HIDE DEF A
  <2> QED  BY DEF Surjection
<1>4. IsFiniteSet(T)
  <2> HIDE DEF f, T
  <2> QED  BY <1>2, <1>3, FS_Surjection
<1>5. Targets(r) \in SUBSET T
  BY DEF Targets
<1>6. IsFiniteSet(Targets(r))
  <2> HIDE DEF T
  <2> QED  BY <1>4, <1>5, FS_Subset
<1> QED  BY <1>2, <1>6
-----------------------------------------------------------------------------
(* Steps that change neither the directory nor the store                   *)

QueuesStay ==
  /\ channel = << >> => channel' = << >>
  /\ channel = << >> /\ froms = << >> => froms' = << >>
  /\ Untouched => renames' = << >>
  /\ IsSequence(renames')

\* The worker goes where nothing is claimed, or stays where it is.
WorkerStays ==
  /\ stage' \in {"first", "loop", "manual"}
  /\ \/ pc' \notin {"ingest", "mark", "rename"}
     \/ pc' = pc /\ path' = path /\ (pc = "rename" /\ renames # << >> =>
          renames' # << >> /\ Head(renames') = Head(renames))

LEMMA QuietStep ==
  ASSUME RemovalInv, QueuesStay, WorkerStays,
         disk' = disk, names' = names, objects' = objects, tracked' = tracked,
         gone' = gone
  PROVE  RemovalInv'
<1>1. Sound'
  <2>1. \E S : NoFile \notin S /\ objects' \in Seq(S)
    BY DEF RemovalInv, Sound
  <2>2. names' \in [Paths -> 0..Len(objects')]
    BY DEF RemovalInv, Sound
  <2>3. (pc' \in {"ingest", "mark"} => path' \in Paths) /\ stage' \in {"first", "loop", "manual"}
    BY DEF RemovalInv, Sound, WorkerStays
  <2>4. Bound' = Bound
    BY DEF Bound
  <2> QED  BY <2>1, <2>2, <2>3, <2>4 DEF RemovalInv, Sound, QueuesStay
<1>2. (GoneKnown \/ Untouched)'
  <2>1. GoneKnown => GoneKnown'
    BY DEF GoneKnown
  <2>2. Untouched => Untouched'
    BY DEF Untouched, QueuesStay, WorkerStays
  <2> QED  BY <2>1, <2>2 DEF RemovalInv
<1>3. LookedAt'
  <2>1. CASE pc' # "rename"
    BY <2>1 DEF LookedAt
  <2>2. CASE pc' = "rename"
    <3>1. /\ pc = "rename" /\ renames # << >>
          /\ renames' # << >> /\ Head(renames') = Head(renames)
      BY <2>2 DEF WorkerStays, RemovalInv, LookedAt
    <3> QED  BY <3>1 DEF RemovalInv, LookedAt
  <2> QED  BY <2>1, <2>2
<1> QED  BY <1>1, <1>2, <1>3 DEF RemovalInv

(* The event thread: whatever it receives was sent after a change.         *)
LEMMA ReceiveQuiet ==
  ASSUME RemovalInv, EventThread
  PROVE  RemovalInv'
<1>1. channel # << >> /\ UNCHANGED <<disk, storeVars, workVars, gone>>
  BY DEF EventThread, ReceiveChange, ReceiveRemove, ReceiveBoth, ReceiveFrom,
         ReceiveTo, ReceiveLost, Receive
<1>2. renames' = renames \/ \E x : renames' = Append(renames, x)
  BY DEF EventThread, ReceiveChange, ReceiveRemove, ReceiveBoth, ReceiveFrom,
         ReceiveTo, ReceiveLost, Conclude, pendVars
<1>3. IsSequence(renames)
  BY DEF RemovalInv, Sound
<1>4. /\ IsSequence(renames')
      /\ renames # << >> => renames' # << >> /\ Head(renames') = Head(renames)
  BY <1>2, <1>3, AppendKeepsHead
<1>5. QueuesStay
  BY <1>1, <1>4 DEF QueuesStay, Untouched
<1>6. WorkerStays
  BY <1>1, <1>4 DEF WorkerStays, workVars, RemovalInv, Sound
<1> QED  BY <1>1, <1>5, <1>6, QuietStep DEF storeVars

(* A rename half expires only if there is one.                             *)
LEMMA ExpireQuiet ==
  ASSUME RemovalInv, NEW i, ExpireRename(i), i \in 1..Len(froms)
  PROVE  RemovalInv'
<1>1. /\ UNCHANGED <<dirVars, updates, moved, statVars, storeVars, workVars, gone>>
      /\ i \in DOMAIN froms
      /\ renames' = Append(renames, Removal(froms[i].path))
  BY DEF ExpireRename, Conclude
<1>2. froms # << >>
  BY <1>1
<1>3. IsSequence(renames)
  BY DEF RemovalInv, Sound
<1>4. /\ IsSequence(renames')
      /\ renames # << >> => renames' # << >> /\ Head(renames') = Head(renames)
  BY <1>1, <1>3, AppendKeepsHead
<1>5. QueuesStay
  BY <1>1, <1>2, <1>4 DEF QueuesStay, Untouched, dirVars
<1>6. WorkerStays
  BY <1>1, <1>4 DEF WorkerStays, workVars, RemovalInv, Sound
<1> QED  BY <1>1, <1>5, <1>6, QuietStep DEF storeVars, dirVars

(* Start, stop, manual scan and kill forget what is pending, or keep it.   *)
LEMMA ServiceQuiet ==
  ASSUME RemovalInv, LoseEvents \/ Start \/ Stop \/ ManualScan \/ Kill
  PROVE  RemovalInv'
<1>1. disk' = disk /\ UNCHANGED storeVars /\ gone' = gone
  BY DEF LoseEvents, Start, Stop, ManualScan, Kill, dirVars, histVars
<1>2. /\ channel = << >> => channel' = << >>
      /\ froms' \in {froms, << >>} /\ renames' \in {renames, << >>}
      /\ renames' = renames \/ pc' \in {"off", "renames"}
  BY DEF LoseEvents, Start, Stop, ManualScan, Kill, dirVars, pendVars, NewWorker
<1>3. /\ pc' \in {"off", "renames"} \/ (pc' = pc /\ path' = path)
      /\ stage' \in {stage, "first", "manual"}
  BY DEF LoseEvents, Start, Stop, ManualScan, Kill, workVars, NewWorker
<1>4. QueuesStay
  BY <1>2, EmptyIsSequence DEF QueuesStay, Untouched, RemovalInv, Sound
<1>5. WorkerStays
  BY <1>2, <1>3 DEF WorkerStays, RemovalInv, Sound
<1> QED  BY <1>1, <1>4, <1>5, QuietStep DEF storeVars

(* Steps of the worker that leave the queue of renames alone and end       *)
(* outside an ingest and a removal.                                        *)
LEMMA WorkerQuiet ==
  ASSUME RemovalInv, UNCHANGED <<disk, channel, froms, renames, names, objects, tracked, gone>>,
         pc' \notin {"ingest", "mark", "rename"}, stage' \in {"first", "loop", "manual"}
  PROVE  RemovalInv'
<1>1. QueuesStay
  BY DEF QueuesStay, Untouched, RemovalInv, Sound
<1>2. WorkerStays
  BY DEF WorkerStays
<1> QED  BY <1>1, <1>2, QuietStep
-----------------------------------------------------------------------------
(* The worker outside the store                                            *)

LEMMA ScanReturnsTo ==
  ASSUME Sound, NEW ok, NEW errs, ScanReturns(ok, errs)
  PROVE  pc' \in {"renames", "updates", "off"} /\ stage' \in {"first", "loop", "manual"}
BY DEF ScanReturns, Sound

LEMMA RenamesFailTo ==
  ASSUME Sound, NEW errs, RenamesFail(errs)
  PROVE  pc' \in {"renames", "updates", "off", "scan", "decide"}
         /\ stage' \in {"first", "loop", "manual"}
<1>1. CASE scanning /\ ScanReturns(FALSE, errs \cup {Alert("scan")})
  BY <1>1, ScanReturnsTo
<1>2. CASE ~scanning /\ Goto(CASE stage = "first" -> "scan" [] stage = "loop" -> "decide"
                               [] stage = "manual" -> "off")
  BY <1>2 DEF Goto, Sound
<1> QED  BY <1>1, <1>2 DEF RenamesFail

LEMMA IdleSteps ==
  ASSUME RemovalInv,
         \/ WorkerStops \/ RenamesDone \/ RenameFails \/ FileCooling \/ FileVanished
         \/ \E busy \in BOOLEAN : FileUnreadable(busy)
         \/ SkipScan \/ StartScan \/ FinishWork \/ EndWalkFailed \/ EndWalkMoved
  PROVE  RemovalInv'
<1> USE DEF dirVars, pendVars, statVars, storeVars, histVars, walkVars
<1>1. Sound
  BY DEF RemovalInv
<1> DEFINE Idle == /\ UNCHANGED <<disk, channel, froms, renames, names, objects, tracked, gone>>
                   /\ pc' \notin {"ingest", "mark", "rename"}
                   /\ stage' \in {"first", "loop", "manual"}
<1>2. WorkerStops => Idle
  BY <1>1 DEF WorkerStops, Sound
<1>3. RenamesDone => Idle
  <2> SUFFICES ASSUME RenamesDone PROVE Idle
    OBVIOUS
  <2>1. UNCHANGED <<disk, channel, froms, renames, names, objects, tracked, gone>>
    BY DEF RenamesDone
  <2>2. CASE ScanReturns(TRUE, errors)
    BY <1>1, <2>1, <2>2, ScanReturnsTo
  <2>3. CASE Goto(CASE stage = "first" -> "scan" [] stage = "loop" -> "decide"
                    [] stage = "manual" -> "updates")
    BY <1>1, <2>1, <2>3 DEF Goto, Sound
  <2> QED  BY <2>2, <2>3 DEF RenamesDone
<1>4. RenameFails => Idle
  <2> SUFFICES ASSUME RenameFails PROVE Idle
    OBVIOUS
  <2>1. UNCHANGED <<disk, channel, froms, renames, names, objects, tracked, gone>>
    BY DEF RenameFails
  <2>2. RenamesFail(errors)
    BY DEF RenameFails
  <2> QED  BY <1>1, <2>1, <2>2, RenamesFailTo
<1>5. FileCooling => Idle
  BY <1>1 DEF FileCooling, IngestReturns, Goto, Sound
<1>6. ASSUME NEW busy, IngestFails(busy) PROVE Idle
  BY <1>1, <1>6 DEF IngestFails, Sound
<1>7. FileVanished => Idle
  BY <1>6 DEF FileVanished
<1>8. (\E busy \in BOOLEAN : FileUnreadable(busy)) => Idle
  BY <1>6 DEF FileUnreadable
<1>9. SkipScan \/ StartScan \/ FinishWork => Idle
  BY <1>1 DEF SkipScan, StartScan, FinishWork, Goto, Sound
<1>10. EndWalkFailed => Idle
  <2> SUFFICES ASSUME EndWalkFailed PROVE Idle
    OBVIOUS
  <2>1. UNCHANGED <<disk, channel, froms, renames, names, objects, tracked, gone>>
    BY DEF EndWalkFailed
  <2>2. \E errs : ScanReturns(FALSE, errs)
    BY DEF EndWalkFailed
  <2> QED  BY <1>1, <2>1, <2>2, ScanReturnsTo
<1>11. EndWalkMoved => Idle
  <2> SUFFICES ASSUME EndWalkMoved PROVE Idle
    OBVIOUS
  <2>1. UNCHANGED <<disk, channel, froms, renames, names, objects, tracked, gone>>
    BY DEF EndWalkMoved
  <2>2. ScanReturns(TRUE, errors)
    BY DEF EndWalkMoved
  <2> QED  BY <1>1, <2>1, <2>2, ScanReturnsTo
<1>12. Idle
  <2> HIDE DEF Idle
  <2> QED  BY <1>2, <1>3, <1>4, <1>5, <1>7, <1>8, <1>9, <1>10, <1>11
<1> QED  BY <1>12, WorkerQuiet

(* A file that turned up again is only looked at later.                    *)
LEMMA StillThereStep ==
  ASSUME RemovalInv, RenameStillThere
  PROVE  RemovalInv'
<1>1. /\ UNCHANGED <<disk, channel, froms, names, objects, tracked, gone, pc, path, stage>>
      /\ pc = "renames" /\ renames # << >> /\ renames' = Tail(renames)
  BY DEF RenameStillThere, dirVars, storeVars, histVars
<1>2. IsSequence(renames')
  BY <1>1, TailIsSequence DEF RemovalInv, Sound
<1>3. QueuesStay
  BY <1>1, <1>2 DEF QueuesStay, Untouched
<1>4. WorkerStays
  BY <1>1 DEF WorkerStays, RemovalInv, Sound
<1> QED  BY <1>1, <1>3, <1>4, QuietStep

(* A scan queues the removal of finitely many files, and of none that is   *)
(* there.                                                                  *)
LEMMA SweepStep ==
  ASSUME RemovalInv, Sweep
  PROVE  RemovalInv'
<1>1. /\ UNCHANGED <<disk, channel, froms, names, objects, tracked, gone, stage>>
      /\ pc' = "renames"
      /\ renames' = RemovalsOf(Missing)
  BY DEF Sweep, Goto, RemovalsOf, dirVars, storeVars
<1>2. IsFiniteSet(Missing)
  <2>1. Missing \in SUBSET tracked
    BY DEF Missing
  <2>2. IsFiniteSet(tracked)
    BY DEF RemovalInv, Sound
  <2> QED  BY <2>1, <2>2, FS_Subset
<1>3. IsSequence(renames') /\ (Missing = {} => renames' = << >>)
  BY <1>1, <1>2, SweepQueue
<1>4. Untouched => Missing = {}
  <2>1. \A p \in Paths : Under(p, p)
    BY NodesAreSequences, PathIsUnderItself DEF Nodes
  <2> QED  BY <2>1 DEF Untouched, Missing, Exists, FilesUnder
<1>5. QueuesStay
  BY <1>1, <1>3, <1>4 DEF QueuesStay, Untouched
<1>6. WorkerStays
  BY <1>1 DEF WorkerStays, RemovalInv, Sound
<1> QED  BY <1>1, <1>5, <1>6, QuietStep

(* The worker turns to a file that is there.                               *)
LEMMA TurnToFile ==
  ASSUME RemovalInv, NEW p \in Paths, disk[p] # NoFile,
         UNCHANGED <<disk, channel, froms, renames, names, objects, tracked, gone, stage>>,
         pc' = "ingest", path' = p
  PROVE  RemovalInv'
<1>1. Sound'
  <2>1. Bound' = Bound
    BY DEF Bound
  <2> QED  BY <2>1 DEF RemovalInv, Sound
<1>2. (GoneKnown \/ Untouched)'
  BY DEF RemovalInv, GoneKnown, Untouched
<1> QED  BY <1>1, <1>2 DEF RemovalInv, LookedAt

LEMMA WalkStep ==
  ASSUME RemovalInv, NEW p \in Paths,
         VisitNothing(p) \/ VisitBlocked(p) \/ VisitFile(p) \/ VisitUnreadable(p)
  PROVE  RemovalInv'
<1>1. UNCHANGED <<disk, channel, froms, renames, names, objects, tracked, gone, stage>>
      /\ pc = "walk"
  BY DEF VisitNothing, VisitBlocked, VisitFile, VisitUnreadable, Step, dirVars, storeVars,
         histVars
<1>2. CASE VisitFile(p)
  BY <1>1, <1>2, TurnToFile DEF VisitFile
<1>3. CASE VisitNothing(p) \/ VisitBlocked(p) \/ VisitUnreadable(p)
  <2>1. pc' = pc /\ stage \in {"first", "loop", "manual"}
    BY <1>3 DEF VisitNothing, VisitBlocked, VisitUnreadable, RemovalInv, Sound
  <2> QED  BY <1>1, <2>1, WorkerQuiet
<1> QED  BY <1>2, <1>3

LEMMA UpdateStep ==
  ASSUME RemovalInv, NEW u \in Nodes, PickUpdate(u)
  PROVE  RemovalInv'
<1>1. UNCHANGED <<disk, channel, froms, renames, names, objects, tracked, gone, stage>>
      /\ pc = "updates"
  BY DEF PickUpdate, dirVars, storeVars, histVars
<1>2. CASE u \in Paths /\ disk[u] # NoFile /\ pc' = "ingest" /\ path' = u
  BY <1>1, <1>2, TurnToFile
<1>3. CASE pc' = pc
  <2>1. stage \in {"first", "loop", "manual"}
    BY DEF RemovalInv, Sound
  <2> QED  BY <1>1, <1>3, <2>1, WorkerQuiet
<1> QED  BY <1>2, <1>3 DEF PickUpdate
-----------------------------------------------------------------------------
(* The directory and the store change                                      *)

(* After a change of the directory every missing file is known to be gone. *)
LEMMA DiskStep ==
  ASSUME RemovalInv, NEW d, SetDisk(d)
  PROVE  RemovalInv'
<1>1. /\ UNCHANGED <<renames, names, objects, tracked, pc, path, stage>>
      /\ disk' = d /\ gone' = gone \cup {p \in Paths : d[p] = NoFile}
  BY DEF SetDisk, pendVars, storeVars, workVars
<1>2. Sound'
  <2>1. Bound' = Bound
    BY <1>1 DEF Bound
  <2> QED  BY <1>1, <2>1 DEF RemovalInv, Sound
<1>3. GoneKnown'
  BY <1>1 DEF GoneKnown
<1>4. LookedAt'
  BY <1>1 DEF RemovalInv, LookedAt
<1> QED  BY <1>2, <1>3, <1>4 DEF RemovalInv

(* A put gives its name to the object it writes.                           *)
LEMMA PutSound ==
  ASSUME Sound, NEW p \in Paths, NEW c, c # NoFile, PutNamed(p, c)
  PROVE  /\ \E S : NoFile \notin S /\ objects' \in Seq(S)
         /\ names' \in [Paths -> 0..Len(objects')]
         /\ IsFiniteSet(Bound')
<1>1. PICK S : NoFile \notin S /\ objects \in Seq(S)
  BY DEF Sound
<1> DEFINE T == S \cup {c}
<1>2. NoFile \notin T /\ objects \in Seq(T) /\ c \in T /\ Len(objects) \in Nat
  BY <1>1
<1> HIDE DEF T
<1>3. names \in [Paths -> 0..Len(objects)] /\ IsFiniteSet(Bound)
  BY DEF Sound
<1>4. CASE names[p] # 0
  <2>1. objects' = [objects EXCEPT ![names[p]] = c] /\ names' = names
    BY <1>4 DEF PutNamed
  <2>2. names[p] \in 1..Len(objects)
    BY <1>2, <1>3, <1>4
  <2>3. objects' \in Seq(T) /\ Len(objects') = Len(objects)
    BY <1>2, <2>1, <2>2, ExceptSeq
  <2>4. Bound' = Bound
    BY <2>1 DEF Bound
  <2> QED  BY <1>2, <1>3, <2>1, <2>3, <2>4
<1>5. CASE names[p] = 0
  <2>1. objects' = Append(objects, c) /\ names' = [names EXCEPT ![p] = Len(objects) + 1]
    BY <1>5 DEF PutNamed
  <2>2. objects' \in Seq(T) /\ Len(objects') = Len(objects) + 1
    BY <1>2, <2>1, AppendProperties
  <2>3. names' \in [Paths -> 0..Len(objects')]
    BY <1>2, <1>3, <2>1, <2>2
  <2>4. Bound' = Bound \cup {p}
    BY <1>2, <1>3, <2>1 DEF Bound
  <2>5. IsFiniteSet(Bound')
    BY <1>3, <2>4, FS_AddElement
  <2> QED  BY <1>2, <2>2, <2>3, <2>5
<1> QED  BY <1>4, <1>5

LEMMA ClientStep ==
  ASSUME RemovalInv,
         \/ \E p \in Paths, c \in Contents : ClientPut(p, c)
         \/ \E p \in Paths : ClientUnbind(p)
  PROVE  RemovalInv'
<1>1. UNCHANGED <<disk, channel, renames, froms, tracked, pc, path, stage, gone>>
  BY DEF ClientPut, ClientUnbind, dirVars, pendVars, workVars
<1>2. /\ \E S : NoFile \notin S /\ objects' \in Seq(S)
      /\ names' \in [Paths -> 0..Len(objects')]
      /\ IsFiniteSet(Bound')
  <2>1. CASE \E p \in Paths, c \in Contents : ClientPut(p, c)
    <3>1. PICK p \in Paths, c \in Contents : PutNamed(p, c)
      BY <2>1 DEF ClientPut
    <3>2. c # NoFile
      BY PathAssumption
    <3> QED  BY <3>1, <3>2, PutSound DEF RemovalInv
  <2>2. CASE \E p \in Paths : ClientUnbind(p)
    <3>1. PICK p \in Paths : names' = [names EXCEPT ![p] = 0] /\ objects' = objects
      BY <2>2 DEF ClientUnbind
    <3>2. /\ \E S : NoFile \notin S /\ objects \in Seq(S)
          /\ names \in [Paths -> 0..Len(objects)] /\ IsFiniteSet(Bound)
      BY DEF RemovalInv, Sound
    <3>3. Len(objects) \in Nat
      BY <3>2
    <3>4. names' \in [Paths -> 0..Len(objects')]
      BY <3>1, <3>2, <3>3
    <3>5. Bound' \in SUBSET Bound
      BY <3>1, <3>2 DEF Bound
    <3>6. IsFiniteSet(Bound')
      BY <3>2, <3>5, FS_Subset
    <3> QED  BY <3>1, <3>2, <3>4, <3>6
  <2> QED  BY <2>1, <2>2
<1>3. Sound'
  BY <1>1, <1>2 DEF RemovalInv, Sound
<1>4. (GoneKnown \/ Untouched)'
  BY <1>1 DEF RemovalInv, GoneKnown, Untouched
<1>5. LookedAt'
  BY <1>1 DEF RemovalInv, LookedAt
<1> QED  BY <1>3, <1>4, <1>5 DEF RemovalInv

(* An ingest reads a file that is there.                                   *)
LEMMA IngestStep ==
  ASSUME RemovalInv, FileUnchanged \/ PutFile \/ FinishIngest
  PROVE  RemovalInv'
<1>1. /\ UNCHANGED <<disk, channel, renames, froms, stage>>
      /\ pc \in {"ingest", "mark"} /\ pc' \in {"walk", "updates", "mark"}
      /\ pc' = "mark" => path' = path
  BY DEF FileUnchanged, PutFile, FinishIngest, IngestReturns, Goto, dirVars, pendVars
<1>2. path \in Paths
  BY <1>1 DEF RemovalInv, Sound
<1>3. pc = "ingest" => disk[path] # NoFile
  <2>1. Unchanged(path) => disk[path] # NoFile
    <3> SUFFICES ASSUME Unchanged(path) PROVE disk[path] # NoFile
      OBVIOUS
    <3>1. PICK S : NoFile \notin S /\ objects \in Seq(S)
      BY DEF RemovalInv, Sound
    <3>2. names[path] \in 1..Len(objects) /\ objects[names[path]] = disk[path]
      BY <1>2, <3>1 DEF Unchanged, RemovalInv, Sound
    <3> QED  BY <3>1, <3>2
  <2> QED  BY <2>1 DEF FileUnchanged, PutFile, FinishIngest
<1>4. gone' = gone \/ (gone' = gone \ {path} /\ pc = "ingest")
  BY DEF FileUnchanged, PutFile, FinishIngest, histVars
<1>5. tracked' \in {tracked, tracked \cup {path}}
  BY DEF FileUnchanged, PutFile, FinishIngest, MarkFile
<1>6. Sound'
  <2>1. IsFiniteSet(tracked')
    <3>1. IsFiniteSet(tracked)
      BY DEF RemovalInv, Sound
    <3> QED  BY <1>5, <3>1, FS_AddElement
  <2>2. /\ \E S : NoFile \notin S /\ objects' \in Seq(S)
        /\ names' \in [Paths -> 0..Len(objects')]
        /\ IsFiniteSet(Bound')
    <3>1. CASE PutFile
      BY <1>2, <3>1, PutSound DEF PutFile, RemovalInv
    <3>2. CASE names' = names /\ objects' = objects
      <4>1. Bound' = Bound
        BY <3>2 DEF Bound
      <4> QED  BY <3>2, <4>1 DEF RemovalInv, Sound
    <3> QED  BY <3>1, <3>2 DEF FileUnchanged, FinishIngest
  <2> QED  BY <1>1, <1>2, <2>1, <2>2 DEF RemovalInv, Sound
<1>7. (GoneKnown \/ Untouched)'
  <2>1. GoneKnown => GoneKnown'
    BY <1>1, <1>3, <1>4 DEF GoneKnown
  <2>2. Untouched => Untouched'
    BY <1>1, <1>2, <1>3, <1>5 DEF Untouched
  <2> QED  BY <2>1, <2>2 DEF RemovalInv
<1>8. LookedAt'
  BY <1>1 DEF LookedAt
<1> QED  BY <1>6, <1>7, <1>8 DEF RemovalInv

(* The worker takes a removal on after a look at its path: nothing is      *)
(* there.                                                                  *)
LEMMA BeginRemoval ==
  ASSUME RemovalInv, RenameBegin
  PROVE  RemovalInv'
<1>1. /\ UNCHANGED <<disk, channel, renames, froms, names, objects, tracked, gone, stage>>
      /\ pc = "renames" /\ pc' = "rename" /\ renames # << >>
      /\ ~IsStillThere(Head(renames))
  BY DEF RenameBegin, Goto, dirVars, pendVars, storeVars, histVars
<1>2. Sound'
  <2>1. Bound' = Bound
    BY <1>1 DEF Bound
  <2> QED  BY <1>1, <2>1 DEF RemovalInv, Sound
<1>3. GoneKnown
  BY <1>1 DEF RemovalInv, Untouched
<1>4. GoneKnown'
  BY <1>1, <1>3 DEF GoneKnown
<1>5. LookedAt'
  BY <1>1, <1>3 DEF LookedAt, GoneKnown, IsStillThere, Exists, FilesUnder
<1> QED  BY <1>2, <1>4, <1>5 DEF RemovalInv

(* The transaction binds names to objects that other names had.            *)
LEMMA BindingsSound ==
  ASSUME Sound, NEW r, UpdateBindings(r)
  PROVE  /\ names' \in [Paths -> 0..Len(objects)]
         /\ IsFiniteSet(Bound') /\ IsFiniteSet(tracked')
<1> DEFINE movesTo(q) == {p \in Affected(r) : Target(p, r) = q}
<1>1. /\ names' = [q \in Paths |->
                     IF movesTo(q) # {} THEN names[CHOOSE p \in movesTo(q) : TRUE]
                     ELSE IF q \in Affected(r) THEN 0 ELSE names[q]]
      /\ tracked' = (tracked \ Affected(r)) \cup Targets(r)
  BY DEF UpdateBindings
<1>2. /\ \E S : NoFile \notin S /\ objects \in Seq(S)
      /\ names \in [Paths -> 0..Len(objects)]
      /\ IsFiniteSet(Bound) /\ IsFiniteSet(tracked)
  BY DEF Sound
<1>3. Len(objects) \in Nat
  BY <1>2
<1>4. \A q : movesTo(q) # {} => (CHOOSE p \in movesTo(q) : TRUE) \in Paths
  BY DEF Affected, FilesUnder
<1>5. names' \in [Paths -> 0..Len(objects)]
  <2> HIDE DEF movesTo
  <2> QED  BY <1>1, <1>2, <1>3, <1>4
<1>6. IsFiniteSet(Affected(r)) /\ IsFiniteSet(Targets(r))
  BY <1>2, TargetsFinite
<1>7. IsFiniteSet(tracked')
  <2>1. tracked' \in SUBSET (tracked \cup Targets(r))
    BY <1>1
  <2>2. IsFiniteSet(tracked \cup Targets(r))
    BY <1>2, <1>6, FS_Union
  <2> QED  BY <2>1, <2>2, FS_Subset
<1>8. Bound' \in SUBSET (Bound \cup (Targets(r) \cup {Nowhere}))
  <2>1. \A q : movesTo(q) # {} => q \in Targets(r) \cup {Nowhere}
    BY DEF Targets
  <2>2. \A q \in Paths : movesTo(q) = {} /\ names'[q] # 0 => names[q] # 0
    <3> HIDE DEF movesTo
    <3> QED  BY <1>1
  <2> HIDE DEF movesTo
  <2> QED  BY <2>1, <2>2 DEF Bound
<1>9. IsFiniteSet(Bound')
  <2>1. IsFiniteSet(Targets(r) \cup {Nowhere})
    BY <1>6, FS_AddElement
  <2>2. IsFiniteSet(Bound \cup (Targets(r) \cup {Nowhere}))
    BY <1>2, <2>1, FS_Union
  <2> QED  BY <1>8, <2>2, FS_Subset
<1> QED  BY <1>5, <1>7, <1>9

LEMMA ApplyStep ==
  ASSUME RemovalInv, RenameApply
  PROVE  RemovalInv'
<1>1. /\ UNCHANGED <<disk, channel, froms, objects, gone>>
      /\ pc = "rename" /\ UpdateBindings(Head(renames))
      /\ renames' \in {renames, Tail(renames)}
  BY DEF RenameApply, dirVars, histVars
<1>2. renames # << >> /\ Sound
  BY <1>1 DEF RemovalInv, LookedAt
<1>3. pc' \in {"renames", "updates", "off", "scan", "decide"}
      /\ stage' \in {"first", "loop", "manual"}
  <2>1. Goto("renames") \/ \E errs : RenamesFail(errs)
    BY DEF RenameApply
  <2> QED  BY <1>2, <2>1, RenamesFailTo DEF Goto, Sound
<1>4. /\ names' \in [Paths -> 0..Len(objects)]
      /\ IsFiniteSet(Bound') /\ IsFiniteSet(tracked')
  BY <1>1, <1>2, BindingsSound
<1>5. IsSequence(renames')
  BY <1>1, <1>2, TailIsSequence DEF Sound
<1>6. Sound'
  BY <1>1, <1>2, <1>3, <1>4, <1>5 DEF Sound
<1>7. GoneKnown
  BY <1>2 DEF RemovalInv, Untouched
<1>8. GoneKnown'
  BY <1>1, <1>7 DEF GoneKnown
<1>9. LookedAt'
  BY <1>3 DEF LookedAt
<1> QED  BY <1>6, <1>8, <1>9 DEF RemovalInv
-----------------------------------------------------------------------------
(* The theorem                                                             *)

\* The step of the worker that RemovesOnlyWhatIsGone is about.
TakesOnlyWhatIsGone ==
  \A p \in Paths :
    /\ pc = "rename" /\ pc' # pc /\ pc' # "off" /\ Head(renames).to = Nowhere
    /\ names[p] # 0 /\ names'[p] = 0
    => p \in tracked /\ p \in gone

LEMMA InitRemoval == Init => RemovalInv
<1> SUFFICES ASSUME Init PROVE RemovalInv
  OBVIOUS
<1> USE DEF Init
<1>1. objects \in Seq({}) /\ Len(objects) = 0
  BY EmptySeq
<1>2. Bound = {}
  BY DEF Bound
<1>3. IsFiniteSet(tracked) /\ IsFiniteSet(Bound)
  BY <1>2, FS_EmptySet
<1>4. names \in [Paths -> 0..Len(objects)]
  BY <1>1
<1>5. IsSequence(renames)
  BY EmptyIsSequence
<1>6. Sound
  BY <1>1, <1>3, <1>4, <1>5 DEF Sound
<1> QED  BY <1>6 DEF RemovalInv, Untouched, LookedAt

LEMMA NextRemoval ==
  ASSUME RemovalInv, [Next]_vars
  PROVE  RemovalInv'
<1>1. CASE UNCHANGED vars
  <2>1. /\ UNCHANGED <<disk, channel, froms, renames, names, objects, tracked, gone>>
        /\ UNCHANGED <<pc, path, stage>>
    BY <1>1 DEF vars, dirVars, pendVars, storeVars, workVars, histVars
  <2>2. QueuesStay
    BY <2>1 DEF QueuesStay, Untouched, RemovalInv, Sound
  <2>3. WorkerStays
    BY <2>1 DEF WorkerStays, RemovalInv, Sound
  <2> QED  BY <2>1, <2>2, <2>3, QuietStep
<1>2. CASE Environment
  <2>1. CASE \E d : SetDisk(d)
    BY <2>1, DiskStep
  <2>2. CASE \/ \E p \in Paths, c \in Contents : ClientPut(p, c)
             \/ \E p \in Paths : ClientUnbind(p)
    BY <2>2, ClientStep
  <2>3. CASE LoseEvents \/ Start \/ Stop \/ ManualScan \/ Kill
    BY <2>3, ServiceQuiet
  <2> QED  BY <1>2, <2>1, <2>2, <2>3 DEF Environment, Write, RemoveNode, Move
<1>3. CASE EventThread
  BY <1>3, ReceiveQuiet
<1>4. CASE Worker
  BY <1>4, IdleSteps, StillThereStep, BeginRemoval, ApplyStep, IngestStep, WalkStep,
     SweepStep, UpdateStep DEF Worker
<1>5. CASE WorkerFaults
  BY <1>5, IdleSteps, WalkStep DEF WorkerFaults
<1>6. CASE Timers
  BY <1>6, ExpireQuiet DEF Timers
<1> QED  BY <1>1, <1>2, <1>3, <1>4, <1>5, <1>6 DEF Next

(* Only the application of a rename moves the worker on from it and        *)
(* changes a binding.                                                      *)
LEMMA OnlyApplyRebinds ==
  ASSUME Next, pc = "rename", pc' # pc, pc' # "off"
  PROVE  RenameApply \/ names' = names
<1>1. CASE Environment
  BY <1>1 DEF Environment, Write, ClientPut, RemoveNode, Move, ClientUnbind, LoseEvents,
              Start, Stop, ManualScan, Kill, SetDisk, workVars
<1>2. CASE EventThread
  BY <1>2 DEF EventThread, ReceiveChange, ReceiveRemove, ReceiveBoth, ReceiveFrom,
              ReceiveTo, ReceiveLost, Receive, storeVars
<1>3. CASE Worker
  BY <1>3 DEF Worker, WorkerStops, RenamesDone, RenameStillThere, RenameBegin,
              FileUnchanged, FileCooling, PutFile, FinishIngest, FileVanished,
              VisitNothing, VisitBlocked, VisitFile, Step, EndWalkFailed, EndWalkMoved,
              Sweep, SkipScan, StartScan, FinishWork, PickUpdate, storeVars
<1>4. CASE WorkerFaults
  BY <1>4 DEF WorkerFaults, RenameFails, FileUnreadable, VisitUnreadable, Step, storeVars
<1>5. CASE Timers
  BY <1>5 DEF Timers, ExpireRename, storeVars
<1> QED  BY <1>1, <1>2, <1>3, <1>4, <1>5 DEF Next

LEMMA StepTakesOnlyWhatIsGone ==
  ASSUME RemovalInv, Next
  PROVE  TakesOnlyWhatIsGone
<1> SUFFICES ASSUME NEW p \in Paths, pc = "rename", pc' # pc, pc' # "off",
                    Head(renames).to = Nowhere, names[p] # 0, names'[p] = 0
             PROVE  p \in tracked /\ p \in gone
  BY DEF TakesOnlyWhatIsGone
<1> DEFINE r == Head(renames)
           movesTo(q) == {x \in Affected(r) : Target(x, r) = q}
<1>1. RenameApply
  BY OnlyApplyRebinds
<1>2. names' = [q \in Paths |->
                  IF movesTo(q) # {} THEN names[CHOOSE x \in movesTo(q) : TRUE]
                  ELSE IF q \in Affected(r) THEN 0 ELSE names[q]]
  BY <1>1 DEF RenameApply, UpdateBindings
<1>3. ToName(r) = Nowhere
  BY DEF ToName
<1>4. movesTo(p) = {}
  <2>1. p # Nowhere
    BY PathAssumption DEF Nodes
  <2> QED  BY <1>3, <2>1 DEF Target
<1>5. p \in Affected(r)
  <2> HIDE DEF movesTo, r
  <2> QED  BY <1>2, <1>4
<1>6. p \in tracked /\ p \in FilesUnder(r.from) /\ Included(r.from)
  BY <1>3, <1>5 DEF Affected
<1>7. FilesUnder(r.from) \subseteq gone
  BY <1>6 DEF RemovalInv, LookedAt
<1> QED  BY <1>6, <1>7

(***************************************************************************)
(* For any paths, clients, errors, lost events and kills: when the worker  *)
(* applies a removal (apply_rename, update_watched_prefix), a name that    *)
(* loses its binding was bound by the watcher, and its file was missing at *)
(* some time since it was last read.                                       *)
(***************************************************************************)
THEOREM RemovalsAreSafe == Spec => RemovesOnlyWhatIsGone
<1>1. Init => RemovalInv
  BY InitRemoval
<1>2. RemovalInv /\ [Next]_vars => RemovalInv'
  BY NextRemoval
<1>3. RemovalInv /\ [Next]_vars => [TakesOnlyWhatIsGone]_vars
  BY StepTakesOnlyWhatIsGone
<1>4. TakesOnlyWhatIsGone <=>
        \A p \in Paths :
          /\ pc = "rename" /\ pc' # pc /\ pc' # "off" /\ Head(renames).to = Nowhere
          /\ names[p] # 0 /\ names'[p] = 0
          => p \in tracked /\ p \in gone
  BY DEF TakesOnlyWhatIsGone
<1> QED  BY <1>1, <1>2, <1>3, <1>4, PTL DEF Spec, RemovesOnlyWhatIsGone
-----------------------------------------------------------------------------
(* Types                                                                   *)

LEMMA RemoveAtType ==
  ASSUME NEW S, NEW s \in Seq(S), NEW i \in 1..Len(s)
  PROVE  /\ RemoveAt(s, i) \in Seq(S) /\ Len(RemoveAt(s, i)) = Len(s) - 1
         /\ \A k \in 1..(i - 1) : RemoveAt(s, i)[k] = s[k]
         /\ \A k \in i..(Len(s) - 1) : RemoveAt(s, i)[k] = s[k + 1]
<1> DEFINE a == SubSeq(s, 1, i - 1)
           b == SubSeq(s, i + 1, Len(s))
<1>1. Len(s) \in Nat /\ i \in Nat /\ i >= 1 /\ i <= Len(s)
  OBVIOUS
<1>2. a \in Seq(S) /\ Len(a) = i - 1 /\ \A k \in 1..(i - 1) : a[k] = s[k]
  BY <1>1
<1>3. b \in Seq(S) /\ Len(b) = Len(s) - i /\ \A k \in 1..(Len(s) - i) : b[k] = s[i + k]
  BY <1>1
<1>4. RemoveAt(s, i) = a \o b
  BY DEF RemoveAt
<1> HIDE DEF a, b
<1>5. /\ a \o b \in Seq(S) /\ Len(a \o b) = Len(a) + Len(b)
      /\ \A k \in 1..(Len(a) + Len(b)) :
           (a \o b)[k] = IF k <= Len(a) THEN a[k] ELSE b[k - Len(a)]
  BY <1>2, <1>3, ConcatProperties
<1>6. Len(a) + Len(b) = Len(s) - 1
  BY <1>1, <1>2, <1>3
<1>7. \A k \in 1..(i - 1) : (a \o b)[k] = s[k]
  BY <1>1, <1>2, <1>5, <1>6
<1>8. ASSUME NEW k \in i..(Len(s) - 1) PROVE (a \o b)[k] = s[k + 1]
  <2>1. /\ k \in 1..(Len(a) + Len(b)) /\ ~(k <= Len(a)) /\ k - Len(a) \in 1..(Len(s) - i)
        /\ i + (k - Len(a)) = k + 1
    BY <1>1, <1>2, <1>6
  <2> QED  BY <1>3, <1>5, <2>1
<1> QED  BY <1>4, <1>5, <1>6, <1>7, <1>8

LEMMA RemovalType ==
  ASSUME NEW n \in Nodes
  PROVE  Removal(n) \in Rename
BY DEF Removal, Rename

(* An element is inserted before the i-th one.                             *)
LEMMA InsertAtType ==
  ASSUME NEW S, NEW s \in Seq(S), NEW i \in 1..Len(s), NEW e \in S
  PROVE  /\ InsertAt(s, i, e) \in Seq(S) /\ Len(InsertAt(s, i, e)) = Len(s) + 1
         /\ \A k \in 1..(i - 1) : InsertAt(s, i, e)[k] = s[k]
         /\ InsertAt(s, i, e)[i] = e
         /\ \A k \in i..Len(s) : InsertAt(s, i, e)[k + 1] = s[k]
<1> DEFINE a == SubSeq(s, 1, i - 1)
           b == SubSeq(s, i, Len(s))
           m == <<e>>
           c == a \o m
<1>1. Len(s) \in Nat /\ i \in Nat /\ i >= 1 /\ i <= Len(s)
  OBVIOUS
<1>2. a \in Seq(S) /\ Len(a) = i - 1 /\ \A k \in 1..(i - 1) : a[k] = s[k]
  BY <1>1
<1>3. /\ b \in Seq(S) /\ Len(b) = Len(s) - i + 1
      /\ \A k \in 1..(Len(s) - i + 1) : b[k] = s[i + k - 1]
  BY <1>1
<1>4. InsertAt(s, i, e) = c \o b
  BY DEF InsertAt
<1>5. m \in Seq(S) /\ Len(m) = 1 /\ m[1] = e
  OBVIOUS
<1> HIDE DEF a, b, m
<1>6. /\ c \in Seq(S) /\ Len(c) = Len(a) + Len(m)
      /\ \A k \in 1..(Len(a) + Len(m)) : c[k] = IF k <= Len(a) THEN a[k] ELSE m[k - Len(a)]
  BY <1>2, <1>5, ConcatProperties
<1>7. Len(c) = i /\ c[i] = e /\ \A k \in 1..(i - 1) : c[k] = s[k]
  <2>1. i \in 1..(Len(a) + Len(m)) /\ ~(i <= Len(a)) /\ i - Len(a) = 1 /\ Len(a) + Len(m) = i
    BY <1>1, <1>2, <1>5
  <2> HIDE DEF c
  <2> QED  BY <1>1, <1>2, <1>5, <1>6, <2>1
<1> HIDE DEF c
<1>8. /\ c \o b \in Seq(S) /\ Len(c \o b) = Len(c) + Len(b)
      /\ \A k \in 1..(Len(c) + Len(b)) :
           (c \o b)[k] = IF k <= Len(c) THEN c[k] ELSE b[k - Len(c)]
  <2>1. c \in Seq(S) /\ b \in Seq(S)
    BY <1>3, <1>6
  <2> QED  BY <2>1, ConcatProperties
<1>9. Len(c) + Len(b) = Len(s) + 1
  BY <1>1, <1>3, <1>7
<1>10. (\A k \in 1..(i - 1) : (c \o b)[k] = s[k]) /\ (c \o b)[i] = e
  BY <1>1, <1>7, <1>8, <1>9
<1>11. ASSUME NEW k \in i..Len(s) PROVE (c \o b)[k + 1] = s[k]
  <2>1. /\ k + 1 \in 1..(Len(c) + Len(b)) /\ ~(k + 1 <= Len(c))
        /\ (k + 1) - Len(c) \in 1..(Len(s) - i + 1)
        /\ i + ((k + 1) - Len(c)) - 1 = k
    BY <1>1, <1>7, <1>9
  <2> QED  BY <1>3, <1>8, <2>1
<1> QED  BY <1>4, <1>8, <1>9, <1>10, <1>11

(* A finite set is listed by its own elements.                             *)
LEMMA SetToSeqHolds ==
  ASSUME NEW M, IsFiniteSet(M)
  PROVE  Cardinality(M) \in Nat /\ \A i \in 1..Cardinality(M) : SetToSeq(M)[i] \in M
<1> DEFINE n == Cardinality(M)
           q == SetToSeq(M)
<1>1. n \in Nat
  BY FS_CardinalityType
<1>2. PICK b : b \in Bijection(1..n, M)
  <2>1. ExistsBijection(1..Cardinality(M), M)
    BY FS_CardinalityType
  <2> QED  BY <2>1 DEF ExistsBijection
<1>3. \E f \in [1..n -> M] : IsInjective(f)
  <2>1. b \in [1..n -> M] /\ IsInjective(b)
    BY <1>2 DEF Bijection, Injection, IsInjective
  <2> QED  BY <2>1
<1>4. q \in [1..n -> M]
  BY <1>3 DEF SetToSeq
<1> HIDE DEF n, q
<1> QED  BY <1>1, <1>4 DEF n, q

(* The removals that a scan queues are renames of known paths.             *)
LEMMA SweepType ==
  ASSUME NEW M, M \subseteq Nodes, IsFiniteSet(M)
  PROVE  [i \in 1..Cardinality(M) |-> Removal(SetToSeq(M)[i])] \in Seq(Rename)
<1> DEFINE n == Cardinality(M)
           q == SetToSeq(M)
<1>1. n \in Nat /\ \A i \in 1..n : q[i] \in M
  BY SetToSeqHolds
<1> HIDE DEF n, q
<1>2. \A i \in 1..n : Removal(q[i]) \in Rename
  BY <1>1, RemovalType
<1>3. [i \in 1..n |-> Removal(q[i])] \in Seq(Rename)
  BY <1>1, <1>2, IsASeq
<1> QED  BY <1>3 DEF n, q

LEMMA SpendType ==
  ASSUME TypeOK, NEW kind \in {"changes", "client", "faults", "stops"}, NEW max, Spend(kind, max)
  PROVE  spent' \in [{"changes", "client", "faults", "stops"} -> Nat]
<1>1. spent \in [{"changes", "client", "faults", "stops"} -> Nat]
  BY DEF TypeOK
<1>2. spent' = [spent EXCEPT ![kind] = spent[kind] + 1]
  BY DEF Spend
<1>3. spent[kind] + 1 \in Nat
  BY <1>1
<1> QED  BY <1>1, <1>2, <1>3

LEMMA ForgetType ==
  ASSUME TypeOK, Forget
  PROVE  home' \in [Paths -> 0..Len(objects)]
<1>1. Len(objects) \in Nat
  BY DEF TypeOK
<1> QED  BY <1>1 DEF Forget

(* The parts of the state that a step of the directory changes.            *)
LEMMA DiskType ==
  ASSUME TypeOK, NEW d \in [Paths -> Contents \cup {NoFile}], SetDisk(d),
         channel' \in Seq(Event), home' \in [Paths -> 0..Len(objects)]
  PROVE  TypeOK'
<1>1. /\ UNCHANGED <<updates, renames, froms, moved, running, reconcile, errors, names,
                     objects, tracked, pc, stage, scanning, path, toVisit, seen, walk, dirty>>
      /\ disk' = d /\ gone' = gone \cup {p \in Paths : d[p] = NoFile}
      /\ Spend("changes", MaxChanges)
  BY DEF SetDisk, pendVars, statVars, storeVars, workVars, walkVars
<1>2. spent' \in [{"changes", "client", "faults", "stops"} -> Nat]
  BY <1>1, SpendType
<1>3. gone' \subseteq Paths
  BY <1>1 DEF TypeOK
<1> QED  BY <1>1, <1>2, <1>3 DEF TypeOK

LEMMA AnyPathType == AnyPath \in Paths
BY PathAssumption DEF AnyPath

LEMMA NotifyType ==
  ASSUME TypeOK, NEW s \in Seq(Event), Notify(s)
  PROVE  channel' \in Seq(Event)
<1>1. channel \in Seq(Event)
  BY DEF TypeOK
<1>2. channel \o s \in Seq(Event)
  BY <1>1, ConcatProperties
<1>3. << >> \in Seq(Event)
  BY EmptySeq
<1> QED  BY <1>2, <1>3 DEF Notify

LEMMA EventType ==
  ASSUME NEW k \in {"change", "remove", "both", "from", "to", "lost"}, NEW p \in Nodes,
         NEW q \in Nodes, NEW t \in Trackers \cup {0}
  PROVE  Ev(k, p, q, t) \in Event /\ <<Ev(k, p, q, t)>> \in Seq(Event)
BY DEF Ev, Event

LEMMA WriteType ==
  ASSUME TypeOK, NEW p \in Paths, NEW c \in Contents, Write(p, c)
  PROVE  TypeOK'
<1>1. [disk EXCEPT ![p] = c] \in [Paths -> Contents \cup {NoFile}]
  BY DEF TypeOK
<1>2. channel' \in Seq(Event)
  <2>1. CASE \E n \in Nodes : Notify(<<Ev("change", n, n, 0)>>)
    BY <2>1, EventType, NotifyType
  <2>2. CASE \E i \in LastTo : channel' = InsertAt(channel, i, Ev("change", p, p, 0))
    <3>1. PICK i \in LastTo : channel' = InsertAt(channel, i, Ev("change", p, p, 0))
      BY <2>2
    <3>2. channel \in Seq(Event) /\ i \in 1..Len(channel)
      BY <3>1 DEF TypeOK, LastTo
    <3>3. Ev("change", p, p, 0) \in Event
      BY EventType DEF Nodes
    <3> QED  BY <3>1, <3>2, <3>3, InsertAtType
  <2> QED  BY <2>1, <2>2 DEF Write
<1>3. home' \in [Paths -> 0..Len(objects)]
  <2>1. Len(objects) \in Nat /\ home \in [Paths -> 0..Len(objects)]
    BY DEF TypeOK
  <2> QED  BY <2>1 DEF Write
<1>4. SetDisk([disk EXCEPT ![p] = c])
  BY DEF Write
<1> QED  BY <1>1, <1>2, <1>3, <1>4, DiskType

LEMMA RemoveNodeType ==
  ASSUME TypeOK, NEW n \in Nodes, RemoveNode(n)
  PROVE  TypeOK'
<1> DEFINE d == [p \in Paths |-> IF Under(p, n) THEN NoFile ELSE disk[p]]
<1>1. d \in [Paths -> Contents \cup {NoFile}]
  BY DEF TypeOK
<1>2. channel' \in Seq(Event)
  <2>1. \E k \in {"remove", "from"}, t \in Trackers \cup {0} : Notify(<<Ev(k, n, n, t)>>)
    BY DEF RemoveNode
  <2> QED  BY <2>1, EventType, NotifyType
<1>3. home' \in [Paths -> 0..Len(objects)]
  <2>1. Len(objects) \in Nat /\ home \in [Paths -> 0..Len(objects)]
    BY DEF TypeOK
  <2> QED  BY <2>1 DEF RemoveNode
<1>4. SetDisk(d)
  BY DEF RemoveNode
<1> HIDE DEF d
<1> QED  BY <1>1, <1>2, <1>3, <1>4, DiskType

LEMMA MoveType ==
  ASSUME TypeOK, NEW from \in Nodes, NEW to \in Nodes, Move(from, to)
  PROVE  TypeOK'
<1> DEFINE source(p) == Moved(p, to, from)
           d == [p \in Paths |-> IF ~Under(p, to) /\ ~Under(p, from) THEN disk[p]
                                 ELSE IF Under(p, to) /\ source(p) \in Paths
                                      THEN disk[source(p)] ELSE NoFile]
           h == [p \in Paths |-> IF ~Under(p, to) /\ ~Under(p, from) THEN home[p]
                                 ELSE IF Under(p, to) /\ source(p) \in Paths
                                      THEN home[source(p)] ELSE 0]
<1>1. /\ SetDisk(d)
      /\ \E s \in Styles :
           /\ \E e \in MoveEvents(from, to, s) : Notify(e)
           /\ home' = [p \in Paths |-> IF Included(p) /\ (s = "any" => ~Under(p, to))
                                       THEN h[p] ELSE 0]
  BY DEF Move
<1>2. d \in [Paths -> Contents \cup {NoFile}]
  <2> HIDE DEF source
  <2> QED  BY DEF TypeOK
<1>3. home' \in [Paths -> 0..Len(objects)]
  <2>1. Len(objects) \in Nat /\ home \in [Paths -> 0..Len(objects)]
    BY DEF TypeOK
  <2>2. h \in [Paths -> 0..Len(objects)]
    <3> HIDE DEF source
    <3> QED  BY <2>1
  <2> HIDE DEF h
  <2> QED  BY <1>1, <2>1, <2>2
<1>4. channel' \in Seq(Event)
  <2>1. PICK s \in Styles : \E e \in MoveEvents(from, to, s) : Notify(e)
    BY <1>1
  <2>2. PICK e \in MoveEvents(from, to, s) : Notify(e)
    BY <2>1
  <2>3. s \in {"both", "tracked", "untracked", "any"}
    BY PathAssumption
  <2>4. ASSUME NEW a \in Event, NEW b \in Event, NEW c \in Event
        PROVE  <<a, b>> \in Seq(Event) /\ <<a, b, c>> \in Seq(Event)
    OBVIOUS
  <2>5. e \in Seq(Event)
    <3>1. CASE s = "both"
      <4>1. e = <<Ev("both", from, to, 0)>>
        BY <2>2, <3>1 DEF MoveEvents
      <4> QED  BY <4>1, EventType
    <3>2. CASE s \in {"untracked", "any"}
      <4>1. PICK k \in {"from", "change"}, l \in {"to", "change"}, q \in Nodes :
              e = <<Ev(k, from, from, 0), Ev(l, to, q, 0)>>
        BY <2>2, <3>2 DEF MoveEvents
      <4>2. Ev(k, from, from, 0) \in Event /\ Ev(l, to, q, 0) \in Event
        BY EventType
      <4> QED  BY <2>4, <4>1, <4>2
    <3>3. CASE s = "tracked"
      <4>1. PICK t \in Trackers : e = <<Ev("from", from, from, t), Ev("to", to, from, t),
                                       Ev("both", from, to, t)>>
        BY <2>2, <3>3 DEF MoveEvents
      <4>2. /\ Ev("from", from, from, t) \in Event /\ Ev("to", to, from, t) \in Event
            /\ Ev("both", from, to, t) \in Event
        BY EventType
      <4> QED  BY <2>4, <4>1, <4>2
    <3> QED  BY <2>3, <3>1, <3>2, <3>3
  <2> QED  BY <2>2, <2>5, NotifyType
<1> HIDE DEF d
<1> QED  BY <1>1, <1>2, <1>3, <1>4, DiskType

LEMMA LoseEventsType ==
  ASSUME TypeOK, LoseEvents
  PROVE  TypeOK'
<1> DEFINE n == CHOOSE n \in Nodes : TRUE
<1>1. n \in Nodes
  BY PathAssumption DEF Nodes
<1>2. channel' = <<Ev("lost", n, n, 0)>>
  BY DEF LoseEvents
<1> HIDE DEF n
<1>3. channel' \in Seq(Event)
  BY <1>1, <1>2, EventType
<1>4. home' \in [Paths -> 0..Len(objects)]
  BY ForgetType DEF LoseEvents
<1>5. spent' \in [{"changes", "client", "faults", "stops"} -> Nat]
  BY SpendType DEF LoseEvents
<1>6. UNCHANGED <<disk, updates, renames, froms, moved, running, reconcile, errors, names,
                  objects, tracked, pc, stage, scanning, path, toVisit, seen, walk, dirty, gone>>
  BY DEF LoseEvents, pendVars, statVars, storeVars, workVars, walkVars
<1> QED  BY <1>3, <1>4, <1>5, <1>6 DEF TypeOK

LEMMA PutNamedType ==
  ASSUME TypeOK, NEW p \in Paths, NEW c \in Contents, PutNamed(p, c)
  PROVE  /\ objects' \in Seq(Contents) /\ names' \in [Paths -> 0..Len(objects')]
         /\ \A h \in [Paths -> 0..Len(objects)] : h \in [Paths -> 0..Len(objects')]
<1>1. objects \in Seq(Contents) /\ names \in [Paths -> 0..Len(objects)]
  BY DEF TypeOK
<1>2. Len(objects) \in Nat
  BY <1>1
<1>3. CASE names[p] # 0
  <2>1. objects' = [objects EXCEPT ![names[p]] = c] /\ names' = names
    BY <1>3 DEF PutNamed
  <2>2. names[p] \in 1..Len(objects)
    BY <1>1, <1>2, <1>3
  <2>3. objects' \in Seq(Contents) /\ Len(objects') = Len(objects)
    BY <1>1, <2>1, <2>2, ExceptSeq
  <2> QED  BY <1>1, <2>1, <2>3
<1>4. CASE names[p] = 0
  <2>1. objects' = Append(objects, c) /\ names' = [names EXCEPT ![p] = Len(objects) + 1]
    BY <1>4 DEF PutNamed
  <2>2. objects' \in Seq(Contents) /\ Len(objects') = Len(objects) + 1
    BY <1>1, <2>1, AppendProperties
  <2>3. names' \in [Paths -> 0..Len(objects')]
    BY <1>1, <1>2, <2>1, <2>2
  <2>4. \A k \in 0..Len(objects) : k \in 0..Len(objects')
    BY <1>2, <2>2
  <2>5. ASSUME NEW h \in [Paths -> 0..Len(objects)] PROVE h \in [Paths -> 0..Len(objects')]
    BY <2>4
  <2> QED  BY <2>2, <2>3, <2>5
<1> QED  BY <1>3, <1>4

LEMMA ClientType ==
  ASSUME TypeOK, NEW p \in Paths,
         (\E c \in Contents : ClientPut(p, c)) \/ ClientUnbind(p)
  PROVE  TypeOK'
<1>1. UNCHANGED <<disk, channel, updates, renames, froms, moved, running, reconcile, errors,
                  tracked, pc, stage, scanning, path, toVisit, seen, walk, dirty, gone>>
  BY DEF ClientPut, ClientUnbind, dirVars, pendVars, statVars, workVars, walkVars
<1>2. spent' \in [{"changes", "client", "faults", "stops"} -> Nat]
  BY SpendType DEF ClientPut, ClientUnbind
<1>3. home' \in [Paths -> 0..Len(objects)]
  BY ForgetType DEF ClientPut, ClientUnbind
<1>4. /\ objects' \in Seq(Contents) /\ names' \in [Paths -> 0..Len(objects')]
      /\ home' \in [Paths -> 0..Len(objects')]
  <2>1. CASE \E c \in Contents : ClientPut(p, c)
    <3>1. PICK c \in Contents : PutNamed(p, c)
      BY <2>1 DEF ClientPut
    <3> QED  BY <1>3, <3>1, PutNamedType
  <2>2. CASE ClientUnbind(p)
    <3>1. objects' = objects /\ names' = [names EXCEPT ![p] = 0]
      BY <2>2 DEF ClientUnbind
    <3>2. Len(objects) \in Nat /\ objects \in Seq(Contents)
          /\ names \in [Paths -> 0..Len(objects)]
      BY DEF TypeOK
    <3> QED  BY <1>3, <3>1, <3>2
  <2> QED  BY <2>1, <2>2
<1> QED  BY <1>1, <1>2, <1>4 DEF TypeOK

LEMMA ServiceType ==
  ASSUME TypeOK, Start \/ Stop \/ ManualScan \/ Kill
  PROVE  TypeOK'
<1> USE DEF dirVars, pendVars, statVars, storeVars, walkVars, workVars, histVars
<1>1. << >> \in Seq(Event) /\ << >> \in Seq(Rename) /\ << >> \in Seq(Half)
  BY EmptySeq
<1>2. CASE Start
  BY <1>1, <1>2 DEF Start, NewWorker, TypeOK
<1>3. CASE Stop
  <2>1. /\ home' \in [Paths -> 0..Len(objects)]
        /\ spent' \in [{"changes", "client", "faults", "stops"} -> Nat]
    BY <1>3, ForgetType, SpendType DEF Stop
  <2> QED  BY <1>1, <1>3, <2>1 DEF Stop, TypeOK
<1>4. CASE ManualScan
  <2>1. spent' \in [{"changes", "client", "faults", "stops"} -> Nat]
    BY <1>4, SpendType DEF ManualScan
  <2> QED  BY <1>4, <2>1 DEF ManualScan, NewWorker, TypeOK
<1>5. CASE Kill
  <2>1. /\ home' \in [Paths -> 0..Len(objects)]
        /\ spent' \in [{"changes", "client", "faults", "stops"} -> Nat]
    BY <1>5, ForgetType, SpendType DEF Kill
  <2> QED  BY <1>1, <1>5, <2>1, AnyPathType DEF Kill, WalkDone, TypeOK
<1> QED  BY <1>2, <1>3, <1>4, <1>5

LEMMA ConcludeType ==
  ASSUME TypeOK, NEW n \in Nodes, NEW rest, Conclude(n, rest)
  PROVE  renames' \in Seq(Rename) /\ home' \in [Paths -> 0..Len(objects)]
<1>1. renames' = Append(renames, Removal(n)) /\ (Forget \/ home' = home)
  BY DEF Conclude
<1>2. renames' \in Seq(Rename)
  BY <1>1, RemovalType, AppendProperties DEF TypeOK
<1>3. home' \in [Paths -> 0..Len(objects)]
  BY <1>1, ForgetType DEF TypeOK
<1> QED  BY <1>2, <1>3

LEMMA HalfType ==
  ASSUME TypeOK, NEW i \in DOMAIN froms
  PROVE  froms[i] \in Half /\ froms[i].path \in Nodes /\ RemoveAt(froms, i) \in Seq(Half)
<1>1. froms \in Seq(Half) /\ i \in 1..Len(froms)
  BY DEF TypeOK
<1>2. froms[i] \in Half /\ RemoveAt(froms, i) \in Seq(Half)
  BY <1>1, RemoveAtType
<1> QED  BY <1>2 DEF Half

LEMMA ReceiveType ==
  ASSUME TypeOK, EventThread
  PROVE  TypeOK'
<1> USE DEF dirVars, pendVars, statVars, storeVars, walkVars, workVars, histVars
<1> DEFINE e == Head(channel)
<1>1. PICK kind : Receive(kind)
  BY DEF EventThread, ReceiveChange, ReceiveRemove, ReceiveBoth, ReceiveFrom, ReceiveTo,
         ReceiveLost
<1>2. /\ channel # << >> /\ channel' = Tail(channel)
      /\ UNCHANGED <<disk, names, objects, tracked, pc, stage, scanning, path, toVisit,
                     seen, walk, dirty, gone, spent, running>>
  BY <1>1 DEF Receive
<1>3. e \in Event /\ channel' \in Seq(Event)
  <2>1. channel \in Seq(Event)
    BY DEF TypeOK
  <2> QED  BY <1>2, <2>1, HeadTailProperties
<1>4. e.path \in Nodes /\ e.to \in Nodes /\ e.tracker \in Trackers \cup {0}
  <2> HIDE DEF e
  <2> QED  BY <1>3 DEF Event
<1> HIDE DEF e
<1>5. /\ updates' \subseteq Nodes /\ renames' \in Seq(Rename) /\ froms' \in Seq(Half)
      /\ home' \in [Paths -> 0..Len(objects)] /\ moved' \in BOOLEAN
      /\ reconcile' \in BOOLEAN /\ errors' \subseteq Keys
  <2>1. /\ updates \subseteq Nodes /\ renames \in Seq(Rename) /\ froms \in Seq(Half)
        /\ home \in [Paths -> 0..Len(objects)] /\ moved \in BOOLEAN
        /\ reconcile \in BOOLEAN /\ errors \subseteq Keys
    BY DEF TypeOK
  <2>2. CASE ReceiveChange
    BY <1>4, <2>1, <2>2 DEF ReceiveChange, e
  <2>3. CASE ReceiveRemove
    <3>1. Append(renames, Removal(e.path)) \in Seq(Rename)
      BY <1>4, <2>1, RemovalType, AppendProperties
    <3> QED  BY <2>1, <2>3, <3>1 DEF ReceiveRemove, e
  <2>4. CASE ReceiveBoth
    <3> DEFINE r == [from |-> e.path, to |-> e.to, again |-> IsRepeat(e)]
    <3>1. r \in Rename
      BY <1>4 DEF Rename, IsRepeat
    <3>2. Append(renames, r) \in Seq(Rename)
      BY <2>1, <3>1, AppendProperties
    <3> QED  BY <2>1, <2>4, <3>2 DEF ReceiveBoth, e
  <2>5. CASE ReceiveFrom
    <3> DEFINE half == [path |-> e.path, tracker |-> e.tracker]
    <3>1. half \in Half
      BY <1>4 DEF Half
    <3>2. UNCHANGED <<updates, reconcile, errors>> /\ moved' = TRUE
      BY <2>5 DEF ReceiveFrom
    <3> HIDE DEF half
    <3>3. CASE froms' = Append(froms, half) /\ UNCHANGED <<renames, home>>
      <4>1. froms' \in Seq(Half)
        BY <2>1, <3>1, <3>3, AppendProperties
      <4> QED  BY <2>1, <3>2, <3>3, <4>1
    <3>4. CASE \E i \in DOMAIN froms : /\ Conclude(froms[i].path, Tail(channel))
                                       /\ froms' = Append(RemoveAt(froms, i), half)
      <4>1. PICK i \in DOMAIN froms : /\ Conclude(froms[i].path, Tail(channel))
                                      /\ froms' = Append(RemoveAt(froms, i), half)
        BY <3>4
      <4>2. froms[i].path \in Nodes /\ RemoveAt(froms, i) \in Seq(Half)
        BY HalfType
      <4>3. froms' \in Seq(Half)
        BY <3>1, <4>1, <4>2, AppendProperties
      <4>4. renames' \in Seq(Rename) /\ home' \in [Paths -> 0..Len(objects)]
        BY <4>1, <4>2, ConcludeType
      <4> QED  BY <2>1, <3>2, <4>3, <4>4
    <3> QED  BY <2>5, <3>3, <3>4 DEF ReceiveFrom, half, e
  <2>6. CASE ReceiveTo
    <3>1. UNCHANGED <<reconcile, errors, home>> /\ moved' = TRUE
      BY <2>6 DEF ReceiveTo
    <3>2. CASE updates' = updates \cup {e.path} /\ UNCHANGED <<renames, froms>>
      BY <1>4, <2>1, <3>1, <3>2
    <3>3. CASE \E i \in DOMAIN froms :
                 /\ renames' = Append(renames, [from |-> froms[i].path, to |-> e.path,
                                                again |-> FALSE])
                 /\ froms' = RemoveAt(froms, i)
                 /\ UNCHANGED updates
      <4>1. PICK i \in DOMAIN froms :
                 /\ renames' = Append(renames, [from |-> froms[i].path, to |-> e.path,
                                                again |-> FALSE])
                 /\ froms' = RemoveAt(froms, i)
                 /\ UNCHANGED updates
        BY <3>3
      <4>2. froms[i].path \in Nodes /\ RemoveAt(froms, i) \in Seq(Half)
        BY HalfType
      <4>3. [from |-> froms[i].path, to |-> e.path, again |-> FALSE] \in Rename
        BY <1>4, <4>2 DEF Rename
      <4>4. renames' \in Seq(Rename)
        BY <2>1, <4>1, <4>3, AppendProperties
      <4> QED  BY <2>1, <3>1, <4>1, <4>2, <4>4
    <3> QED  BY <2>6, <3>2, <3>3 DEF ReceiveTo, Mates, e
  <2>7. CASE ReceiveLost
    BY <2>1, <2>7 DEF ReceiveLost, Report, Keys, Alert
  <2> QED  BY <2>2, <2>3, <2>4, <2>5, <2>6, <2>7 DEF EventThread
<1> QED  BY <1>2, <1>3, <1>5 DEF TypeOK

LEMMA ExpireType ==
  ASSUME TypeOK, NEW i, ExpireRename(i)
  PROVE  TypeOK'
<1>1. /\ UNCHANGED <<disk, channel, updates, moved, running, reconcile, errors, names,
                     objects, tracked, pc, stage, scanning, path, toVisit, seen, walk,
                     dirty, gone>>
      /\ i \in DOMAIN froms /\ Conclude(froms[i].path, channel)
      /\ froms' = RemoveAt(froms, i)
      /\ Spend("faults", MaxFaults) \/ spent' = spent
  BY DEF ExpireRename, dirVars, statVars, storeVars, workVars, walkVars
<1>2. froms[i].path \in Nodes /\ froms' \in Seq(Half)
  BY <1>1, HalfType
<1>3. renames' \in Seq(Rename) /\ home' \in [Paths -> 0..Len(objects)]
  BY <1>1, <1>2, ConcludeType
<1>4. spent' \in [{"changes", "client", "faults", "stops"} -> Nat]
  BY <1>1, SpendType DEF TypeOK
<1> QED  BY <1>1, <1>2, <1>3, <1>4 DEF TypeOK

\* The state outside the queues, the store and the worker.
Outside == <<disk, channel, gone, home>>

LEMMA ScanReturnsType ==
  ASSUME TypeOK, NEW ok, NEW errs, errs \subseteq Keys, ScanReturns(ok, errs)
  PROVE  /\ errors' \subseteq Keys
         /\ pc' \in {"renames", "updates", "off"} /\ stage' \in {"first", "loop", "manual"}
         /\ scanning' \in BOOLEAN /\ UNCHANGED <<running, reconcile, path>>
         /\ toVisit' \subseteq Paths /\ seen' \subseteq Paths /\ walk' \in {"ok", "scan", "ingest"}
BY DEF ScanReturns, WalkDone, Report, TypeOK, walkVars

LEMMA RenamesFailType ==
  ASSUME TypeOK, NEW errs, errs \subseteq Keys, RenamesFail(errs)
  PROVE  /\ errors' \subseteq Keys
         /\ pc' \in {"renames", "updates", "off", "scan", "decide"}
         /\ stage' \in {"first", "loop", "manual"}
         /\ scanning' \in BOOLEAN /\ UNCHANGED <<running, reconcile, path>>
         /\ toVisit' \subseteq Paths /\ seen' \subseteq Paths /\ walk' \in {"ok", "scan", "ingest"}
<1>1. errs \cup {Alert("scan")} \subseteq Keys /\ errs \cup {Alert("rename")} \subseteq Keys
  BY DEF Keys
<1>2. CASE scanning /\ ScanReturns(FALSE, errs \cup {Alert("scan")})
  BY <1>1, <1>2, ScanReturnsType
<1>3. CASE /\ ~scanning
           /\ Goto(CASE stage = "first" -> "scan" [] stage = "loop" -> "decide"
                     [] stage = "manual" -> "off")
           /\ Report(IF stage = "loop" THEN errs \cup {Alert("rename")} ELSE errs)
           /\ UNCHANGED <<running, reconcile>>
  <2>1. errors' \subseteq Keys
    BY <1>1, <1>3 DEF Report
  <2>2. /\ stage \in {"first", "loop", "manual"} /\ scanning \in BOOLEAN
        /\ toVisit \subseteq Paths /\ seen \subseteq Paths /\ walk \in {"ok", "scan", "ingest"}
    BY DEF TypeOK
  <2> QED  BY <1>3, <2>1, <2>2 DEF Goto, walkVars
<1> QED  BY <1>2, <1>3 DEF RenamesFail

(* Steps of the worker that leave the directory and the store alone.       *)
LEMMA WorkerIdleType ==
  ASSUME TypeOK,
         \/ WorkerStops \/ RenamesDone \/ RenameStillThere \/ RenameBegin \/ SkipScan
         \/ StartScan \/ EndWalkFailed \/ EndWalkMoved \/ RenameFails
  PROVE  TypeOK'
<1> USE DEF dirVars, pendVars, statVars, storeVars, walkVars, histVars
<1>1. CASE WorkerStops
  BY <1>1 DEF WorkerStops, WalkDone, TypeOK
<1>2. CASE RenamesDone
  <2>1. /\ UNCHANGED <<disk, channel, updates, renames, froms, moved, names, objects, tracked,
                       dirty, gone, home, spent>>
        /\ \/ ScanReturns(TRUE, errors)
           \/ /\ Goto(CASE stage = "first" -> "scan" [] stage = "loop" -> "decide"
                        [] stage = "manual" -> "updates")
              /\ UNCHANGED statVars
    BY <1>2 DEF RenamesDone
  <2>2. CASE ScanReturns(TRUE, errors)
    <3>1. errors \subseteq Keys
      BY DEF TypeOK
    <3> QED  BY <2>1, <2>2, <3>1, ScanReturnsType DEF TypeOK
  <2>3. CASE /\ Goto(CASE stage = "first" -> "scan" [] stage = "loop" -> "decide"
                        [] stage = "manual" -> "updates")
             /\ UNCHANGED statVars
    BY <2>1, <2>3 DEF Goto, TypeOK
  <2> QED  BY <2>1, <2>2, <2>3
<1>3. CASE RenameStillThere
  <2>1. renames \in Seq(Rename) /\ renames # << >>
    BY <1>3 DEF RenameStillThere, TypeOK
  <2>2. Head(renames).from \in Nodes /\ Tail(renames) \in Seq(Rename)
    <3>1. Head(renames) \in Rename /\ Tail(renames) \in Seq(Rename)
      BY <2>1, HeadTailProperties
    <3> QED  BY <3>1 DEF Rename
  <2> QED  BY <1>3, <2>2 DEF RenameStillThere, Report, TypeOK
<1>4. CASE RenameBegin
  BY <1>4 DEF RenameBegin, Goto, TypeOK
<1>5. CASE SkipScan
  BY <1>5 DEF SkipScan, Goto, TypeOK
<1>6. CASE StartScan
  BY <1>6 DEF StartScan, TypeOK
<1>7. CASE EndWalkFailed
  <2>1. /\ UNCHANGED <<disk, channel, updates, renames, froms, moved, names, objects, tracked,
                       dirty, gone, home, spent>>
        /\ \E errs \in SUBSET Keys : ScanReturns(FALSE, errs)
    BY <1>7 DEF EndWalkFailed, TypeOK, Keys
  <2> QED  BY <2>1, ScanReturnsType DEF TypeOK
<1>8. CASE EndWalkMoved
  <2>1. /\ UNCHANGED <<disk, channel, updates, renames, froms, moved, names, objects, tracked,
                       dirty, gone, home, spent>>
        /\ errors \subseteq Keys /\ ScanReturns(TRUE, errors)
    BY <1>8 DEF EndWalkMoved, TypeOK
  <2> QED  BY <2>1, ScanReturnsType DEF TypeOK
<1>9. CASE RenameFails
  <2>1. /\ UNCHANGED <<disk, channel, updates, renames, froms, moved, names, objects, tracked,
                       dirty, gone, home>>
        /\ errors \subseteq Keys /\ RenamesFail(errors)
    BY <1>9 DEF RenameFails, TypeOK
  <2>2. spent' \in [{"changes", "client", "faults", "stops"} -> Nat]
    BY <1>9, SpendType DEF RenameFails
  <2> QED  BY <2>1, <2>2, RenamesFailType DEF TypeOK
<1> QED  BY <1>1, <1>2, <1>3, <1>4, <1>5, <1>6, <1>7, <1>8, <1>9

LEMMA IngestType ==
  ASSUME TypeOK,
         \/ FileUnchanged \/ FileCooling \/ PutFile \/ FinishIngest \/ FileVanished
         \/ \E busy \in BOOLEAN : FileUnreadable(busy)
  PROVE  TypeOK'
<1> USE DEF dirVars, pendVars, statVars, storeVars, walkVars, histVars
<1>1. path \in Paths /\ path \in Nodes
  BY DEF TypeOK, Nodes
<1>2. CASE FileUnchanged
  BY <1>1, <1>2, AnyPathType DEF FileUnchanged, IngestReturns, Report, MarkFile, TypeOK
<1>3. CASE FileCooling
  <2>1. spent' \in [{"changes", "client", "faults", "stops"} -> Nat]
    BY <1>3, SpendType DEF FileCooling
  <2> QED  BY <1>1, <1>3, <2>1, AnyPathType DEF FileCooling, IngestReturns, TypeOK
<1>4. CASE PutFile
  <2>1. disk[path] \in Contents /\ PutNamed(path, disk[path])
    BY <1>1, <1>4 DEF PutFile, TypeOK
  <2>2. /\ objects' \in Seq(Contents) /\ names' \in [Paths -> 0..Len(objects')]
        /\ home \in [Paths -> 0..Len(objects')]
    <3>1. home \in [Paths -> 0..Len(objects)]
      BY DEF TypeOK
    <3> QED  BY <1>1, <2>1, <3>1, PutNamedType
  <2>3. /\ UNCHANGED <<disk, channel, updates, renames, froms, moved, running, reconcile,
                       errors, tracked, stage, scanning, path, toVisit, seen, walk, dirty,
                       spent>>
        /\ pc' = "mark" /\ gone' = gone \ {path}
        /\ home' = home \/ Forget
    BY <1>4 DEF PutFile, Goto
  <2>4. home' \in [Paths -> 0..Len(objects')]
    <3>1. Len(objects') \in Nat
      BY <2>2
    <3> QED  BY <2>2, <2>3, <3>1 DEF Forget
  <2> QED  BY <2>2, <2>3, <2>4 DEF TypeOK
<1>5. CASE FinishIngest
  BY <1>1, <1>5, AnyPathType DEF FinishIngest, IngestReturns, Report, MarkFile, TypeOK
<1>6. ASSUME NEW busy, IngestFails(busy),
             spent' \in [{"changes", "client", "faults", "stops"} -> Nat]
      PROVE  TypeOK'
  BY <1>1, <1>6, AnyPathType DEF IngestFails, Report, TypeOK, Keys
<1>7. CASE FileVanished
  BY <1>6, <1>7 DEF FileVanished, TypeOK
<1>8. CASE \E busy \in BOOLEAN : FileUnreadable(busy)
  <2>1. PICK busy \in BOOLEAN : FileUnreadable(busy)
    BY <1>8
  <2>2. spent' \in [{"changes", "client", "faults", "stops"} -> Nat]
    BY <2>1, SpendType DEF FileUnreadable
  <2> QED  BY <1>6, <2>1, <2>2 DEF FileUnreadable
<1> QED  BY <1>2, <1>3, <1>4, <1>5, <1>7, <1>8

LEMMA WalkType ==
  ASSUME TypeOK, NEW p \in Paths,
         VisitNothing(p) \/ VisitBlocked(p) \/ VisitFile(p) \/ VisitUnreadable(p)
  PROVE  TypeOK'
<1> USE DEF dirVars, storeVars, walkVars, histVars
<1>1. p \in Nodes
  BY DEF Nodes
<1>2. CASE VisitNothing(p)
  BY <1>2 DEF VisitNothing, Step, TypeOK
<1>3. CASE VisitBlocked(p)
  BY <1>1, <1>3 DEF VisitBlocked, Step, TypeOK
<1>4. CASE VisitFile(p)
  BY <1>4 DEF VisitFile, Step, TypeOK
<1>5. CASE VisitUnreadable(p)
  <2>1. spent' \in [{"changes", "client", "faults", "stops"} -> Nat]
    BY <1>5, SpendType DEF VisitUnreadable
  <2> QED  BY <1>5, <2>1 DEF VisitUnreadable, Step, TypeOK
<1> QED  BY <1>2, <1>3, <1>4, <1>5

LEMMA UpdateType ==
  ASSUME TypeOK, NEW u \in Nodes, PickUpdate(u)
  PROVE  TypeOK'
<1> USE DEF dirVars, storeVars, walkVars, histVars
<1>1. FilesUnder(u) \subseteq Nodes
  BY DEF FilesUnder, Nodes
<1>2. UNCHANGED <<disk, channel, renames, froms, moved, running, reconcile, names, objects,
                  tracked, stage, scanning, toVisit, seen, walk, gone, home, spent>>
      /\ dirty' = TRUE
  BY DEF PickUpdate
<1>3. updates' \subseteq Nodes
  BY <1>1 DEF PickUpdate, TypeOK
<1>4. path' \in Paths /\ errors' \subseteq Keys
  BY DEF PickUpdate, Report, TypeOK
<1>5. pc' \in {"updates", "ingest"}
  BY DEF PickUpdate
<1> QED  BY <1>2, <1>3, <1>4, <1>5 DEF TypeOK

LEMMA SweepKeepsType ==
  ASSUME TypeOK, IsFiniteSet(tracked), Sweep
  PROVE  TypeOK'
<1> USE DEF dirVars, statVars, storeVars, walkVars
<1>1. Missing \subseteq Nodes /\ Missing \in SUBSET tracked
  BY DEF Missing, TypeOK, Nodes
<1>2. IsFiniteSet(Missing)
  BY <1>1, FS_Subset
<1>3. renames' \in Seq(Rename)
  BY <1>1, <1>2, SweepType DEF Sweep
<1>4. home' \in [Paths -> 0..Len(objects)]
  <2>1. Len(objects) \in Nat /\ home \in [Paths -> 0..Len(objects)]
    BY DEF TypeOK
  <2> QED  BY <2>1 DEF Sweep
<1>5. UNCHANGED <<disk, channel, updates, froms, moved, running, reconcile, errors, names,
                  objects, tracked, stage, scanning, path, dirty, gone, spent>>
      /\ pc' = "renames" /\ WalkDone
  BY DEF Sweep
<1> QED  BY <1>3, <1>4, <1>5 DEF WalkDone, TypeOK

LEMMA FinishWorkType ==
  ASSUME TypeOK, FinishWork
  PROVE  TypeOK'
<1> USE DEF dirVars, pendVars, statVars, storeVars, walkVars
<1>1. home' \in [Paths -> 0..Len(objects)]
  <2>1. /\ Len(objects) \in Nat /\ home \in [Paths -> 0..Len(objects)]
        /\ names \in [Paths -> 0..Len(objects)]
    BY DEF TypeOK
  <2> QED  BY <2>1 DEF FinishWork
<1>2. UNCHANGED <<disk, channel, updates, renames, froms, moved, running, reconcile, errors,
                  names, objects, tracked, stage, scanning, path, toVisit, seen, walk, gone,
                  spent>>
      /\ pc' \in {"scan", "renames"}
  BY DEF FinishWork, Goto
<1>3. dirty' \in BOOLEAN
  BY DEF FinishWork, TypeOK
<1> QED  BY <1>1, <1>2, <1>3 DEF TypeOK

(* A rename is applied to known names, and moves updates to known paths.   *)
LEMMA ApplyType ==
  ASSUME TypeOK, RemovalInv, RenameApply
  PROVE  TypeOK'
<1> DEFINE r == Head(renames)
<1>1. pc = "rename" /\ renames # << >>
  BY DEF RenameApply, RemovalInv, LookedAt
<1>2. r \in Rename /\ Tail(renames) \in Seq(Rename)
  <2>1. renames \in Seq(Rename)
    BY DEF TypeOK
  <2> QED  BY <1>1, <2>1, HeadTailProperties
<1> HIDE DEF r
<1>3. Fits(r) /\ UpdateBindings(r)
  BY DEF RenameApply, r
<1>4. names' \in [Paths -> 0..Len(objects)]
  BY <1>3, BindingsSound DEF RemovalInv
<1>5. Targets(r) \subseteq Paths
  BY <1>3 DEF Fits, Targets, Target, ToName
<1>6. tracked' \subseteq Paths
  BY <1>3, <1>5 DEF UpdateBindings, TypeOK
<1>7. Remapped(r) \subseteq Nodes
  <2>1. updates \subseteq Nodes /\ Targets(r) \subseteq Nodes
    BY <1>5 DEF TypeOK, Nodes
  <2> QED  BY <1>3, <2>1 DEF Fits, Remapped
<1>8. TargetFiles(r) \subseteq Nodes
  BY DEF TargetFiles, FilesUnder, Nodes
<1> DEFINE errs == {e \in errors : ~(e \in updates /\ Under(e, r.from))} \ Affected(r)
<1>9. errs \subseteq Keys
  BY DEF TypeOK
<1> HIDE DEF errs
<1>10. /\ UNCHANGED <<disk, channel, froms, moved, objects, dirty, gone, home>>
       /\ \/ /\ updates' = Remapped(r) \cup TargetFiles(r)
             /\ renames' = Tail(renames)
             /\ Report(errs \ {Alert("rename")})
             /\ Goto("renames")
             /\ UNCHANGED <<running, reconcile, spent>>
          \/ /\ Spend("faults", MaxFaults)
             /\ updates' = Remapped(r)
             /\ RenamesFail(errs)
             /\ UNCHANGED renames
  BY DEF RenameApply, dirVars, histVars, r, errs
<1>11. CASE /\ updates' = Remapped(r) \cup TargetFiles(r)
            /\ renames' = Tail(renames)
            /\ Report(errs \ {Alert("rename")})
            /\ Goto("renames")
            /\ UNCHANGED <<running, reconcile, spent>>
  <2>1. errors' \subseteq Keys /\ updates' \subseteq Nodes /\ renames' \in Seq(Rename)
    BY <1>2, <1>7, <1>8, <1>9, <1>11 DEF Report
  <2>2. pc' = "renames" /\ UNCHANGED <<stage, scanning, path, toVisit, seen, walk>>
    BY <1>11 DEF Goto, walkVars
  <2> QED  BY <1>4, <1>6, <1>10, <1>11, <2>1, <2>2 DEF TypeOK
<1>12. CASE /\ Spend("faults", MaxFaults)
            /\ updates' = Remapped(r)
            /\ RenamesFail(errs)
            /\ UNCHANGED renames
  <2>1. spent' \in [{"changes", "client", "faults", "stops"} -> Nat]
    BY <1>12, SpendType
  <2>2. /\ errors' \subseteq Keys
        /\ pc' \in {"renames", "updates", "off", "scan", "decide"}
        /\ stage' \in {"first", "loop", "manual"}
        /\ scanning' \in BOOLEAN /\ UNCHANGED <<running, reconcile, path>>
        /\ toVisit' \subseteq Paths /\ seen' \subseteq Paths /\ walk' \in {"ok", "scan", "ingest"}
    BY <1>9, <1>12, RenamesFailType
  <2> QED  BY <1>4, <1>6, <1>7, <1>10, <1>12, <2>1, <2>2 DEF TypeOK
<1> QED  BY <1>10, <1>11, <1>12

LEMMA InitType == Init => TypeOK
<1> SUFFICES ASSUME Init PROVE TypeOK
  OBVIOUS
<1> USE DEF Init
<1>1. disk \in [Paths -> Contents \cup {NoFile}]
  BY PathAssumption
<1>2. /\ channel \in Seq(Event) /\ renames \in Seq(Rename) /\ froms \in Seq(Half)
      /\ objects \in Seq(Contents) /\ Len(objects) = 0
  BY EmptySeq
<1>3. path \in Paths
  BY AnyPathType
<1>4. names \in [Paths -> 0..Len(objects)] /\ home \in [Paths -> 0..Len(objects)]
  BY <1>2
<1>5. spent \in [{"changes", "client", "faults", "stops"} -> Nat]
  OBVIOUS
<1> QED  BY <1>1, <1>2, <1>3, <1>4, <1>5 DEF TypeOK

LEMMA NextType ==
  ASSUME TypeOK, RemovalInv, [Next]_vars
  PROVE  TypeOK'
<1>1. CASE UNCHANGED vars
  BY <1>1 DEF vars, dirVars, pendVars, statVars, storeVars, walkVars, workVars, histVars,
              TypeOK
<1>2. CASE Environment
  BY <1>2, WriteType, ClientType, RemoveNodeType, MoveType, LoseEventsType, ServiceType
     DEF Environment
<1>3. CASE EventThread
  BY <1>3, ReceiveType
<1>4. CASE Worker
  BY <1>4, WorkerIdleType, ApplyType, IngestType, WalkType, SweepKeepsType, FinishWorkType,
     UpdateType DEF Worker, RemovalInv, Sound
<1>5. CASE WorkerFaults
  BY <1>5, WorkerIdleType, IngestType, WalkType DEF WorkerFaults
<1>6. CASE Timers
  BY <1>6, ExpireType DEF Timers
<1> QED  BY <1>1, <1>2, <1>3, <1>4, <1>5, <1>6 DEF Next

(***************************************************************************)
(* For any paths, clients, errors, lost events and kills: the queues of    *)
(* the two threads hold known paths only, every name leads to an object,   *)
(* and what the watcher records as its own are files it may watch          *)
(* (receive_event, apply_rename, scan_inner).  A rename is applied only to *)
(* what the queue still holds, so that the proof needs RemovalInv.         *)
(***************************************************************************)
THEOREM WatcherTypeCorrect == Spec => []TypeOK
<1>1. Init => TypeOK /\ RemovalInv
  BY InitType, InitRemoval
<1>2. TypeOK /\ RemovalInv /\ [Next]_vars => TypeOK' /\ RemovalInv'
  BY NextType, NextRemoval
<1> QED  BY <1>1, <1>2, PTL DEF Spec
-----------------------------------------------------------------------------
(* Where a file's name is taken: by one rename, and by a queue of them      *)

\* The places that are watched.
Watched == {p \in Paths : Included(p)}

\* A rename that is still to be applied takes the name of a file from u to v.
Follows(r, u, v) ==
  /\ r.to # Nowhere => Apart(r.from, r.to)
  /\ \/ Under(u, r.from) /\ r.to # Nowhere /\ v = Moved(u, r.from, r.to)
     \/ ~Under(u, r.from) /\ v = u /\ (r.to # Nowhere => ~Under(u, r.to))

\* A rename that moves nothing any more, from n, leaves a file where it is.
Passes(n, u, v) == u = v /\ ~Under(u, n)

\* One that was queued before moves nothing the second time.
Takes(r, u, v) == Follows(r, u, v) \/ (r.again /\ Passes(r.from, u, v))

\* A notification takes the name along as the rename will that it becomes.
Whole(e) == [from |-> e.path, to |-> e.to]
Told(e, u, v) ==
  /\ e.kind = "both" /\ ~IsRepeat(e) => Follows(Whole(e), u, v)
  /\ IsRepeat(e) => Passes(e.path, u, v)
  /\ e.kind = "remove" => Follows(Removal(e.path), u, v)
  /\ e.kind = "to" => Follows([from |-> e.to, to |-> e.path], u, v)
  /\ e.kind \in {"change", "from"} => u = v

\* The first rename of the queue may have been applied already.
FollowsAt(q, k, a, u, v) == Takes(q[k], u, v) \/ (k = 1 /\ a /\ Passes(q[1].from, u, v))

QueueLeads(q, a, u, v) ==
  \E f \in [0..Len(q) -> Watched] :
    /\ f[0] = u /\ f[Len(q)] = v
    /\ \A k \in 1..Len(q) : FollowsAt(q, k, a, f[k - 1], f[k])

ChannelLeads(ch, u, v) ==
  \E g \in [0..Len(ch) -> Watched] :
    /\ g[0] = u /\ g[Len(ch)] = v
    /\ \A k \in 1..Len(ch) : Told(ch[k], g[k - 1], g[k])

LEMMA EmptyQueueLeads ==
  ASSUME NEW a, NEW u \in Watched
  PROVE  /\ QueueLeads(<< >>, a, u, u)
         /\ \A v : QueueLeads(<< >>, a, u, v) => v = u
<1>1. Len(<< >>) = 0
  OBVIOUS
<1>2. QueueLeads(<< >>, a, u, u)
  <2> DEFINE f == [k \in 0..0 |-> u]
  <2>1. f \in [0..0 -> Watched] /\ f[0] = u
    OBVIOUS
  <2> HIDE DEF f
  <2>2. \A k \in 1..0 : FALSE
    OBVIOUS
  <2> QED  BY <1>1, <2>1, <2>2 DEF QueueLeads
<1> QED  BY <1>1, <1>2 DEF QueueLeads

LEMMA QueueMore ==
  ASSUME NEW S, NEW q \in Seq(S), NEW a, NEW b, NEW u, NEW v, QueueLeads(q, a, u, v), a => b
  PROVE  QueueLeads(q, b, u, v)
BY DEF QueueLeads, FollowsAt

LEMMA QueueLeadsTo ==
  ASSUME NEW S, NEW q \in Seq(S), NEW a, NEW u, NEW v, QueueLeads(q, a, u, v)
  PROVE  u \in Watched /\ v \in Watched
<1>1. Len(q) \in Nat
  OBVIOUS
<1> QED  BY <1>1 DEF QueueLeads

LEMMA QueueAppend ==
  ASSUME NEW S, NEW q \in Seq(S), NEW r \in S, NEW a, NEW b, NEW u, NEW v, NEW w \in Watched,
         QueueLeads(q, a, u, v), a => b, Takes(r, v, w)
  PROVE  QueueLeads(Append(q, r), b, u, w)
<1> DEFINE n == Len(q)
           s == Append(q, r)
<1>1. n \in Nat
  OBVIOUS
<1>2. Len(s) = n + 1 /\ s[n + 1] = r /\ \A k \in 1..n : s[k] = q[k]
  BY AppendProperties
<1>3. PICK f \in [0..n -> Watched] :
        f[0] = u /\ f[n] = v /\ \A k \in 1..n : FollowsAt(q, k, a, f[k - 1], f[k])
  BY DEF QueueLeads
<1> HIDE DEF n, s
<1> DEFINE g == [k \in 0..(n + 1) |-> IF k = n + 1 THEN w ELSE f[k]]
<1>4. g \in [0..(n + 1) -> Watched]
  BY <1>1, <1>3
<1>5. g[0] = u /\ g[n + 1] = w
  BY <1>1, <1>3
<1>6. ASSUME NEW k \in 1..(n + 1) PROVE FollowsAt(s, k, b, g[k - 1], g[k])
  <2>1. CASE k = n + 1
    <3>1. g[k - 1] = v /\ g[k] = w
      BY <1>1, <1>3, <2>1
    <3> QED  BY <1>2, <2>1, <3>1 DEF FollowsAt
  <2>2. CASE k \in 1..n
    <3>1. g[k - 1] = f[k - 1] /\ g[k] = f[k] /\ s[k] = q[k] /\ (k = 1 => s[1] = q[1])
      BY <1>1, <1>2, <2>2
    <3>2. FollowsAt(q, k, a, f[k - 1], f[k])
      BY <1>3, <2>2
    <3> QED  BY <3>1, <3>2 DEF FollowsAt
  <2> QED  BY <1>1, <2>1, <2>2
<1> HIDE DEF g
<1>7. QueueLeads(s, b, u, w)
  BY <1>2, <1>4, <1>5, <1>6 DEF QueueLeads
<1> QED  BY <1>7 DEF s

LEMMA QueueTail ==
  ASSUME NEW S, NEW q \in Seq(S), q # << >>, NEW a, NEW u, NEW v, QueueLeads(q, a, u, v)
  PROVE  \E w \in Watched : /\ FollowsAt(q, 1, a, u, w)
                            /\ QueueLeads(Tail(q), FALSE, w, v)
<1> DEFINE n == Len(q)
           s == Tail(q)
<1>1. n \in Nat /\ n # 0
  BY EmptySeq
<1>2. Len(s) = n - 1 /\ \A k \in 1..(n - 1) : s[k] = q[k + 1]
  OBVIOUS
<1>3. PICK f \in [0..n -> Watched] :
        f[0] = u /\ f[n] = v /\ \A k \in 1..n : FollowsAt(q, k, a, f[k - 1], f[k])
  BY DEF QueueLeads
<1> HIDE DEF n, s
<1> DEFINE g == [k \in 0..(n - 1) |-> f[k + 1]]
<1>4. g \in [0..(n - 1) -> Watched] /\ g[0] = f[1] /\ g[n - 1] = v /\ f[1] \in Watched
  BY <1>1, <1>3
<1>5. ASSUME NEW k \in 1..(n - 1) PROVE FollowsAt(s, k, FALSE, g[k - 1], g[k])
  <2>1. /\ k + 1 \in 1..n /\ k + 1 # 1 /\ (k + 1) - 1 = k
        /\ g[k - 1] = f[k] /\ g[k] = f[k + 1] /\ s[k] = q[k + 1]
    BY <1>1, <1>2
  <2>2. FollowsAt(q, k + 1, a, f[k], f[k + 1])
    BY <1>3, <2>1
  <2> QED  BY <2>1, <2>2 DEF FollowsAt
<1> HIDE DEF g
<1>6. QueueLeads(s, FALSE, f[1], v)
  BY <1>2, <1>4, <1>5 DEF QueueLeads
<1>7. FollowsAt(q, 1, a, u, f[1])
  BY <1>1, <1>3
<1> QED  BY <1>4, <1>6, <1>7 DEF s

(* A rename that has been applied stays in the queue after an error.       *)
LEMMA QueueApplied ==
  ASSUME NEW S, NEW q \in Seq(S), q # << >>, NEW u, NEW v, QueueLeads(Tail(q), FALSE, u, v),
         ~Under(u, q[1].from)
  PROVE  QueueLeads(q, TRUE, u, v)
<1> DEFINE n == Len(q)
           s == Tail(q)
<1>1. n \in Nat /\ n # 0
  BY EmptySeq
<1>2. Len(s) = n - 1 /\ \A k \in 1..(n - 1) : s[k] = q[k + 1]
  OBVIOUS
<1>3. PICK f \in [0..Len(s) -> Watched] :
        /\ f[0] = u /\ f[Len(s)] = v
        /\ \A k \in 1..Len(s) : FollowsAt(s, k, FALSE, f[k - 1], f[k])
  BY DEF QueueLeads
<1> HIDE DEF n, s
<1> DEFINE g == [k \in 0..n |-> IF k = 0 THEN u ELSE f[k - 1]]
<1>4. g \in [0..n -> Watched] /\ g[0] = u /\ g[n] = v /\ g[1] = u
  BY <1>1, <1>2, <1>3
<1>5. ASSUME NEW k \in 1..n PROVE FollowsAt(q, k, TRUE, g[k - 1], g[k])
  <2>1. CASE k = 1
    BY <1>4, <2>1 DEF FollowsAt, Passes
  <2>2. CASE k # 1
    <3>1. /\ k - 1 \in 1..Len(s) /\ g[k - 1] = f[k - 1 - 1] /\ g[k] = f[k - 1]
          /\ s[k - 1] = q[k]
      BY <1>1, <1>2, <2>2
    <3>2. FollowsAt(s, k - 1, FALSE, f[k - 1 - 1], f[k - 1])
      BY <1>3, <3>1
    <3> QED  BY <3>1, <3>2 DEF FollowsAt
  <2> QED  BY <2>1, <2>2
<1> HIDE DEF g
<1> QED  BY <1>4, <1>5 DEF QueueLeads, n

(* Renames that have nothing to do with a file leave it where it is.       *)
LEMMA QueueStays ==
  ASSUME NEW S, NEW q \in Seq(S), NEW a, NEW u \in Watched,
         \A k \in 1..Len(q) : Follows(q[k], u, u)
  PROVE  QueueLeads(q, a, u, u)
<1> DEFINE f == [k \in 0..Len(q) |-> u]
<1>1. Len(q) \in Nat
  OBVIOUS
<1>2. f \in [0..Len(q) -> Watched] /\ f[0] = u /\ f[Len(q)] = u
  BY <1>1
<1>3. \A k \in 1..Len(q) : FollowsAt(q, k, a, f[k - 1], f[k])
  BY <1>1 DEF FollowsAt, Takes
<1> HIDE DEF f
<1> QED  BY <1>2, <1>3 DEF QueueLeads
-----------------------------------------------------------------------------
(* ... and by the notifications that have not been received                 *)

LEMMA EmptyChannelLeads ==
  ASSUME NEW u \in Watched
  PROVE  /\ ChannelLeads(<< >>, u, u)
         /\ \A v : ChannelLeads(<< >>, u, v) => v = u
<1>1. Len(<< >>) = 0
  OBVIOUS
<1>2. ChannelLeads(<< >>, u, u)
  <2> DEFINE f == [k \in 0..0 |-> u]
  <2>1. f \in [0..0 -> Watched] /\ f[0] = u
    OBVIOUS
  <2> HIDE DEF f
  <2>2. \A k \in 1..0 : FALSE
    OBVIOUS
  <2> QED  BY <1>1, <2>1, <2>2 DEF ChannelLeads
<1> QED  BY <1>1, <1>2 DEF ChannelLeads

LEMMA ChannelLeadsTo ==
  ASSUME NEW S, NEW ch \in Seq(S), NEW u, NEW v, ChannelLeads(ch, u, v)
  PROVE  u \in Watched /\ v \in Watched
<1>1. Len(ch) \in Nat
  OBVIOUS
<1> QED  BY <1>1 DEF ChannelLeads

LEMMA ChannelAppend ==
  ASSUME NEW S, NEW ch \in Seq(S), NEW e \in S, NEW u, NEW v, NEW w \in Watched,
         ChannelLeads(ch, u, v), Told(e, v, w)
  PROVE  ChannelLeads(Append(ch, e), u, w)
<1> DEFINE n == Len(ch)
           s == Append(ch, e)
<1>1. n \in Nat
  OBVIOUS
<1>2. Len(s) = n + 1 /\ s[n + 1] = e /\ \A k \in 1..n : s[k] = ch[k]
  BY AppendProperties
<1>3. PICK f \in [0..n -> Watched] :
        f[0] = u /\ f[n] = v /\ \A k \in 1..n : Told(ch[k], f[k - 1], f[k])
  BY DEF ChannelLeads
<1> HIDE DEF n, s
<1> DEFINE g == [k \in 0..(n + 1) |-> IF k = n + 1 THEN w ELSE f[k]]
<1>4. g \in [0..(n + 1) -> Watched]
  BY <1>1, <1>3
<1>5. g[0] = u /\ g[n + 1] = w
  BY <1>1, <1>3
<1>6. ASSUME NEW k \in 1..(n + 1) PROVE Told(s[k], g[k - 1], g[k])
  <2>1. CASE k = n + 1
    <3>1. g[k - 1] = v /\ g[k] = w /\ s[k] = e
      BY <1>1, <1>2, <1>3, <2>1
    <3> QED  BY <3>1
  <2>2. CASE k \in 1..n
    <3>1. g[k - 1] = f[k - 1] /\ g[k] = f[k] /\ s[k] = ch[k]
      BY <1>1, <1>2, <2>2
    <3>2. Told(ch[k], f[k - 1], f[k])
      BY <1>3, <2>2
    <3> QED  BY <3>1, <3>2
  <2> QED  BY <1>1, <2>1, <2>2
<1> HIDE DEF g
<1>7. ChannelLeads(s, u, w)
  BY <1>2, <1>4, <1>5, <1>6 DEF ChannelLeads
<1> QED  BY <1>7 DEF s

LEMMA ChannelTail ==
  ASSUME NEW S, NEW ch \in Seq(S), ch # << >>, NEW u, NEW v, ChannelLeads(ch, u, v)
  PROVE  \E w \in Watched : Told(ch[1], u, w) /\ ChannelLeads(Tail(ch), w, v)
<1> DEFINE n == Len(ch)
           s == Tail(ch)
<1>1. n \in Nat /\ n # 0
  BY EmptySeq
<1>2. Len(s) = n - 1 /\ \A k \in 1..(n - 1) : s[k] = ch[k + 1]
  OBVIOUS
<1>3. PICK f \in [0..n -> Watched] :
        f[0] = u /\ f[n] = v /\ \A k \in 1..n : Told(ch[k], f[k - 1], f[k])
  BY DEF ChannelLeads
<1> HIDE DEF n, s
<1> DEFINE g == [k \in 0..(n - 1) |-> f[k + 1]]
<1>4. g \in [0..(n - 1) -> Watched] /\ g[0] = f[1] /\ g[n - 1] = v /\ f[1] \in Watched
  BY <1>1, <1>3
<1>5. ASSUME NEW k \in 1..(n - 1) PROVE Told(s[k], g[k - 1], g[k])
  <2>1. /\ k + 1 \in 1..n /\ (k + 1) - 1 = k
        /\ g[k - 1] = f[k] /\ g[k] = f[k + 1] /\ s[k] = ch[k + 1]
    BY <1>1, <1>2
  <2>2. Told(ch[k + 1], f[k], f[k + 1])
    BY <1>3, <2>1
  <2> QED  BY <2>1, <2>2
<1> HIDE DEF g
<1>6. ChannelLeads(s, f[1], v)
  BY <1>2, <1>4, <1>5 DEF ChannelLeads
<1>7. Told(ch[1], u, f[1])
  <2>1. 1 \in 1..n /\ 1 - 1 = 0
    BY <1>1
  <2> QED  BY <1>3, <2>1
<1> QED  BY <1>4, <1>6, <1>7 DEF s

(* A change that is reported between others moves nothing.                 *)
LEMMA ChannelInsert ==
  ASSUME NEW S, NEW ch \in Seq(S), NEW e \in S, e.kind = "change", NEW i \in 1..Len(ch),
         NEW u, NEW v, ChannelLeads(ch, u, v)
  PROVE  ChannelLeads(InsertAt(ch, i, e), u, v)
<1> DEFINE n == Len(ch)
           s == InsertAt(ch, i, e)
<1>1. n \in Nat /\ i \in 1..n
  OBVIOUS
<1>2. /\ Len(s) = n + 1 /\ s[i] = e /\ \A k \in 1..(i - 1) : s[k] = ch[k]
      /\ \A k \in i..n : s[k + 1] = ch[k]
  BY InsertAtType
<1>3. PICK f \in [0..n -> Watched] :
        f[0] = u /\ f[n] = v /\ \A k \in 1..n : Told(ch[k], f[k - 1], f[k])
  BY DEF ChannelLeads
<1> HIDE DEF n, s
<1> DEFINE g == [k \in 0..(n + 1) |-> IF k < i THEN f[k] ELSE f[k - 1]]
<1>4. g \in [0..(n + 1) -> Watched]
  BY <1>1, <1>3
<1>5. g[0] = u /\ g[n + 1] = v
  BY <1>1, <1>3
<1>6. ASSUME NEW k \in 1..(n + 1) PROVE Told(s[k], g[k - 1], g[k])
  <2>1. CASE k < i
    <3>1. k \in 1..(i - 1) /\ k \in 1..n /\ g[k - 1] = f[k - 1] /\ g[k] = f[k]
      BY <1>1, <2>1
    <3> QED  BY <1>2, <1>3, <3>1
  <2>2. CASE k = i
    <3>1. g[k - 1] = f[k - 1] /\ g[k] = f[k - 1]
      BY <1>1, <2>2
    <3> QED  BY <1>2, <2>2, <3>1 DEF Told, IsRepeat
  <2>3. CASE k > i
    <3>1. /\ k - 1 \in i..n /\ k - 1 \in 1..n /\ (k - 1) + 1 = k
          /\ g[k - 1] = f[(k - 1) - 1] /\ g[k] = f[k - 1]
      BY <1>1, <2>3
    <3> QED  BY <1>2, <1>3, <3>1
  <2> QED  BY <1>1, <2>1, <2>2, <2>3
<1> HIDE DEF g
<1>7. ChannelLeads(s, u, v)
  BY <1>2, <1>4, <1>5, <1>6 DEF ChannelLeads
<1> QED  BY <1>7 DEF s

(* Notifications that are sent together come one after the other.          *)
LEMMA SentTogether ==
  ASSUME NEW S, NEW ch \in Seq(S), NEW a \in S, NEW b \in S, NEW c \in S
  PROVE  /\ ch \o <<a, b>> = Append(Append(ch, a), b)
         /\ ch \o <<a, b, c>> = Append(Append(Append(ch, a), b), c)
<1> DEFINE x == <<a>>
           y == <<b>>
           z == <<c>>
           xy == <<a, b>>
<1>1. /\ x \in Seq(S) /\ y \in Seq(S) /\ z \in Seq(S) /\ xy \in Seq(S)
      /\ xy = Append(x, b) /\ <<a, b, c>> = Append(xy, c)
  OBVIOUS
<1>2. xy = x \o y /\ <<a, b, c>> = xy \o z
  BY <1>1, AppendIsConcat
<1>3. /\ Append(ch, a) \in Seq(S) /\ Append(ch, a) = ch \o x
      /\ Append(Append(ch, a), b) \in Seq(S)
      /\ Append(Append(ch, a), b) = Append(ch, a) \o y
      /\ Append(Append(Append(ch, a), b), c) = Append(Append(ch, a), b) \o z
  BY AppendProperties, AppendIsConcat
<1> HIDE DEF x, y, z, xy
<1>4. ch \o xy = Append(Append(ch, a), b)
  BY <1>1, <1>2, <1>3, ConcatAssociative
<1>5. ch \o <<a, b, c>> = Append(Append(Append(ch, a), b), c)
  <2>1. (ch \o xy) \o z = ch \o (xy \o z)
    BY <1>1, ConcatAssociative
  <2> QED  BY ONLY <1>2, <1>3, <1>4, <2>1
<1> QED  BY <1>4, <1>5 DEF xy
-----------------------------------------------------------------------------
(* The two halves of a rename: they were sent together, so that only        *)
(* changes are received between them.                                       *)

TrackersDiffer(fr) == \A i, k \in 1..Len(fr) : fr[i].tracker = fr[k].tracker => i = k

Changes(ch, i, k) == \A m \in i..k : ch[m].kind = "change"

\* After the k-th notification comes a second half.
ToFollows(ch, k) ==
  \E m \in (k + 1)..Len(ch) : ch[m].kind = "to" /\ Changes(ch, k + 1, m - 1)

\* The half before the k-th notification in the channel, or the last one that waits.
HalfSent(ch, j, k) ==
  /\ ch[j].kind = "from" /\ ch[j].tracker = ch[k].tracker /\ ch[j].path = ch[k].to
  /\ Changes(ch, j + 1, k - 1)
HalfWaits(ch, fr, k) ==
  /\ Changes(ch, 1, k - 1) /\ fr # << >>
  /\ fr[Len(fr)].tracker = ch[k].tracker /\ fr[Len(fr)].path = ch[k].to
MeetsAt(ch, fr, k) == (\E j \in 1..(k - 1) : HalfSent(ch, j, k)) \/ HalfWaits(ch, fr, k)

\* A half without tracker is followed by the other one, and that one finds it.
LoneHaveTrackers(ch, fr) ==
  /\ \A k \in 1..Len(ch) : ch[k].kind = "from" /\ ch[k].tracker = 0 => ToFollows(ch, k)
  /\ \A i \in 1..Len(fr) : fr[i].tracker = 0 => i = Len(fr) /\ ToFollows(ch, 0)
HalvesMeet(ch, fr) == \A k \in 1..Len(ch) : ch[k].kind = "to" => MeetsAt(ch, fr, k)

PairsMeet(ch, fr) ==
  /\ TrackersDiffer(fr) /\ LoneHaveTrackers(ch, fr) /\ HalvesMeet(ch, fr)
  /\ \A k \in 1..Len(ch) : ch[k].kind # "lost"

LEMMA PairsNone ==
  ASSUME NEW fr, TrackersDiffer(fr), \A i \in 1..Len(fr) : fr[i].tracker # 0
  PROVE  PairsMeet(<< >>, fr)
<1>1. Len(<< >>) = 0 /\ \A k \in 1..0 : FALSE
  OBVIOUS
<1> QED  BY <1>1 DEF PairsMeet, LoneHaveTrackers, HalvesMeet

LEMMA PairsStart == PairsMeet(<< >>, << >>)
<1>1. Len(<< >>) = 0 /\ \A k \in 1..0 : FALSE
  OBVIOUS
<1> QED  BY <1>1, PairsNone DEF TrackersDiffer

\* What comes later does not part two halves.
LEMMA PairsLonger ==
  ASSUME NEW n \in Nat, NEW ch, NEW s, NEW fr, Len(ch) = n, Len(s) \in Nat, Len(s) >= n,
         \A k \in 1..n : s[k] = ch[k], PairsMeet(ch, fr)
  PROVE  /\ \A k \in 0..n : ToFollows(ch, k) => ToFollows(s, k)
         /\ \A k \in 1..n : MeetsAt(ch, fr, k) => MeetsAt(s, fr, k)
<1>1. ASSUME NEW i \in 1..(n + 1), NEW m \in 0..n, Changes(ch, i, m) PROVE Changes(s, i, m)
  BY <1>1 DEF Changes
<1>2. ASSUME NEW k \in 0..n, ToFollows(ch, k) PROVE ToFollows(s, k)
  <2>1. PICK m \in (k + 1)..n : ch[m].kind = "to" /\ Changes(ch, k + 1, m - 1)
    BY <1>2 DEF ToFollows
  <2>2. /\ m \in 1..n /\ m \in (k + 1)..Len(s) /\ k + 1 \in 1..(n + 1) /\ m - 1 \in 0..n
    OBVIOUS
  <2> QED  BY <1>1, <2>1, <2>2 DEF ToFollows
<1>3. ASSUME NEW k \in 1..n, MeetsAt(ch, fr, k) PROVE MeetsAt(s, fr, k)
  <2>1. ASSUME NEW j \in 1..(k - 1), HalfSent(ch, j, k) PROVE HalfSent(s, j, k)
    <3>1. j \in 1..n /\ j + 1 \in 1..(n + 1) /\ k - 1 \in 0..n
      OBVIOUS
    <3> QED  BY <1>1, <2>1, <3>1 DEF HalfSent
  <2>2. ASSUME HalfWaits(ch, fr, k) PROVE HalfWaits(s, fr, k)
    <3>1. 1 \in 1..(n + 1) /\ k - 1 \in 0..n
      OBVIOUS
    <3> QED  BY <1>1, <2>2, <3>1 DEF HalfWaits
  <2> QED  BY <1>3, <2>1, <2>2 DEF MeetsAt
<1> QED  BY <1>2, <1>3

\* A notification that stands for itself.
LEMMA PairsSendOne ==
  ASSUME NEW S, NEW ch \in Seq(S), NEW fr, NEW e \in S, PairsMeet(ch, fr),
         e.kind \in {"change", "remove", "both", "from"},
         e.kind = "from" => e.tracker # 0
  PROVE  PairsMeet(Append(ch, e), fr)
<1> DEFINE n == Len(ch)
           s == Append(ch, e)
<1>1. n \in Nat
  OBVIOUS
<1>2. Len(s) = n + 1 /\ s[n + 1] = e /\ \A k \in 1..n : s[k] = ch[k]
  BY AppendProperties
<1> HIDE DEF n, s
<1>3. /\ \A k \in 0..n : ToFollows(ch, k) => ToFollows(s, k)
      /\ \A k \in 1..n : MeetsAt(ch, fr, k) => MeetsAt(s, fr, k)
  BY <1>1, <1>2, PairsLonger DEF n
<1>4. LoneHaveTrackers(s, fr)
  <2>1. ASSUME NEW k \in 1..(n + 1), s[k].kind = "from", s[k].tracker = 0
        PROVE  ToFollows(s, k)
    <3>1. k \in 1..n /\ k \in 0..n
      BY <1>1, <1>2, <2>1
    <3> QED  BY <1>2, <1>3, <2>1, <3>1 DEF PairsMeet, LoneHaveTrackers, n
  <2>2. 0 \in 0..n
    BY <1>1
  <2> QED  BY <1>2, <1>3, <2>1, <2>2 DEF PairsMeet, LoneHaveTrackers
<1>5. HalvesMeet(s, fr)
  <2> SUFFICES ASSUME NEW k \in 1..(n + 1), s[k].kind = "to" PROVE MeetsAt(s, fr, k)
    BY <1>2 DEF HalvesMeet
  <2>1. k \in 1..n
    BY <1>1, <1>2
  <2> QED  BY <1>2, <1>3, <2>1 DEF PairsMeet, HalvesMeet, n
<1>6. \A k \in 1..(n + 1) : s[k].kind # "lost"
  <2>1. \A k \in 1..n : ch[k].kind # "lost"
    BY DEF PairsMeet, n
  <2> QED  BY <1>1, <1>2, <2>1
<1>7. PairsMeet(s, fr)
  BY <1>2, <1>4, <1>5, <1>6 DEF PairsMeet
<1> QED  BY <1>7 DEF s

\* The two halves of a rename.
LEMMA PairsSendTwo ==
  ASSUME NEW S, NEW ch \in Seq(S), NEW fr, NEW a \in S, NEW b \in S, PairsMeet(ch, fr),
         a.kind = "from", b.kind = "to", a.tracker = b.tracker, a.path = b.to
  PROVE  PairsMeet(Append(Append(ch, a), b), fr)
<1> DEFINE n == Len(ch)
           s == Append(Append(ch, a), b)
<1>1. n \in Nat
  OBVIOUS
<1>2. /\ Len(s) = n + 2 /\ s[n + 1] = a /\ s[n + 2] = b
      /\ \A k \in 1..n : s[k] = ch[k]
  <2> DEFINE c == Append(ch, a)
  <2>1. c \in Seq(S) /\ Len(c) = n + 1 /\ c[n + 1] = a /\ \A k \in 1..n : c[k] = ch[k]
    BY AppendProperties
  <2> HIDE DEF c, n
  <2>2. /\ Len(Append(c, b)) = n + 2 /\ Append(c, b)[n + 2] = b
        /\ \A k \in 1..(n + 1) : Append(c, b)[k] = c[k]
    BY <1>1, <2>1, AppendProperties
  <2> QED  BY <1>1, <2>1, <2>2 DEF c
<1> HIDE DEF n, s
<1>3. /\ \A k \in 0..n : ToFollows(ch, k) => ToFollows(s, k)
      /\ \A k \in 1..n : MeetsAt(ch, fr, k) => MeetsAt(s, fr, k)
  BY <1>1, <1>2, PairsLonger DEF n
<1>4. ToFollows(s, n + 1) /\ MeetsAt(s, fr, n + 2)
  <2>1. /\ n + 2 \in ((n + 1) + 1)..Len(s) /\ n + 1 \in 1..((n + 2) - 1)
        /\ (n + 2) - 1 = n + 1 /\ (n + 1) + 1 = n + 2
    BY <1>1, <1>2
  <2>2. Changes(s, n + 2, n + 1)
    BY <1>1 DEF Changes
  <2> QED  BY <1>2, <2>1, <2>2 DEF ToFollows, MeetsAt, HalfSent
<1>5. LoneHaveTrackers(s, fr)
  <2>1. ASSUME NEW k \in 1..(n + 2), s[k].kind = "from", s[k].tracker = 0
        PROVE  ToFollows(s, k)
    <3>1. CASE k \in 1..n
      <4>1. k \in 0..n
        BY <3>1
      <4> QED  BY <1>2, <1>3, <2>1, <3>1, <4>1 DEF PairsMeet, LoneHaveTrackers, n
    <3>2. CASE k = n + 1
      BY <1>4, <3>2
    <3>3. k # n + 2
      BY <1>2, <2>1
    <3> QED  BY <1>1, <3>1, <3>2, <3>3
  <2>2. 0 \in 0..n
    BY <1>1
  <2> QED  BY <1>2, <1>3, <2>1, <2>2 DEF PairsMeet, LoneHaveTrackers
<1>6. HalvesMeet(s, fr)
  <2> SUFFICES ASSUME NEW k \in 1..(n + 2), s[k].kind = "to" PROVE MeetsAt(s, fr, k)
    BY <1>2 DEF HalvesMeet
  <2>1. CASE k \in 1..n
    BY <1>2, <1>3, <2>1 DEF PairsMeet, HalvesMeet, n
  <2>2. CASE k = n + 2
    BY <1>4, <2>2
  <2>3. k # n + 1
    BY <1>2
  <2> QED  BY <1>1, <2>1, <2>2, <2>3
<1>7. \A k \in 1..(n + 2) : s[k].kind # "lost"
  <2>1. \A k \in 1..n : ch[k].kind # "lost"
    BY DEF PairsMeet, n
  <2> QED  BY <1>1, <1>2, <2>1
<1>8. PairsMeet(s, fr)
  BY <1>2, <1>5, <1>6, <1>7 DEF PairsMeet
<1> QED  BY <1>8 DEF s

\* A change between two halves.
LEMMA PairsInsert ==
  ASSUME NEW S, NEW ch \in Seq(S), NEW fr, NEW e \in S, e.kind = "change",
         NEW i \in 1..Len(ch), PairsMeet(ch, fr)
  PROVE  PairsMeet(InsertAt(ch, i, e), fr)
<1> DEFINE n == Len(ch)
           s == InsertAt(ch, i, e)
           at(k) == IF k < i THEN k ELSE k + 1
<1>1. n \in Nat /\ i \in 1..n
  OBVIOUS
<1>2. /\ Len(s) = n + 1 /\ s[i] = e /\ \A k \in 1..(i - 1) : s[k] = ch[k]
      /\ \A k \in i..n : s[k + 1] = ch[k]
  BY InsertAtType
<1> HIDE DEF n, s
<1>3. ASSUME NEW k \in 1..n PROVE at(k) \in 1..(n + 1) /\ s[at(k)] = ch[k]
  <2>1. CASE k < i
    <3>1. k \in 1..(i - 1) /\ k \in 1..(n + 1)
      BY <1>1, <2>1
    <3> QED  BY <1>2, <2>1, <3>1
  <2>2. CASE ~(k < i)
    <3>1. k \in i..n /\ k + 1 \in 1..(n + 1)
      BY <1>1, <2>2
    <3> QED  BY <1>2, <2>2, <3>1
  <2> QED  BY <2>1, <2>2
<1>4. ASSUME NEW k \in 1..(n + 1), k # i PROVE \E j \in 1..n : k = at(j)
  <2>1. CASE k < i
    <3>1. k \in 1..n /\ k = at(k)
      BY <1>1, <2>1
    <3> QED  BY <3>1
  <2>2. CASE k > i
    <3>1. k - 1 \in 1..n /\ k = at(k - 1)
      BY <1>1, <2>2
    <3> QED  BY <3>1
  <2> QED  BY <1>1, <1>4, <2>1, <2>2
\* What lies between two places now lay between them before, or is new.
<1>5. ASSUME NEW j \in 0..n, NEW k \in 1..n, NEW a, NEW m \in 1..(n + 1), j < k,
             a = IF j = 0 THEN 0 ELSE at(j), a < m, m < at(k), m # i
      PROVE  \E o \in (j + 1)..(k - 1) : o \in 1..n /\ m = at(o)
  <2>1. PICK o \in 1..n : m = at(o)
    BY <1>4, <1>5
  <2>2. o \in (j + 1)..(k - 1)
    BY <1>1, <1>5, <2>1
  <2> QED  BY <2>1, <2>2
<1>6. ASSUME NEW j \in 0..n, NEW k \in 1..n, j < k, NEW a, a = (IF j = 0 THEN 0 ELSE at(j)),
             Changes(ch, j + 1, k - 1)
      PROVE  Changes(s, a + 1, at(k) - 1)
  <2> SUFFICES ASSUME NEW m \in (a + 1)..(at(k) - 1) PROVE s[m].kind = "change"
    BY DEF Changes
  <2>1. m \in 1..(n + 1) /\ a < m /\ m < at(k)
    BY <1>1, <1>6
  <2>2. CASE m = i
    BY <1>2, <2>2
  <2>3. CASE m # i
    <3>1. PICK o \in (j + 1)..(k - 1) : o \in 1..n /\ m = at(o)
      BY <1>5, <1>6, <2>1, <2>3
    <3> QED  BY <1>3, <1>6, <3>1 DEF Changes
  <2> QED  BY <2>2, <2>3
<1>7. ASSUME NEW j \in 0..n, NEW a, a = (IF j = 0 THEN 0 ELSE at(j)), ToFollows(ch, j)
      PROVE  ToFollows(s, a)
  <2>1. PICK m \in (j + 1)..n : ch[m].kind = "to" /\ Changes(ch, j + 1, m - 1)
    BY <1>7 DEF ToFollows, n
  <2>2. m \in 1..n /\ j < m /\ at(m) \in (a + 1)..(n + 1)
    BY <1>1, <1>7
  <2>3. s[at(m)] = ch[m] /\ Changes(s, a + 1, at(m) - 1)
    BY <1>3, <1>6, <1>7, <2>1, <2>2
  <2> HIDE DEF at
  <2> QED  BY <1>2, <2>1, <2>2, <2>3 DEF ToFollows
<1>8. ASSUME NEW k \in 1..n, MeetsAt(ch, fr, k) PROVE MeetsAt(s, fr, at(k))
  <2>1. s[at(k)] = ch[k]
    BY <1>3
  <2>2. CASE \E j \in 1..(k - 1) : HalfSent(ch, j, k)
    <3>1. PICK j \in 1..(k - 1) : HalfSent(ch, j, k)
      BY <2>2
    <3>2. /\ j \in 1..n /\ j \in 0..n /\ j < k /\ j # 0
          /\ at(j) \in 1..(at(k) - 1)
      BY <1>1
    <3>3. s[at(j)] = ch[j] /\ Changes(s, at(j) + 1, at(k) - 1)
      BY <1>3, <1>6, <3>1, <3>2 DEF HalfSent
    <3> HIDE DEF at
    <3> QED  BY <2>1, <3>1, <3>2, <3>3 DEF MeetsAt, HalfSent
  <2>3. CASE HalfWaits(ch, fr, k)
    <3>1. 0 \in 0..n /\ 0 < k /\ 0 + 1 = 1
      BY <1>1
    <3>2. Changes(s, 0 + 1, at(k) - 1)
      BY <1>6, <2>3, <3>1 DEF HalfWaits
    <3> HIDE DEF at
    <3> QED  BY <2>1, <2>3, <3>1, <3>2 DEF MeetsAt, HalfWaits
  <2> QED  BY <1>8, <2>2, <2>3 DEF MeetsAt
<1>9. LoneHaveTrackers(s, fr)
  <2>1. ASSUME NEW m \in 1..(n + 1), s[m].kind = "from", s[m].tracker = 0
        PROVE  ToFollows(s, m)
    <3>1. m # i
      BY <1>2, <2>1
    <3>2. PICK j \in 1..n : m = at(j)
      BY <1>4, <3>1
    <3>3. j \in 0..n /\ j # 0 /\ s[m] = ch[j]
      BY <1>3, <3>2
    <3>4. ToFollows(ch, j)
      BY <2>1, <3>3 DEF PairsMeet, LoneHaveTrackers, n
    <3> QED  BY <1>7, <3>2, <3>3, <3>4
  <2>2. ASSUME ToFollows(ch, 0) PROVE ToFollows(s, 0)
    <3>1. 0 \in 0..n
      BY <1>1
    <3> QED  BY <1>7, <2>2, <3>1
  <2> QED  BY <1>2, <2>1, <2>2 DEF PairsMeet, LoneHaveTrackers
<1>10. HalvesMeet(s, fr)
  <2> SUFFICES ASSUME NEW m \in 1..(n + 1), s[m].kind = "to" PROVE MeetsAt(s, fr, m)
    BY <1>2 DEF HalvesMeet
  <2>1. m # i
    BY <1>2
  <2>2. PICK j \in 1..n : m = at(j)
    BY <1>4, <2>1
  <2>3. MeetsAt(ch, fr, j)
    BY <1>3, <2>2 DEF PairsMeet, HalvesMeet, n
  <2> QED  BY <1>8, <2>2, <2>3
<1>11. \A m \in 1..(n + 1) : s[m].kind # "lost"
  <2>1. \A k \in 1..n : ch[k].kind # "lost"
    BY DEF PairsMeet, n
  <2> HIDE DEF at
  <2> QED  BY <1>2, <1>3, <1>4, <2>1
<1>12. PairsMeet(s, fr)
  BY <1>2, <1>9, <1>10, <1>11 DEF PairsMeet
<1> QED  BY <1>12 DEF s

(* After a notification is received: the halves that wait now are gr, with *)
(* the received one at their end if it was a first half.                   *)
LEMMA PairsReceived ==
  ASSUME NEW S, NEW ch \in Seq(S), ch # << >>, NEW fr, NEW gr, PairsMeet(ch, fr),
         TrackersDiffer(gr),
         ch[1].kind = "from" => /\ gr # << >> /\ gr[Len(gr)].tracker = ch[1].tracker
                                /\ gr[Len(gr)].path = ch[1].path,
         ch[1].kind = "change" => gr = fr,
         \A i \in 1..Len(gr) : gr[i].tracker = 0 =>
           i = Len(gr) /\ ch[1].kind \in {"from", "change"}
  PROVE  PairsMeet(Tail(ch), gr)
<1> DEFINE n == Len(ch)
           s == Tail(ch)
<1>1. n \in Nat /\ n # 0 /\ 1 \in 1..n /\ 0 + 1 = 1
  BY EmptySeq
<1>2. Len(s) = n - 1 /\ \A k \in 1..(n - 1) : s[k] = ch[k + 1]
  OBVIOUS
<1> HIDE DEF n, s
<1>3. ASSUME NEW i \in 1..n, NEW m \in 0..(n - 1), Changes(ch, i + 1, m + 1)
      PROVE  Changes(s, i, m)
  <2> SUFFICES ASSUME NEW k \in i..m PROVE s[k].kind = "change"
    BY DEF Changes
  <2>1. k \in 1..(n - 1) /\ k + 1 \in (i + 1)..(m + 1)
    BY <1>1
  <2> QED  BY <1>2, <1>3, <2>1 DEF Changes
<1>4. ASSUME NEW k \in 0..(n - 1), ToFollows(ch, k + 1) PROVE ToFollows(s, k)
  <2>1. PICK m \in ((k + 1) + 1)..n : /\ ch[m].kind = "to"
                                      /\ Changes(ch, (k + 1) + 1, m - 1)
    BY <1>4 DEF ToFollows, n
  <2>2. /\ m - 1 \in (k + 1)..(n - 1) /\ m - 1 \in 1..(n - 1) /\ (m - 1) + 1 = m
        /\ k + 1 \in 1..n /\ m - 2 \in 0..(n - 1) /\ (m - 2) + 1 = m - 1
        /\ (m - 1) - 1 = m - 2
    BY <1>1
  <2>3. Changes(s, k + 1, m - 2) /\ s[m - 1] = ch[m]
    BY <1>2, <1>3, <2>1, <2>2
  <2> QED  BY <1>2, <2>1, <2>2, <2>3 DEF ToFollows
<1>5. LoneHaveTrackers(s, gr)
  <2>1. ASSUME NEW k \in 1..(n - 1), s[k].kind = "from", s[k].tracker = 0
        PROVE  ToFollows(s, k)
    <3>1. k + 1 \in 1..n /\ s[k] = ch[k + 1] /\ k \in 0..(n - 1)
      BY <1>1, <1>2
    <3>2. ToFollows(ch, k + 1)
      BY <2>1, <3>1 DEF PairsMeet, LoneHaveTrackers, n
    <3> QED  BY <1>4, <3>1, <3>2
  <2>2. ASSUME NEW i \in 1..Len(gr), gr[i].tracker = 0
        PROVE  i = Len(gr) /\ ToFollows(s, 0)
    <3>1. i = Len(gr) /\ ch[1].kind \in {"from", "change"} /\ 0 \in 0..(n - 1)
      BY <1>1, <2>2
    <3>2. CASE ch[1].kind = "from"
      <4>1. ch[1].tracker = 0
        BY <2>2, <3>1, <3>2
      <4>2. ToFollows(ch, 1)
        BY <1>1, <3>2, <4>1 DEF PairsMeet, LoneHaveTrackers, n
      <4> QED  BY <1>1, <1>4, <3>1, <4>2
    <3>3. CASE ch[1].kind = "change"
      <4>1. ToFollows(ch, 0)
        BY <2>2, <3>3 DEF PairsMeet, LoneHaveTrackers
      <4>2. PICK m \in (0 + 1)..n : ch[m].kind = "to" /\ Changes(ch, 0 + 1, m - 1)
        BY <4>1 DEF ToFollows, n
      <4>3. m # 1
        BY <3>3, <4>2
      <4>4. m \in (1 + 1)..n /\ \A k \in (1 + 1)..(m - 1) : k \in (0 + 1)..(m - 1)
        BY <1>1, <4>3
      <4>5. ToFollows(ch, 1)
        BY <4>2, <4>4 DEF ToFollows, Changes, n
      <4> QED  BY <1>1, <1>4, <3>1, <4>5
    <3> QED  BY <3>1, <3>2, <3>3
  <2> QED  BY <1>2, <2>1, <2>2 DEF LoneHaveTrackers
<1>6. HalvesMeet(s, gr)
  <2> SUFFICES ASSUME NEW k \in 1..(n - 1), s[k].kind = "to" PROVE MeetsAt(s, gr, k)
    BY <1>2 DEF HalvesMeet
  <2>1. /\ k + 1 \in 1..n /\ s[k] = ch[k + 1] /\ k - 1 \in 0..(n - 1) /\ (k - 1) + 1 = k
        /\ (k + 1) - 1 = k
    BY <1>1, <1>2
  <2>2. MeetsAt(ch, fr, k + 1)
    BY <2>1 DEF PairsMeet, HalvesMeet, n
  <2>3. ASSUME NEW j \in 1..k, HalfSent(ch, j, k + 1), j # 1 PROVE MeetsAt(s, gr, k)
    <3>1. /\ j - 1 \in 1..(k - 1) /\ j - 1 \in 1..(n - 1) /\ (j - 1) + 1 = j /\ j \in 1..n
      BY <1>1, <2>3
    <3>2. s[j - 1] = ch[j] /\ Changes(s, j, k - 1)
      BY <1>2, <1>3, <2>1, <2>3, <3>1 DEF HalfSent
    <3>3. HalfSent(s, j - 1, k)
      BY <2>1, <2>3, <3>1, <3>2 DEF HalfSent
    <3> QED  BY <3>1, <3>3 DEF MeetsAt
  <2>4. ASSUME HalfSent(ch, 1, k + 1) PROVE MeetsAt(s, gr, k)
    <3>1. Changes(s, 1, k - 1)
      BY <1>1, <1>3, <2>1, <2>4 DEF HalfSent
    <3> QED  BY <2>1, <2>4, <3>1 DEF HalfSent, HalfWaits, MeetsAt
  <2>5. ASSUME HalfWaits(ch, fr, k + 1) PROVE MeetsAt(s, gr, k)
    <3>1. 1 \in 1..k /\ \A m \in (1 + 1)..k : m \in 1..k
      OBVIOUS
    <3>2. ch[1].kind = "change" /\ Changes(ch, 1 + 1, k)
      BY <2>1, <2>5, <3>1 DEF HalfWaits, Changes
    <3>3. Changes(s, 1, k - 1)
      BY <1>1, <1>3, <2>1, <3>2
    <3> QED  BY <2>1, <2>5, <3>2, <3>3 DEF HalfWaits, MeetsAt
  <2> QED  BY <2>1, <2>2, <2>3, <2>4, <2>5 DEF MeetsAt
<1>7. \A k \in 1..(n - 1) : s[k].kind # "lost"
  <2>1. \A k \in 1..n : ch[k].kind # "lost"
    BY DEF PairsMeet, n
  <2> QED  BY <1>1, <1>2, <2>1
<1>8. PairsMeet(s, gr)
  BY <1>2, <1>5, <1>6, <1>7 DEF PairsMeet
<1> QED  BY <1>8 DEF s

(* A half that is taken away leaves the others different.                  *)
LEMMA DifferWithout ==
  ASSUME NEW S, NEW fr \in Seq(S), TrackersDiffer(fr), NEW i \in 1..Len(fr)
  PROVE  /\ TrackersDiffer(RemoveAt(fr, i))
         /\ \A k \in 1..Len(RemoveAt(fr, i)) :
              \E j \in 1..Len(fr) : j # i /\ RemoveAt(fr, i)[k] = fr[j]
<1> DEFINE s == RemoveAt(fr, i)
           n == Len(fr)
           at(k) == IF k < i THEN k ELSE k + 1
<1>1. n \in Nat /\ i \in 1..n
  OBVIOUS
<1>2. /\ Len(s) = n - 1 /\ \A k \in 1..(i - 1) : s[k] = fr[k]
      /\ \A k \in i..(n - 1) : s[k] = fr[k + 1]
  BY RemoveAtType
<1>3. TrackersDiffer(fr)
  OBVIOUS
<1> HIDE DEF s
<1>4. ASSUME NEW k \in 1..(n - 1) PROVE at(k) \in 1..n /\ at(k) # i /\ s[k] = fr[at(k)]
  <2> HIDE DEF n
  <2>1. CASE k < i
    <3>1. k \in 1..(i - 1) /\ k \in 1..n /\ k # i
      BY <1>1, <2>1
    <3> QED  BY <1>2, <2>1, <3>1
  <2>2. CASE ~(k < i)
    <3>1. k \in i..(n - 1) /\ k + 1 \in 1..n /\ k + 1 # i
      BY <1>1, <2>2
    <3> QED  BY <1>2, <2>2, <3>1
  <2> QED  BY <2>1, <2>2
<1>5. ASSUME NEW k \in 1..(n - 1), NEW j \in 1..(n - 1), at(k) = at(j) PROVE k = j
  <2> HIDE DEF n
  <2> QED  BY <1>1, <1>5
<1> HIDE DEF at
<1>6. TrackersDiffer(s)
  BY <1>2, <1>3, <1>4, <1>5 DEF TrackersDiffer
<1>7. \A k \in 1..(n - 1) : \E j \in 1..n : j # i /\ s[k] = fr[j]
  BY <1>4
<1> QED  BY <1>2, <1>6, <1>7 DEF s

(* A half with another tracker comes to those that wait.                   *)
LEMMA DifferWith ==
  ASSUME NEW S, NEW fr \in Seq(S), TrackersDiffer(fr), NEW h \in S,
         \A i \in 1..Len(fr) : fr[i].tracker # h.tracker
  PROVE  TrackersDiffer(Append(fr, h))
<1> DEFINE n == Len(fr)
           s == Append(fr, h)
<1>1. n \in Nat
  OBVIOUS
<1>2. Len(s) = n + 1 /\ s[n + 1] = h /\ \A k \in 1..n : s[k] = fr[k]
  BY AppendProperties
<1>3. \A i \in 1..n : fr[i].tracker # h.tracker
  OBVIOUS
<1>4. \A i, k \in 1..n : fr[i].tracker = fr[k].tracker => i = k
  BY DEF TrackersDiffer
<1> HIDE DEF n, s
<1>5. \A i, k \in 1..(n + 1) : s[i].tracker = s[k].tracker => i = k
  BY <1>1, <1>2, <1>3, <1>4
<1> QED  BY <1>2, <1>5 DEF TrackersDiffer, s
-----------------------------------------------------------------------------
(* A rename that was reported in halves and then whole is queued twice.     *)
(* The second one comes right after the first, or the first one has been    *)
(* applied and nothing is bound any more where the file came from.          *)

Nothing(nm, r) ==
  Included(r.from) /\ ToName(r) # Nowhere => \A p \in FilesUnder(r.from) : nm[p] = 0

\* The n-th rename of the queue is the first one, or it has left the queue.
Twice(q, n, nm, r) ==
  /\ Apart(r.from, r.to)
  /\ IF n = 0 THEN Nothing(nm, r) ELSE q[n].from = r.from /\ q[n].to = r.to

Repeats(b, e) == b.kind = "to" /\ b.to = e.path /\ b.path = e.to /\ Apart(e.path, e.to)

QueueTwins(q, nm) == \A k \in 1..Len(q) : q[k].again => Twice(q, k - 1, nm, q[k])

ChannelTwins(ch, q, nm) ==
  \A k \in 1..Len(ch) : IsRepeat(ch[k]) =>
    IF k = 1 THEN Twice(q, Len(q), nm, Whole(ch[1])) ELSE Repeats(ch[k - 1], ch[k])

LEMMA ChannelTwinsAppend ==
  ASSUME NEW S, NEW ch \in Seq(S), NEW e \in S, NEW q, NEW nm, ChannelTwins(ch, q, nm),
         IsRepeat(e) => ch # << >> /\ Repeats(ch[Len(ch)], e)
  PROVE  ChannelTwins(Append(ch, e), q, nm)
<1> DEFINE n == Len(ch)
           s == Append(ch, e)
<1>1. n \in Nat /\ (n = 0 <=> ch = << >>)
  BY EmptySeq
<1>2. Len(s) = n + 1 /\ s[n + 1] = e /\ \A k \in 1..n : s[k] = ch[k]
  BY AppendProperties
<1>3. IsRepeat(e) => n # 0 /\ Repeats(ch[n], e)
  BY <1>1
<1> HIDE DEF n, s
<1> SUFFICES ASSUME NEW k \in 1..(n + 1), IsRepeat(s[k])
             PROVE  IF k = 1 THEN Twice(q, Len(q), nm, Whole(s[1])) ELSE Repeats(s[k - 1], s[k])
  BY <1>2 DEF ChannelTwins, s
<1>4. CASE k = n + 1
  <2>1. n \in 1..n /\ k # 1 /\ k - 1 = n
    BY <1>1, <1>2, <1>3, <1>4
  <2> QED  BY <1>2, <1>3, <1>4, <2>1
<1>5. CASE k \in 1..n
  <2>1. s[k] = ch[k] /\ (k # 1 => k - 1 \in 1..n)
    BY <1>1, <1>2, <1>5
  <2> QED  BY <1>2, <1>5, <2>1 DEF ChannelTwins, n
<1> QED  BY <1>1, <1>4, <1>5

LEMMA ChannelTwinsInsert ==
  ASSUME NEW S, NEW ch \in Seq(S), NEW e \in S, e.kind = "change", NEW i \in 1..Len(ch),
         ch[i].kind = "to", NEW q, NEW nm, ChannelTwins(ch, q, nm)
  PROVE  ChannelTwins(InsertAt(ch, i, e), q, nm)
<1> DEFINE n == Len(ch)
           s == InsertAt(ch, i, e)
<1>1. n \in Nat /\ i \in 1..n
  OBVIOUS
<1>2. /\ Len(s) = n + 1 /\ s[i] = e /\ \A k \in 1..(i - 1) : s[k] = ch[k]
      /\ \A k \in i..n : s[k + 1] = ch[k]
  <2>1. /\ Len(InsertAt(ch, i, e)) = Len(ch) + 1 /\ InsertAt(ch, i, e)[i] = e
        /\ \A k \in 1..(i - 1) : InsertAt(ch, i, e)[k] = ch[k]
        /\ \A k \in i..Len(ch) : InsertAt(ch, i, e)[k + 1] = ch[k]
    BY ONLY InsertAtType, ch \in Seq(S), e \in S, i \in 1..Len(ch), SMTT(60)
  <2> QED  BY ONLY <2>1
<1> HIDE DEF n, s
<1> SUFFICES ASSUME NEW k \in 1..(n + 1), IsRepeat(s[k])
             PROVE  IF k = 1 THEN Twice(q, Len(q), nm, Whole(s[1])) ELSE Repeats(s[k - 1], s[k])
  BY <1>2 DEF ChannelTwins, s
<1>3. k # i
  BY <1>2 DEF IsRepeat
<1>4. CASE k < i
  <2>1. k \in 1..n /\ k \in 1..(i - 1) /\ (k # 1 => k - 1 \in 1..(i - 1))
    BY <1>1, <1>4
  <2> QED  BY <1>2, <2>1 DEF ChannelTwins, n
<1>5. CASE k > i
  <2>1. k - 1 \in i..n /\ k - 1 \in 1..n /\ (k - 1) + 1 = k /\ k # 1
    BY <1>1, <1>5
  <2>2. s[k] = ch[k - 1]
    BY <1>2, <2>1
  <2>3. k - 1 # i
    BY <2>2 DEF IsRepeat
  <2>4. k - 2 \in i..n /\ (k - 2) + 1 = k - 1 /\ k - 1 # 1 /\ (k - 1) - 1 = k - 2
    BY <1>1, <1>5, <2>3
  <2>5. Repeats(ch[k - 2], ch[k - 1])
    BY <2>1, <2>2, <2>4 DEF ChannelTwins, n
  <2> QED  BY <1>2, <2>1, <2>2, <2>4, <2>5
<1> QED  BY <1>1, <1>3, <1>4, <1>5

LEMMA QueueTwinsAppend ==
  ASSUME NEW S, NEW q \in Seq(S), NEW r \in S, NEW nm, QueueTwins(q, nm),
         r.again => Twice(q, Len(q), nm, r)
  PROVE  QueueTwins(Append(q, r), nm)
<1> DEFINE n == Len(q)
           s == Append(q, r)
<1>1. n \in Nat
  OBVIOUS
<1>2. Len(s) = n + 1 /\ s[n + 1] = r /\ \A k \in 1..n : s[k] = q[k]
  BY AppendProperties
<1>3. r.again => Twice(q, n, nm, r)
  OBVIOUS
<1> HIDE DEF n, s
<1> SUFFICES ASSUME NEW k \in 1..(n + 1), s[k].again PROVE Twice(s, k - 1, nm, s[k])
  BY <1>2 DEF QueueTwins, s
<1>4. k - 1 # 0 => k - 1 \in 1..n
  BY <1>1
<1>5. CASE k = n + 1
  BY <1>1, <1>2, <1>3, <1>4, <1>5 DEF Twice
<1>6. CASE k \in 1..n
  BY <1>2, <1>4, <1>6 DEF Twice, QueueTwins, n
<1> QED  BY <1>1, <1>5, <1>6

\* A notification has been received, and has become the last rename or nothing.
LEMMA TwinsReceived ==
  ASSUME NEW S, NEW ch \in Seq(S), ch # << >>, NEW R, NEW q \in Seq(R), NEW nm, NEW s,
         QueueTwins(q, nm), ChannelTwins(ch, q, nm),
         s = q \/ \E r \in R : s = Append(q, r) /\ (r.again => Twice(q, Len(q), nm, r)),
         ch[1].kind = "to" =>
           \E r \in R : s = Append(q, r) /\ r.from = ch[1].to /\ r.to = ch[1].path
  PROVE  QueueTwins(s, nm) /\ ChannelTwins(Tail(ch), s, nm)
<1>1. QueueTwins(s, nm)
  BY QueueTwinsAppend
<1> DEFINE n == Len(ch)
           t == Tail(ch)
<1>2. n \in Nat /\ n # 0
  BY EmptySeq
<1>3. Len(t) = n - 1 /\ \A k \in 1..(n - 1) : t[k] = ch[k + 1]
  OBVIOUS
<1> HIDE DEF n, t
<1>4. ASSUME NEW k \in 1..(n - 1), IsRepeat(t[k])
      PROVE  IF k = 1 THEN Twice(s, Len(s), nm, Whole(t[1])) ELSE Repeats(t[k - 1], t[k])
  <2>1. k + 1 \in 1..n /\ k + 1 # 1 /\ (k + 1) - 1 = k /\ t[k] = ch[k + 1]
    BY <1>2, <1>3
  <2>2. Repeats(ch[k], ch[k + 1])
    BY <1>4, <2>1 DEF ChannelTwins, n
  <2>3. CASE k = 1
    <3>1. PICK r \in R : s = Append(q, r) /\ r.from = ch[1].to /\ r.to = ch[1].path
      BY <2>2, <2>3 DEF Repeats
    <3>2. Len(s) = Len(q) + 1 /\ s[Len(q) + 1] = r /\ Len(s) # 0
      BY <3>1, AppendProperties
    <3> QED  BY <2>1, <2>2, <2>3, <3>1, <3>2 DEF Twice, Repeats, Whole
  <2>4. CASE k # 1
    <3>1. k - 1 \in 1..(n - 1) /\ (k - 1) + 1 = k
      BY <1>2, <2>4
    <3> QED  BY <1>3, <2>1, <2>2, <2>4, <3>1
  <2> QED  BY <2>3, <2>4
<1>5. ChannelTwins(t, s, nm)
  BY <1>3, <1>4 DEF ChannelTwins
<1> QED  BY <1>1, <1>5 DEF t

\* The first rename has left the queue: it was applied, or moved nothing.
LEMMA TwinsApplied ==
  ASSUME NEW S, NEW ch \in Seq(S), NEW R, NEW q \in Seq(R), q # << >>, NEW nm, NEW mm,
         QueueTwins(q, nm), ChannelTwins(ch, q, nm),
         \A r : r.from = q[1].from /\ r.to = q[1].to /\ Apart(r.from, r.to) => Nothing(mm, r)
  PROVE  QueueTwins(Tail(q), mm) /\ ChannelTwins(ch, Tail(q), mm)
<1> DEFINE n == Len(q)
           s == Tail(q)
<1>1. n \in Nat /\ n # 0
  BY EmptySeq
<1>2. Len(s) = n - 1 /\ \A k \in 1..(n - 1) : s[k] = q[k + 1]
  OBVIOUS
<1> HIDE DEF n, s
<1>3. ASSUME NEW k \in 1..n, NEW r, Twice(q, k, nm, r) PROVE Twice(s, k - 1, mm, r)
  <2>1. CASE k = 1
    BY <1>3, <2>1 DEF Twice
  <2>2. CASE k # 1
    <3>1. k - 1 \in 1..(n - 1) /\ (k - 1) + 1 = k /\ k - 1 # 0 /\ k # 0
      BY <1>1, <2>2
    <3>2. s[k - 1] = q[k]
      BY <1>2, <3>1
    <3> QED  BY <1>3, <3>1, <3>2 DEF Twice
  <2> QED  BY <2>1, <2>2
<1>4. ASSUME NEW k \in 1..(n - 1), s[k].again PROVE Twice(s, k - 1, mm, s[k])
  <2>1. k \in 1..n /\ k + 1 \in 1..n /\ (k + 1) - 1 = k /\ s[k] = q[k + 1]
    BY <1>1, <1>2
  <2>2. Twice(q, k, nm, s[k])
    BY <1>4, <2>1 DEF QueueTwins, n
  <2> QED  BY <1>3, <2>1, <2>2
<1>5. ASSUME NEW k \in 1..Len(ch), IsRepeat(ch[k])
      PROVE  IF k = 1 THEN Twice(s, Len(s), mm, Whole(ch[1])) ELSE Repeats(ch[k - 1], ch[k])
  <2>1. CASE k = 1
    <3>1. Twice(q, n, nm, Whole(ch[1]))
      BY <1>5, <2>1 DEF ChannelTwins, n
    <3>2. n \in 1..n /\ Len(s) = n - 1
      BY <1>1, <1>2
    <3> QED  BY <1>3, <2>1, <3>1, <3>2
  <2>2. CASE k # 1
    BY <1>5, <2>2 DEF ChannelTwins
  <2> QED  BY <2>1, <2>2
<1>6. QueueTwins(s, mm) /\ ChannelTwins(ch, s, mm)
  BY <1>2, <1>4, <1>5 DEF QueueTwins, ChannelTwins
<1> QED  BY <1>6 DEF s

\* Nothing is bound where the first rename, or the first notification when no
\* rename waits, moves things a second time.
LEMMA TwinsStay ==
  ASSUME NEW S, NEW ch \in Seq(S), NEW R, NEW q \in Seq(R), NEW nm, NEW mm,
         QueueTwins(q, nm), ChannelTwins(ch, q, nm),
         q # << >> /\ q[1].again /\ Nothing(nm, q[1]) => Nothing(mm, q[1]),
         q = << >> /\ ch # << >> /\ IsRepeat(ch[1]) /\ Nothing(nm, Whole(ch[1]))
           => Nothing(mm, Whole(ch[1]))
  PROVE  QueueTwins(q, mm) /\ ChannelTwins(ch, q, mm)
<1>1. Len(q) \in Nat /\ Len(ch) \in Nat /\ (Len(q) = 0 <=> q = << >>) /\ (Len(ch) = 0 <=> ch = << >>)
  BY EmptySeq
<1>2. ASSUME NEW k \in 1..Len(q), q[k].again PROVE Twice(q, k - 1, mm, q[k])
  <2>1. Twice(q, k - 1, nm, q[k])
    BY <1>2 DEF QueueTwins
  <2>2. k - 1 = 0 => k = 1
    BY <1>1
  <2> QED  BY <1>1, <1>2, <2>1, <2>2 DEF Twice
<1>3. ASSUME NEW k \in 1..Len(ch), IsRepeat(ch[k])
      PROVE  IF k = 1 THEN Twice(q, Len(q), mm, Whole(ch[1])) ELSE Repeats(ch[k - 1], ch[k])
  <2>1. IF k = 1 THEN Twice(q, Len(q), nm, Whole(ch[1])) ELSE Repeats(ch[k - 1], ch[k])
    BY <1>3 DEF ChannelTwins
  <2> QED  BY <1>1, <1>3, <2>1 DEF Twice
<1> QED  BY <1>2, <1>3 DEF QueueTwins, ChannelTwins
-----------------------------------------------------------------------------
(* The history of every remembered file is where its notifications lead     *)

Remembered == \E p \in Paths : home[p] # 0

\* The first rename has no name left to move; the worker reads no file now.
HeadApplied ==
  renames # << >> /\ Affected(Head(renames)) = {} /\ pc \notin {"ingest", "mark"}

\* What waits in the queue and the channel takes the history of p to p.
Traced(p) ==
  \E u, v \in Watched : /\ names[u] = home[p]
                        /\ QueueLeads(renames, HeadApplied, u, v)
                        /\ ChannelLeads(channel, v, p)

HistoryKept ==
  /\ running /\ PairsMeet(channel, froms)
  /\ QueueTwins(renames, names) /\ ChannelTwins(channel, renames, names)
  /\ \A p \in Paths : home[p] # 0 => disk[p] # NoFile /\ Traced(p)

HistoryInv == Remembered => HistoryKept

LEMMA ForgetsAll ==
  ASSUME Forget
  PROVE  HistoryInv'
BY DEF Forget, HistoryInv, Remembered

(* Steps that touch neither the queues nor the bindings of known objects,  *)
(* and bind nothing where a rename will be applied once more.              *)
LEMMA HistoryQuiet ==
  ASSUME TypeOK, HistoryInv, UNCHANGED <<disk, channel, froms, renames, home>>,
         running => running',
         \A p \in Paths : names[p] # 0 => names'[p] = names[p],
         \A p \in Paths, n \in Nodes :
           names[p] = 0 /\ names'[p] # 0 /\ MovesAgain(n) => ~Under(p, n),
         HeadApplied => HeadApplied'
  PROVE  HistoryInv'
<1> SUFFICES ASSUME Remembered' PROVE HistoryKept'
  BY DEF HistoryInv
<1>1. Remembered
  BY DEF Remembered
<1>2. running' /\ PairsMeet(channel', froms')
  BY <1>1 DEF HistoryInv, HistoryKept
<1>3. ASSUME NEW p \in Paths, home'[p] # 0 PROVE disk'[p] # NoFile /\ Traced(p)'
  <2>1. disk[p] # NoFile /\ Traced(p)
    BY <1>1, <1>3 DEF HistoryInv, HistoryKept
  <2>2. PICK u, v \in Watched : /\ names[u] = home[p]
                                /\ QueueLeads(renames, HeadApplied, u, v)
                                /\ ChannelLeads(channel, v, p)
    BY <2>1 DEF Traced
  <2>3. names'[u] = home[p]
    BY <1>3, <2>2 DEF Watched
  <2>4. renames \in Seq(Rename)
    BY DEF TypeOK
  <2>5. QueueLeads(renames, HeadApplied', u, v)
    BY <2>2, <2>4, QueueMore
  <2> QED  BY <2>1, <2>2, <2>3, <2>5 DEF Traced
<1>4. QueueTwins(renames', names') /\ ChannelTwins(channel', renames', names')
  <2>1. channel \in Seq(Event) /\ renames \in Seq(Rename)
    BY DEF TypeOK
  <2>2. ASSUME NEW n \in Nodes, MovesAgain(n), NEW p \in FilesUnder(n), names[p] = 0
        PROVE  names'[p] = 0
    BY <2>2 DEF FilesUnder
  <2>3. QueueTwins(renames, names) /\ ChannelTwins(channel, renames, names)
    BY <1>1 DEF HistoryInv, HistoryKept
  <2>4. ASSUME renames # << >>, renames[1].again, Nothing(names, renames[1])
        PROVE  Nothing(names', renames[1])
    <3>1. Head(renames) = renames[1] /\ renames[1] \in Rename
      BY <2>1, <2>4, HeadTailProperties
    <3>2. renames[1].from \in Nodes /\ MovesAgain(renames[1].from)
      BY <2>4, <3>1 DEF MovesAgain, Rename
    <3> QED  BY <2>2, <2>4, <3>2 DEF Nothing, ToName
  <2>5. ASSUME renames = << >>, channel # << >>, IsRepeat(channel[1]),
               Nothing(names, Whole(channel[1]))
        PROVE  Nothing(names', Whole(channel[1]))
    <3>1. Head(channel) = channel[1] /\ channel[1] \in Event
      BY <2>1, <2>5, HeadTailProperties
    <3>2. /\ channel[1].path \in Nodes /\ MovesAgain(channel[1].path)
          /\ Whole(channel[1]).from = channel[1].path
      BY <2>5, <3>1 DEF MovesAgain, Event, Whole
    <3> QED  BY <2>2, <2>5, <3>2 DEF Nothing, ToName
  <2> QED  BY <2>1, <2>3, <2>4, <2>5, TwinsStay
<1> QED  BY <1>2, <1>3, <1>4 DEF HistoryKept

(* The directory has changed, and the channel holds the notifications of   *)
(* it: each remembered file was remembered where they lead from.           *)
LEMMA NotifyHistory ==
  ASSUME TypeOK, HistoryInv, NEW d, SetDisk(d), NEW ch, running => channel' = ch,
         HistoryKept => PairsMeet(ch, froms) /\ ChannelTwins(ch, renames, names),
         \A p \in Paths : home'[p] # 0 =>
           /\ d[p] # NoFile
           /\ \E o \in Paths : /\ home[o] = home'[p]
                               /\ \A v : ChannelLeads(channel, v, o) => ChannelLeads(ch, v, p)
  PROVE  HistoryInv'
<1> SUFFICES ASSUME Remembered' PROVE HistoryKept'
  BY DEF HistoryInv
<1>1. UNCHANGED <<renames, froms, names, tracked, pc, running>> /\ disk' = d
  BY DEF SetDisk, pendVars, statVars, storeVars, workVars
<1>2. HistoryKept
  BY DEF HistoryInv, Remembered
<1>3. renames \in Seq(Rename) /\ channel' = ch
  BY <1>2 DEF TypeOK, HistoryKept
<1>4. ASSUME NEW p \in Paths, home'[p] # 0 PROVE Traced(p)'
  <2>1. PICK o \in Paths : /\ home[o] = home'[p]
                           /\ \A v : ChannelLeads(channel, v, o) => ChannelLeads(ch, v, p)
    BY <1>4
  <2>2. PICK u, v \in Watched : /\ names[u] = home[o]
                                /\ QueueLeads(renames, HeadApplied, u, v)
                                /\ ChannelLeads(channel, v, o)
    BY <1>2, <1>4, <2>1 DEF HistoryKept, Traced
  <2>3. HeadApplied' <=> HeadApplied
    BY <1>1 DEF HeadApplied, Affected
  <2>4. QueueLeads(renames', HeadApplied', u, v)
    BY <1>1, <1>3, <2>2, <2>3, QueueMore
  <2> QED  BY <1>1, <1>3, <2>1, <2>2, <2>4 DEF Traced
<1> QED  BY <1>1, <1>2, <1>3, <1>4 DEF HistoryKept

LEMMA RememberedIsWatched ==
  ASSUME TypeOK, HistoryInv, NEW p \in Paths, home[p] # 0
  PROVE  p \in Watched /\ disk[p] # NoFile
<1>1. Traced(p) /\ disk[p] # NoFile
  BY DEF HistoryInv, HistoryKept, Remembered
<1>2. PICK v : ChannelLeads(channel, v, p)
  BY <1>1 DEF Traced
<1>3. channel \in Seq(Event)
  BY DEF TypeOK
<1> QED  BY <1>1, <1>2, <1>3, ChannelLeadsTo

(* One notification that stands for itself.                                *)
LEMMA NotifyOne ==
  ASSUME TypeOK, HistoryInv, NEW d, SetDisk(d), NEW e \in Event, Notify(<<e>>),
         e.kind \in {"change", "remove", "both", "from"}, e.kind = "from" => e.tracker # 0,
         ~IsRepeat(e),
         \A p \in Paths : home'[p] # 0 =>
           /\ p \in Watched /\ d[p] # NoFile
           /\ \E o \in Paths : home[o] = home'[p] /\ Told(e, o, p)
  PROVE  HistoryInv'
<1> DEFINE ch == Append(channel, e)
<1>1. channel \in Seq(Event)
  BY DEF TypeOK
<1>2. running => channel' = ch
  BY <1>1, AppendIsConcat DEF Notify
<1>3. HistoryKept => PairsMeet(ch, froms) /\ ChannelTwins(ch, renames, names)
  BY <1>1, PairsSendOne, ChannelTwinsAppend DEF HistoryKept
<1>4. \A p \in Watched : \A o, v : ChannelLeads(channel, v, o) /\ Told(e, o, p)
                                => ChannelLeads(ch, v, p)
  BY <1>1, ChannelAppend
<1> HIDE DEF ch
<1> QED  BY <1>2, <1>3, <1>4, NotifyHistory

(* Two changes.                                                            *)
LEMMA NotifyChanges ==
  ASSUME TypeOK, HistoryInv, NEW d, SetDisk(d), NEW a \in Event, NEW b \in Event,
         Notify(<<a, b>>), a.kind = "change", b.kind = "change",
         \A p \in Paths : home'[p] # 0 => d[p] # NoFile /\ home[p] = home'[p]
  PROVE  HistoryInv'
<1> DEFINE c == Append(channel, a)
           ch == Append(c, b)
<1>1. channel \in Seq(Event)
  BY DEF TypeOK
<1>2. c \in Seq(Event)
  BY <1>1, AppendProperties
<1>3. running => channel' = ch
  BY <1>1, SentTogether DEF Notify
<1>4. ~IsRepeat(a) /\ ~IsRepeat(b) /\ \A p : Told(a, p, p) /\ Told(b, p, p)
  BY DEF IsRepeat, Told
<1>5. ASSUME HistoryKept PROVE PairsMeet(c, froms) /\ ChannelTwins(c, renames, names)
  BY <1>1, <1>4, <1>5, PairsSendOne, ChannelTwinsAppend DEF HistoryKept
<1>6. \A p \in Watched : \A v : ChannelLeads(channel, v, p) => ChannelLeads(c, v, p)
  BY <1>1, <1>4, ChannelAppend
<1> HIDE DEF c
<1>7. ASSUME HistoryKept PROVE PairsMeet(ch, froms) /\ ChannelTwins(ch, renames, names)
  BY <1>2, <1>4, <1>5, <1>7, PairsSendOne, ChannelTwinsAppend
<1>8. \A p \in Watched : \A v : ChannelLeads(c, v, p) => ChannelLeads(ch, v, p)
  BY <1>2, <1>4, ChannelAppend
<1> HIDE DEF ch
<1>9. \A p \in Paths : home'[p] # 0 => p \in Watched
  BY RememberedIsWatched
<1> QED  BY <1>3, <1>6, <1>7, <1>8, <1>9, NotifyHistory

(* A rename that is notified in two halves, and perhaps whole after them.  *)
LEMMA NotifyHalves ==
  ASSUME TypeOK, HistoryInv, NEW d, SetDisk(d), NEW a \in Event, NEW b \in Event,
         NEW w, Notify(<<a, b>>) \/ (w \in Event /\ Notify(<<a, b, w>>)),
         a.kind = "from", b.kind = "to", a.tracker = b.tracker, a.path = b.to,
         IsRepeat(w), Repeats(b, w),
         \A p \in Paths : home'[p] # 0 =>
           /\ p \in Watched /\ d[p] # NoFile
           /\ \E o \in Watched : home[o] = home'[p] /\ Told(b, o, p) /\ Told(w, p, p)
  PROVE  HistoryInv'
<1> DEFINE c == Append(channel, a)
           s == Append(c, b)
           ch == Append(s, w)
<1>1. channel \in Seq(Event)
  BY DEF TypeOK
<1>2. c \in Seq(Event)
  BY <1>1, AppendProperties
<1>3. s \in Seq(Event) /\ s # << >> /\ s[Len(s)] = b
  <2> HIDE DEF c
  <2> QED  BY <1>2, AppendProperties
<1>4. (running => channel' = s) \/ (w \in Event /\ (running => channel' = ch))
  BY <1>1, SentTogether DEF Notify
<1>5. ~IsRepeat(a) /\ ~IsRepeat(b) /\ \A p : Told(a, p, p)
  BY DEF IsRepeat, Told
<1>6. ASSUME HistoryKept PROVE PairsMeet(s, froms) /\ ChannelTwins(c, renames, names)
  BY <1>1, <1>5, <1>6, PairsSendTwo, ChannelTwinsAppend DEF HistoryKept
<1>7. \A o \in Watched : \A v : ChannelLeads(channel, v, o) => ChannelLeads(c, v, o)
  BY <1>1, <1>5, ChannelAppend
<1> HIDE DEF c
<1>8. ASSUME HistoryKept PROVE ChannelTwins(s, renames, names)
  BY <1>2, <1>5, <1>6, <1>8, ChannelTwinsAppend
<1>9. \A p \in Watched : \A o, v : ChannelLeads(c, v, o) /\ Told(b, o, p) => ChannelLeads(s, v, p)
  BY <1>2, ChannelAppend
<1> HIDE DEF s
<1>10. ASSUME w \in Event, HistoryKept
       PROVE  PairsMeet(ch, froms) /\ ChannelTwins(ch, renames, names)
  <2>1. w.kind = "both"
    BY DEF IsRepeat
  <2> QED  BY <1>3, <1>6, <1>8, <1>10, <2>1, PairsSendOne, ChannelTwinsAppend
<1>11. \A p \in Watched : \A v : w \in Event /\ ChannelLeads(s, v, p) /\ Told(w, p, p)
                                 => ChannelLeads(ch, v, p)
  BY <1>3, ChannelAppend
<1> HIDE DEF ch
<1>12. Watched \subseteq Paths
  BY DEF Watched
<1>13. CASE running => channel' = s
  <2>1. HistoryKept => PairsMeet(s, froms) /\ ChannelTwins(s, renames, names)
    BY <1>6, <1>8
  <2>2. \A p \in Paths : home'[p] # 0 =>
          /\ d[p] # NoFile
          /\ \E o \in Paths : /\ home[o] = home'[p]
                              /\ \A v : ChannelLeads(channel, v, o) => ChannelLeads(s, v, p)
    BY <1>7, <1>9, <1>12
  <2> QED  BY <1>13, <2>1, <2>2, NotifyHistory
<1>14. CASE w \in Event /\ (running => channel' = ch)
  <2>1. HistoryKept => PairsMeet(ch, froms) /\ ChannelTwins(ch, renames, names)
    BY <1>10, <1>14
  <2>2. ASSUME NEW p \in Paths, home'[p] # 0
        PROVE  /\ d[p] # NoFile
               /\ \E o \in Paths : /\ home[o] = home'[p]
                                   /\ \A v : ChannelLeads(channel, v, o) => ChannelLeads(ch, v, p)
    <3>1. PICK o \in Watched : home[o] = home'[p] /\ Told(b, o, p) /\ Told(w, p, p)
      BY <2>2
    <3>2. \A v : ChannelLeads(channel, v, o) => ChannelLeads(ch, v, p)
      BY <1>7, <1>9, <1>11, <1>14, <2>2, <3>1
    <3> QED  BY <1>12, <2>2, <3>1, <3>2
  <2> QED  BY <1>14, <2>1, <2>2, NotifyHistory
<1> QED  BY <1>4, <1>13, <1>14

LEMMA WriteHistory ==
  ASSUME TypeOK, HistoryInv, NEW p \in Paths, NEW c \in Contents, Write(p, c)
  PROVE  HistoryInv'
<1> DEFINE d == [disk EXCEPT ![p] = c]
<1>1. SetDisk(d)
  BY DEF Write
<1>2. \A q \in Paths : home'[q] # 0 => home[q] = home'[q]
  <2>1. home \in [Paths -> 0..Len(objects)]
    BY DEF TypeOK
  <2> QED  BY <2>1 DEF Write
<1>3. \A q \in Paths : disk[q] # NoFile => d[q] # NoFile
  BY PathAssumption DEF TypeOK
<1> HIDE DEF d
<1>4. \A q \in Paths : home'[q] # 0 => q \in Watched /\ d[q] # NoFile /\ home[q] = home'[q]
  BY <1>2, <1>3, RememberedIsWatched
<1>5. CASE \E n \in Nodes : Notify(<<Ev("change", n, n, 0)>>)
  <2>1. PICK n \in Nodes : Notify(<<Ev("change", n, n, 0)>>)
    BY <1>5
  <2> DEFINE e == Ev("change", n, n, 0)
  <2>2. e \in Event /\ e.kind = "change"
    BY EventType DEF Ev
  <2> HIDE DEF e
  <2>3. ~IsRepeat(e) /\ \A q : Told(e, q, q)
    BY <2>2 DEF Told, IsRepeat
  <2> QED  BY <1>1, <1>4, <2>1, <2>2, <2>3, NotifyOne DEF e
<1>6. CASE \E i \in LastTo : running /\ channel' = InsertAt(channel, i, Ev("change", p, p, 0))
  <2> DEFINE e == Ev("change", p, p, 0)
  <2>1. PICK i \in LastTo : channel' = InsertAt(channel, i, e)
    BY <1>6
  <2>2. e \in Event /\ e.kind = "change"
    BY EventType DEF Ev, Nodes
  <2>3. channel \in Seq(Event) /\ i \in 1..Len(channel) /\ channel[i].kind = "to"
    BY <2>1 DEF TypeOK, LastTo
  <2> HIDE DEF e
  <2> DEFINE ch == InsertAt(channel, i, e)
  <2>4. ASSUME HistoryKept PROVE PairsMeet(ch, froms) /\ ChannelTwins(ch, renames, names)
    BY <2>2, <2>3, <2>4, PairsInsert, ChannelTwinsInsert DEF HistoryKept
  <2>5. \A v, q : ChannelLeads(channel, v, q) => ChannelLeads(ch, v, q)
    BY <2>2, <2>3, ChannelInsert
  <2>6. channel' = ch
    BY <2>1
  <2> HIDE DEF ch
  <2> QED  BY <1>1, <1>4, <2>4, <2>5, <2>6, NotifyHistory
<1> QED  BY <1>5, <1>6 DEF Write

LEMMA RemoveHistory ==
  ASSUME TypeOK, HistoryInv, NEW n \in Nodes, RemoveNode(n)
  PROVE  HistoryInv'
<1> DEFINE d == [p \in Paths |-> IF Under(p, n) THEN NoFile ELSE disk[p]]
<1>1. SetDisk(d)
  BY DEF RemoveNode
<1>2. PICK k \in {"remove", "from"}, t \in Trackers \cup {0} :
        Notify(<<Ev(k, n, n, t)>>) /\ (k = "from" => t # 0)
  BY PathAssumption DEF RemoveNode
<1> DEFINE e == Ev(k, n, n, t)
<1>3. e \in Event /\ e.kind = k /\ e.tracker = t /\ ~IsRepeat(e)
  BY EventType DEF Ev, IsRepeat
<1>4. \A q \in Paths : ~Under(q, n) => Told(e, q, q)
  BY DEF Told, Ev, Follows, Removal, IsRepeat
<1>5. \A q \in Paths : home'[q] # 0 => home[q] = home'[q] /\ ~Under(q, n)
  BY DEF RemoveNode
<1>6. \A q \in Paths : ~Under(q, n) => d[q] = disk[q]
  OBVIOUS
<1> HIDE DEF d, e
<1>7. \A q \in Paths : home'[q] # 0 =>
           /\ q \in Watched /\ d[q] # NoFile
           /\ \E o \in Paths : home[o] = home'[q] /\ Told(e, o, q)
  BY <1>4, <1>5, <1>6, RememberedIsWatched
<1> QED  BY <1>1, <1>2, <1>3, <1>7, NotifyOne DEF e

(* A moved file has its history from where it was.                         *)
LEMMA MoveHistory ==
  ASSUME TypeOK, HistoryInv, NEW from \in Nodes, NEW to \in Nodes, Move(from, to)
  PROVE  HistoryInv'
<1> DEFINE source(p) == Moved(p, to, from)
           d == [p \in Paths |-> IF ~Under(p, to) /\ ~Under(p, from) THEN disk[p]
                                 ELSE IF Under(p, to) /\ source(p) \in Paths
                                      THEN disk[source(p)] ELSE NoFile]
           h == [p \in Paths |-> IF ~Under(p, to) /\ ~Under(p, from) THEN home[p]
                                 ELSE IF Under(p, to) /\ source(p) \in Paths
                                      THEN home[source(p)] ELSE 0]
           r == [from |-> from, to |-> to]
<1>1. PICK s \in Styles :
        /\ \E e \in MoveEvents(from, to, s) : Notify(e)
        /\ home' = [p \in Paths |->
                      IF Included(p) /\ (s = "any" => ~Under(p, to)) THEN h[p] ELSE 0]
  BY DEF Move
<1>2. SetDisk(d)
  BY DEF Move
<1>3. Apart(from, to) /\ r.from = from /\ r.to = to /\ r.to # Nowhere
  BY PathAssumption DEF Move
<1>4. from \in Seq(Parts) /\ to \in Seq(Parts) /\ Paths \subseteq Seq(Parts)
  BY NodesAreSequences DEF Nodes
<1>5. ASSUME NEW p \in Paths, home'[p] # 0
      PROVE  /\ p \in Watched /\ d[p] # NoFile /\ ~Under(p, from)
             /\ s = "any" => home[p] = home'[p]
             /\ \E o \in Watched : home[o] = home'[p] /\ Follows(r, o, p)
  <2>1. p \in Watched /\ home'[p] = h[p] /\ (s = "any" => ~Under(p, to))
    BY <1>1, <1>5 DEF Watched
  <2>2. CASE ~Under(p, to) /\ ~Under(p, from)
    <3>1. home[p] = home'[p] /\ d[p] = disk[p]
      BY <2>1, <2>2
    <3>2. Follows(r, p, p)
      BY <1>3, <2>2 DEF Follows
    <3> QED  BY <1>5, <2>1, <2>2, <3>1, <3>2, RememberedIsWatched
  <2>3. CASE Under(p, to) /\ source(p) \in Paths
    <3>1. home[source(p)] = home'[p] /\ d[p] = disk[source(p)]
      BY <2>1, <2>3
    <3>2. Under(source(p), from) /\ Moved(source(p), from, to) = p
      BY <1>4, <2>3, MovedIsUnder, MovedBack
    <3>3. Follows(r, source(p), p)
      <4> HIDE DEF source, r
      <4> QED  BY <1>3, <3>2 DEF Follows
    <3>4. disk[source(p)] # NoFile /\ source(p) \in Watched
      <4> HIDE DEF source, d, h
      <4> QED  BY <1>5, <2>3, <3>1, RememberedIsWatched
    <3>5. ~Under(p, from)
      BY <1>3, <1>4, <2>3, UnderBothNotApart
    <3> QED  BY <2>1, <2>3, <3>1, <3>3, <3>4, <3>5
  <2> QED  BY <1>5, <2>1, <2>2, <2>3
<1> HIDE DEF d, h, source
<1>6. Watched \subseteq Paths
  BY DEF Watched
<1>7. CASE s = "both"
  <2> DEFINE e == Ev("both", from, to, 0)
  <2>1. Notify(<<e>>)
    BY <1>1, <1>7 DEF MoveEvents
  <2>2. e \in Event /\ e.kind = "both" /\ ~IsRepeat(e)
    BY EventType DEF Ev, IsRepeat
  <2>3. \A o, p : Follows(r, o, p) => Told(e, o, p)
    BY <2>2 DEF Told, Ev, Whole
  <2> HIDE DEF e, r
  <2>4. \A p \in Paths : home'[p] # 0 =>
           /\ p \in Watched /\ d[p] # NoFile
           /\ \E o \in Paths : home[o] = home'[p] /\ Told(e, o, p)
    BY <1>5, <1>6, <2>3
  <2> QED  BY <1>2, <2>1, <2>2, <2>4, NotifyOne
<1>8. CASE s \in {"tracked", "untracked"}
  <2>1. PICK t \in Trackers \cup {0} : \E x : x # 0 /\
          LET a == Ev("from", from, from, t)
              b == Ev("to", to, from, t)
              w == Ev("both", from, to, x)
          IN  Notify(<<a, b>>) \/ (x \in Trackers /\ Notify(<<a, b, w>>))
    <3>1. CASE s = "tracked"
      BY <1>1, <3>1, PathAssumption DEF MoveEvents
    <3>2. CASE s = "untracked"
      <4>1. Notify(<<Ev("from", from, from, 0), Ev("to", to, from, 0)>>)
        BY <1>1, <3>2 DEF MoveEvents
      <4>2. 0 \in Trackers \cup {0} /\ 1 # 0
        OBVIOUS
      <4> QED  BY <4>1, <4>2
    <3> QED  BY <1>8, <3>1, <3>2
  <2>9. PICK x : x # 0 /\
          LET a == Ev("from", from, from, t)
              b == Ev("to", to, from, t)
              w == Ev("both", from, to, x)
          IN  Notify(<<a, b>>) \/ (x \in Trackers /\ Notify(<<a, b, w>>))
    BY <2>1
  <2> DEFINE a == Ev("from", from, from, t)
             b == Ev("to", to, from, t)
             w == Ev("both", from, to, x)
  <2>2. a \in Event /\ b \in Event /\ (x \in Trackers => w \in Event)
    BY EventType
  <2>3. a.kind = "from" /\ b.kind = "to" /\ a.tracker = b.tracker /\ a.path = b.to
    BY DEF Ev
  <2>4. IsRepeat(w) /\ Repeats(b, w)
    BY <1>3, <2>9 DEF Ev, IsRepeat, Repeats
  <2>5. \A o, p : Follows(r, o, p) => Told(b, o, p)
    BY DEF Told, Ev, IsRepeat
  <2>6. \A p : ~Under(p, from) => Told(w, p, p)
    BY <2>4 DEF Told, Ev, Passes
  <2>7. Notify(<<a, b>>) \/ (w \in Event /\ Notify(<<a, b, w>>))
    BY <2>2, <2>9
  <2> HIDE DEF a, b, w, r
  <2>8. \A p \in Paths : home'[p] # 0 =>
           /\ p \in Watched /\ d[p] # NoFile
           /\ \E o \in Watched : home[o] = home'[p] /\ Told(b, o, p) /\ Told(w, p, p)
    BY <1>5, <2>5, <2>6
  <2> QED  BY <1>2, <2>2, <2>3, <2>4, <2>7, <2>8, NotifyHalves
<1>9. CASE s = "any"
  <2> DEFINE a == Ev("change", from, from, 0)
             b == Ev("change", to, to, 0)
  <2>1. Notify(<<a, b>>)
    BY <1>1, <1>9 DEF MoveEvents
  <2>2. a \in Event /\ b \in Event /\ a.kind = "change" /\ b.kind = "change"
    BY EventType DEF Ev
  <2> HIDE DEF a, b
  <2> QED  BY <1>2, <1>5, <1>9, <2>1, <2>2, NotifyChanges
<1> QED  BY <1>7, <1>8, <1>9, PathAssumption
(* The first notification has become a rename at the end of the queue, or  *)
(* nothing, and the way of each remembered file is the same.               *)
LEMMA ReceivedHistory ==
  ASSUME TypeOK, HistoryKept, channel # << >>, channel' = Tail(channel),
         UNCHANGED <<disk, names, tracked, pc, home, running>>,
         PairsMeet(channel', froms'),
         \/ renames' = renames
         \/ \E r \in Rename : /\ renames' = Append(renames, r)
                              /\ r.again => Twice(renames, Len(renames), names, r),
         channel[1].kind = "to" =>
           \E r \in Rename : /\ renames' = Append(renames, r)
                             /\ r.from = channel[1].to /\ r.to = channel[1].path,
         \A p \in Paths, v \in Watched, w \in Watched :
           home[p] # 0 /\ Told(channel[1], v, w) /\ ChannelLeads(channel', w, p)
           => \/ renames' = renames /\ w = v
              \/ \E r \in Rename : renames' = Append(renames, r) /\ Takes(r, v, w)
  PROVE  HistoryKept'
<1>1. channel \in Seq(Event) /\ renames \in Seq(Rename)
  BY DEF TypeOK
<1>2. ASSUME NEW p \in Paths, home'[p] # 0 PROVE disk'[p] # NoFile /\ Traced(p)'
  <2>1. disk[p] # NoFile /\ Traced(p) /\ home[p] # 0
    BY <1>2 DEF HistoryKept
  <2>2. PICK u, v \in Watched : /\ names[u] = home[p]
                                /\ QueueLeads(renames, HeadApplied, u, v)
                                /\ ChannelLeads(channel, v, p)
    BY <2>1 DEF Traced
  <2>3. PICK w \in Watched : Told(channel[1], v, w) /\ ChannelLeads(channel', w, p)
    BY <1>1, <2>2, ChannelTail
  <2>4. CASE renames' = renames /\ w = v
    <3>1. HeadApplied' <=> HeadApplied
      BY <2>4 DEF HeadApplied, Affected
    <3>2. QueueLeads(renames', HeadApplied', u, w)
      BY <1>1, <2>2, <2>4, <3>1, QueueMore
    <3> QED  BY <2>1, <2>2, <2>3, <3>2 DEF Traced
  <2>5. CASE \E r \in Rename : renames' = Append(renames, r) /\ Takes(r, v, w)
    <3>1. PICK r \in Rename : renames' = Append(renames, r) /\ Takes(r, v, w)
      BY <2>5
    <3>2. renames # << >> => renames' # << >> /\ Head(renames') = Head(renames)
      BY <1>1, <3>1, AppendProperties, HeadTailAppend
    <3>3. HeadApplied => HeadApplied'
      BY <3>2 DEF HeadApplied, Affected
    <3>4. QueueLeads(renames', HeadApplied', u, w)
      BY <1>1, <2>2, <3>1, <3>3, QueueAppend
    <3> QED  BY <2>1, <2>2, <2>3, <3>4 DEF Traced
  <2> QED  BY <2>1, <2>2, <2>3, <2>4, <2>5
<1>3. QueueTwins(renames', names') /\ ChannelTwins(channel', renames', names')
  <2>1. QueueTwins(renames, names) /\ ChannelTwins(channel, renames, names)
    BY DEF HistoryKept
  <2> QED  BY <1>1, <2>1, TwinsReceived
<1> QED  BY <1>2, <1>3 DEF HistoryKept

(* What stands for itself, or is a change, leaves the halves alone.        *)
LEMMA ReceiveSimple ==
  ASSUME TypeOK, HistoryInv, ReceiveChange \/ ReceiveRemove \/ ReceiveBoth
  PROVE  HistoryInv'
<1> SUFFICES ASSUME Remembered' PROVE HistoryKept'
  BY DEF HistoryInv
<1> DEFINE e == channel[1]
<1>1. /\ UNCHANGED <<disk, names, tracked, pc, home, running, froms>>
      /\ channel # << >> /\ channel' = Tail(channel)
      /\ Head(channel).kind \in {"change", "remove", "both"}
  BY DEF ReceiveChange, ReceiveRemove, ReceiveBoth, Receive, storeVars, workVars
<1>2. /\ channel \in Seq(Event) /\ Head(channel) = e
      /\ Len(channel) \in Nat /\ 1 \in 1..Len(channel)
  <2>1. channel \in Seq(Event)
    BY DEF TypeOK
  <2> QED  BY <1>1, <2>1, EmptySeq
<1>3. e \in Event
  BY <1>1, <1>2, HeadTailProperties
<1>4. HistoryKept
  BY <1>1 DEF HistoryInv, Remembered
<1>5. PairsMeet(channel, froms) /\ ChannelTwins(channel, renames, names)
  BY <1>4 DEF HistoryKept
<1>6. e.kind \in {"change", "remove", "both"}
  BY <1>1, <1>2
<1>7. PairsMeet(channel', froms')
  <2>1. ASSUME NEW i \in 1..Len(froms), froms[i].tracker = 0
        PROVE  i = Len(froms) /\ e.kind = "change"
    <3>1. i = Len(froms) /\ ToFollows(channel, 0)
      BY <1>5, <2>1 DEF PairsMeet, LoneHaveTrackers
    <3>2. PICK m \in (0 + 1)..Len(channel) :
            channel[m].kind = "to" /\ Changes(channel, 0 + 1, m - 1)
      BY <3>1 DEF ToFollows
    <3>3. m # 1
      BY <1>6, <3>2
    <3>4. 1 \in (0 + 1)..(m - 1)
      BY <1>2, <3>3
    <3> QED  BY <3>1, <3>2, <3>4 DEF Changes
  <2>2. TrackersDiffer(froms)
    BY <1>5 DEF PairsMeet
  <2> QED  BY <1>1, <1>2, <1>5, <1>6, <2>1, <2>2, PairsReceived
<1> HIDE DEF e
<1>8. CASE ReceiveChange
  <2>1. renames' = renames /\ e.kind = "change"
    BY <1>2, <1>8 DEF ReceiveChange, Receive
  <2>2. \A v, w : Told(e, v, w) => w = v
    BY <2>1 DEF Told
  <2> QED  BY <1>1, <1>4, <1>7, <2>1, <2>2, ReceivedHistory DEF e
<1>9. CASE ReceiveRemove
  <2>1. renames' = Append(renames, Removal(e.path)) /\ e.kind = "remove"
    BY <1>2, <1>9 DEF ReceiveRemove, Receive
  <2>2. Removal(e.path) \in Rename /\ ~Removal(e.path).again
    BY <1>3, RemovalType DEF Event, Removal
  <2>3. \A v, w : Told(e, v, w) => Takes(Removal(e.path), v, w)
    BY <2>1 DEF Told, Takes
  <2> QED  BY <1>1, <1>4, <1>7, <2>1, <2>2, <2>3, ReceivedHistory DEF e
<1>10. CASE ReceiveBoth
  <2> DEFINE r == [from |-> e.path, to |-> e.to, again |-> IsRepeat(e)]
  <2>1. renames' = Append(renames, r) /\ e.kind = "both"
    BY <1>2, <1>10 DEF ReceiveBoth, Receive
  <2>2. r \in Rename
    BY <1>3 DEF Event, Rename, IsRepeat
  <2>3. r.again => Twice(renames, Len(renames), names, r)
    <3>1. IsRepeat(e) => Twice(renames, Len(renames), names, Whole(e))
      BY <1>2, <1>5 DEF ChannelTwins, e
    <3> QED  BY <3>1 DEF Twice, Nothing, ToName, Whole
  <2>4. \A v, w : Told(e, v, w) => Takes(r, v, w)
    BY <2>1 DEF Told, Takes, Follows, Whole
  <2> HIDE DEF r
  <2> QED  BY <1>1, <1>4, <1>7, <2>1, <2>2, <2>3, <2>4, <1>10, ReceivedHistory DEF e
<1> QED  BY <1>8, <1>9, <1>10

(* The first half of a rename waits at the end.                            *)
LEMMA ReceiveFromHistory ==
  ASSUME TypeOK, HistoryInv, ReceiveFrom
  PROVE  HistoryInv'
<1> SUFFICES ASSUME Remembered' PROVE HistoryKept'
  BY DEF HistoryInv
<1> DEFINE e == channel[1]
           half == [path |-> e.path, tracker |-> e.tracker]
<1>1. /\ UNCHANGED <<disk, names, tracked, pc, running>>
      /\ channel # << >> /\ channel' = Tail(channel)
      /\ Head(channel).kind = "from"
  BY DEF ReceiveFrom, Receive, storeVars, workVars
<1>2. /\ channel \in Seq(Event) /\ Head(channel) = e /\ Len(channel) \in Nat
      /\ froms \in Seq(Half) /\ renames \in Seq(Rename)
  BY <1>1 DEF TypeOK
<1>3. e \in Event /\ e.kind = "from"
  BY <1>1, <1>2, HeadTailProperties
<1>4. half \in Half /\ half.path = e.path /\ half.tracker = e.tracker
  <2> HIDE DEF e
  <2> QED  BY <1>3 DEF Event, Half
<1>5. \/ /\ froms' = Append(froms, half) /\ renames' = renames /\ home' = home
         /\ \A i \in DOMAIN froms : ~(froms[i].tracker = e.tracker /\ e.tracker # 0)
      \/ \E i \in DOMAIN froms :
           /\ froms[i].tracker = e.tracker /\ e.tracker # 0
           /\ Conclude(froms[i].path, Tail(channel))
           /\ froms' = Append(RemoveAt(froms, i), half)
  BY <1>2 DEF ReceiveFrom
<1>6. home' = home
  BY <1>5 DEF Conclude, Forget, Remembered
<1>7. HistoryKept /\ PairsMeet(channel, froms)
  BY <1>6 DEF HistoryInv, HistoryKept, Remembered
<1> HIDE DEF e, half
<1>8. TrackersDiffer(froms) /\ \A i \in 1..Len(froms) : froms[i].tracker # 0
  <2>1. ASSUME ToFollows(channel, 0) PROVE FALSE
    <3>1. PICK m \in (0 + 1)..Len(channel) :
            channel[m].kind = "to" /\ Changes(channel, 0 + 1, m - 1)
      BY <2>1 DEF ToFollows
    <3>2. m # 1
      BY <1>3, <3>1 DEF e
    <3>3. 1 \in (0 + 1)..(m - 1)
      BY <1>2, <3>2
    <3> QED  BY <1>3, <3>1, <3>3 DEF Changes, e
  <2> QED  BY <1>7, <2>1 DEF PairsMeet, LoneHaveTrackers
<1>9. ASSUME NEW gr \in Seq(Half), TrackersDiffer(gr),
             \A k \in 1..Len(gr) : gr[k].tracker # 0 /\ gr[k].tracker # half.tracker,
             froms' = Append(gr, half)
      PROVE  PairsMeet(channel', froms')
  <2>1. /\ froms' # << >> /\ froms'[Len(froms')] = half
        /\ Len(froms') = Len(gr) + 1 /\ \A k \in 1..Len(gr) : froms'[k] = gr[k]
    BY <1>4, <1>9, AppendProperties
  <2>2. TrackersDiffer(froms')
    BY <1>4, <1>9, DifferWith
  <2>3. \A i \in 1..Len(froms') : froms'[i].tracker = 0 => i = Len(froms')
    BY <1>9, <2>1
  <2>4. /\ channel[1].kind = "from" /\ froms'[Len(froms')].tracker = channel[1].tracker
        /\ froms'[Len(froms')].path = channel[1].path
    BY <1>3, <1>4, <2>1 DEF e
  <2> QED  BY <1>1, <1>2, <1>7, <2>1, <2>2, <2>3, <2>4, PairsReceived
<1>10. channel[1].kind # "to" /\ \A v, w : Told(e, v, w) => v = w
  BY <1>3 DEF Told, e
<1>11. CASE /\ froms' = Append(froms, half) /\ renames' = renames
            /\ \A i \in DOMAIN froms : ~(froms[i].tracker = e.tracker /\ e.tracker # 0)
  <2>1. \A k \in 1..Len(froms) : froms[k].tracker # half.tracker
    BY <1>2, <1>4, <1>8, <1>11
  <2>2. PairsMeet(channel', froms')
    BY <1>2, <1>8, <1>9, <1>11, <2>1
  <2> QED  BY <1>1, <1>6, <1>7, <1>10, <1>11, <2>2, ReceivedHistory DEF e
<1>12. CASE \E i \in DOMAIN froms :
             /\ froms[i].tracker = e.tracker /\ e.tracker # 0
             /\ Conclude(froms[i].path, Tail(channel))
             /\ froms' = Append(RemoveAt(froms, i), half)
  <2>1. PICK i \in DOMAIN froms :
             /\ froms[i].tracker = e.tracker /\ e.tracker # 0
             /\ Conclude(froms[i].path, Tail(channel))
             /\ froms' = Append(RemoveAt(froms, i), half)
    BY <1>12
  <2> DEFINE gr == RemoveAt(froms, i)
             n == froms[i].path
  <2>2. i \in 1..Len(froms) /\ gr \in Seq(Half) /\ n \in Nodes
    BY <1>2, <2>1, HalfType
  <2>3. /\ TrackersDiffer(gr)
        /\ \A k \in 1..Len(gr) : \E j \in 1..Len(froms) : j # i /\ gr[k] = froms[j]
    BY <1>2, <1>8, <2>2, DifferWithout
  <2> HIDE DEF gr
  <2>4. \A k \in 1..Len(gr) : gr[k].tracker # 0 /\ gr[k].tracker # half.tracker
    BY SMTT(20), <1>4, <1>8, <2>1, <2>2, <2>3 DEF TrackersDiffer
  <2>5. PairsMeet(channel', froms')
    BY <1>9, <2>1, <2>2, <2>3, <2>4 DEF gr
  <2>6. channel' = << >> /\ ~Exists(n)
    BY <1>1, <1>6, <2>1 DEF Conclude, Forget, Remembered
  <2>7. /\ renames' = Append(renames, Removal(n)) /\ Removal(n) \in Rename
        /\ ~Removal(n).again
    BY <2>1, <2>2, RemovalType DEF Conclude, Removal
  <2>8. ASSUME NEW p \in Paths, NEW w \in Watched, home[p] # 0,
               ChannelLeads(channel', w, p)
        PROVE  Takes(Removal(n), w, w)
    <3>1. w = p
      BY <2>6, <2>8, EmptyChannelLeads
    <3>2. disk[p] # NoFile
      BY <1>7, <2>8 DEF HistoryKept
    <3>3. ~Under(p, n)
      BY <2>6, <3>2 DEF Exists, FilesUnder
    <3> QED  BY <3>1, <3>3 DEF Takes, Follows, Removal
  <2> HIDE DEF n
  <2> QED  BY <1>1, <1>6, <1>7, <1>10, <2>5, <2>7, <2>8, ReceivedHistory DEF e
<1> QED  BY <1>5, <1>11, <1>12

(* The second half finds the first one: only changes came between them.    *)
LEMMA ReceiveToHistory ==
  ASSUME TypeOK, HistoryInv, ReceiveTo
  PROVE  HistoryInv'
<1> SUFFICES ASSUME Remembered' PROVE HistoryKept'
  BY DEF HistoryInv
<1> DEFINE e == channel[1]
           n == Len(froms)
<1>1. /\ UNCHANGED <<disk, names, tracked, pc, running, home>>
      /\ channel # << >> /\ channel' = Tail(channel)
      /\ Head(channel).kind = "to"
  BY DEF ReceiveTo, Receive, storeVars, workVars
<1>2. /\ channel \in Seq(Event) /\ Head(channel) = e /\ Len(channel) \in Nat
      /\ froms \in Seq(Half) /\ n \in Nat
  BY <1>1 DEF TypeOK
<1>3. e \in Event /\ e.kind = "to"
  BY <1>1, <1>2, HeadTailProperties
<1>4. HistoryKept /\ PairsMeet(channel, froms)
  BY <1>1 DEF HistoryInv, HistoryKept, Remembered
<1>5. \/ Mates(e.tracker) = {}
      \/ \E i \in Mates(e.tracker) :
           /\ renames' = Append(renames, [from |-> froms[i].path, to |-> e.path,
                                          again |-> FALSE])
           /\ froms' = RemoveAt(froms, i)
  BY <1>2 DEF ReceiveTo
<1>6. 1 \in 1..Len(channel)
  BY <1>1, <1>2, EmptySeq
<1> HIDE DEF e
<1>7. /\ froms # << >> /\ froms[n].tracker = e.tracker /\ froms[n].path = e.to
      /\ n \in 1..n
  <2>1. MeetsAt(channel, froms, 1)
    BY <1>3, <1>4, <1>6 DEF PairsMeet, HalvesMeet, e
  <2>2. \A j \in 1..(1 - 1) : FALSE
    OBVIOUS
  <2>3. froms # << >> /\ froms[n].tracker = e.tracker /\ froms[n].path = e.to
    BY <2>1, <2>2 DEF MeetsAt, HalfWaits, e
  <2> QED  BY <1>2, <2>3, EmptySeq
<1> HIDE DEF n
<1>8. n \in Mates(e.tracker) /\ \A i \in Mates(e.tracker) : i = n
  <2>1. DOMAIN froms = 1..n
    BY <1>2 DEF n
  <2>2. \A i, k \in 1..n : froms[i].tracker = froms[k].tracker => i = k
    BY <1>4 DEF PairsMeet, TrackersDiffer, n
  <2> QED  BY <1>7, <2>1, <2>2 DEF Mates
<1> DEFINE r == [from |-> e.to, to |-> e.path, again |-> FALSE]
<1>9. renames' = Append(renames, r) /\ froms' = RemoveAt(froms, n)
  BY <1>5, <1>7, <1>8
<1>10. r \in Rename /\ r.from = e.to /\ r.to = e.path /\ ~r.again
  BY <1>3 DEF Event, Rename
<1>11. PairsMeet(channel', froms')
  <2>1. /\ TrackersDiffer(froms')
        /\ \A k \in 1..Len(froms') : \E j \in 1..n : j # n /\ froms'[k] = froms[j]
    BY SMTT(20), <1>2, <1>4, <1>7, <1>9, DifferWithout DEF PairsMeet, n
  <2>2. \A j \in 1..n : froms[j].tracker = 0 => j = n
    BY <1>4 DEF PairsMeet, LoneHaveTrackers, n
  <2>3. \A k \in 1..Len(froms') : froms'[k].tracker # 0
    BY <2>1, <2>2
  <2>4. channel[1].kind \notin {"from", "change"}
    BY <1>3 DEF e
  <2> QED  BY <1>1, <1>2, <1>4, <2>1, <2>3, <2>4, PairsReceived
<1>12. \A v, w : Told(e, v, w) => Takes(r, v, w)
  BY <1>3 DEF Told, Takes, Follows
<1> HIDE DEF r
<1> QED  BY <1>1, <1>4, <1>9, <1>10, <1>11, <1>12, ReceivedHistory DEF e

LEMMA ReceiveHistory ==
  ASSUME TypeOK, HistoryInv, EventThread
  PROVE  HistoryInv'
<1>1. CASE ReceiveLost
  <2> SUFFICES ASSUME Remembered' PROVE FALSE
    BY DEF HistoryInv
  <2>1. channel # << >> /\ Head(channel).kind = "lost" /\ home' = home
    BY <1>1 DEF ReceiveLost, Receive
  <2>2. \A k \in 1..Len(channel) : channel[k].kind # "lost"
    BY <2>1 DEF HistoryInv, HistoryKept, Remembered, PairsMeet
  <2>3. channel \in Seq(Event) /\ Head(channel) = channel[1] /\ 1 \in 1..Len(channel)
    <3>1. channel \in Seq(Event)
      BY DEF TypeOK
    <3>2. Len(channel) # 0 /\ Len(channel) \in Nat
      BY <2>1, <3>1, EmptySeq
    <3> QED  BY <2>1, <3>1, <3>2
  <2> QED  BY <2>1, <2>2, <2>3
<1> QED
  BY <1>1, ReceiveSimple, ReceiveFromHistory, ReceiveToHistory DEF EventThread

LEMMA NoTwins == \A q, nm : ChannelTwins(<< >>, q, nm) /\ QueueTwins(<< >>, nm)
<1>1. Len(<< >>) = 0 /\ \A k \in 1..0 : FALSE
  OBVIOUS
<1> QED  BY <1>1 DEF ChannelTwins, QueueTwins

(* A half that stays alone has nothing to do with the files that are there *)
(* when no notification is on its way.                                     *)
LEMMA ExpireHistory ==
  ASSUME TypeOK, HistoryInv, NEW i, ExpireRename(i)
  PROVE  HistoryInv'
<1> SUFFICES ASSUME Remembered' PROVE HistoryKept'
  BY DEF HistoryInv
<1> DEFINE n == froms[i].path
<1>1. /\ UNCHANGED <<disk, channel, names, tracked, pc, running>>
      /\ i \in DOMAIN froms /\ froms' = RemoveAt(froms, i)
      /\ Conclude(n, channel)
  BY DEF ExpireRename, dirVars, statVars, storeVars, workVars
<1>2. /\ channel = << >> /\ ~Exists(n) /\ home' = home
      /\ renames' = Append(renames, Removal(n))
  BY <1>1 DEF Conclude, Forget, Remembered
<1>3. HistoryKept /\ PairsMeet(channel, froms)
  BY <1>2 DEF HistoryInv, HistoryKept, Remembered
<1>4. /\ n \in Nodes /\ froms \in Seq(Half) /\ renames \in Seq(Rename)
      /\ i \in 1..Len(froms) /\ Removal(n) \in Rename
  <2>1. n \in Nodes
    BY <1>1, HalfType
  <2>2. froms \in Seq(Half) /\ renames \in Seq(Rename)
    BY DEF TypeOK
  <2> QED  BY <1>1, <2>1, <2>2, RemovalType
<1> HIDE DEF n
<1>5. PairsMeet(channel', froms')
  <2>1. /\ TrackersDiffer(froms')
        /\ \A k \in 1..Len(froms') : \E j \in 1..Len(froms) : j # i /\ froms'[k] = froms[j]
    BY <1>1, <1>3, <1>4, DifferWithout DEF PairsMeet
  <2>2. ~ToFollows(channel, 0)
    <3>1. Len(<< >>) = 0 /\ \A k \in (0 + 1)..0 : FALSE
      OBVIOUS
    <3> QED  BY <1>2, <3>1 DEF ToFollows
  <2>3. \A j \in 1..Len(froms) : froms[j].tracker # 0
    BY <1>3, <2>2 DEF PairsMeet, LoneHaveTrackers
  <2>4. \A k \in 1..Len(froms') : froms'[k].tracker # 0
    BY <2>1, <2>3
  <2> QED  BY <1>1, <1>2, <2>1, <2>4, PairsNone
<1>6. ASSUME NEW p \in Paths, home'[p] # 0 PROVE disk'[p] # NoFile /\ Traced(p)'
  <2>1. disk[p] # NoFile /\ Traced(p)
    BY <1>2, <1>3, <1>6 DEF HistoryKept
  <2>2. PICK u, v \in Watched : /\ names[u] = home[p]
                                /\ QueueLeads(renames, HeadApplied, u, v)
                                /\ ChannelLeads(channel, v, p)
    BY <2>1 DEF Traced
  <2>3. v = p
    BY <1>2, <2>2, EmptyChannelLeads
  <2>4. ChannelLeads(channel', v, p)
    BY <1>1, <1>2, <2>2, <2>3, EmptyChannelLeads
  <2>5. Takes(Removal(n), v, v)
    BY <1>2, <2>1, <2>3 DEF Takes, Follows, Removal, Exists, FilesUnder
  <2>6. renames # << >> => renames' # << >> /\ Head(renames') = Head(renames)
    BY <1>2, <1>4, AppendProperties, HeadTailAppend
  <2>7. HeadApplied => HeadApplied'
    BY <1>1, <2>6 DEF HeadApplied, Affected
  <2>8. QueueLeads(renames', HeadApplied', u, v)
    BY <1>2, <1>4, <2>2, <2>5, <2>7, QueueAppend
  <2> QED  BY <1>1, <1>2, <2>1, <2>2, <2>4, <2>8 DEF Traced
<1>7. QueueTwins(renames', names') /\ ChannelTwins(channel', renames', names')
  <2>1. QueueTwins(renames, names) /\ ~Removal(n).again
    BY <1>3 DEF HistoryKept, Removal
  <2>2. QueueTwins(renames', names)
    BY <1>2, <1>4, <2>1, QueueTwinsAppend
  <2> QED  BY <1>1, <1>2, <2>2, NoTwins
<1> QED  BY <1>1, <1>3, <1>5, <1>6, <1>7 DEF HistoryKept

(* A scan removes what is not there, when nothing is on its way.           *)
LEMMA SweepHistory ==
  ASSUME TypeOK, TypeOK', HistoryInv, IsFiniteSet(tracked), Sweep
  PROVE  HistoryInv'
<1> SUFFICES ASSUME Remembered' PROVE HistoryKept'
  BY DEF HistoryInv
<1>1. /\ UNCHANGED <<disk, channel, froms, names, tracked, running>>
      /\ renames = << >> /\ froms = << >>
      /\ renames' = [i \in 1..Cardinality(Missing) |-> Removal(SetToSeq(Missing)[i])]
  BY DEF Sweep, MustNotSweep, HasRenames, dirVars, statVars, storeVars
<1>2. channel = << >> /\ home' = home
  BY DEF Sweep, Remembered
<1>3. HistoryKept
  BY <1>2 DEF HistoryInv, Remembered
<1> DEFINE m == Cardinality(Missing)
           q == SetToSeq(Missing)
<1>4. m \in Nat /\ \A i \in 1..m : q[i] \in Missing
  <2>1. Missing \in SUBSET tracked
    BY DEF Missing
  <2>2. IsFiniteSet(Missing)
    BY <2>1, FS_Subset
  <2> QED  BY <2>2, SetToSeqHolds
<1> HIDE DEF m, q
<1>5. renames' = [i \in 1..m |-> Removal(q[i])]
  BY <1>1 DEF m, q
<1>6. renames' \in Seq(Rename) /\ Len(renames') = m
  BY <1>4, <1>5 DEF TypeOK
<1>7. ASSUME NEW p \in Paths, home'[p] # 0 PROVE disk'[p] # NoFile /\ Traced(p)'
  <2>1. disk[p] # NoFile /\ Traced(p)
    BY <1>2, <1>3, <1>7 DEF HistoryKept
  <2>2. PICK u, v \in Watched : /\ names[u] = home[p]
                                /\ QueueLeads(renames, HeadApplied, u, v)
                                /\ ChannelLeads(channel, v, p)
    BY <2>1 DEF Traced
  <2>3. v = p /\ u = p
    BY <1>1, <1>2, <2>2, EmptyChannelLeads, EmptyQueueLeads
  <2>4. \A k \in 1..m : ~Under(p, q[k])
    BY <1>4, <2>1 DEF Missing, Exists, FilesUnder
  <2>5. \A k \in 1..Len(renames') : Follows(renames'[k], p, p)
    BY <1>5, <1>6, <2>4 DEF Follows, Removal
  <2>6. QueueLeads(renames', HeadApplied', p, p)
    BY <1>6, <2>2, <2>3, <2>5, QueueStays
  <2> QED  BY <1>1, <1>2, <2>1, <2>2, <2>3, <2>6 DEF Traced
<1>8. QueueTwins(renames', names') /\ ChannelTwins(channel', renames', names')
  <2>1. \A k \in 1..m : ~renames'[k].again
    BY <1>5 DEF Removal
  <2>2. QueueTwins(renames', names')
    BY <1>6, <2>1 DEF QueueTwins
  <2> QED  BY <1>1, <1>2, <2>2, NoTwins
<1> QED  BY <1>1, <1>2, <1>3, <1>7, <1>8 DEF HistoryKept

(* A removal of a path where there is something again is dropped.          *)
LEMMA StillThereHistory ==
  ASSUME TypeOK, HistoryInv, RenameStillThere
  PROVE  HistoryInv'
<1> SUFFICES ASSUME Remembered' PROVE HistoryKept'
  BY DEF HistoryInv
<1>1. /\ UNCHANGED <<disk, channel, froms, names, tracked, running, home, pc>>
      /\ renames # << >> /\ renames' = Tail(renames) /\ Head(renames).to = Nowhere
  BY DEF RenameStillThere, IsStillThere, dirVars, storeVars, histVars
<1>2. HistoryKept
  BY <1>1 DEF HistoryInv, Remembered
<1>3. /\ renames \in Seq(Rename) /\ renames' \in Seq(Rename)
      /\ Head(renames) = renames[1]
  <2>1. renames \in Seq(Rename)
    BY DEF TypeOK
  <2> QED  BY <1>1, <2>1, HeadTailProperties
<1>4. ASSUME NEW p \in Paths, home'[p] # 0 PROVE disk'[p] # NoFile /\ Traced(p)'
  <2>1. disk[p] # NoFile /\ Traced(p)
    BY <1>1, <1>2, <1>4 DEF HistoryKept
  <2>2. PICK u, v \in Watched : /\ names[u] = home[p]
                                /\ QueueLeads(renames, HeadApplied, u, v)
                                /\ ChannelLeads(channel, v, p)
    BY <2>1 DEF Traced
  <2>3. PICK w \in Watched : /\ FollowsAt(renames, 1, HeadApplied, u, w)
                             /\ QueueLeads(renames', FALSE, w, v)
    BY <1>1, <1>3, <2>2, QueueTail
  <2>4. w = u
    BY <1>1, <1>3, <2>3 DEF FollowsAt, Takes, Follows, Passes
  <2>5. QueueLeads(renames', HeadApplied', u, v)
    BY <1>3, <2>3, <2>4, QueueMore
  <2> QED  BY <1>1, <2>1, <2>2, <2>5 DEF Traced
<1>5. QueueTwins(renames', names') /\ ChannelTwins(channel', renames', names')
  <2>1. \A r : r.to = renames[1].to => Nothing(names', r)
    BY <1>1, <1>3 DEF Nothing, ToName
  <2>2. channel \in Seq(Event)
    BY DEF TypeOK
  <2> QED  BY <1>1, <1>2, <1>3, <2>1, <2>2, TwinsApplied DEF HistoryKept
<1> QED  BY <1>1, <1>2, <1>4, <1>5 DEF HistoryKept

(* Two names that a rename moves to one place are one name.                *)
LEMMA TargetInjective ==
  ASSUME NEW r \in Rename, NEW p \in Affected(r), NEW q \in Affected(r),
         Target(p, r) # Nowhere, Target(p, r) = Target(q, r)
  PROVE  p = q
<1>1. /\ r.to # Nowhere /\ Target(p, r) = Moved(p, r.from, r.to)
      /\ Target(q, r) = Moved(q, r.from, r.to)
  BY DEF Target, ToName
<1>2. r.from \in Seq(Parts) /\ r.to \in Seq(Parts)
  BY <1>1, NodesAreSequences DEF Rename
<1>3. p \in Seq(Parts) /\ q \in Seq(Parts) /\ Under(p, r.from) /\ Under(q, r.from)
  BY NodesAreSequences DEF Affected, FilesUnder, Nodes
<1>4. Moved(Moved(p, r.from, r.to), r.to, r.from) = p
  BY <1>2, <1>3, MovedBack
<1>5. Moved(Moved(q, r.from, r.to), r.to, r.from) = q
  BY <1>2, <1>3, MovedBack
<1> QED  BY <1>1, <1>4, <1>5

LEMMA IncludedAbove ==
  ASSUME NEW p \in Seq(Parts), NEW n \in Seq(Parts), Included(p), Under(p, n)
  PROVE  Included(n)
<1>1. \A i \in Ignored : i \in Seq(Parts)
  BY PathAssumption, NodesAreSequences
<1>2. \A i \in Ignored : Under(n, i) => Under(p, i)
  BY <1>1, UnderIsTransitive
<1> QED  BY <1>2 DEF Included

(* The transaction of a rename takes the object that u is bound to along.  *)
LEMMA BindingFollows ==
  ASSUME TypeOK, NEW r \in Rename, UpdateBindings(r),
         NEW u \in Watched, NEW w \in Watched, names[u] # 0, Follows(r, u, w)
  PROVE  names'[w] = names[u]
<1> DEFINE movesTo(q) == {p \in Affected(r) : Target(p, r) = q}
<1>1. names' = [q \in Paths |->
                  IF movesTo(q) # {} THEN names[CHOOSE p \in movesTo(q) : TRUE]
                  ELSE IF q \in Affected(r) THEN 0 ELSE names[q]]
  BY DEF UpdateBindings
<1>2. u \in Paths /\ w \in Paths /\ Included(u) /\ Included(w)
  BY DEF Watched
<1>3. Paths \subseteq Seq(Parts) /\ r.from \in Seq(Parts) /\ Nowhere \notin Paths
  BY NodesAreSequences, PathAssumption DEF Rename, Nodes
<1>4. CASE /\ Under(u, r.from) /\ r.to # Nowhere /\ w = Moved(u, r.from, r.to)
  <2>1. r.to \in Seq(Parts)
    BY <1>4, NodesAreSequences DEF Rename
  <2>2. Under(w, r.to)
    BY <1>2, <1>3, <1>4, <2>1, MovedIsUnder
  <2>3. Included(r.to) /\ Included(r.from)
    BY <1>2, <1>3, <1>4, <2>1, <2>2, IncludedAbove
  <2>4. ToName(r) = r.to /\ ToName(r) # Nowhere
    BY <1>4, <2>3 DEF ToName
  <2>5. u \in Affected(r)
    BY <1>2, <1>4, <2>3, <2>4 DEF Affected, FilesUnder
  <2>6. Target(u, r) = w /\ w # Nowhere
    BY <1>2, <1>3, <1>4, <2>4 DEF Target
  <2>7. \A p \in movesTo(w) : p = u
    BY <2>5, <2>6, TargetInjective
  <2>8. u \in movesTo(w)
    BY <2>5, <2>6
  <2> HIDE DEF movesTo
  <2>9. (CHOOSE p \in movesTo(w) : TRUE) = u
    BY <2>7, <2>8
  <2> QED  BY <1>1, <1>2, <2>8, <2>9
<1>5. CASE ~Under(u, r.from) /\ w = u /\ (r.to # Nowhere => ~Under(u, r.to))
  <2>1. u \notin Affected(r)
    BY <1>5 DEF Affected, FilesUnder
  <2>2. movesTo(u) = {}
    <3> SUFFICES ASSUME NEW p \in Affected(r), Target(p, r) = u PROVE FALSE
      OBVIOUS
    <3>1. r.to # Nowhere /\ u = Moved(p, r.from, r.to)
      BY <1>2, <1>3 DEF Target, ToName
    <3>2. r.to \in Seq(Parts) /\ p \in Seq(Parts) /\ Under(p, r.from)
      BY <1>3, <3>1, NodesAreSequences DEF Rename, Affected, FilesUnder
    <3>3. Under(u, r.to)
      BY <1>3, <3>1, <3>2, MovedIsUnder
    <3> QED  BY <1>5, <3>1, <3>3
  <2> HIDE DEF movesTo
  <2> QED  BY <1>1, <1>2, <1>5, <2>1, <2>2
<1> QED  BY <1>4, <1>5 DEF Follows

(* A rename that has been applied to all its names leaves nothing bound    *)
(* below the old path.                                                     *)
LEMMA NothingLeftBehind ==
  ASSUME TypeOK, NEW r \in Rename, UpdateBindings(r), ToName(r) # Nowhere, Apart(r.from, r.to)
  PROVE  \A q \in FilesUnder(r.from) : Included(r.from) => names'[q] = 0
<1> DEFINE movesTo(q) == {p \in Affected(r) : Target(p, r) = q}
<1>1. names' = [q \in Paths |->
                  IF movesTo(q) # {} THEN names[CHOOSE p \in movesTo(q) : TRUE]
                  ELSE IF q \in Affected(r) THEN 0 ELSE names[q]]
  BY DEF UpdateBindings
<1>2. Paths \subseteq Seq(Parts) /\ r.from \in Seq(Parts) /\ Nowhere \notin Paths
  BY NodesAreSequences, PathAssumption DEF Rename, Nodes
<1>3. r.to \in Seq(Parts)
  BY NodesAreSequences DEF ToName, Rename
<1> SUFFICES ASSUME NEW q \in FilesUnder(r.from), Included(r.from) PROVE names'[q] = 0
  OBVIOUS
<1>4. q \in Paths /\ Under(q, r.from)
  BY DEF FilesUnder
<1>5. movesTo(q) = {}
  <2> SUFFICES ASSUME NEW p \in Affected(r), Target(p, r) = q PROVE FALSE
    OBVIOUS
  <2>1. q = Moved(p, r.from, r.to)
    BY <1>2, <1>4 DEF Target
  <2>2. p \in Seq(Parts) /\ Under(p, r.from)
    BY <1>2 DEF Affected, FilesUnder
  <2>3. Under(q, r.to)
    BY <1>2, <1>3, <2>1, <2>2, MovedIsUnder
  <2> QED  BY <1>2, <1>3, <1>4, <2>3, UnderBothNotApart
<1>6. q \notin Affected(r) => names[q] = 0
  BY <1>4 DEF Affected
<1> HIDE DEF movesTo
<1> QED  BY <1>1, <1>4, <1>5, <1>6

(* An applied rename has taken the bindings along; when it stays in the    *)
(* queue, no name is left for it to move.                                  *)
LEMMA ApplyHistory ==
  ASSUME TypeOK, TypeOK', RemovalInv, HistoryInv, RenameApply
  PROVE  HistoryInv'
<1> SUFFICES ASSUME Remembered' PROVE HistoryKept'
  BY DEF HistoryInv
<1>1. UNCHANGED <<disk, channel, froms, home>> /\ pc = "rename"
  BY DEF RenameApply, dirVars, histVars
<1>2. running' = running
  BY DEF RenameApply, RenamesFail, ScanReturns
<1>3. HistoryKept
  BY <1>1 DEF HistoryInv, Remembered
<1>4. PICK r : r = Head(renames)
  OBVIOUS
<1>5. /\ renames \in Seq(Rename) /\ renames # << >> /\ r \in Rename
      /\ renames[1] = r
  <2>1. renames \in Seq(Rename)
    BY DEF TypeOK
  <2>2. renames # << >>
    BY <1>1 DEF RemovalInv, LookedAt
  <2> QED  BY <1>4, <2>1, <2>2, HeadTailProperties
<1>6. UpdateBindings(r)
  BY <1>4 DEF RenameApply
<1>7. \/ renames' = Tail(renames)
      \/ /\ renames' = renames /\ ToName(r) # Nowhere
         /\ pc' \in {"renames", "updates", "off", "scan", "decide"}
  <2>1. CASE renames' = Tail(renames)
    BY <2>1
  <2>2. CASE ToName(r) # Nowhere /\ renames' = renames /\ \E errs : RenamesFail(errs)
    <3>1. Sound
      BY DEF RemovalInv
    <3> QED  BY <2>2, <3>1, RenamesFailTo
  <2> QED  BY <1>4, <2>1, <2>2 DEF RenameApply
<1>8. Affected(r) = {} => names' = names /\ tracked' = tracked
  <2> SUFFICES ASSUME Affected(r) = {} PROVE names' = names /\ tracked' = tracked
    OBVIOUS
  <2>1. names' = [q \in Paths |-> names[q]] /\ tracked' = tracked
    BY <1>6 DEF UpdateBindings, Targets
  <2>2. names \in [Paths -> 0..Len(objects)]
    BY DEF TypeOK
  <2> QED  BY <2>1, <2>2
<1>9. r.again => /\ Apart(r.from, r.to)
                 /\ ToName(r) # Nowhere => Affected(r) = {}
  <2>1. 1 \in 1..Len(renames) /\ 1 - 1 = 0
    BY <1>5, EmptySeq
  <2>2. r.again => Twice(renames, 0, names, r)
    BY <1>3, <1>5, <2>1 DEF HistoryKept, QueueTwins
  <2> QED  BY <2>2 DEF Twice, Nothing, Affected
<1>10. QueueTwins(renames', names') /\ ChannelTwins(channel', renames', names')
  <2>1. ASSUME NEW x, x.from = r.from, x.to = r.to, Apart(x.from, x.to)
        PROVE  Nothing(names', x)
    BY <1>5, <1>6, <2>1, NothingLeftBehind DEF Nothing, ToName
  <2>2. /\ QueueTwins(renames, names) /\ ChannelTwins(channel, renames, names)
        /\ channel \in Seq(Event)
    BY <1>3 DEF HistoryKept, TypeOK
  <2>3. CASE renames' = Tail(renames)
    BY <1>1, <1>5, <2>1, <2>2, <2>3, TwinsApplied
  <2>4. CASE renames' = renames
    <3>1. r.again => Nothing(names', r)
      BY <1>9, <2>1
    <3> QED  BY <1>1, <1>5, <2>2, <2>4, <3>1, TwinsStay
  <2> QED  BY <1>7, <2>3, <2>4
<1>11. ASSUME NEW p \in Paths, home'[p] # 0 PROVE disk'[p] # NoFile /\ Traced(p)'
  <2>1. disk[p] # NoFile /\ Traced(p) /\ home[p] # 0
    BY <1>1, <1>3, <1>11 DEF HistoryKept
  <2>2. PICK u, v \in Watched : /\ names[u] = home[p]
                                /\ QueueLeads(renames, HeadApplied, u, v)
                                /\ ChannelLeads(channel, v, p)
    BY <2>1 DEF Traced
  <2>3. PICK w \in Watched : /\ FollowsAt(renames, 1, HeadApplied, u, w)
                             /\ QueueLeads(Tail(renames), FALSE, w, v)
    BY <1>5, <2>2, QueueTail
  <2>4. names'[w] = home[p]
    <3>1. CASE Follows(r, u, w)
      BY <1>5, <1>6, <2>1, <2>2, <2>3, <3>1, BindingFollows
    <3>2. CASE HeadApplied /\ Passes(r.from, u, w)
      <4>1. names' = names
        BY <1>4, <1>8, <3>2 DEF HeadApplied
      <4> QED  BY <2>2, <3>2, <4>1 DEF Passes
    <3>3. CASE r.again /\ Passes(r.from, u, w)
      <4>1. CASE ToName(r) # Nowhere
        <5>1. names' = names
          BY <1>8, <1>9, <3>3, <4>1
        <5> QED  BY <2>2, <3>3, <5>1 DEF Passes
      <4>2. CASE ToName(r) = Nowhere
        <5>1. Apart(r.from, r.to) /\ u = w /\ ~Under(u, r.from)
          BY <1>9, <3>3 DEF Passes
        <5>2. r.to # Nowhere => ~Under(u, r.to)
          <6> SUFFICES ASSUME r.to # Nowhere, Under(u, r.to) PROVE FALSE
            OBVIOUS
          <6>1. r.to \in Seq(Parts) /\ u \in Seq(Parts) /\ Included(u)
            BY <1>5, NodesAreSequences DEF Rename, Watched, Nodes
          <6> QED  BY <4>2, <6>1, IncludedAbove DEF ToName
        <5>3. Follows(r, u, w)
          BY <5>1, <5>2 DEF Follows
        <5> QED  BY <1>5, <1>6, <2>1, <2>2, <5>3, BindingFollows
      <4> QED  BY <4>1, <4>2
    <3> QED  BY <1>5, <2>3, <3>1, <3>2, <3>3 DEF FollowsAt, Takes
  <2>5. CASE renames' = Tail(renames)
    <3>1. renames' \in Seq(Rename)
      BY DEF TypeOK
    <3>2. QueueLeads(renames', HeadApplied', w, v)
      BY <2>3, <2>5, <3>1, QueueMore
    <3> QED  BY <1>1, <2>1, <2>2, <2>3, <2>4, <3>2 DEF Traced
  <2>6. CASE /\ renames' = renames /\ ToName(r) # Nowhere
             /\ pc' \in {"renames", "updates", "off", "scan", "decide"}
    <3>1. ~Under(w, r.from) /\ Affected(r)' = {}
      <4>1. CASE Follows(r, u, w)
        <5>1. r.to # Nowhere /\ Apart(r.from, r.to)
          BY <2>6, <4>1 DEF ToName, Follows
        <5>2. /\ r.from \in Seq(Parts) /\ r.to \in Seq(Parts) /\ w \in Seq(Parts)
              /\ u \in Seq(Parts)
          BY <1>5, <5>1, NodesAreSequences DEF Rename, Watched, Nodes
        <5>3. CASE Under(u, r.from) /\ w = Moved(u, r.from, r.to)
          <6>1. Under(w, r.to)
            BY <5>2, <5>3, MovedIsUnder
          <6> QED  BY <1>5, <1>6, <2>6, <5>1, <5>2, <6>1, UnderBothNotApart,
                      NothingLeftBehind DEF Affected
        <5>4. CASE ~Under(u, r.from) /\ w = u
          BY <1>5, <1>6, <2>6, <5>1, <5>4, NothingLeftBehind DEF Affected
        <5> QED  BY <4>1, <5>1, <5>3, <5>4 DEF Follows
      <4>2. CASE (HeadApplied \/ r.again) /\ Passes(r.from, u, w)
        <5>1. Affected(r) = {}
          BY <1>4, <1>9, <2>6, <4>2 DEF HeadApplied
        <5>2. names' = names /\ tracked' = tracked
          BY <1>8, <5>1
        <5> QED  BY <4>2, <5>1, <5>2 DEF Affected, Passes
      <4> QED  BY <1>5, <2>3, <4>1, <4>2 DEF FollowsAt, Takes
    <3>2. QueueLeads(renames, TRUE, w, v)
      BY <1>5, <2>3, <3>1, QueueApplied
    <3>3. HeadApplied'
      BY <1>4, <1>5, <2>6, <3>1 DEF HeadApplied
    <3>4. QueueLeads(renames', HeadApplied', w, v)
      BY <1>5, <2>6, <3>2, <3>3, QueueMore
    <3> QED  BY <1>1, <2>1, <2>2, <2>3, <2>4, <3>4 DEF Traced
  <2> QED  BY <1>7, <2>5, <2>6
<1> QED  BY <1>1, <1>2, <1>3, <1>10, <1>11 DEF HistoryKept

(* When all is in order, every file is remembered where it is.             *)
LEMMA FinishHistory ==
  ASSUME TypeOK, HistoryInv, FinishWork
  PROVE  HistoryInv'
<1>1. /\ UNCHANGED <<disk, channel, froms, renames, names, tracked, running>>
      /\ pc = "updates"
  BY DEF FinishWork, dirVars, pendVars, statVars, storeVars
<1>2. CASE ~Settled
  <2>1. home' = home
    BY <1>2 DEF FinishWork
  <2>2. HeadApplied => HeadApplied'
    <3>1. pc' \in {"scan", "renames"}
      BY DEF FinishWork, Goto
    <3> QED  BY <1>1, <3>1 DEF HeadApplied, Affected
  <2> QED  BY <1>1, <2>1, <2>2, HistoryQuiet
<1>3. CASE Settled
  <2> SUFFICES HistoryKept'
    BY DEF HistoryInv
  <2>1. running /\ channel = << >> /\ renames = << >> /\ froms = << >>
    BY <1>3 DEF Settled, NothingPending, HasRenames
  <2>2. home' = [p \in Paths |-> IF disk[p] = NoFile \/ ~Included(p) THEN 0 ELSE names[p]]
    BY <1>3 DEF FinishWork
  <2>3. PairsMeet(channel', froms')
    BY <1>1, <2>1, PairsStart
  <2>4. ASSUME NEW p \in Paths, home'[p] # 0 PROVE disk'[p] # NoFile /\ Traced(p)'
    <3>1. disk[p] # NoFile /\ p \in Watched /\ names[p] = home'[p]
      BY <2>2, <2>4 DEF Watched
    <3>2. QueueLeads(renames', HeadApplied', p, p) /\ ChannelLeads(channel', p, p)
      BY <1>1, <2>1, <3>1, EmptyQueueLeads, EmptyChannelLeads
    <3> QED  BY <1>1, <3>1, <3>2 DEF Traced
  <2>5. QueueTwins(renames', names') /\ ChannelTwins(channel', renames', names')
    BY <1>1, <2>1, NoTwins
  <2> QED  BY <1>1, <2>1, <2>3, <2>4, <2>5 DEF HistoryKept
<1> QED  BY <1>2, <1>3

LEMMA IdleHistory ==
  ASSUME TypeOK, HistoryInv,
         \/ WorkerStops \/ RenamesDone \/ RenameBegin \/ RenameFails
         \/ EndWalkFailed \/ EndWalkMoved \/ SkipScan \/ StartScan
  PROVE  HistoryInv'
<1>1. UNCHANGED <<disk, channel, froms, renames, home, names, tracked, running>>
  <2>1. CASE WorkerStops \/ RenamesDone \/ RenameBegin
    BY <2>1 DEF WorkerStops, RenamesDone, RenameBegin, ScanReturns, dirVars, pendVars,
                storeVars, histVars, statVars
  <2>2. CASE RenameFails
    BY <2>2 DEF RenameFails, RenamesFail, ScanReturns, dirVars, pendVars, storeVars, histVars
  <2>3. CASE EndWalkFailed \/ EndWalkMoved
    BY <2>3 DEF EndWalkFailed, EndWalkMoved, ScanReturns, dirVars, pendVars, storeVars,
                histVars
  <2>4. CASE SkipScan \/ StartScan
    BY <2>4 DEF SkipScan, StartScan, dirVars, pendVars, statVars, storeVars, histVars
  <2> QED  BY <2>1, <2>2, <2>3, <2>4
<1>2. pc' \notin {"ingest", "mark"}
  <2>1. CASE WorkerStops \/ RenamesDone \/ RenameBegin
    BY <2>1 DEF WorkerStops, RenamesDone, RenameBegin, ScanReturns, Goto, TypeOK
  <2>2. CASE RenameFails
    BY <2>2 DEF RenameFails, RenamesFail, ScanReturns, Goto, TypeOK
  <2>3. CASE EndWalkFailed \/ EndWalkMoved
    BY <2>3 DEF EndWalkFailed, EndWalkMoved, ScanReturns, TypeOK
  <2>4. CASE SkipScan \/ StartScan
    BY <2>4 DEF SkipScan, StartScan, Goto
  <2> QED  BY <2>1, <2>2, <2>3, <2>4
<1>3. HeadApplied => HeadApplied'
  BY <1>1, <1>2 DEF HeadApplied, Affected
<1> QED  BY <1>1, <1>3, HistoryQuiet

(* A put leaves the bindings of known objects alone.                       *)
LEMMA IngestHistory ==
  ASSUME TypeOK, HistoryInv,
         \/ FileUnchanged \/ FileCooling \/ PutFile \/ FinishIngest \/ FileVanished
         \/ \E busy \in BOOLEAN : FileUnreadable(busy)
  PROVE  HistoryInv'
<1>1. CASE Forget
  BY <1>1, ForgetsAll
<1> SUFFICES ASSUME ~Forget PROVE HistoryInv'
  BY <1>1
<1>2. UNCHANGED <<disk, channel, froms, renames, home, running>>
  <2>1. CASE FileUnchanged \/ FileCooling
    BY <2>1 DEF FileUnchanged, FileCooling, dirVars, pendVars, statVars, histVars
  <2>2. CASE PutFile \/ FinishIngest
    BY <2>2 DEF PutFile, FinishIngest, dirVars, pendVars, statVars, histVars
  <2>3. CASE FileVanished \/ \E busy \in BOOLEAN : FileUnreadable(busy)
    BY <2>3 DEF FileVanished, FileUnreadable, IngestFails, dirVars, histVars
  <2> QED  BY <2>1, <2>2, <2>3
<1>3. \/ names' = names
      \/ /\ names' = [names EXCEPT ![path] = Len(objects) + 1] /\ names[path] = 0
         /\ \A n \in Nodes : MovesAgain(n) => ~Under(path, n)
  <2>1. CASE FileUnchanged \/ FileCooling
    BY <2>1 DEF FileUnchanged, FileCooling, storeVars
  <2>2. CASE PutFile
    BY <2>2 DEF PutFile, PutNamed
  <2>3. CASE FinishIngest
    BY <2>3 DEF FinishIngest
  <2>4. CASE FileVanished \/ \E busy \in BOOLEAN : FileUnreadable(busy)
    BY <2>4 DEF FileVanished, FileUnreadable, IngestFails, storeVars
  <2> QED  BY <2>1, <2>2, <2>3, <2>4
<1>4. \A p \in Paths : names[p] # 0 => names'[p] = names[p]
  BY <1>3 DEF TypeOK
<1>5. \A p \in Paths, n \in Nodes :
        names[p] = 0 /\ names'[p] # 0 /\ MovesAgain(n) => ~Under(p, n)
  BY <1>3 DEF TypeOK
<1>6. ~HeadApplied
  BY DEF HeadApplied, FileUnchanged, FileCooling, PutFile, FinishIngest, FileVanished,
         FileUnreadable
<1> QED  BY <1>2, <1>4, <1>5, <1>6, HistoryQuiet

LEMMA WalkHistory ==
  ASSUME TypeOK, HistoryInv,
         \/ \E p \in Paths : \/ VisitNothing(p) \/ VisitBlocked(p) \/ VisitFile(p)
                             \/ VisitUnreadable(p)
         \/ \E u \in Nodes : PickUpdate(u)
  PROVE  HistoryInv'
<1>1. UNCHANGED <<disk, channel, froms, renames, home, running, names, tracked>>
  <2>1. ASSUME NEW p \in Paths, Step(p)
        PROVE  UNCHANGED <<disk, channel, froms, renames, home, running, names, tracked>>
    BY <2>1 DEF Step, dirVars, storeVars, histVars
  <2>2. ASSUME NEW u \in Nodes, PickUpdate(u)
        PROVE  UNCHANGED <<disk, channel, froms, renames, home, running, names, tracked>>
    BY <2>2 DEF PickUpdate, dirVars, storeVars, histVars
  <2> QED  BY <2>1, <2>2 DEF VisitNothing, VisitBlocked, VisitFile, VisitUnreadable
<1>2. HeadApplied => pc' = pc
  <2>1. ASSUME NEW p \in Paths, VisitNothing(p) \/ VisitBlocked(p) \/ VisitUnreadable(p)
        PROVE  pc' = pc
    BY <2>1 DEF VisitNothing, VisitBlocked, VisitUnreadable
  <2>2. ASSUME NEW p \in Paths, VisitFile(p) PROVE ~HeadApplied
    BY <2>2 DEF VisitFile, Blocked, HasRenames, HeadApplied
  <2>3. ASSUME NEW u \in Nodes, PickUpdate(u) PROVE ~HeadApplied
    BY <2>3 DEF PickUpdate, HasRenames, HeadApplied
  <2> QED  BY <2>1, <2>2, <2>3
<1>3. HeadApplied => HeadApplied'
  BY <1>1, <1>2 DEF HeadApplied, Affected
<1> QED  BY <1>1, <1>3, HistoryQuiet

(* Nothing is remembered while the service is off.                         *)
LEMMA ServiceHistory ==
  ASSUME HistoryInv, Start \/ ManualScan
  PROVE  HistoryInv'
<1>1. ~running /\ home' = home
  BY DEF Start, ManualScan, histVars
<1>2. ~Remembered
  BY <1>1 DEF HistoryInv, HistoryKept
<1>3. ~Remembered'
  BY <1>1, <1>2 DEF Remembered
<1> QED  BY <1>3 DEF HistoryInv

LEMMA EnvironmentHistory ==
  ASSUME TypeOK, HistoryInv, Environment
  PROVE  HistoryInv'
<1>1. CASE Forget
  BY <1>1, ForgetsAll
<1>2. CASE Start \/ ManualScan
  BY <1>2, ServiceHistory
<1>3. ASSUME NEW p \in Paths, NEW c \in Contents, Write(p, c) PROVE HistoryInv'
  BY <1>3, WriteHistory
<1>4. ASSUME NEW n \in Nodes, RemoveNode(n) PROVE HistoryInv'
  BY <1>4, RemoveHistory
<1>5. ASSUME NEW n \in Nodes, NEW m \in Nodes, Move(n, m) PROVE HistoryInv'
  BY <1>5, MoveHistory
<1>6. CASE \/ LoseEvents \/ Stop \/ Kill \/ \E p \in Paths : ClientUnbind(p)
           \/ \E p \in Paths, c \in Contents : ClientPut(p, c)
  BY <1>1, <1>6 DEF LoseEvents, Stop, Kill, ClientUnbind, ClientPut
<1> QED  BY <1>2, <1>3, <1>4, <1>5, <1>6 DEF Environment

LEMMA InitHistory == Init => HistoryInv
BY DEF Init, HistoryInv, Remembered

LEMMA NextHistory ==
  ASSUME TypeOK, TypeOK', RemovalInv, HistoryInv, [Next]_vars
  PROVE  HistoryInv'
<1>1. CASE Environment
  BY <1>1, EnvironmentHistory
<1>2. CASE EventThread
  BY <1>2, ReceiveHistory
<1>3. CASE Worker
  <2>1. CASE \/ WorkerStops \/ RenamesDone \/ RenameBegin
             \/ EndWalkFailed \/ EndWalkMoved \/ SkipScan \/ StartScan
    <3>1. \/ WorkerStops \/ RenamesDone \/ RenameBegin \/ RenameFails
          \/ EndWalkFailed \/ EndWalkMoved \/ SkipScan \/ StartScan
      BY ONLY <2>1
    <3> QED  BY <3>1, IdleHistory
  <2>2. CASE FileUnchanged \/ FileCooling \/ PutFile \/ FinishIngest \/ FileVanished
    BY <2>2, IngestHistory
  <2>3. CASE \/ \E p \in Paths : VisitNothing(p) \/ VisitBlocked(p) \/ VisitFile(p)
             \/ \E u \in Nodes : PickUpdate(u)
    BY <2>3, WalkHistory
  <2>4. CASE RenameStillThere
    BY <2>4, StillThereHistory
  <2>5. CASE RenameApply
    BY <2>5, ApplyHistory
  <2>6. CASE Sweep
    <3>1. IsFiniteSet(tracked)
      BY DEF RemovalInv, Sound
    <3> QED  BY <2>6, <3>1, SweepHistory
  <2>7. CASE FinishWork
    BY <2>7, FinishHistory
  <2> QED  BY <1>3, <2>1, <2>2, <2>3, <2>4, <2>5, <2>6, <2>7 DEF Worker
<1>4. CASE WorkerFaults
  <2>1. CASE RenameFails
    <3>1. \/ WorkerStops \/ RenamesDone \/ RenameBegin \/ RenameFails
          \/ EndWalkFailed \/ EndWalkMoved \/ SkipScan \/ StartScan
      BY ONLY <2>1
    <3> QED  BY <3>1, IdleHistory
  <2>2. CASE \E busy \in BOOLEAN : FileUnreadable(busy)
    BY <2>2, IngestHistory
  <2>3. CASE \E p \in Paths : VisitUnreadable(p)
    BY <2>3, WalkHistory
  <2> QED  BY <1>4, <2>1, <2>2, <2>3 DEF WorkerFaults
<1>5. CASE Timers
  BY <1>5, ExpireHistory DEF Timers
<1>6. CASE UNCHANGED vars
  <2>1. UNCHANGED <<disk, channel, froms, renames, home, running, names, tracked, pc>>
    BY <1>6 DEF vars, dirVars, pendVars, statVars, storeVars, workVars, histVars
  <2>2. HeadApplied => HeadApplied'
    BY <2>1 DEF HeadApplied, Affected
  <2> QED  BY <2>1, <2>2, HistoryQuiet
<1> QED  BY <1>1, <1>2, <1>3, <1>4, <1>5, <1>6 DEF Next

LEMMA SettledHistory ==
  ASSUME HistoryInv
  PROVE  HistoryFollowsRename
<1> SUFFICES ASSUME Settled, NEW p \in Paths, home[p] # 0 PROVE names[p] = home[p]
  BY DEF HistoryFollowsRename
<1>1. channel = << >> /\ renames = << >>
  BY DEF Settled, NothingPending, HasRenames
<1>2. PICK u, v \in Watched : /\ names[u] = home[p]
                              /\ QueueLeads(renames, HeadApplied, u, v)
                              /\ ChannelLeads(channel, v, p)
  BY DEF HistoryInv, HistoryKept, Remembered, Traced
<1>3. v = u /\ p = v
  BY <1>1, <1>2, EmptyQueueLeads, EmptyChannelLeads
<1> QED  BY <1>2, <1>3

(***************************************************************************)
(* For any paths, changes, other clients, errors, lost events and stops:   *)
(* once all notifications are worked off, a file that home remembers has   *)
(* the object, and so the version history, it had before it was moved and  *)
(* changed, with the renames reported whole, in halves, in halves and then *)
(* whole, or with a change reported between the halves (receive_event,     *)
(* apply_rename, update_watched_prefix, scan_inner).  What home forgets is *)
(* told at HistoryFollowsRename.                                           *)
(***************************************************************************)
THEOREM HistoriesFollow == Spec => []HistoryFollowsRename
<1>1. Init => TypeOK /\ RemovalInv /\ HistoryInv
  BY InitType, InitRemoval, InitHistory
<1>2. TypeOK /\ RemovalInv /\ HistoryInv /\ [Next]_vars
        => TypeOK' /\ RemovalInv' /\ HistoryInv'
  BY NextType, NextRemoval, NextHistory
<1>3. HistoryInv => HistoryFollowsRename
  BY SettledHistory
<1> QED  BY <1>1, <1>2, <1>3, PTL DEF Spec
=============================================================================
