----------------------------- MODULE MountProofs -----------------------------
(***************************************************************************)
(* What a worker of the mount and a step of the store keep true of the     *)
(* reads and of the chunk cache of module Mount.                           *)
(***************************************************************************)
EXTENDS Mount, SequenceFacts

-----------------------------------------------------------------------------
(* Lengths and bytes                                                       *)

(* Offsets adds the lengths up, chunk by chunk.                            *)
LEMMA OffsetsAddUp ==
  ASSUME NEW s \in Seq(Chunks)
  PROVE  /\ Offsets(s) \in [0..Len(s) -> Nat]
         /\ Offsets(s)[0] = 0
         /\ \A i \in 1..Len(s) : Offsets(s)[i] = Offsets(s)[i - 1] + LenOf[s[i]]
<1> DEFINE step == [i \in 1..Len(s) |-> [n \in Nat |-> n + LenOf[s[i]]]]
           Fits(f) == f = [i \in 0..Len(s) |-> IF i = 0 THEN 0 ELSE f[i - 1] + LenOf[s[i]]]
<1>1. Len(s) \in Nat /\ \A i \in 1..Len(s) : LenOf[s[i]] \in Nat
  BY MountAssumption
<1>2. step \in [1..Len(s) -> [Nat -> Nat]]
  BY <1>1
<1>3. PICK f \in [0..Len(s) -> Nat] :
        f[0] = 0 /\ \A i \in 1..Len(s) : f[i] = step[i][f[i - 1]]
  <2> HIDE DEF step
  <2>1. Len(s) \in Nat /\ 0 \in Nat
    BY <1>1
  <2>2. \E f : f \in Iterations(Len(s), Nat, 0, step)
    BY <1>2, <2>1, IterationExists
  <2> QED  BY <2>2 DEF Iterations
<1>4. Fits(f)
  <2>1. ASSUME NEW i \in 1..Len(s) PROVE f[i] = f[i - 1] + LenOf[s[i]]
    <3>1. f[i] = step[i][f[i - 1]] /\ f[i - 1] \in Nat
      <4> HIDE DEF step
      <4> QED  BY SMTT(30), <1>1, <1>3
    <3> QED  BY <3>1
  <2> QED  BY <1>3, <2>1
<1>5. Fits(Offsets(s))
  <2>1. Offsets(s) = CHOOSE g : Fits(g)
    BY DEF Offsets
  <2> HIDE DEF Fits
  <2> QED  BY <1>4, <2>1
<1>6. \A i \in 0..Len(s) : Offsets(s)[i] = IF i = 0 THEN 0
                                           ELSE Offsets(s)[i - 1] + LenOf[s[i]]
  BY <1>5
<1>7. DOMAIN Offsets(s) = 0..Len(s)
  BY <1>5
<1> DEFINE G == {i \in 0..Len(s) : Offsets(s)[i] \in Nat}
<1>8. 0..Len(s) \subseteq G
  <2>1. 0 \in G
    BY <1>1, <1>6
  <2>2. ASSUME NEW n \in 0..(Len(s) - 1), n \in G PROVE n + 1 \in G
    <3>1. n + 1 \in 0..Len(s) /\ n + 1 # 0 /\ n + 1 - 1 = n /\ n + 1 \in 1..Len(s)
      BY <1>1
    <3>2. Offsets(s)[n + 1] = Offsets(s)[n] + LenOf[s[n + 1]]
      BY <1>6, <3>1
    <3> QED  BY <1>1, <2>2, <3>1, <3>2
  <2> HIDE DEF G
  <2> QED  BY <1>1, <2>1, <2>2, BoundedInduction
<1>9. Offsets(s) = [i \in 0..Len(s) |-> Offsets(s)[i]]
  BY <1>5
<1>10. Offsets(s) \in [0..Len(s) -> Nat]
  <2>1. \A i \in 0..Len(s) : Offsets(s)[i] \in Nat
    BY <1>8
  <2> QED  BY <1>9, <2>1
<1> QED  BY <1>1, <1>6, <1>10

LEMMA OffsetsNat ==
  ASSUME NEW s \in Seq(Chunks)
  PROVE  \A i \in 0..Len(s) : Offsets(s)[i] \in Nat
<1>1. Offsets(s) \in [0..Len(s) -> Nat]
  BY OffsetsAddUp
<1> QED  BY <1>1

LEMMA OffsetsStep ==
  ASSUME NEW s \in Seq(Chunks), NEW i \in 1..Len(s)
  PROVE  Offsets(s)[i] = Offsets(s)[i - 1] + LenOf[s[i]]
BY OffsetsAddUp

(* More chunks, no fewer bytes.                                            *)
LEMMA OffsetsGrow ==
  ASSUME NEW s \in Seq(Chunks), NEW i \in 0..Len(s), NEW j \in i..Len(s)
  PROVE  Offsets(s)[i] <= Offsets(s)[j]
<1> DEFINE G == {n \in Nat : i + n <= Len(s) => Offsets(s)[i] <= Offsets(s)[i + n]}
<1>1. Len(s) \in Nat
  OBVIOUS
<1>2. \A n \in 1..Len(s) : LenOf[s[n]] \in Nat
  BY MountAssumption
<1>3. 0 \in G
  <2>1. i + 0 = i
    OBVIOUS
  <2>2. Offsets(s)[i] \in Nat
    BY OffsetsNat
  <2> QED  BY <2>1, <2>2
<1>4. ASSUME NEW n \in Nat, n \in G PROVE n + 1 \in G
  <2> SUFFICES ASSUME i + (n + 1) <= Len(s)
               PROVE  Offsets(s)[i] <= Offsets(s)[i + (n + 1)]
    OBVIOUS
  <2>1. i + (n + 1) \in 1..Len(s) /\ i + (n + 1) - 1 = i + n
    BY <1>1
  <2>2. Offsets(s)[i + (n + 1)] = Offsets(s)[i + n] + LenOf[s[i + (n + 1)]]
    BY <2>1, OffsetsStep
  <2>3. Offsets(s)[i] <= Offsets(s)[i + n]
    <3>1. i + n <= Len(s)
      BY <1>1
    <3> QED  BY <1>4, <3>1
  <2>4. LenOf[s[i + (n + 1)]] \in Nat
    BY <1>2, <2>1
  <2>5. i \in 0..Len(s) /\ i + n \in 0..Len(s)
    BY <1>1
  <2>6. Offsets(s)[i] \in Nat /\ Offsets(s)[i + n] \in Nat
    BY <2>5, OffsetsNat
  <2> QED  BY <2>2, <2>3, <2>4, <2>6
<1>5. Nat \subseteq G
  <2> HIDE DEF G
  <2> QED  BY <1>3, <1>4, SetInduction
<1>6. j - i \in Nat /\ i + (j - i) = j /\ j <= Len(s)
  BY <1>1
<1> QED  BY <1>5, <1>6

(* Sequences after each other have the sum of their lengths.               *)
LEMMA SumLenConcat ==
  ASSUME NEW s \in Seq(Chunks), NEW t \in Seq(Chunks)
  PROVE  SumLen(s \o t) = SumLen(s) + SumLen(t)
<1> DEFINE u == s \o t
<1>1. u \in Seq(Chunks) /\ Len(u) = Len(s) + Len(t) /\ Len(s) \in Nat /\ Len(t) \in Nat
  OBVIOUS
<1>2. /\ \A i \in 1..Len(s) : u[i] = s[i]
      /\ \A i \in 1..Len(t) : u[Len(s) + i] = t[i]
  OBVIOUS
<1> HIDE DEF u
<1>3. /\ Offsets(u) \in [0..Len(u) -> Nat] /\ Offsets(u)[0] = 0
      /\ \A i \in 1..Len(u) : Offsets(u)[i] = Offsets(u)[i - 1] + LenOf[u[i]]
  BY <1>1, OffsetsAddUp
<1>4. /\ Offsets(s) \in [0..Len(s) -> Nat] /\ Offsets(s)[0] = 0
      /\ \A i \in 1..Len(s) : Offsets(s)[i] = Offsets(s)[i - 1] + LenOf[s[i]]
  BY OffsetsAddUp
<1>5. /\ Offsets(t) \in [0..Len(t) -> Nat] /\ Offsets(t)[0] = 0
      /\ \A i \in 1..Len(t) : Offsets(t)[i] = Offsets(t)[i - 1] + LenOf[t[i]]
  BY OffsetsAddUp
<1>6. \A k \in Chunks : LenOf[k] \in Nat
  BY MountAssumption
<1>7. Offsets(u)[Len(s)] = Offsets(s)[Len(s)]
  <2> DEFINE G == {i \in 0..Len(s) : Offsets(u)[i] = Offsets(s)[i]}
  <2>1. 0 \in G
    BY <1>1, <1>3, <1>4
  <2>2. ASSUME NEW n \in 0..(Len(s) - 1), n \in G PROVE n + 1 \in G
    <3>1. n + 1 \in 1..Len(s) /\ n + 1 \in 1..Len(u) /\ n + 1 - 1 = n
      BY <1>1
    <3>2. Offsets(u)[n + 1] = Offsets(u)[n] + LenOf[u[n + 1]]
      BY <1>3, <3>1
    <3>3. Offsets(s)[n + 1] = Offsets(s)[n] + LenOf[s[n + 1]]
      BY <1>4, <3>1
    <3>4. u[n + 1] = s[n + 1] /\ Offsets(u)[n] = Offsets(s)[n]
      BY <1>2, <2>2, <3>1
    <3>5. n + 1 \in 0..Len(s)
      BY <1>1, <3>1
    <3> QED  BY <3>2, <3>3, <3>4, <3>5
  <2>3. 0..Len(s) \subseteq G
    <3> HIDE DEF G
    <3> QED  BY <1>1, <2>1, <2>2, BoundedInduction
  <2> QED  BY <1>1, <2>3
<1>8. Offsets(u)[Len(s) + Len(t)] = Offsets(s)[Len(s)] + Offsets(t)[Len(t)]
  <2> DEFINE G == {i \in 0..Len(t) :
                     Offsets(u)[Len(s) + i] = Offsets(s)[Len(s)] + Offsets(t)[i]}
  <2>1. 0 \in G
    <3>1. Len(s) + 0 = Len(s) /\ 0 \in 0..Len(t)
      BY <1>1
    <3>2. Offsets(s)[Len(s)] \in Nat
      <4>1. Len(s) \in 0..Len(s)
        BY <1>1
      <4> QED  BY <4>1, OffsetsNat
    <3>3. Offsets(s)[Len(s)] + Offsets(t)[0] = Offsets(s)[Len(s)]
      BY <1>5, <3>2
    <3> QED  BY <1>7, <3>1, <3>3
  <2>2. ASSUME NEW n \in 0..(Len(t) - 1), n \in G PROVE n + 1 \in G
    <3>1. /\ n + 1 \in 1..Len(t) /\ n + 1 - 1 = n
          /\ Len(s) + (n + 1) \in 1..Len(u) /\ Len(s) + (n + 1) - 1 = Len(s) + n
      BY <1>1
    <3>2. /\ Offsets(u)[Len(s) + (n + 1)] = Offsets(u)[Len(s) + n] + LenOf[t[n + 1]]
          /\ Offsets(t)[n + 1] = Offsets(t)[n] + LenOf[t[n + 1]]
      <4>1. u[Len(s) + (n + 1)] = t[n + 1]
        BY <1>2, <3>1
      <4>2. Offsets(u)[Len(s) + (n + 1)]
              = Offsets(u)[Len(s) + (n + 1) - 1] + LenOf[u[Len(s) + (n + 1)]]
        <5>1. u \in Seq(Chunks)
          BY <1>1
        <5>2. Len(s) + (n + 1) \in 1..Len(u)
          BY <3>1
        <5> QED  BY <5>1, <5>2, OffsetsStep
      <4>3. Offsets(t)[n + 1] = Offsets(t)[n + 1 - 1] + LenOf[t[n + 1]]
        <5>1. n + 1 \in 1..Len(t)
          BY <3>1
        <5> HIDE DEF G
        <5> QED  BY <5>1, OffsetsStep
      <4> QED  BY <3>1, <4>1, <4>2, <4>3
    <3>3. LenOf[t[n + 1]] \in Nat
      BY <1>6, <3>1
    <3>4. Offsets(t)[n] \in Nat /\ Offsets(s)[Len(s)] \in Nat
      <4>1. n \in 0..Len(t) /\ Len(s) \in 0..Len(s)
        BY <1>1
      <4>2. Offsets(t)[n] \in Nat
        BY <4>1, OffsetsNat
      <4>3. Offsets(s)[Len(s)] \in Nat
        BY <4>1, OffsetsNat
      <4> QED  BY <4>2, <4>3
    <3>5. Offsets(u)[Len(s) + n] = Offsets(s)[Len(s)] + Offsets(t)[n]
      BY <2>2
    <3> QED  BY <3>1, <3>2, <3>3, <3>4, <3>5
  <2>3. 0..Len(t) \subseteq G
    <3> HIDE DEF G
    <3> QED  BY <1>1, <2>1, <2>2, BoundedInduction
  <2> QED  BY <1>1, <2>3
<1> QED  BY <1>1, <1>8 DEF SumLen, u

(* A sequence of chunks has a length, and that of one more chunk is added. *)
LEMMA SumLenType ==
  ASSUME NEW s \in Seq(Chunks)
  PROVE  SumLen(s) \in Nat
BY OffsetsAddUp DEF SumLen

LEMMA SumLenOne ==
  ASSUME NEW k \in Chunks
  PROVE  SumLen(<<k>>) = LenOf[k]
<1> DEFINE s == <<k>>
<1>1. s \in Seq(Chunks) /\ Len(s) = 1 /\ s[1] = k
  OBVIOUS
<1> HIDE DEF s
<1>2. Offsets(s)[1] = Offsets(s)[1 - 1] + LenOf[s[1]] /\ Offsets(s)[0] = 0
  BY <1>1, OffsetsAddUp
<1>3. LenOf[k] \in Nat
  BY MountAssumption
<1> QED  BY <1>1, <1>2, <1>3 DEF SumLen, s

\* What the bytes of files are taken from.
Bytes == Chunks \X Nat

LEMMA ChunkBytes ==
  ASSUME NEW k \in Chunks
  PROVE  /\ LenOf[k] \in Nat \ {0}
         /\ BytesOfChunk(k) \in Seq(Bytes) /\ Len(BytesOfChunk(k)) = LenOf[k]
         /\ \A j \in 1..LenOf[k] : BytesOfChunk(k)[j] = <<k, j>>
<1>1. LenOf[k] \in Nat \ {0}
  BY MountAssumption
<1>2. \A j \in 1..LenOf[k] : <<k, j>> \in Bytes
  BY <1>1 DEF Bytes
<1> QED  BY <1>1, <1>2 DEF BytesOfChunk

(* A file has the bytes of its chunks, each at the chunk's offset.         *)
LEMMA FileBytes ==
  ASSUME NEW c \in Contents
  PROVE  LET s == ChunksOf[c] IN
         /\ BytesOf(c) \in Seq(Bytes) /\ Len(BytesOf(c)) = SizeOf(c)
         /\ \A i \in 1..Len(s) : \A j \in 1..LenOf[s[i]] :
              BytesOf(c)[Offsets(s)[i - 1] + j] = <<s[i], j>>
<1> DEFINE s == ChunksOf[c]
           N == Len(s)
           step == [i \in 1..N |-> [b \in Seq(Bytes) |-> b \o BytesOfChunk(s[i])]]
           At(h, i) == IF i = 0 THEN << >> ELSE h[i - 1] \o BytesOfChunk(s[i])
           Fits(h) == h = [i \in 0..N |-> At(h, i)]
           f == CHOOSE g : Fits(g)
<1>1. s \in Seq(Chunks) /\ N \in Nat /\ \A i \in 1..N : s[i] \in Chunks
  BY MountAssumption
<1>2. BytesOf(c) = f[N]
  BY DEF BytesOf
<1> HIDE DEF s
<1>3. \A i \in 1..N : /\ LenOf[s[i]] \in Nat \ {0}
                       /\ BytesOfChunk(s[i]) \in Seq(Bytes)
                       /\ Len(BytesOfChunk(s[i])) = LenOf[s[i]]
                       /\ \A j \in 1..LenOf[s[i]] : BytesOfChunk(s[i])[j] = <<s[i], j>>
  BY <1>1, ChunkBytes
<1> HIDE DEF N
<1>4. PICK g \in [0..N -> Seq(Bytes)] :
        g[0] = << >> /\ \A i \in 1..N : g[i] = step[i][g[i - 1]]
  <2>1. step \in [1..N -> [Seq(Bytes) -> Seq(Bytes)]] /\ << >> \in Seq(Bytes)
    BY <1>3
  <2> HIDE DEF step
  <2>2. \E g : g \in Iterations(N, Seq(Bytes), << >>, step)
    BY <1>1, <2>1, IterationExists
  <2> QED  BY <2>2 DEF Iterations
<1>5. Fits(g)
  <2>1. ASSUME NEW i \in 1..N PROVE g[i] = g[i - 1] \o BytesOfChunk(s[i])
    <3>1. g[i] = step[i][g[i - 1]] /\ g[i - 1] \in Seq(Bytes)
      <4> HIDE DEF step
      <4> QED  BY <1>1, <1>4
    <3> QED  BY <3>1
  <2>2. At(g, 0) = << >> /\ \A i \in 1..N : At(g, i) = g[i - 1] \o BytesOfChunk(s[i])
    BY Zenon, <1>1, NotZero
  <2>3. ASSUME NEW i \in 0..N PROVE g[i] = At(g, i)
    <3> HIDE DEF At
    <3>1. i = 0 \/ i \in 1..N
      BY <1>1
    <3> QED  BY Zenon, <1>4, <2>1, <2>2, <3>1
  <2> HIDE DEF At
  <2> QED  BY <1>4, <2>3
<1>6. Fits(f)
  <2> HIDE DEF Fits
  <2> QED  BY <1>5
<1>7. f[0] = << >> /\ \A i \in 1..N : f[i] = f[i - 1] \o BytesOfChunk(s[i])
  <2>1. \A i \in 0..N : f[i] = At(f, i)
    <3> HIDE DEF f, At
    <3> QED  BY <1>6
  <2> HIDE DEF f
  <2>2. At(f, 0) = << >> /\ \A i \in 1..N : At(f, i) = f[i - 1] \o BytesOfChunk(s[i])
    BY Zenon, <1>1, NotZero
  <2>3. 0 \in 0..N /\ \A i \in 1..N : i \in 0..N
    BY <1>1
  <2> HIDE DEF At
  <2> QED  BY Zenon, <2>1, <2>2, <2>3
<1> HIDE DEF f, Fits, At
<1> DEFINE O == Offsets(s)
<1>8. /\ O \in [0..N -> Nat] /\ O[0] = 0
      /\ \A i \in 1..N : O[i] = O[i - 1] + LenOf[s[i]]
  BY <1>1, OffsetsAddUp DEF N
<1>9. \A i, n \in 0..N : i <= n => O[i] <= O[n]
  BY <1>1, OffsetsGrow DEF N
<1> HIDE DEF O
<1> DEFINE Placed(b, n) == \A i \in 1..n : \A j \in 1..LenOf[s[i]] : b[O[i - 1] + j] = <<s[i], j>>
           G == {n \in 0..N : f[n] \in Seq(Bytes) /\ Len(f[n]) = O[n] /\ Placed(f[n], n)}
<1>10. 0 \in G
  <2>1. << >> \in Seq(Bytes) /\ Len(<< >>) = 0 /\ 0 \in 0..N
    BY <1>1
  <2>2. Placed(f[0], 0)
    OBVIOUS
  <2> QED  BY <1>7, <1>8, <2>1, <2>2
<1>11. ASSUME NEW n \in 0..(N - 1), n \in G PROVE n + 1 \in G
  <2> DEFINE m == n + 1
             b == BytesOfChunk(s[m])
  <2>1. m \in 1..N /\ m - 1 = n /\ n \in Nat
    BY <1>1
  <2>2. f[m] = f[n] \o b /\ O[m] = O[n] + LenOf[s[m]]
    BY <1>7, <1>8, <2>1
  <2>3. /\ b \in Seq(Bytes) /\ Len(b) = LenOf[s[m]] /\ LenOf[s[m]] \in Nat \ {0}
        /\ \A j \in 1..LenOf[s[m]] : b[j] = <<s[m], j>>
    BY <1>3, <2>1
  <2>4. f[n] \in Seq(Bytes) /\ Len(f[n]) = O[n] /\ Placed(f[n], n) /\ O[n] \in Nat
    BY <1>8, <1>11
  <2> HIDE DEF m, b
  <2>5. f[m] \in Seq(Bytes) /\ Len(f[m]) = O[m]
    <3>1. /\ f[n] \o b \in Seq(Bytes)
          /\ Len(f[n] \o b) = Len(f[n]) + Len(b)
      BY <2>3, <2>4, ConcatProperties
    <3> QED  BY <2>2, <2>3, <2>4, <3>1
  <2>6. ASSUME NEW i \in 1..m, NEW j \in 1..LenOf[s[i]]
        PROVE  f[m][O[i - 1] + j] = <<s[i], j>>
    <3>0. Placed(f[n], n) /\ f[m] = f[n] \o b
      BY <2>2, <2>4
    <3> HIDE DEF Placed
    <3>1. CASE i = m
      <4>1. O[i - 1] + j = Len(f[n]) + j /\ j \in 1..Len(b)
        BY <2>1, <2>3, <2>4, <3>1
      <4>2. (f[n] \o b)[Len(f[n]) + j] = b[j]
        <5>1. f[n] \in Seq(Bytes) /\ b \in Seq(Bytes) /\ j \in 1..Len(b)
          BY <2>3, <2>4, <4>1
        <5> QED  BY Zenon, <5>1, ConcatSecond
      <4> QED  BY <2>2, <2>3, <3>1, <4>1, <4>2
    <3>2. CASE i # m
      <4>1. i \in 1..n /\ i \in 1..N /\ i \in 0..N /\ n \in 0..N /\ i <= n /\ i - 1 \in 0..N
        BY <1>1, <2>1, <3>2
      <4>2. O[i] = O[i - 1] + LenOf[s[i]] /\ O[i] <= O[n] /\ O[i - 1] \in Nat
            /\ LenOf[s[i]] \in Nat
        BY <1>3, <1>8, <1>9, <4>1
      <4>3. O[i - 1] + j \in 1..Len(f[n])
        BY SMTT(30), <2>4, <4>2
      <4>4. (f[n] \o b)[O[i - 1] + j] = f[n][O[i - 1] + j]
        BY <2>3, <2>4, <4>3, ConcatFirst
      <4>5. f[n][O[i - 1] + j] = <<s[i], j>>
        BY <3>0, <4>1 DEF Placed
      <4> QED  BY <3>0, <4>4, <4>5
    <3> QED  BY <3>1, <3>2
  <2>7. m \in 0..N
    BY <2>1
  <2>8. m \in G
    BY <2>5, <2>6, <2>7
  <2> QED  BY <2>8 DEF m
<1>12. 0..N \subseteq G
  <2> HIDE DEF G
  <2> QED  BY <1>1, <1>10, <1>11, BoundedInduction
<1>13. f[N] \in Seq(Bytes) /\ Len(f[N]) = O[N] /\ Placed(f[N], N)
  BY <1>1, <1>12
<1>14. SizeOf(c) = O[N]
  BY DEF SizeOf, SumLen, O, N, s
<1> QED  BY <1>2, <1>13, <1>14 DEF O, N, s

-----------------------------------------------------------------------------
(* The chunk cache                                                         *)

\* What CacheIsConsistent says of a cache, with its type.
IsCache(x) ==
  /\ x \in [order : Seq(Chunks), bytes : Nat]
  /\ IsInjective(x.order)
  /\ x.bytes = SumLen(x.order)
  /\ x.bytes <= MaxBytes

(* The first place of an element of a sequence is a place of it.           *)
LEMMA FirstPlace ==
  ASSUME NEW T, T \subseteq Nat, T # {}
  PROVE  Min(T) \in T
<1>1. \E x \in T : \A y \in T : x <= y
  BY LeastNatural
<1> QED  BY <1>1 DEF Min

LEMMA EmptyIsCache == IsCache(EmptyCache)
<1>1. << >> \in Seq(Chunks) /\ Len(<< >>) = 0 /\ MaxBytes \in Nat
  BY MountAssumption
<1>2. SumLen(<< >>) = 0
  BY <1>1, OffsetsAddUp DEF SumLen
<1>3. IsInjective(<< >>)
  BY DEF IsInjective
<1> QED  BY <1>1, <1>2, <1>3 DEF IsCache, EmptyCache

(* What is removed at a place is no longer counted; the rest stays.        *)
LEMMA Removal ==
  ASSUME NEW s \in Seq(Chunks), NEW p \in 1..Len(s)
  PROVE  /\ RemoveAt(s, p) \in Seq(Chunks)
         /\ Len(RemoveAt(s, p)) = Len(s) - 1
         /\ \A i \in 1..(Len(s) - 1) :
              RemoveAt(s, p)[i] = IF i < p THEN s[i] ELSE s[i + 1]
         /\ SumLen(s) = SumLen(RemoveAt(s, p)) + LenOf[s[p]]
<1> DEFINE a == SubSeq(s, 1, p - 1)
           b == SubSeq(s, p + 1, Len(s))
<1>1. Len(s) \in Nat /\ p - 1 \in 0..Len(s) /\ p \in 0..Len(s) /\ p - 1 + 1 = p
      /\ s[p] \in Chunks /\ p \in Nat /\ Len(s) \in p..Len(s)
  OBVIOUS
<1>2. /\ a \in Seq(Chunks) /\ SubSeq(s, p, Len(s)) \in Seq(Chunks)
      /\ s = a \o SubSeq(s, p, Len(s))
  <2>1. /\ a \in Seq(Chunks) /\ SubSeq(s, (p - 1) + 1, Len(s)) \in Seq(Chunks)
        /\ s = a \o SubSeq(s, (p - 1) + 1, Len(s))
    BY <1>1, SplitAt
  <2> QED  BY <1>1, <2>1
<1>3. b \in Seq(Chunks)
  BY <1>1, SplitAt
<1>4. SubSeq(s, p, Len(s)) = <<s[p]>> \o b
  BY <1>1, SubSeqRecursiveFirst
<1>5. Len(b) = Len(s) - p /\ \A j \in 1..(Len(s) - p) : b[j] = s[p + j]
  BY <1>1, SuffixAt
<1>6. Len(a) = p - 1 /\ \A j \in 1..(p - 1) : a[j] = s[j]
  OBVIOUS
<1>7. RemoveAt(s, p) = a \o b
  BY DEF RemoveAt
<1>8. SumLen(s) = SumLen(a) + (LenOf[s[p]] + SumLen(b))
  <2>1. SumLen(SubSeq(s, p, Len(s))) = SumLen(<<s[p]>>) + SumLen(b)
    <3>1. <<s[p]>> \in Seq(Chunks)
      BY <1>1
    <3> HIDE DEF b
    <3> QED  BY <1>3, <1>4, <3>1, SumLenConcat
  <2>2. SumLen(s) = SumLen(a) + SumLen(SubSeq(s, p, Len(s)))
    <3> HIDE DEF a
    <3> QED  BY <1>2, SumLenConcat
  <2> QED  BY <1>1, <2>1, <2>2, SumLenOne
<1> HIDE DEF a, b
<1>9. SumLen(a \o b) = SumLen(a) + SumLen(b)
  BY <1>2, <1>3, SumLenConcat
<1>10. SumLen(a) \in Nat /\ SumLen(b) \in Nat /\ LenOf[s[p]] \in Nat
  BY <1>1, <1>2, <1>3, SumLenType, MountAssumption
<1>11. a \o b \in Seq(Chunks) /\ Len(a \o b) = Len(s) - 1
  <2>1. a \in Seq(Chunks) /\ b \in Seq(Chunks)
    BY <1>2, <1>3
  <2>2. a \o b \in Seq(Chunks) /\ Len(a \o b) = Len(a) + Len(b)
    BY <2>1, ConcatProperties
  <2> QED  BY <1>1, <1>5, <1>6, <2>2
<1>12. ASSUME NEW i \in 1..(Len(s) - 1)
       PROVE  (a \o b)[i] = IF i < p THEN s[i] ELSE s[i + 1]
  <2>1. i \in 1..(Len(a) + Len(b)) /\ i \in Nat
    BY <1>1, <1>5, <1>6
  <2>2. (a \o b)[i] = IF i <= Len(a) THEN a[i] ELSE b[i - Len(a)]
    BY <1>2, <1>3, <2>1, ConcatProperties
  <2>3. CASE i < p
    BY <1>1, <1>6, <2>1, <2>2, <2>3
  <2>4. CASE ~(i < p)
    <3>1. ~(i <= Len(a)) /\ i - Len(a) \in 1..(Len(s) - p) /\ p + (i - Len(a)) = i + 1
      BY <1>1, <1>6, <2>1, <2>4
    <3>2. b[i - Len(a)] = s[p + (i - Len(a))]
      BY <1>5, <3>1
    <3> QED  BY <2>2, <2>4, <3>1, <3>2
  <2> QED  BY <2>3, <2>4
<1>13. SumLen(s) = SumLen(a \o b) + LenOf[s[p]]
  BY <1>8, <1>9, <1>10
<1> QED  BY <1>7, <1>11, <1>12, <1>13

(* A chunk at the end of the order is counted with the others.             *)
LEMMA Appending ==
  ASSUME NEW s \in Seq(Chunks), NEW k \in Chunks, IsInjective(s),
         \A i \in 1..Len(s) : s[i] # k
  PROVE  /\ Append(s, k) \in Seq(Chunks) /\ IsInjective(Append(s, k))
         /\ SumLen(Append(s, k)) = SumLen(s) + LenOf[k]
<1>1. /\ Append(s, k) \in Seq(Chunks) /\ Append(s, k) = s \o <<k>>
      /\ <<k>> \in Seq(Chunks)
  OBVIOUS
<1>2. SumLen(Append(s, k)) = SumLen(s) + LenOf[k]
  BY <1>1, SumLenConcat, SumLenOne
<1>3. IsInjective(Append(s, k))
  <2>1. Len(s) \in Nat /\ DOMAIN Append(s, k) = 1..(Len(s) + 1) /\ DOMAIN s = 1..Len(s)
        /\ Append(s, k)[Len(s) + 1] = k
        /\ \A i \in 1..Len(s) : Append(s, k)[i] = s[i]
    OBVIOUS
  <2>2. \A i \in 1..(Len(s) + 1) : i \in 1..Len(s) \/ i = Len(s) + 1
    BY <2>1
  <2> DEFINE t == Append(s, k)
  <2> HIDE DEF t
  <2>3. /\ DOMAIN t = 1..(Len(s) + 1) /\ t[Len(s) + 1] = k
        /\ \A i \in 1..Len(s) : t[i] = s[i]
    BY <2>1 DEF t
  <2>4. IsInjective(t)
    BY <2>1, <2>2, <2>3 DEF IsInjective
  <2> QED  BY <2>4 DEF t
<1> QED  BY <1>1, <1>2, <1>3

(* Promotion (DecompressedChunkCache::get) changes the order only.         *)
LEMMA PromotedIsCache ==
  ASSUME IsCache(cache), NEW k \in ToSet(cache.order)
  PROVE  IsCache(Promoted(k))
<1> DEFINE s == cache.order
           T == {i \in DOMAIN s : s[i] = k}
           p == Min(T)
           r == RemoveAt(s, p)
<1>1. /\ s \in Seq(Chunks) /\ IsInjective(s) /\ cache.bytes = SumLen(s)
      /\ cache.bytes <= MaxBytes /\ cache.bytes \in Nat
      /\ cache \in [order : Seq(Chunks), bytes : Nat]
  BY DEF IsCache
<1>2. Promoted(k) = [cache EXCEPT !.order = Append(r, k)]
  BY DEF Promoted
<1> HIDE DEF s
<1>3. DOMAIN s = 1..Len(s) /\ Len(s) \in Nat /\ \E i \in DOMAIN s : s[i] = k
  BY <1>1 DEF ToSet, s
<1>4. T \subseteq Nat /\ T # {}
  BY <1>3
<1>5. p \in T
  <2> HIDE DEF T
  <2> QED  BY <1>4, FirstPlace
<1>6. p \in 1..Len(s) /\ s[p] = k /\ k \in Chunks
  <2> HIDE DEF p
  <2> QED  BY <1>1, <1>3, <1>5
<1> HIDE DEF p
<1>7. /\ r \in Seq(Chunks) /\ Len(r) = Len(s) - 1
      /\ \A i \in 1..(Len(s) - 1) : r[i] = IF i < p THEN s[i] ELSE s[i + 1]
      /\ SumLen(s) = SumLen(r) + LenOf[k]
  BY <1>1, <1>6, Removal
<1> HIDE DEF r
<1>8. DOMAIN r = 1..(Len(s) - 1)
  BY <1>7
<1> DEFINE at(i) == IF i < p THEN i ELSE i + 1
<1>9. \A i \in 1..(Len(s) - 1) : /\ at(i) \in 1..Len(s) /\ at(i) # p /\ r[i] = s[at(i)]
                                 /\ i \in Int
  BY <1>3, <1>6, <1>7
<1>10. \A i, j \in 1..(Len(s) - 1) : at(i) = at(j) => i = j
  BY <1>3, <1>6
<1> HIDE DEF at
<1>11. IsInjective(r)
  BY <1>1, <1>3, <1>8, <1>9, <1>10 DEF IsInjective
<1>12. ASSUME NEW i \in 1..Len(r) PROVE r[i] # k
  <2>1. i \in 1..(Len(s) - 1)
    BY <1>7
  <2>2. at(i) \in 1..Len(s) /\ at(i) # p /\ r[i] = s[at(i)]
    BY <1>9, <2>1
  <2> QED  BY <1>1, <1>3, <1>6, <2>2 DEF IsInjective
<1>13. /\ Append(r, k) \in Seq(Chunks) /\ IsInjective(Append(r, k))
       /\ SumLen(Append(r, k)) = SumLen(r) + LenOf[k]
  BY <1>6, <1>7, <1>11, <1>12, Appending
<1>14. /\ Promoted(k).order = Append(r, k) /\ Promoted(k).bytes = cache.bytes
       /\ Promoted(k) = [order |-> Append(r, k), bytes |-> cache.bytes]
  BY <1>1, <1>2
<1> QED  BY <1>1, <1>7, <1>13, <1>14 DEF IsCache

(* Eviction makes room for the chunk, and forgets what it counted.         *)
LEMMA EvictedIsCache ==
  ASSUME IsCache(cache), NEW k \in Chunks
  PROVE  LET e == Evicted(k) IN
         /\ IsCache(e) /\ e.bytes + LenOf[k] <= MaxBytes
         /\ ToSet(e.order) \subseteq ToSet(cache.order)
<1> DEFINE s == cache.order
           Left(i) == cache.bytes - SumLen(SubSeq(s, 1, i))
           T == {j \in 0..Len(s) : Left(j) + LenOf[k] <= MaxBytes \/ j = Len(s)}
           i == Min(T)
           r == SubSeq(s, i + 1, Len(s))
<1>1. /\ s \in Seq(Chunks) /\ IsInjective(s) /\ cache.bytes = SumLen(s)
      /\ cache.bytes <= MaxBytes /\ cache.bytes \in Nat
  BY DEF IsCache
<1>2. Evicted(k) = [order |-> r, bytes |-> Left(i)]
  BY DEF Evicted
<1> HIDE DEF s
<1>3. Len(s) \in Nat /\ DOMAIN s = 1..Len(s)
  BY <1>1
<1>4. T \subseteq Nat /\ T # {}
  BY <1>3
<1>5. i \in T
  <2> HIDE DEF T
  <2> QED  BY <1>4, FirstPlace
<1>6. i \in 0..Len(s) /\ (Left(i) + LenOf[k] <= MaxBytes \/ i = Len(s))
  <2> HIDE DEF i
  <2> QED  BY <1>5
<1> HIDE DEF i
<1> DEFINE a == SubSeq(s, 1, i)
<1>7. a \in Seq(Chunks) /\ r \in Seq(Chunks) /\ s = a \o r
  BY <1>1, <1>6, SplitAt
<1>8. Len(r) = Len(s) - i /\ \A j \in 1..(Len(s) - i) : r[j] = s[i + j]
  BY <1>1, <1>6, SuffixAt
<1> HIDE DEF r
<1>9. SumLen(s) = SumLen(a) + SumLen(r) /\ SumLen(a) \in Nat /\ SumLen(r) \in Nat
  <2> HIDE DEF a
  <2> QED  BY <1>7, SumLenConcat, SumLenType
<1>10. Left(i) = SumLen(r) /\ Left(i) <= MaxBytes
  <2> HIDE DEF a
  <2>1. Left(i) = cache.bytes - SumLen(a)
    BY DEF a
  <2> HIDE DEF Left
  <2>2. MaxBytes \in Nat
    BY MountAssumption
  <2> QED  BY <1>1, <1>9, <2>1, <2>2
<1>11. LenOf[k] \in Nat /\ LenOf[k] <= MaxBytes
  BY MountAssumption
<1>12. i = Len(s) => SumLen(r) = 0
  <2>1. i = Len(s) => r = << >>
    BY <1>3, <1>7, <1>8
  <2>2. SumLen(<< >>) = 0
    BY EmptyIsCache DEF IsCache, EmptyCache
  <2> QED  BY <2>1, <2>2
<1>13. /\ DOMAIN r = 1..(Len(s) - i) /\ Len(s) - i \in Nat /\ i \in Nat
       /\ \A j \in 1..(Len(s) - i) : i + j \in 1..Len(s)
  <2>1. DOMAIN r = 1..(Len(s) - i)
    BY <1>7, <1>8
  <2>2. Len(s) \in Nat /\ i \in 0..Len(s)
    BY <1>3, <1>6
  <2>3. i \in Nat /\ Len(s) - i \in Nat /\ \A j \in 1..(Len(s) - i) : i + j \in 1..Len(s)
    BY <2>2
  <2> QED  BY <2>1, <2>3
<1>14. IsInjective(r)
  <2> SUFFICES ASSUME NEW x \in DOMAIN r, NEW y \in DOMAIN r, r[x] = r[y]
               PROVE  x = y
    BY DEF IsInjective
  <2>1. s[i + x] = s[i + y] /\ i + x \in 1..Len(s) /\ i + y \in 1..Len(s)
    BY <1>8, <1>13
  <2>2. i + x = i + y
    BY <1>1, <1>3, <2>1 DEF IsInjective
  <2>3. x \in Int /\ y \in Int /\ i \in Int
    BY <1>13
  <2> QED  BY <2>2, <2>3
<1>15. ToSet(r) \subseteq ToSet(s)
  BY <1>3, <1>8, <1>13 DEF ToSet
<1> HIDE DEF Left, a
<1>16. Left(i) + LenOf[k] <= MaxBytes
  BY <1>6, <1>10, <1>11, <1>12
<1>17. Evicted(k).order = r /\ Evicted(k).bytes = Left(i)
       /\ Evicted(k) \in [order : Seq(Chunks), bytes : Nat]
  BY <1>2, <1>7, <1>9, <1>10
<1> QED  BY <1>10, <1>14, <1>15, <1>16, <1>17 DEF IsCache, s

(* Insertion keeps the cache consistent, also when the chunk has come in   *)
(* since the worker missed it.                                             *)
LEMMA InsertedIsCache ==
  ASSUME IsCache(cache), NEW k \in Chunks
  PROVE  IsCache(Inserted(k))
<1>1. CASE k \in ToSet(cache.order)
  BY <1>1, PromotedIsCache DEF Inserted
<1>2. CASE k \notin ToSet(cache.order)
  <2> DEFINE e == Evicted(k)
  <2>1. IsCache(e) /\ e.bytes + LenOf[k] <= MaxBytes /\ ToSet(e.order) \subseteq ToSet(cache.order)
    BY EvictedIsCache
  <2>2. Inserted(k) = [order |-> Append(e.order, k), bytes |-> e.bytes + LenOf[k]]
    BY <1>2 DEF Inserted
  <2> HIDE DEF e
  <2>3. /\ e.order \in Seq(Chunks) /\ IsInjective(e.order) /\ e.bytes = SumLen(e.order)
        /\ e.bytes \in Nat
    BY <2>1 DEF IsCache
  <2>4. ASSUME NEW i \in 1..Len(e.order) PROVE e.order[i] # k
    <3>1. DOMAIN e.order = 1..Len(e.order)
      BY <2>3
    <3>2. e.order[i] \in ToSet(e.order)
      BY <3>1 DEF ToSet
    <3> QED  BY <1>2, <2>1, <3>2
  <2>5. /\ Append(e.order, k) \in Seq(Chunks) /\ IsInjective(Append(e.order, k))
        /\ SumLen(Append(e.order, k)) = SumLen(e.order) + LenOf[k]
    BY <2>3, <2>4, Appending
  <2>6. LenOf[k] \in Nat
    BY MountAssumption
  <2>7. e.bytes + LenOf[k] \in Nat
    BY <2>3, <2>6
  <2> QED  BY <2>1, <2>2, <2>3, <2>5, <2>7 DEF IsCache
<1> QED  BY <1>1, <1>2

-----------------------------------------------------------------------------
(* Reads                                                                   *)

Reads == [content : Contents, start : Nat, length : Nat, end : Nat, index : Nat,
          offset : Nat, out : Seq(Bytes)]

Until(r) == Min({r.start + r.length, SizeOf(r.content)})

\* A read that read_range has not begun.
Fresh(r) == r \in Reads /\ r.index = 1 /\ r.offset = 0 /\ r.out = << >>

\* A read at the head of read_range's loop: the chunks before the one at hand
\* have been taken.
Looping(r) ==
  /\ r \in Reads
  /\ r.end = Until(r) /\ r.start < r.end
  /\ r.index \in 1..Len(ChunksOf[r.content])
  /\ r.offset = Offsets(ChunksOf[r.content])[r.index - 1]
  /\ r.offset < r.end
  /\ r.out = SubSeq(BytesOf(r.content), r.start + 1, r.offset)

Exact(r) == r.out = SubSeq(BytesOf(r.content), r.start + 1, Until(r))

LEMMA MinOfTwo ==
  ASSUME NEW a \in Nat, NEW b \in Nat
  PROVE  Min({a, b}) = IF a <= b THEN a ELSE b
<1>1. {a, b} \subseteq Nat /\ {a, b} # {}
  OBVIOUS
<1>2. \E x \in {a, b} : \A y \in {a, b} : x <= y
  BY <1>1, LeastNatural
<1>3. Min({a, b}) \in {a, b} /\ \A y \in {a, b} : Min({a, b}) <= y
  BY <1>2 DEF Min
<1> HIDE DEF Min
<1> QED  BY <1>3

LEMMA SizeType ==
  ASSUME NEW c \in Contents
  PROVE  SizeOf(c) \in Nat
BY MountAssumption, SumLenType DEF SizeOf

LEMMA UntilType ==
  ASSUME NEW r \in Reads
  PROVE  /\ Until(r) \in Nat /\ Until(r) <= SizeOf(r.content)
         /\ Until(r) = IF r.start + r.length <= SizeOf(r.content) THEN r.start + r.length
                       ELSE SizeOf(r.content)
<1>1. r.content \in Contents /\ r.start \in Nat /\ r.length \in Nat
  BY DEF Reads
<1>2. SizeOf(r.content) \in Nat /\ r.start + r.length \in Nat
  BY <1>1, SizeType
<1>3. Until(r) = IF r.start + r.length <= SizeOf(r.content) THEN r.start + r.length
                 ELSE SizeOf(r.content)
  BY <1>2, MinOfTwo DEF Until
<1> QED  BY <1>2, <1>3

\* The bytes after the first a up to the b-th: of a chunk, and of a file.
ChunkPart(c, i, a, b) == SubSeq(BytesOfChunk(ChunksOf[c][i]), a + 1, b)
FilePart(c, a, b) == SubSeq(BytesOf(c), a + 1, b)

(* A part of a chunk is the part of the file at the chunk's offset.        *)
LEMMA PartOfFile ==
  ASSUME NEW c \in Contents, NEW i \in 1..Len(ChunksOf[c]),
         NEW from \in Nat, NEW to \in Nat, to <= LenOf[ChunksOf[c][i]]
  PROVE  LET o == Offsets(ChunksOf[c])[i - 1] IN
         ChunkPart(c, i, from, to) = FilePart(c, o + from, o + to)
<1> DEFINE s == ChunksOf[c]
           k == s[i]
           o == Offsets(s)[i - 1]
           b == BytesOfChunk(k)
           B == BytesOf(c)
<1>1. s \in Seq(Chunks) /\ k \in Chunks /\ Len(s) \in Nat
  BY MountAssumption
<1>2. /\ LenOf[k] \in Nat \ {0} /\ b \in Seq(Bytes) /\ Len(b) = LenOf[k]
      /\ \A j \in 1..LenOf[k] : b[j] = <<k, j>>
  BY <1>1, ChunkBytes
<1>3. /\ B \in Seq(Bytes)
      /\ \A j \in 1..LenOf[k] : B[o + j] = <<k, j>>
  BY FileBytes
<1>4. o \in Nat
  <2>1. i - 1 \in 0..Len(s)
    BY <1>1
  <2> QED  BY <1>1, <2>1, OffsetsAddUp
<1>5. to <= LenOf[k]
  OBVIOUS
<1> HIDE DEF s, k, o, b, B
<1>6. /\ from + 1 \in Int /\ to \in Int /\ o + from + 1 \in Int /\ o + to \in Int
      /\ \A j \in (from + 1)..to : j \in 1..LenOf[k]
      /\ \A j \in (o + from + 1)..(o + to) : j - o \in 1..LenOf[k] /\ o + (j - o) = j
  BY <1>2, <1>4, <1>5
<1>7. /\ \A j \in (from + 1)..to : b[j] \in Bytes
      /\ \A j \in (o + from + 1)..(o + to) : B[j] \in Bytes
  <2>1. \A j \in 1..LenOf[k] : <<k, j>> \in Bytes
    BY <1>1, <1>2 DEF Bytes
  <2>2. \A j \in (from + 1)..to : b[j] \in Bytes
    BY <1>2, <1>6, <2>1
  <2>3. ASSUME NEW j \in (o + from + 1)..(o + to) PROVE B[j] \in Bytes
    <3>1. B[o + (j - o)] = <<k, j - o>> /\ <<k, j - o>> \in Bytes /\ o + (j - o) = j
      BY <1>3, <1>6, <2>1
    <3> QED  BY <3>1
  <2> QED  BY <2>2, <2>3
<1> DEFINE x == o + from + 1
           y == o + to
           p == SubSeq(b, from + 1, to)
           q == SubSeq(B, x, y)
<1>8. /\ p \in Seq(Bytes) /\ Len(p) = IF from + 1 <= to THEN to - (from + 1) + 1 ELSE 0
      /\ \A j \in 1..(to - (from + 1) + 1) : p[j] = b[(from + 1) + j - 1]
  BY <1>6, <1>7, SubSeqProperties
<1>9. /\ q \in Seq(Bytes) /\ Len(q) = IF x <= y THEN y - x + 1 ELSE 0
      /\ \A j \in 1..(y - x + 1) : q[j] = B[x + j - 1]
  <2>1. x \in Int /\ y \in Int /\ \A j \in x..y : B[j] \in Bytes
    BY <1>6, <1>7
  <2> HIDE DEF x, y
  <2> QED  BY <2>1, SubSeqProperties
<1> HIDE DEF p, q
<1>10. Len(p) = Len(q) /\ Len(p) \in Nat /\ (Len(p) # 0 => Len(p) = to - from)
  BY <1>4, <1>8, <1>9
<1>11. ASSUME NEW j \in 1..Len(p) PROVE p[j] = q[j]
  <2>1. /\ j \in 1..(to - (from + 1) + 1) /\ j \in 1..(y - x + 1)
        /\ from + j \in 1..LenOf[k]
        /\ (from + 1) + j - 1 = from + j /\ x + j - 1 = o + (from + j)
    BY <1>2, <1>4, <1>5, <1>10
  <2> HIDE DEF x, y
  <2>2. p[j] = b[from + j] /\ q[j] = B[o + (from + j)]
    BY <1>8, <1>9, <2>1
  <2> QED  BY <1>2, <1>3, <2>1, <2>2
<1>12. p = q
  BY <1>8, <1>9, <1>10, <1>11, SeqEqual
<1> QED  BY <1>12 DEF p, q, s, k, o, b, B, x, y, ChunkPart, FilePart

\* The bytes a worker takes from the chunk at hand.
Taken(r) == IF Wanted(r) THEN Slice(r) ELSE << >>

Next1(r, bytes) ==
  [r EXCEPT !.out = @ \o bytes, !.offset = ChunkEnd(r), !.index = @ + 1]

Finished(r) == ChunkEnd(r) >= r.end \/ r.index = Len(ChunksOf[r.content])

(* The chunk at hand lies in the file, and the last one ends it.           *)
LEMMA ChunkAtHand ==
  ASSUME NEW r, Looping(r)
  PROVE  LET s == ChunksOf[r.content] IN
         /\ r.content \in Contents /\ s \in Seq(Chunks) /\ ChunkAt(r) \in Chunks
         /\ LenOf[ChunkAt(r)] \in Nat \ {0} /\ Len(s) \in Nat
         /\ r.start \in Nat /\ r.end \in Nat /\ r.offset \in Nat /\ r.index \in Nat
         /\ r.out \in Seq(Bytes) /\ r.end <= SizeOf(r.content) /\ SizeOf(r.content) \in Nat
         /\ ChunkEnd(r) = r.offset + LenOf[ChunkAt(r)]
         /\ ChunkEnd(r) = Offsets(s)[r.index]
         /\ ChunkEnd(r) <= SizeOf(r.content)
         /\ r.index = Len(s) => ChunkEnd(r) = SizeOf(r.content)
<1> DEFINE s == ChunksOf[r.content]
<1>1. /\ r.content \in Contents /\ r.start \in Nat /\ r.end \in Nat /\ r.offset \in Nat /\ r.index \in Nat
      /\ r.out \in Seq(Bytes) /\ r \in Reads
  BY DEF Looping, Reads
<1>2. s \in Seq(Chunks) /\ Len(s) \in Nat
  BY <1>1, MountAssumption
<1>3. /\ r.index \in 1..Len(s) /\ r.offset = Offsets(s)[r.index - 1]
      /\ r.end = Until(r)
  BY DEF Looping
<1>4. ChunkAt(r) = s[r.index] /\ ChunkAt(r) \in Chunks
  BY <1>2, <1>3 DEF ChunkAt
<1>5. LenOf[ChunkAt(r)] \in Nat \ {0}
  BY <1>4, MountAssumption
<1>6. r.end <= SizeOf(r.content) /\ SizeOf(r.content) \in Nat
  BY <1>1, <1>3, UntilType, SizeType
<1>7. ChunkEnd(r) = r.offset + LenOf[ChunkAt(r)]
  BY DEF ChunkEnd
<1>8. ChunkEnd(r) = Offsets(s)[r.index]
  <2> HIDE DEF s
  <2> QED  BY <1>2, <1>3, <1>4, <1>7, OffsetsAddUp
<1>9. SizeOf(r.content) = Offsets(s)[Len(s)]
  BY DEF SizeOf, SumLen
<1>10. ChunkEnd(r) <= SizeOf(r.content)
  <2>1. r.index \in 0..Len(s) /\ Len(s) \in r.index..Len(s)
    BY <1>2, <1>3
  <2> HIDE DEF s
  <2> QED  BY <1>2, <1>8, <1>9, <2>1, OffsetsGrow
<1> QED  BY <1>1, <1>2, <1>4, <1>5, <1>6, <1>7, <1>8, <1>9, <1>10

\* What the turn takes from the chunk.
TakenOf(c, i, start, end, o, e) ==
  IF e > start
    THEN ChunkPart(c, i, IF start > o THEN start - o ELSE 0,
                   IF end < e THEN end - o ELSE LenOf[ChunksOf[c][i]])
    ELSE << >>

\* How far the turn comes.
Reached(end, e) == IF e < end THEN e ELSE end

\* Chunk i of c, from o to e, is at hand, and bytes up to end are wanted.
AtHand(c, i, start, end, o, e) ==
  /\ c \in Contents /\ i \in 1..Len(ChunksOf[c])
  /\ start \in Nat /\ end \in Nat /\ start < end /\ end <= SizeOf(c)
  /\ o \in Nat /\ o = Offsets(ChunksOf[c])[i - 1] /\ o < end
  /\ e \in Nat /\ e = o + LenOf[ChunksOf[c][i]]

(* A turn of the loop takes the bytes up to the end of the chunk or of the *)
(* range, whichever comes first.                                           *)
LEMMA TurnOf ==
  ASSUME NEW c, NEW i, NEW start, NEW end, NEW o, NEW e, AtHand(c, i, start, end, o, e)
  PROVE  FilePart(c, start, o) \o TakenOf(c, i, start, end, o, e)
           = FilePart(c, start, Reached(end, e))
<1> DEFINE B == BytesOf(c)
           L == LenOf[ChunksOf[c][i]]
           m == IF e < end THEN e ELSE end
           from == IF start > o THEN start - o ELSE 0
           to == IF end < e THEN end - o ELSE L
           taken == TakenOf(c, i, start, end, o, e)
<1> SUFFICES FilePart(c, start, o) \o taken = FilePart(c, start, m)
  BY DEF Reached
<1>0. /\ c \in Contents /\ i \in 1..Len(ChunksOf[c])
      /\ start \in Nat /\ end \in Nat /\ start < end /\ end <= SizeOf(c)
      /\ o \in Nat /\ o = Offsets(ChunksOf[c])[i - 1] /\ o < end
      /\ e \in Nat /\ e = o + LenOf[ChunksOf[c][i]]
  BY DEF AtHand
<1>1. L \in Nat
  BY <1>0, MountAssumption
<1>bounds. e > start =>
        /\ from \in Nat /\ to \in Nat /\ to <= L /\ o + to = m
        /\ o + from = (IF start > o THEN start ELSE o)
        /\ m \in Nat /\ o <= m /\ start <= m /\ m <= end
  <2>1. /\ start \in Nat /\ end \in Nat /\ o \in Nat /\ L \in Nat /\ e \in Nat
        /\ start < end /\ o < end /\ e = o + L
    BY <1>0, <1>1
  <2> HIDE DEF L
  <2> QED  BY <2>1
<1> USE <1>0
<1>2. B \in Seq(Bytes) /\ Len(B) = SizeOf(c)
  BY FileBytes
<1>3. SizeOf(c) \in Nat
  BY SizeType
<1>4. e = o + L
  OBVIOUS
<1>5. CASE ~(e > start)
  <2>1. taken = << >>
    BY <1>5 DEF TakenOf
  <2>2. o < start + 1 /\ m < start + 1 /\ m \in Int /\ start + 1 \in Int
    <3>1. /\ start \in Nat /\ end \in Nat /\ o \in Nat /\ L \in Nat /\ e \in Nat
          /\ start < end /\ e = o + L /\ ~(e > start)
      BY <1>0, <1>1, <1>5
    <3> HIDE <1>0
    <3> HIDE DEF L
    <3> QED  BY <3>1
  <2> HIDE DEF m, taken, B
  <2>3. FilePart(c, start, o) = << >> /\ FilePart(c, start, m) = << >>
    BY <2>2, SubSeqEmpty DEF FilePart
  <2>4. << >> \o << >> = << >>
    OBVIOUS
  <2> QED  BY <2>1, <2>3, <2>4
<1>6. CASE e > start
  <2>1. taken = ChunkPart(c, i, from, to)
    BY <1>6 DEF TakenOf
  <2>2. /\ from \in Nat /\ to \in Nat /\ to <= L /\ o + to = m
        /\ o + from = (IF start > o THEN start ELSE o)
        /\ m \in Nat /\ o <= m /\ start <= m /\ m <= end
    <3> HIDE DEF L, m, from, to
    <3> QED  BY <1>6, <1>bounds
  <2> HIDE DEF from, to, m, taken
  <2>3. taken = FilePart(c, o + from, m)
    <3>1. ChunkPart(c, i, from, to) = FilePart(c, o + from, o + to)
      BY <2>2, PartOfFile
    <3> QED  BY <2>1, <2>2, <3>1
  <2> HIDE DEF B, L
  <2>4. m <= Len(B) /\ Len(B) \in Nat /\ m \in Nat
    BY <1>2, <1>3, <2>2
  <2>5. CASE start > o
    <3>1. taken = FilePart(c, start, m)
      BY <2>2, <2>3, <2>5
    <3>2. FilePart(c, start, o) = << >>
      <4>1. start + 1 \in Int /\ o \in Int /\ o < start + 1
        BY <2>5
      <4> QED  BY <4>1, SubSeqEmpty DEF FilePart
    <3>3. taken \in Seq(Bytes)
      <4>1. start + 1 \in Int /\ m \in Int
        BY <2>4
      <4>2. \A j \in (start + 1)..m : B[j] \in Bytes
        BY <1>2, <2>4
      <4>3. SubSeq(B, start + 1, m) \in Seq(Bytes)
        BY <4>1, <4>2, SubSeqProperties
      <4> QED  BY <3>1, <4>3 DEF FilePart, B
    <3>4. << >> \o taken = taken
      BY <3>3, ConcatEmptySeq
    <3> QED  BY <3>1, <3>2, <3>4
  <2>6. CASE ~(start > o)
    <3>1. taken = FilePart(c, o, m)
      BY <2>2, <2>3, <2>6
    <3>2. o <= m /\ start <= o /\ m <= Len(B) /\ Len(B) \in Nat /\ m \in Nat
      BY <2>2, <2>4, <2>6
    <3> DEFINE a == start + 1
    <3>3. a \in 1..(Len(B) + 1) /\ o \in (a - 1)..Len(B) /\ m \in o..Len(B)
      BY <3>2
    <3>4. SubSeq(B, a, o) \o SubSeq(B, o + 1, m) = SubSeq(B, a, m)
      <4> HIDE DEF a
      <4> QED  BY <1>2, <3>3, ConcatAdjacentSubSeq
    <3> QED  BY <3>1, <3>4 DEF FilePart, B
  <2> QED  BY <2>5, <2>6
<1> QED  BY <1>5, <1>6

(* The same for the read of a worker.                                     *)
LEMMA TurnTakes ==
  ASSUME NEW r, Looping(r)
  PROVE  r.out \o Taken(r) = FilePart(r.content, r.start, Reached(r.end, ChunkEnd(r)))
<1>1. /\ r.content \in Contents /\ r.start \in Nat /\ r.end \in Nat /\ r.offset \in Nat
      /\ r.end <= SizeOf(r.content) /\ ChunkEnd(r) = r.offset + LenOf[ChunkAt(r)]
      /\ ChunkEnd(r) \in Nat
  BY ChunkAtHand
<1>2. /\ r.start < r.end /\ r.offset < r.end
      /\ r.out = FilePart(r.content, r.start, r.offset)
      /\ r.index \in 1..Len(ChunksOf[r.content])
      /\ r.offset = Offsets(ChunksOf[r.content])[r.index - 1]
  BY DEF Looping, FilePart
<1>3. Taken(r) = TakenOf(r.content, r.index, r.start, r.end, r.offset, ChunkEnd(r))
  BY <1>2 DEF Taken, Wanted, Slice, TakenOf, ChunkPart, ChunkAt
<1>4. ChunkAt(r) = ChunksOf[r.content][r.index]
  BY DEF ChunkAt
<1> DEFINE c == r.content  i == r.index  st == r.start  en == r.end  o == r.offset
           e == ChunkEnd(r)
<1>5. FilePart(c, st, o) \o TakenOf(c, i, st, en, o, e) = FilePart(c, st, Reached(en, e))
  <2>1. AtHand(c, i, st, en, o, e)
    BY <1>1, <1>2, <1>4 DEF AtHand
  <2> HIDE DEF c, i, st, en, o, e
  <2> QED  BY <2>1, TurnOf
<1> QED  BY <1>2, <1>3, <1>5

(* A turn leads back to the head of the loop or ends with the exact bytes. *)
LEMMA TurnKeeps ==
  ASSUME NEW r, Looping(r)
  PROVE  LET q == Next1(r, Taken(r)) IN
         /\ q \in Reads
         /\ q.content = r.content /\ q.start = r.start /\ q.length = r.length
         /\ Finished(r) => Exact(q)
         /\ ~Finished(r) => Looping(q)
<1> DEFINE s == ChunksOf[r.content]
           e == ChunkEnd(r)
           q == Next1(r, Taken(r))
<1>1. /\ r.content \in Contents /\ s \in Seq(Chunks) /\ Len(s) \in Nat
      /\ r.start \in Nat /\ r.end \in Nat /\ r.index \in Nat /\ r.offset \in Nat
      /\ SizeOf(r.content) \in Nat /\ r.end <= SizeOf(r.content)
      /\ e = Offsets(s)[r.index] /\ e \in Nat
      /\ e <= SizeOf(r.content) /\ (r.index = Len(s) => e = SizeOf(r.content))
  BY ChunkAtHand
<1>2. /\ r \in Reads /\ r.end = Until(r) /\ r.start < r.end /\ r.index \in 1..Len(s)
  BY DEF Looping
<1>3. r.out \o Taken(r) = FilePart(r.content, r.start, Reached(r.end, e))
  BY TurnTakes
<1>4. BytesOf(r.content) \in Seq(Bytes) /\ Len(BytesOf(r.content)) = SizeOf(r.content)
  BY <1>1, FileBytes
<1>5. r.out \o Taken(r) \in Seq(Bytes)
  <2> DEFINE B == BytesOf(r.content)
             x == r.start + 1
             y == Reached(r.end, e)
  <2>1. x \in Int /\ y \in Int /\ y <= SizeOf(r.content) /\ 1 <= x
    BY <1>1 DEF Reached
  <2> HIDE DEF B, x, y
  <2>2. B \in Seq(Bytes) /\ Len(B) = SizeOf(r.content)
    BY <1>4 DEF B
  <2>3. \A j \in x..y : j \in 1..Len(B)
    BY <1>1, <2>1, <2>2
  <2>4. \A j \in x..y : B[j] \in Bytes
    BY <2>2, <2>3
  <2>5. SubSeq(B, x, y) \in Seq(Bytes)
    BY <2>1, <2>4, SubSeqProperties
  <2> QED  BY <1>3, <2>5 DEF FilePart, B, x, y
<1> HIDE DEF e, s
<1>6. r.index + 1 \in Nat
  BY <1>1
<1>7. /\ q \in Reads
      /\ q.content = r.content /\ q.start = r.start /\ q.length = r.length
      /\ q.end = r.end /\ q.index = r.index + 1 /\ q.offset = e
      /\ q.out = r.out \o Taken(r)
  <2> DEFINE u == r.out \o Taken(r)  n == r.index + 1
  <2>1. u \in Seq(Bytes) /\ n \in Nat
    BY <1>5, <1>6
  <2>2. q = [r EXCEPT !.out = u, !.offset = e, !.index = n]
    BY DEF Next1, e
  <2> HIDE DEF u, n, q
  <2>3. /\ q \in Reads
        /\ q.content = r.content /\ q.start = r.start /\ q.length = r.length
        /\ q.end = r.end /\ q.index = n /\ q.offset = e /\ q.out = u
    <3>1. r \in Reads /\ e \in Nat
      BY <1>1, <1>2
    <3> QED  BY <2>1, <2>2, <3>1 DEF Reads
  <2> QED  BY <2>3 DEF u, n
<1>8. /\ q.content = r.content /\ q.start = r.start /\ q.length = r.length
      /\ q.end = r.end /\ q.index = r.index + 1 /\ q.offset = e
      /\ q.out = r.out \o Taken(r)
  BY <1>7
<1> HIDE DEF q
<1>9. Until(q) = Until(r)
  BY <1>8 DEF Until
<1>10. Finished(r) <=> e >= r.end \/ r.index = Len(s)
  BY DEF Finished, e, s
<1>11. CASE Finished(r)
  <2>1. Reached(r.end, e) = r.end
    BY <1>1, <1>10, <1>11 DEF Reached
  <2>2. Exact(q)
    BY <1>2, <1>3, <1>8, <1>9, <2>1 DEF Exact, FilePart
  <2> QED  BY <1>7, <1>8, <1>11, <2>2 DEF q
<1>12. CASE ~Finished(r)
  <2>1. Reached(r.end, e) = e /\ e < r.end /\ r.index + 1 \in 1..Len(s)
        /\ r.index + 1 - 1 = r.index
    BY <1>1, <1>2, <1>10, <1>12 DEF Reached
  <2>2. q.out = SubSeq(BytesOf(q.content), q.start + 1, q.offset)
    BY <1>3, <1>8, <2>1 DEF FilePart
  <2>3. /\ q.index \in 1..Len(ChunksOf[q.content])
        /\ q.offset = Offsets(ChunksOf[q.content])[q.index - 1]
    BY <1>1, <1>8, <2>1 DEF s
  <2>4. q.end = Until(q) /\ q.start < q.end /\ q.offset < q.end
    BY <1>2, <1>8, <1>9, <2>1
  <2>5. Looping(q)
    BY <1>7, <2>2, <2>3, <2>4 DEF Looping
  <2> QED  BY <1>7, <1>8, <1>12, <2>5 DEF q
<1> QED  BY <1>11, <1>12

(* A read that read_range begins is at the head of its loop.               *)
LEMMA FirstTurn ==
  ASSUME NEW r, Fresh(r), r.length > 0, r.start < SizeOf(r.content)
  PROVE  LET total == SizeOf(r.content)
             end == IF r.length < total - r.start THEN r.start + r.length ELSE total
         IN  Looping([r EXCEPT !.end = end])
<1> DEFINE total == SizeOf(r.content)
           end == IF r.length < total - r.start THEN r.start + r.length ELSE total
           s == ChunksOf[r.content]
           q == [r EXCEPT !.end = end]
<1>1. /\ r \in Reads /\ r.index = 1 /\ r.offset = 0 /\ r.out = << >>
      /\ r.content \in Contents /\ r.start \in Nat /\ r.length \in Nat
  BY DEF Fresh, Reads
<1>2. total \in Nat /\ r.start < total /\ r.length > 0
  BY <1>1, SizeType
<1>3. end \in Nat /\ r.start < end
      /\ end = (IF r.start + r.length <= total THEN r.start + r.length ELSE total)
  <2> HIDE DEF total
  <2> QED  BY <1>1, <1>2
<1>4. Until(r) = end
  BY <1>1, <1>3, UntilType
<1>5. s \in Seq(Chunks) /\ Len(s) \in Nat /\ total = Offsets(s)[Len(s)] /\ Offsets(s)[0] = 0
  BY <1>1, MountAssumption, OffsetsAddUp DEF SizeOf, SumLen
<1> HIDE DEF total, end, s
<1>6. 1 \in 1..Len(s)
  BY <1>1, <1>2, <1>5
<1>7. q = [content |-> r.content, start |-> r.start, length |-> r.length, end |-> end,
           index |-> 1, offset |-> 0, out |-> << >>]
  BY <1>1 DEF Reads
<1>8. q \in Reads
  <2>1. << >> \in Seq(Bytes)
    OBVIOUS
  <2> HIDE DEF q
  <2> QED  BY <1>1, <1>3, <1>7, <2>1 DEF Reads
<1> HIDE DEF q
<1>9. /\ q.content = r.content /\ q.start = r.start /\ q.length = r.length
      /\ q.end = end /\ q.index = 1 /\ q.offset = 0 /\ q.out = << >>
  BY <1>7
<1>10. Until(q) = end
  BY <1>4, <1>9 DEF Until
<1>11. q.out = SubSeq(BytesOf(q.content), q.start + 1, q.offset)
  <2>1. q.start + 1 \in Int /\ q.offset \in Int /\ q.offset < q.start + 1
    BY <1>1, <1>9
  <2> QED  BY <1>9, <2>1, SubSeqEmpty
<1>12. q.offset = Offsets(ChunksOf[q.content])[q.index - 1]
  BY <1>5, <1>9 DEF s
<1>13. q.start < q.end /\ q.offset < q.end /\ q.index \in 1..Len(ChunksOf[q.content])
  BY <1>1, <1>3, <1>6, <1>9 DEF s
<1>14. Looping(q)
  BY <1>8, <1>9, <1>10, <1>11, <1>12, <1>13 DEF Looping
<1> QED  BY <1>14 DEF q, end, total

(* A Range header that is not refused asks for bytes of the file.          *)
LEMMA RangeInFile ==
  ASSUME NEW total \in Nat, NEW h \in Headers, NEW x \in ParseRange(h, total)
  PROVE  x[1] \in Nat /\ x[2] \in Nat /\ x[1] + x[2] <= total
<1>1. /\ h.first = Nobody \/ h.first \in Nat
      /\ h.last = Nobody \/ h.last \in Nat
  BY MountAssumption DEF Headers
<1>2. CASE total = 0
  BY <1>2 DEF ParseRange
<1>3. CASE total # 0 /\ h.first = Nobody
  <2> DEFINE start == IF h.last = Nobody \/ h.last > total THEN 0 ELSE total - h.last
  <2>1. x = <<start, total - start>>
    BY <1>3 DEF ParseRange
  <2>2. start \in Nat /\ start <= total
    BY <1>1
  <2> HIDE DEF start
  <2> QED  BY <2>1, <2>2
<1>4. CASE total # 0 /\ h.first # Nobody
  <2> DEFINE last == IF h.last = Nobody \/ h.last > total - 1 THEN total - 1 ELSE h.last
  <2>1. x = <<h.first, last - h.first + 1>> /\ h.first < total /\ h.first <= last
    BY <1>4 DEF ParseRange
  <2>2. last \in Nat /\ last <= total - 1 /\ h.first \in Nat
    BY <1>1, <1>4
  <2> HIDE DEF last
  <2> QED  BY <2>1, <2>2
<1> QED  BY <1>2, <1>3, <1>4

-----------------------------------------------------------------------------
(* The store and the trees built from it                                   *)

Entries == [name : Names, version : Nat, content : Contents]
Snapshots == [label : Labels, entries : SUBSET Entries]

StoreTypes ==
  /\ files \in [Names -> FileRecords]
  /\ snaps \subseteq Snapshots
  /\ readable \subseteq Contents

TreeTypes(t) == t \in [files : [Names -> FileRecords], snaps : SUBSET Snapshots]

LEMMA NoFileType == NoFile \in FileRecords
BY DEF NoFile, FileRecords

(* The operations of the store keep its types.                             *)
LEMMA StoreStepTypes ==
  ASSUME StoreTypes, StoreStep
  PROVE  StoreTypes'
<1> USE DEF StoreTypes
<1>1. CASE AddVersion
  <2>1. PICK n \in Names, c \in readable :
          LET v == files[n].latest + 1 IN
          files' = [files EXCEPT ![n] =
                      [latest |-> v,
                       versions |-> Append(@.versions, [version |-> v, content |-> c])]]
    BY <1>1 DEF AddVersion
  <2> DEFINE v == files[n].latest + 1
             e == [version |-> v, content |-> c]
             f == [latest |-> v, versions |-> Append(files[n].versions, e)]
  <2>2. v \in Nat /\ files[n].versions \in Seq([version : Nat, content : Contents])
    <3>1. files[n] \in FileRecords
      OBVIOUS
    <3>2. files[n].versions \in Seq([version : Nat, content : Contents])
      BY <3>1 DEF FileRecords
    <3>3. files[n].latest \in Nat
      BY <3>1 DEF FileRecords
    <3> QED  BY <3>2, <3>3
  <2>3. e \in [version : Nat, content : Contents]
    BY <2>2
  <2>4. f \in FileRecords
    <3> HIDE DEF e, v
    <3> QED  BY <2>2, <2>3 DEF FileRecords
  <2>5. files' = [files EXCEPT ![n] = f]
    BY <2>1
  <2> HIDE DEF f
  <2> QED  BY <1>1, <2>4, <2>5 DEF AddVersion
<1>2. CASE Rename
  BY <1>2, NoFileType DEF Rename
<1>3. CASE RemoveFile
  BY <1>3, NoFileType DEF RemoveFile
<1>4. CASE Prune
  <2>1. PICK n \in Names : \E k \in 1..Len(files[n].versions) :
          files' = [files EXCEPT ![n].versions =
                      SubSeq(files[n].versions, k + 1, Len(files[n].versions))]
    BY <1>4 DEF Prune
  <2> DEFINE vs == files[n].versions
             V == [version : Nat, content : Contents]
  <2>2. PICK k \in 1..Len(vs) :
          files' = [files EXCEPT ![n].versions = SubSeq(vs, k + 1, Len(vs))]
    BY <2>1
  <2>3. vs \in Seq(V)
    BY DEF FileRecords
  <2>4. SubSeq(vs, k + 1, Len(vs)) \in Seq(V)
    <3> HIDE DEF vs, V
    <3>1. k \in 0..Len(vs)
      BY <2>3
    <3> QED  BY <2>3, <3>1, SplitAt
  <2> DEFINE u == SubSeq(vs, k + 1, Len(vs))
  <2>5. files' = [files EXCEPT ![n].versions = u] /\ u \in Seq(V)
    BY <2>2, <2>4
  <2> HIDE DEF u
  <2> QED  BY <1>4, <2>5 DEF Prune, FileRecords
<1>5. CASE TakeSnapshot
  <2> DEFINE last(n) == files[n].versions[Len(files[n].versions)]
             es == {[name |-> n, version |-> last(n).version, content |-> last(n).content] :
                      n \in {m \in Names : files[m].versions # << >>}}
  <2>1. PICK l \in Labels : snaps' = snaps \cup {[label |-> l, entries |-> es]}
    BY <1>5 DEF TakeSnapshot
  <2>2. ASSUME NEW n \in Names, files[n].versions # << >>
        PROVE  last(n) \in [version : Nat, content : Contents]
    <3> DEFINE vs == files[n].versions
    <3>1. vs \in Seq([version : Nat, content : Contents]) /\ vs # << >>
      BY <2>2 DEF FileRecords
    <3> HIDE DEF vs
    <3>2. Len(vs) \in 1..Len(vs)
      BY <3>1, EmptySeq
    <3>3. vs[Len(vs)] \in [version : Nat, content : Contents]
      BY <3>1, <3>2, ElementOfSeq
    <3> QED  BY <3>3 DEF vs
  <2> HIDE DEF last
  <2>3. es \subseteq Entries
    BY <2>2 DEF Entries
  <2> HIDE DEF es
  <2> QED  BY <1>5, <2>1, <2>3 DEF TakeSnapshot, Snapshots
<1>6. CASE DropSnapshot
  BY <1>6 DEF DropSnapshot
<1>7. CASE StoreContent
  BY <1>7 DEF StoreContent
<1>8. CASE Reclaim
  BY <1>8 DEF Reclaim
<1> QED
  BY <1>1, <1>2, <1>3, <1>4, <1>5, <1>6, <1>7, <1>8 DEF StoreStep

(* Every path of a tree leads to a content.                                *)
LEMMA TreeIsTree ==
  ASSUME NEW t, TreeTypes(t)
  PROVE  IsTree(t)
<1>1. t.files \in [Names -> FileRecords] /\ t.snaps \subseteq Snapshots
  BY DEF TreeTypes
<1>2. ASSUME NEW n \in Names, NEW i \in DOMAIN t.files[n].versions
      PROVE  t.files[n].versions[i].content \in Contents
  <2> DEFINE vs == t.files[n].versions
  <2>1. vs \in Seq([version : Nat, content : Contents])
    BY <1>1 DEF FileRecords
  <2>2. vs[i] \in [version : Nat, content : Contents]
    <3>1. i \in DOMAIN vs
      OBVIOUS
    <3> HIDE DEF vs
    <3>2. i \in 1..Len(vs)
      BY <2>1, <3>1, LenProperties
    <3> QED  BY <2>1, <3>2, ElementOfSeq
  <2> QED  BY <2>2
<1>3. HistoryIn(t) \subseteq Contents
  BY <1>2 DEF HistoryIn, VersionsIn, ToSet
<1>4. CurrentIn(t) \subseteq Contents
  <2>1. ASSUME NEW n \in Names, t.files[n].versions # << >>
        PROVE  Last(t.files[n].versions).content \in Contents
    <3> DEFINE vs == t.files[n].versions
    <3>1. vs \in Seq([version : Nat, content : Contents]) /\ vs # << >>
      BY <1>1, <2>1 DEF FileRecords
    <3>2. Len(vs) \in DOMAIN vs
      <4> HIDE DEF vs
      <4> QED  BY <3>1, EmptySeq
    <3> QED  BY <1>2, <3>2 DEF Last
  <2> QED  BY <2>1 DEF CurrentIn
<1>5. SnapshotsIn(t) \subseteq Contents
  <2>1. \A x \in t.snaps : x.entries \subseteq Entries
    BY <1>1 DEF Snapshots
  <2>2. \A x \in t.snaps : \A e \in x.entries : e.content \in Contents
    BY <2>1 DEF Entries
  <2> SUFFICES ASSUME NEW c \in SnapshotsIn(t) PROVE c \in Contents
    OBVIOUS
  <2>3. PICK x \in t.snaps : \E e \in x.entries : c = e.content
    BY DEF SnapshotsIn
  <2> QED  BY <2>2, <2>3
<1> QED  BY <1>1, <1>3, <1>4, <1>5 DEF IsTree

-----------------------------------------------------------------------------
(* The inductive invariant of the mount: where each worker is in its read, *)
(* what it holds there, and the cache.                                     *)

\* A GET announces only what the file has.
Announced(m, r) == m = "webdav" => r.start + r.length <= SizeOf(r.content)

Resting == {"idle", "get", "refresh", "names", "snaps", "swap", "list"}
Refreshing == {"names", "snaps", "swap"}

ReadOK(w) ==
  /\ wpc[w] \in Resting => read[w] = NoRead
  /\ wpc[w] = "read" => Fresh(read[w]) /\ Announced(mode, read[w])
  /\ wpc[w] \in {"chunk", "insert"} =>
       /\ Looping(read[w]) /\ Announced(mode, read[w])
       /\ read[w].content \in readable /\ w \in opReaders
  /\ wpc[w] = "insert" => Wanted(read[w])
  /\ wpc[w] = "done" =>
       read[w] = NoRead \/ (read[w] \in Reads /\ Exact(read[w]) /\ Announced(mode, read[w]))

RefreshHeld == {w \in Workers : wpc[w] \in Refreshing} = {refresher} \ {Nobody}

ReadTypes == read \in [Workers -> Reads \cup {NoRead}]

MountInv ==
  /\ mode \in {"webdav", "fuse"}
  /\ TreeTypes(tree) /\ TreeTypes(newTree)
  /\ wpc \in [Workers -> WPcs]
  /\ ReadTypes
  /\ IsCache(cache)
  /\ RefreshHeld
  /\ \A w \in Workers : ReadOK(w)

(* What a worker does concerns no other worker's read.                     *)
LEMMA OthersRead ==
  ASSUME MountInv, NEW w \in Workers, NEW l \in WPcs, wpc' = [wpc EXCEPT ![w] = l],
         NEW q \in Reads \cup {NoRead}, read' = [read EXCEPT ![w] = q],
         mode' = mode, readable' = readable, opReaders \ {w} \subseteq opReaders',
         ReadOK(w)'
  PROVE  /\ (wpc \in [Workers -> WPcs])' /\ ReadTypes'
         /\ \A v \in Workers : ReadOK(v)'
<1>1. (wpc \in [Workers -> WPcs])' /\ ReadTypes'
  BY DEF MountInv, ReadTypes
<1>2. ASSUME NEW v \in Workers PROVE ReadOK(v)'
  <2>1. CASE v = w
    BY <2>1
  <2>2. CASE v # w
    <3>1. wpc'[v] = wpc[v] /\ read'[v] = read[v]
      BY <2>2 DEF MountInv, ReadTypes
    <3>2. ReadOK(v)
      BY DEF MountInv
    <3>3. v \in opReaders => v \in opReaders'
      BY <2>2
    <3> QED  BY <3>1, <3>2, <3>3 DEF ReadOK, Announced
  <2> QED  BY <2>1, <2>2
<1> QED  BY <1>1, <1>2

(* last_refresh does not concern a worker that does not refresh.           *)
LEMMA RefreshStays ==
  ASSUME MountInv, NEW w \in Workers, NEW l \in WPcs, wpc' = [wpc EXCEPT ![w] = l],
         refresher' = refresher, wpc[w] \in Refreshing <=> l \in Refreshing
  PROVE  RefreshHeld'
BY DEF MountInv, RefreshHeld

(* A step of a worker between two places, with its read: what is left to   *)
(* show of it.                                                             *)
LEMMA WorkerMoves ==
  ASSUME MountInv, NEW w \in Workers, NEW l \in WPcs, wpc' = [wpc EXCEPT ![w] = l],
         NEW q \in Reads \cup {NoRead}, read' = [read EXCEPT ![w] = q],
         mode' = mode, readable' = readable, opReaders \ {w} \subseteq opReaders',
         tree' = tree, newTree' = newTree, refresher' = refresher,
         wpc[w] \in Refreshing <=> l \in Refreshing,
         IsCache(cache)', ReadOK(w)'
  PROVE  MountInv'
<1>1. /\ (wpc \in [Workers -> WPcs])' /\ ReadTypes'
      /\ \A v \in Workers : ReadOK(v)'
  BY OthersRead
<1>2. RefreshHeld'
  BY RefreshStays
<1>3. /\ mode' \in {"webdav", "fuse"} /\ TreeTypes(tree)' /\ TreeTypes(newTree)'
  BY DEF MountInv, TreeTypes
<1> QED  BY <1>1, <1>2, <1>3 DEF MountInv

(* The same for a step that leaves the read alone.                         *)
LEMMA WorkerWalks ==
  ASSUME MountInv, NEW w \in Workers, NEW l \in WPcs, wpc' = [wpc EXCEPT ![w] = l],
         read' = read, cache' = cache,
         mode' = mode, readable' = readable, opReaders' = opReaders,
         tree' = tree, newTree' = newTree, refresher' = refresher,
         wpc[w] \in Refreshing <=> l \in Refreshing,
         wpc'[w] = l /\ read'[w] = read[w] => ReadOK(w)'
  PROVE  MountInv'
<1>1. read[w] \in Reads \cup {NoRead} /\ read' = [read EXCEPT ![w] = read[w]]
  BY DEF MountInv, ReadTypes
<1>2. wpc'[w] = l /\ read'[w] = read[w]
  BY DEF MountInv
<1>3. IsCache(cache)'
  BY DEF MountInv, IsCache
<1> QED  BY <1>1, <1>2, <1>3, WorkerMoves

LEMMA ReceiveKeeps ==
  ASSUME MountInv, NEW w \in Workers, Receive(w), UNCHANGED storeVars
  PROVE  MountInv'
<1>1. PICK l \in {"get", "refresh"} : wpc' = [wpc EXCEPT ![w] = l]
  BY DEF Receive, WGoto
<1>2. /\ wpc[w] = "idle"
      /\ UNCHANGED <<mode, tree, newTree, refresher, vfsReaders, opReaders, cache, read>>
      /\ readable' = readable
  BY DEF Receive, storeVars
<1>3. l \in WPcs /\ (wpc[w] \in Refreshing <=> l \in Refreshing)
  BY <1>1, <1>2 DEF WPcs, Refreshing
<1>4. ASSUME wpc'[w] = l /\ read'[w] = read[w] PROVE ReadOK(w)'
  BY <1>1, <1>2, <1>4 DEF MountInv, ReadOK, Resting
<1> QED  BY <1>1, <1>2, <1>3, <1>4, WorkerWalks

(* A request becomes a read that has not begun.                            *)
LEMMA RequestedFresh ==
  ASSUME NEW c \in Contents, NEW x \in Nat, NEW n \in Nat
  PROVE  LET r == Requested(c, x, n) IN
         /\ Fresh(r) /\ r \in Reads
         /\ r.content = c /\ r.start = x /\ r.length = n
<1> DEFINE R == [content : Contents \cup {Nobody}, start : Nat, length : Nat, end : Nat,
                 index : Nat, offset : Nat, out : Seq(Bytes)]
           n0 == NoRead
           n1 == [n0 EXCEPT !.content = c]
           n2 == [n1 EXCEPT !.start = x]
           n3 == [n2 EXCEPT !.length = n]
<1>1. << >> \in Seq(Bytes) /\ 0 \in Nat /\ 1 \in Nat
  OBVIOUS
<1>2. n0 \in R /\ n0.index = 1 /\ n0.offset = 0 /\ n0.out = << >>
  BY <1>1 DEF NoRead
<1>3. Requested(c, x, n) = n3
  BY DEF Requested
<1> HIDE DEF n0
<1>4. n1 \in R /\ n1.content = c /\ n1.index = 1 /\ n1.offset = 0 /\ n1.out = << >>
  BY <1>2
<1> HIDE DEF n1
<1>5. /\ n2 \in R /\ n2.content = c /\ n2.start = x
      /\ n2.index = 1 /\ n2.offset = 0 /\ n2.out = << >>
  BY <1>4
<1> HIDE DEF n2
<1>6. /\ n3 \in R /\ n3.content = c /\ n3.start = x /\ n3.length = n
      /\ n3.index = 1 /\ n3.offset = 0 /\ n3.out = << >>
  BY <1>5
<1> HIDE DEF n3
<1>7. n3 \in Reads
  BY <1>6 DEF Reads
<1> QED  BY <1>3, <1>6, <1>7 DEF Fresh

LEMMA RequestKeeps ==
  ASSUME MountInv, NEW w \in Workers, wpc[w] \in {"idle", "get"},
         wpc' = [wpc EXCEPT ![w] = "read"],
         NEW c \in Resolvable, NEW x \in Nat, NEW n \in Nat,
         read' = [read EXCEPT ![w] = Requested(c, x, n)],
         mode = "webdav" => x + n <= SizeOf(c),
         UNCHANGED <<mode, tree, newTree, refresher, opReaders, cache>>, UNCHANGED storeVars
  PROVE  MountInv'
<1> DEFINE q == Requested(c, x, n)
<1>1. c \in Contents
  BY TreeIsTree DEF MountInv, IsTree, Resolvable
<1>2. Fresh(q) /\ q \in Reads /\ q.content = c /\ q.start = x /\ q.length = n
  BY <1>1, RequestedFresh
<1> HIDE DEF q
<1>3. wpc'[w] = "read" /\ read'[w] = q
  BY DEF MountInv, ReadTypes, q
<1>4. ReadOK(w)'
  BY <1>2, <1>3 DEF ReadOK, Resting, Announced
<1>5. "read" \in WPcs /\ (wpc[w] \in Refreshing <=> "read" \in Refreshing)
  BY DEF WPcs, Refreshing
<1>6. IsCache(cache)'
  BY DEF MountInv, IsCache
<1>7. readable' = readable /\ read' = [read EXCEPT ![w] = q]
  BY DEF storeVars, q
<1> QED  BY <1>2, <1>4, <1>5, <1>6, <1>7, WorkerMoves

LEMMA FuseReadKeeps ==
  ASSUME MountInv, NEW w \in Workers, FuseRead(w), UNCHANGED storeVars
  PROVE  MountInv'
<1>1. PICK c \in Resolvable, x \in 0..MaxOffset, n \in 0..MaxOffset :
        read' = [read EXCEPT ![w] = Requested(c, x, n)]
  BY DEF FuseRead
<1>2. x \in Nat /\ n \in Nat /\ mode # "webdav" /\ wpc[w] \in {"idle", "get"}
      /\ wpc' = [wpc EXCEPT ![w] = "read"]
      /\ UNCHANGED <<mode, tree, newTree, refresher, opReaders, cache>>
  BY MountAssumption DEF FuseRead, WGoto
<1> QED  BY <1>1, <1>2, RequestKeeps

LEMMA GetFileKeeps ==
  ASSUME MountInv, NEW w \in Workers, GetFile(w), UNCHANGED storeVars
  PROVE  MountInv'
<1>1. wpc[w] = "get" /\ UNCHANGED <<mode, tree, newTree, refresher, opReaders, cache>>
      /\ readable' = readable
  BY DEF GetFile, storeVars
<1>2. CASE wpc' = [wpc EXCEPT ![w] = "done"] /\ read' = read
  <2>1. "done" \in WPcs /\ (wpc[w] \in Refreshing <=> "done" \in Refreshing)
    BY <1>1 DEF WPcs, Refreshing
  <2>2. ASSUME wpc'[w] = "done" /\ read'[w] = read[w] PROVE ReadOK(w)'
    BY <1>1, <2>2 DEF MountInv, ReadOK, Resting
  <2> QED  BY <1>1, <1>2, <2>1, <2>2, WorkerWalks
<1>3. ASSUME NEW c \in Resolvable, NEW h \in Headers, NEW x \in ParseRange(h, SizeOf(c)),
             read' = [read EXCEPT ![w] = Requested(c, x[1], x[2])],
             wpc' = [wpc EXCEPT ![w] = "read"]
      PROVE  MountInv'
  <2>1. SizeOf(c) \in Nat
    BY TreeIsTree, SizeType DEF MountInv, IsTree, Resolvable
  <2>2. x[1] \in Nat /\ x[2] \in Nat /\ x[1] + x[2] <= SizeOf(c)
    BY <2>1, RangeInFile
  <2> QED  BY <1>1, <1>3, <2>2, RequestKeeps
<1> QED  BY <1>2, <1>3 DEF GetFile, WGoto

LEMMA PropfindKeeps ==
  ASSUME MountInv, NEW w \in Workers, Propfind(w), UNCHANGED storeVars
  PROVE  MountInv'
<1>1. /\ wpc[w] = "list" /\ wpc' = [wpc EXCEPT ![w] = "done"] /\ readable' = readable
      /\ UNCHANGED <<mode, tree, newTree, refresher, opReaders, cache, read>>
  BY DEF Propfind, WGoto, storeVars
<1>2. "done" \in WPcs /\ (wpc[w] \in Refreshing <=> "done" \in Refreshing)
  BY <1>1 DEF WPcs, Refreshing
<1>3. ASSUME wpc'[w] = "done" /\ read'[w] = read[w] PROVE ReadOK(w)'
  BY <1>1, <1>3 DEF MountInv, ReadOK, Resting
<1> QED  BY <1>1, <1>2, <1>3, WorkerWalks

LEMMA RespondKeeps ==
  ASSUME MountInv, NEW w \in Workers, Respond(w), UNCHANGED storeVars
  PROVE  MountInv'
<1>1. /\ wpc[w] \in {"done", "failed"} /\ wpc' = [wpc EXCEPT ![w] = "idle"]
      /\ read' = [read EXCEPT ![w] = NoRead] /\ readable' = readable
      /\ UNCHANGED <<mode, tree, newTree, refresher, opReaders, cache>>
  BY DEF Respond, WGoto, storeVars
<1>2. "idle" \in WPcs /\ (wpc[w] \in Refreshing <=> "idle" \in Refreshing)
  BY <1>1 DEF WPcs, Refreshing
<1>3. wpc'[w] = "idle" /\ read'[w] = NoRead
  BY <1>1 DEF MountInv, ReadTypes
<1>4. ReadOK(w)'
  BY <1>3 DEF ReadOK, Resting
<1>5. IsCache(cache)'
  BY <1>1 DEF MountInv, IsCache
<1>6. NoRead \in Reads \cup {NoRead}
  OBVIOUS
<1> QED  BY <1>1, <1>2, <1>4, <1>5, <1>6, WorkerMoves

(* read_range begins: an empty answer, an error, or the loop, under        *)
(* op_lock.                                                                *)
LEMMA BeginReadKeeps ==
  ASSUME MountInv, NEW w \in Workers, BeginRead(w), UNCHANGED storeVars
  PROVE  MountInv'
<1> DEFINE r == read[w]
           total == SizeOf(r.content)
<1>1. /\ wpc[w] = "read" /\ UNCHANGED <<mode, tree, newTree, refresher, cache>>
      /\ readable' = readable
  BY DEF BeginRead, storeVars
<1>2. Fresh(r) /\ Announced(mode, r) /\ r \in Reads
  BY <1>1 DEF MountInv, ReadOK, Fresh
<1>3. /\ r.content \in Contents /\ r.start \in Nat /\ r.length \in Nat /\ r.out = << >>
      /\ total \in Nat
  BY <1>2, SizeType DEF Fresh, Reads
<1>4. ASSUME r.length = 0 \/ r.start >= total PROVE Exact(r)
  <2>1. /\ Until(r) \in Nat
        /\ Until(r) = IF r.start + r.length <= total THEN r.start + r.length ELSE total
    BY <1>2, UntilType
  <2> HIDE DEF r, total
  <2>2. Until(r) < r.start + 1 /\ Until(r) \in Int /\ r.start + 1 \in Int
    BY <1>3, <1>4, <2>1
  <2>3. SubSeq(BytesOf(r.content), r.start + 1, Until(r)) = << >>
    BY <2>2, SubSeqEmpty
  <2> QED  BY <1>3, <2>3 DEF Exact
<1>5. CASE /\ r.length = 0 \/ r.start >= total
           /\ wpc' = [wpc EXCEPT ![w] = "done"] /\ UNCHANGED <<opReaders, read>>
  <2>1. "done" \in WPcs /\ (wpc[w] \in Refreshing <=> "done" \in Refreshing)
    BY <1>1 DEF WPcs, Refreshing
  <2>2. ASSUME wpc'[w] = "done" /\ read'[w] = read[w] PROVE ReadOK(w)'
    BY <1>1, <1>2, <1>4, <1>5, <2>2 DEF ReadOK, Resting, Announced
  <2> QED  BY <1>1, <1>5, <2>1, <2>2, WorkerWalks
<1>6. CASE wpc' = [wpc EXCEPT ![w] = "failed"] /\ UNCHANGED <<opReaders, read>>
  <2>1. "failed" \in WPcs /\ (wpc[w] \in Refreshing <=> "failed" \in Refreshing)
    BY <1>1 DEF WPcs, Refreshing
  <2>2. ASSUME wpc'[w] = "failed" /\ read'[w] = read[w] PROVE ReadOK(w)'
    BY <2>2 DEF ReadOK, Resting
  <2> QED  BY <1>1, <1>6, <2>1, <2>2, WorkerWalks
<1>7. ASSUME r.length > 0, r.content \in readable, r.start < total,
             read' = [read EXCEPT ![w].end =
                        IF r.length < total - r.start THEN r.start + r.length ELSE total],
             opReaders' = OpLocked(w), wpc' = [wpc EXCEPT ![w] = "chunk"]
      PROVE  MountInv'
  <2> DEFINE end == IF r.length < total - r.start THEN r.start + r.length ELSE total
             q == [r EXCEPT !.end = end]
  <2>1. Looping(q)
    BY <1>2, <1>7, FirstTurn
  <2>2. q.content = r.content /\ q.start = r.start /\ q.length = r.length
    <3> HIDE DEF end
    <3> QED  BY <1>2 DEF Reads
  <2>3. read' = [read EXCEPT ![w] = q]
    BY <1>7
  <2> HIDE DEF q
  <2>4. q \in Reads
    BY <2>1 DEF Looping
  <2>5. wpc'[w] = "chunk" /\ read'[w] = q
    BY <1>7, <2>3 DEF MountInv, ReadTypes
  <2>6. Announced(mode, q)
    BY <1>2, <2>2 DEF Announced
  <2>7. w \in opReaders' /\ opReaders \ {w} \subseteq opReaders'
    BY <1>7 DEF OpLocked
  <2>8. ReadOK(w)'
    <3>1. q.content \in readable'
      BY <1>1, <1>7, <2>2
    <3> QED  BY <2>1, <2>5, <2>6, <2>7, <3>1, <1>1 DEF ReadOK, Resting, Announced
  <2>9. "chunk" \in WPcs /\ (wpc[w] \in Refreshing <=> "chunk" \in Refreshing)
    BY <1>1 DEF WPcs, Refreshing
  <2>10. IsCache(cache)'
    BY <1>1 DEF MountInv, IsCache
  <2> QED  BY <1>1, <1>7, <2>3, <2>4, <2>7, <2>8, <2>9, <2>10, WorkerMoves
<1> QED
  <2> HIDE DEF MountInv
  <2> QED  BY <1>5, <1>6, <1>7 DEF BeginRead, WGoto

(* A turn of the loop.                                                     *)
LEMMA AdvanceKeeps ==
  ASSUME MountInv, NEW w \in Workers, wpc[w] \in {"chunk", "insert"},
         NEW bytes, Advance(w, bytes), bytes = Taken(read[w]),
         UNCHANGED <<mode, tree, newTree, refresher>>, IsCache(cache)', UNCHANGED storeVars
  PROVE  MountInv'
<1> DEFINE r == read[w]
           q == Next1(r, Taken(r))
           l == IF Finished(r) THEN "done" ELSE "chunk"
<1>1. /\ Looping(r) /\ Announced(mode, r) /\ r.content \in readable /\ w \in opReaders
  BY DEF MountInv, ReadOK
<1>2. /\ q \in Reads
      /\ q.content = r.content /\ q.start = r.start /\ q.length = r.length
      /\ Finished(r) => Exact(q)
      /\ ~Finished(r) => Looping(q)
  BY <1>1, TurnKeeps
<1>3. wpc' = [wpc EXCEPT ![w] = l]
  BY DEF Advance, WGoto, Finished
<1>4. read' = [read EXCEPT ![w] = q]
  <2>1. read' = [read EXCEPT ![w].out = @ \o bytes, ![w].offset = ChunkEnd(r),
                             ![w].index = @ + 1]
    BY DEF Advance
  <2>2. q = [r EXCEPT !.out = @ \o bytes, !.offset = ChunkEnd(r), !.index = @ + 1]
    BY DEF Next1
  <2> HIDE DEF q
  <2>3. w \in DOMAIN read
    BY DEF MountInv, ReadTypes
  <2> QED  BY <2>1, <2>2, <2>3
<1>5. opReaders \ {w} \subseteq opReaders' /\ (~Finished(r) => w \in opReaders')
  BY <1>1 DEF Advance, Finished
<1> HIDE DEF q
<1>6. wpc'[w] = l /\ read'[w] = q
  BY <1>3, <1>4 DEF MountInv, ReadTypes
<1>7. readable' = readable /\ mode' = mode
  BY DEF storeVars
<1>8. ReadOK(w)'
  <2>1. Announced(mode', q) /\ q.content \in readable'
    BY <1>1, <1>2, <1>7 DEF Announced
  <2> HIDE DEF r
  <2>2. CASE Finished(r)
    BY <1>2, <1>6, <2>1, <2>2, <1>7 DEF ReadOK, Resting, Announced
  <2>3. CASE ~Finished(r)
    BY <1>2, <1>5, <1>6, <2>1, <2>3, <1>7 DEF ReadOK, Resting, Announced
  <2> QED  BY <2>2, <2>3
<1>9. l \in WPcs /\ (wpc[w] \in Refreshing <=> l \in Refreshing)
  BY DEF WPcs, Refreshing
<1> QED  BY <1>2, <1>3, <1>4, <1>5, <1>7, <1>8, <1>9, WorkerMoves

LEMMA SkipChunkKeeps ==
  ASSUME MountInv, NEW w \in Workers, SkipChunk(w), UNCHANGED storeVars
  PROVE  MountInv'
<1>1. /\ wpc[w] = "chunk" /\ Advance(w, << >>) /\ ~Wanted(read[w])
      /\ UNCHANGED <<mode, tree, newTree, refresher>> /\ cache' = cache
  BY DEF SkipChunk
<1>2. << >> = Taken(read[w])
  BY <1>1 DEF Taken
<1>3. IsCache(cache)'
  BY <1>1 DEF MountInv, IsCache
<1> HIDE DEF MountInv, Advance
<1> QED  BY <1>1, <1>2, <1>3, AdvanceKeeps

LEMMA CachedChunkKeeps ==
  ASSUME MountInv, NEW w \in Workers, CachedChunk(w), UNCHANGED storeVars
  PROVE  MountInv'
<1> DEFINE k == ChunkAt(read[w])
<1>1. /\ wpc[w] = "chunk" /\ Advance(w, Slice(read[w])) /\ Wanted(read[w])
      /\ k \in ToSet(cache.order) /\ cache' = Promoted(k)
      /\ UNCHANGED <<mode, tree, newTree, refresher>>
  BY DEF CachedChunk
<1>2. Slice(read[w]) = Taken(read[w])
  BY <1>1 DEF Taken
<1>3. IsCache(cache) /\ Looping(read[w])
  BY <1>1 DEF MountInv, ReadOK
<1>4. k \in Chunks
  BY <1>3, ChunkAtHand
<1>5. IsCache(Promoted(k))
  <2> HIDE DEF k
  <2> QED  BY <1>1, <1>3, <1>4, PromotedIsCache
<1>6. IsCache(cache)'
  BY <1>1, <1>5 DEF IsCache
<1> QED  BY <1>1, <1>2, <1>6, AdvanceKeeps

LEMMA FetchChunkKeeps ==
  ASSUME MountInv, NEW w \in Workers, FetchChunk(w), UNCHANGED storeVars
  PROVE  MountInv'
<1>1. /\ wpc[w] = "chunk" /\ wpc' = [wpc EXCEPT ![w] = "insert"] /\ readable' = readable
      /\ Wanted(read[w])
      /\ UNCHANGED <<mode, tree, newTree, refresher, opReaders, cache, read>>
  BY DEF FetchChunk, WGoto, storeVars
<1>2. "insert" \in WPcs /\ (wpc[w] \in Refreshing <=> "insert" \in Refreshing)
  BY <1>1 DEF WPcs, Refreshing
<1>3. ASSUME wpc'[w] = "insert" /\ read'[w] = read[w] PROVE ReadOK(w)'
  <2>1. /\ Looping(read[w]) /\ Announced(mode, read[w])
        /\ read[w].content \in readable /\ w \in opReaders
    BY <1>1 DEF MountInv, ReadOK
  <2> QED  BY <1>1, <1>3, <2>1 DEF ReadOK, Resting, Announced
<1> QED  BY <1>1, <1>2, <1>3, WorkerWalks

LEMMA FetchFailsKeeps ==
  ASSUME MountInv, NEW w \in Workers, FetchFails(w), UNCHANGED storeVars
  PROVE  MountInv'
<1>1. /\ wpc[w] = "chunk" /\ wpc' = [wpc EXCEPT ![w] = "failed"] /\ readable' = readable
      /\ opReaders \ {w} \subseteq opReaders'
      /\ UNCHANGED <<mode, tree, newTree, refresher, cache, read>>
  BY DEF FetchFails, WGoto, storeVars
<1>2. "failed" \in WPcs /\ (wpc[w] \in Refreshing <=> "failed" \in Refreshing)
  BY <1>1 DEF WPcs, Refreshing
<1>3. wpc'[w] = "failed" /\ read' = [read EXCEPT ![w] = read[w]]
  BY <1>1 DEF MountInv, ReadTypes
<1>4. ReadOK(w)'
  BY <1>3 DEF ReadOK, Resting
<1>5. IsCache(cache)' /\ read[w] \in Reads \cup {NoRead}
  BY <1>1 DEF MountInv, IsCache, ReadTypes
<1> QED  BY <1>1, <1>2, <1>3, <1>4, <1>5, WorkerMoves

LEMMA InsertChunkKeeps ==
  ASSUME MountInv, NEW w \in Workers, InsertChunk(w), UNCHANGED storeVars
  PROVE  MountInv'
<1> DEFINE k == ChunkAt(read[w])
<1>1. /\ wpc[w] = "insert" /\ Advance(w, Slice(read[w])) /\ cache' = Inserted(k)
      /\ UNCHANGED <<mode, tree, newTree, refresher>>
  BY DEF InsertChunk
<1>2. IsCache(cache) /\ Looping(read[w]) /\ Wanted(read[w])
  BY <1>1 DEF MountInv, ReadOK
<1>3. Slice(read[w]) = Taken(read[w])
  BY <1>2 DEF Taken
<1>4. k \in Chunks
  BY <1>2, ChunkAtHand
<1>5. IsCache(Inserted(k))
  <2> HIDE DEF k
  <2> QED  BY <1>2, <1>4, InsertedIsCache
<1>6. IsCache(cache)'
  BY <1>1, <1>5 DEF IsCache
<1> QED  BY <1>1, <1>3, <1>6, AdvanceKeeps

(* A step of the refresh, which concerns no read.                          *)
LEMMA RefreshWalks ==
  ASSUME MountInv, NEW w \in Workers, NEW l \in Resting, wpc[w] \in Resting,
         wpc' = [wpc EXCEPT ![w] = l], read' = read,
         mode' = mode, readable' = readable, opReaders' = opReaders,
         TreeTypes(tree)', TreeTypes(newTree)', IsCache(cache)', RefreshHeld'
  PROVE  MountInv'
<1>1. l \in WPcs
  BY DEF Resting, WPcs
<1>2. read[w] = NoRead /\ read' = [read EXCEPT ![w] = NoRead]
  BY DEF MountInv, ReadOK, ReadTypes
<1>3. wpc'[w] = l /\ read'[w] = NoRead
  BY <1>2 DEF MountInv
<1>4. ReadOK(w)'
  BY <1>3 DEF ReadOK, Resting
<1>5. NoRead \in Reads \cup {NoRead} /\ opReaders \ {w} \subseteq opReaders'
  OBVIOUS
<1>6. /\ (wpc \in [Workers -> WPcs])' /\ ReadTypes'
      /\ \A v \in Workers : ReadOK(v)'
  BY <1>1, <1>2, <1>4, <1>5, OthersRead
<1>7. mode' \in {"webdav", "fuse"}
  BY DEF MountInv
<1> QED  BY <1>6, <1>7 DEF MountInv

LEMMA BeginRefreshKeeps ==
  ASSUME MountInv, NEW w \in Workers, BeginRefresh(w), UNCHANGED storeVars
  PROVE  MountInv'
<1>1. /\ wpc[w] = "refresh" /\ refresher = Nobody /\ readable' = readable
      /\ UNCHANGED <<mode, tree, newTree, vfsReaders, opReaders, cache, read>>
  BY DEF BeginRefresh, storeVars
<1>2. TreeTypes(tree)' /\ TreeTypes(newTree)' /\ IsCache(cache)' /\ wpc[w] \in Resting
  BY <1>1 DEF MountInv, TreeTypes, IsCache, Resting
<1>3. CASE wpc' = [wpc EXCEPT ![w] = "list"] /\ refresher' = refresher
  <2>1. "list" \in Resting
    BY DEF Resting
  <2>2. RefreshHeld'
    BY <1>1, <1>3 DEF MountInv, RefreshHeld, Refreshing
  <2> QED  BY <1>1, <1>2, <1>3, <2>1, <2>2, RefreshWalks
<1>4. CASE wpc' = [wpc EXCEPT ![w] = "names"] /\ refresher' = w
  <2>1. "names" \in Resting
    BY DEF Resting
  <2>2. RefreshHeld'
    <3>1. w # Nobody
      BY MountAssumption
    <3> QED  BY <1>1, <1>4, <3>1 DEF MountInv, RefreshHeld, Refreshing
  <2> QED  BY <1>1, <1>2, <1>4, <2>1, <2>2, RefreshWalks
<1> QED  BY <1>3, <1>4 DEF BeginRefresh, WGoto

LEMMA ReadNamesKeeps ==
  ASSUME MountInv, StoreTypes, NEW w \in Workers, ReadNames(w), UNCHANGED storeVars
  PROVE  MountInv'
<1>1. /\ wpc[w] = "names" /\ wpc' = [wpc EXCEPT ![w] = "snaps"] /\ readable' = readable
      /\ newTree' = [newTree EXCEPT !.files = files]
      /\ UNCHANGED <<mode, tree, refresher, vfsReaders, opReaders, cache, read>>
  BY DEF ReadNames, WGoto, storeVars
<1>2. TreeTypes(tree)' /\ IsCache(cache)' /\ wpc[w] \in Resting /\ "snaps" \in Resting
  BY <1>1 DEF MountInv, TreeTypes, IsCache, Resting
<1>3. TreeTypes(newTree)'
  BY <1>1 DEF MountInv, TreeTypes, StoreTypes
<1>4. RefreshHeld'
  BY <1>1 DEF MountInv, RefreshHeld, Refreshing
<1> QED  BY <1>1, <1>2, <1>3, <1>4, RefreshWalks

LEMMA ReadSnapshotsKeeps ==
  ASSUME MountInv, StoreTypes, NEW w \in Workers, ReadSnapshots(w), UNCHANGED storeVars
  PROVE  MountInv'
<1>1. /\ wpc[w] = "snaps" /\ wpc' = [wpc EXCEPT ![w] = "swap"] /\ readable' = readable
      /\ newTree' = [newTree EXCEPT !.snaps = snaps]
      /\ UNCHANGED <<mode, tree, refresher, vfsReaders, opReaders, cache, read>>
  BY DEF ReadSnapshots, WGoto, storeVars
<1>2. TreeTypes(tree)' /\ IsCache(cache)' /\ wpc[w] \in Resting /\ "swap" \in Resting
  BY <1>1 DEF MountInv, TreeTypes, IsCache, Resting
<1>3. TreeTypes(newTree)'
  BY <1>1 DEF MountInv, TreeTypes, StoreTypes
<1>4. RefreshHeld'
  BY <1>1 DEF MountInv, RefreshHeld, Refreshing
<1> QED  BY <1>1, <1>2, <1>3, <1>4, RefreshWalks

LEMMA BuildFailsKeeps ==
  ASSUME MountInv, NEW w \in Workers, BuildFails(w), UNCHANGED storeVars
  PROVE  MountInv'
<1> DEFINE l == IF wpc[w] = "names" THEN "snaps" ELSE "swap"
<1>1. /\ wpc[w] \in Refreshing /\ wpc' = [wpc EXCEPT ![w] = l] /\ readable' = readable
      /\ UNCHANGED <<mode, tree, newTree, refresher, vfsReaders, opReaders, cache, read>>
  BY DEF BuildFails, WGoto, storeVars, Refreshing
<1>2. /\ TreeTypes(tree)' /\ TreeTypes(newTree)' /\ IsCache(cache)'
      /\ wpc[w] \in Resting /\ l \in Resting /\ l \in Refreshing
  BY <1>1 DEF MountInv, TreeTypes, IsCache, Resting, Refreshing
<1> HIDE DEF l
<1>3. RefreshHeld'
  BY <1>1, <1>2 DEF MountInv, RefreshHeld
<1> QED  BY <1>1, <1>2, <1>3, RefreshWalks

(* Only the refreshing worker swaps the trees, and it lets last_refresh go. *)
LEMMA SwapTreeKeeps ==
  ASSUME MountInv, NEW w \in Workers, SwapTree(w), UNCHANGED storeVars
  PROVE  MountInv'
<1>1. /\ wpc[w] = "swap" /\ wpc' = [wpc EXCEPT ![w] = "list"] /\ readable' = readable
      /\ tree' = newTree /\ newTree' = EmptyTree /\ cache' = EmptyCache /\ refresher' = Nobody
      /\ UNCHANGED <<mode, vfsReaders, opReaders, read>>
  BY DEF SwapTree, WGoto, storeVars
<1>2. wpc[w] \in Resting /\ "list" \in Resting
  BY <1>1 DEF Resting
<1>3. TreeTypes(tree)' /\ TreeTypes(newTree)'
  BY <1>1, NoFileType DEF MountInv, TreeTypes, EmptyTree
<1>4. IsCache(cache)'
  BY <1>1, EmptyIsCache DEF IsCache
<1>5. RefreshHeld'
  BY <1>1 DEF MountInv, RefreshHeld, Refreshing
<1> QED  BY <1>1, <1>2, <1>3, <1>4, <1>5, RefreshWalks

(* Every step of a worker keeps the invariant.                             *)
LEMMA WorkerKeeps ==
  ASSUME MountInv, StoreTypes, NEW w \in Workers, UNCHANGED storeVars,
         WorkerStep(w) \/ Receive(w) \/ FuseRead(w) \/ BuildFails(w) \/ FetchFails(w)
  PROVE  MountInv'
BY GetFileKeeps, PropfindKeeps, RespondKeeps, BeginReadKeeps, SkipChunkKeeps,
   CachedChunkKeeps, FetchChunkKeeps, InsertChunkKeeps, BeginRefreshKeeps, ReadNamesKeeps,
   ReadSnapshotsKeeps, SwapTreeKeeps, ReceiveKeeps, FuseReadKeeps, BuildFailsKeeps,
   FetchFailsKeeps
   DEF WorkerStep

(* An operation of the store takes nothing away from a read that has begun: *)
(* only a collection would, and it waits for op_lock.                       *)
LEMMA StoreKeepsMount ==
  ASSUME MountInv, StoreStep, UNCHANGED mountVars
  PROVE  MountInv'
<1>1. UNCHANGED <<mode, tree, newTree, refresher, opReaders, cache, wpc, read>>
  BY DEF mountVars
<1>2. readable \subseteq readable' \/ opReaders = {}
  BY DEF StoreStep, AddVersion, Rename, Prune, StoreContent
<1>3. ASSUME NEW w \in Workers PROVE ReadOK(w)'
  <2>1. ReadOK(w)
    BY DEF MountInv
  <2>2. wpc[w] \in {"chunk", "insert"} => read[w].content \in readable'
    BY <1>2, <2>1 DEF ReadOK
  <2> QED  BY <1>1, <2>1, <2>2 DEF ReadOK, Announced
<1>4. /\ mode' \in {"webdav", "fuse"} /\ TreeTypes(tree)' /\ TreeTypes(newTree)'
      /\ (wpc \in [Workers -> WPcs])' /\ ReadTypes' /\ IsCache(cache)' /\ RefreshHeld'
  BY <1>1 DEF MountInv, TreeTypes, ReadTypes, IsCache, RefreshHeld
<1> QED  BY <1>3, <1>4 DEF MountInv

(* A mount of the store as it is satisfies the invariant.                  *)
LEMMA MountBegins ==
  ASSUME NEW m \in {"webdav", "fuse"}, MountAs(m), StoreTypes
  PROVE  MountInv
<1>1. TreeTypes(tree) /\ TreeTypes(newTree) /\ mode \in {"webdav", "fuse"}
  BY NoFileType DEF MountAs, TreeTypes, StoreTypes, EmptyTree
<1>2. IsCache(cache)
  BY EmptyIsCache DEF MountAs
<1>3. wpc = [w \in Workers |-> "idle"] /\ read = [w \in Workers |-> NoRead] /\ refresher = Nobody
  BY DEF MountAs
<1>4. wpc \in [Workers -> WPcs] /\ ReadTypes
  BY <1>3 DEF WPcs, ReadTypes
<1>5. RefreshHeld
  BY <1>3 DEF RefreshHeld, Refreshing
<1>6. \A w \in Workers : ReadOK(w)
  BY <1>3 DEF ReadOK, Resting
<1> QED  BY <1>1, <1>2, <1>4, <1>5, <1>6 DEF MountInv

(* What the invariant says of reads and of the cache.                      *)
LEMMA MountInvSays ==
  ASSUME MountInv, StoreTypes
  PROVE  ReadsAreExact /\ CacheIsConsistent /\ ReadsComplete
<1>1. CacheIsConsistent
  BY DEF MountInv, IsCache, CacheIsConsistent
<1>2. ASSUME NEW w \in Workers, wpc[w] = "done", read[w].content # Nobody
      PROVE  LET r == read[w] IN
             /\ r.out = SubSeq(BytesOf(r.content), r.start + 1,
                               Min({r.start + r.length, SizeOf(r.content)}))
             /\ mode = "webdav" => Len(r.out) = r.length
  <2> DEFINE r == read[w]
  <2>1. r # NoRead
    BY <1>2 DEF NoRead
  <2>2. r \in Reads /\ Exact(r) /\ Announced(mode, r)
    BY <1>2, <2>1 DEF MountInv, ReadOK
  <2> HIDE DEF r
  <2>3. r.out = SubSeq(BytesOf(r.content), r.start + 1, Until(r))
    BY <2>2 DEF Exact
  <2>4. ASSUME mode = "webdav" PROVE Len(r.out) = r.length
    <3> DEFINE B == BytesOf(r.content)
               a == r.start + 1
               b == Until(r)
    <3>1. r.content \in Contents /\ r.start \in Nat /\ r.length \in Nat
      BY <2>2 DEF Reads
    <3>2. b = r.start + r.length /\ b <= SizeOf(r.content) /\ b \in Nat
      BY <2>2, <2>4, UntilType DEF Announced
    <3>3. B \in Seq(Bytes) /\ Len(B) = SizeOf(r.content) /\ SizeOf(r.content) \in Nat
      BY <3>1, FileBytes, SizeType
    <3>4. a \in Int /\ b \in Int /\ \A j \in a..b : j \in 1..Len(B)
      <4> HIDE DEF B, b
      <4> QED  BY <3>1, <3>2, <3>3
    <3> HIDE DEF B, a, b
    <3>5. \A j \in a..b : B[j] \in Bytes
      BY <3>3, <3>4, ElementOfSeq
    <3>6. Len(SubSeq(B, a, b)) = IF a <= b THEN b - a + 1 ELSE 0
      BY <3>4, <3>5, SubSeqProperties
    <3>7. Len(r.out) = IF a <= b THEN b - a + 1 ELSE 0
      BY <2>3, <3>6 DEF B, a, b
    <3>8. (IF a <= b THEN b - a + 1 ELSE 0) = r.length
      BY <3>1, <3>2 DEF a
    <3> QED  BY <3>7, <3>8
  <2> QED  BY <2>3, <2>4 DEF r, Until
<1>3. ASSUME NEW w \in Workers, wpc[w] \in {"chunk", "insert"}
      PROVE  ToSet(ChunksOf[read[w].content]) \subseteq StoredChunks
  <2>1. read[w].content \in readable
    BY <1>3 DEF MountInv, ReadOK
  <2> QED  BY <2>1 DEF StoredChunks
<1> QED  BY <1>1, <1>2, <1>3 DEF ReadsAreExact, ReadsComplete
=============================================================================
