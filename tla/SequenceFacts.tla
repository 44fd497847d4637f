---------------------------- MODULE SequenceFacts ----------------------------
(***************************************************************************)
(* Facts about naturals, recursively defined functions and sequences that  *)
(* the proofs of several components need.  Induction is stated with sets:  *)
(* the least element of a set of naturals (WFMin) takes no operator as a   *)
(* parameter, so that the provers can instantiate it.                      *)
(***************************************************************************)
EXTENDS Integers, SequenceTheorems, WellFoundedInduction, TLAPS

(* A set of naturals that has an element has a least one.                  *)
LEMMA LeastNatural ==
  ASSUME NEW T, T \subseteq Nat, T # {}
  PROVE  \E x \in T : \A y \in T : x <= y
<1> DEFINE R == OpToRel(<, Nat)
<1>1. IsWellFoundedOn(R, Nat)
  BY NatLessThanWellFounded
<1>2. \A x, y \in Nat : <<y, x>> \in R <=> y < x
  BY DEF OpToRel
<1> HIDE DEF R
<1>3. PICK x \in T : \A y \in T : ~ (<<y, x>> \in R)
  BY <1>1, WFMin
<1>4. \A y \in T : ~ (y < x)
  BY <1>2, <1>3
<1> QED  BY <1>4

(* Induction: a set that has 0 and with each natural the next has all.     *)
LEMMA SetInduction ==
  ASSUME NEW S, 0 \in S, \A n \in Nat : n \in S => n + 1 \in S
  PROVE  Nat \subseteq S
<1> DEFINE T == Nat \ S
<1> SUFFICES ASSUME T # {} PROVE FALSE
  OBVIOUS
<1>1. T \subseteq Nat
  OBVIOUS
<1>2. PICK x \in T : \A y \in T : x <= y
  <2> HIDE DEF T
  <2> QED  BY <1>1, LeastNatural
<1>3. x \in Nat /\ x # 0
  OBVIOUS
<1>4. x - 1 \in Nat /\ x - 1 \in S
  BY <1>2, <1>3
<1>5. x - 1 + 1 \in S
  BY <1>4
<1> QED  BY <1>3, <1>5

(* The same up to a bound.                                                 *)
LEMMA BoundedInduction ==
  ASSUME NEW N \in Nat, NEW S, 0 \in S, \A n \in 0..(N - 1) : n \in S => n + 1 \in S
  PROVE  0..N \subseteq S
<1> DEFINE T == S \cup {n \in Nat : n > N}
<1>1. 0 \in T
  OBVIOUS
<1>2. \A n \in Nat : n \in T => n + 1 \in T
  OBVIOUS
<1>3. Nat \subseteq T
  <2> HIDE DEF T
  <2> QED  BY <1>1, <1>2, SetInduction
<1> QED  BY <1>3

\* The functions on 0..N that begin with z and go on by the step of each place.
Iterations(N, S, z, step) ==
  {f \in [0..N -> S] : f[0] = z /\ \A i \in 1..N : f[i] = step[i][f[i - 1]]}

(* A function defined by recursion on 0..N exists.                         *)
LEMMA IterationExists ==
  ASSUME NEW N \in Nat, NEW S, NEW z \in S, NEW step \in [1..N -> [S -> S]]
  PROVE  \E f : f \in Iterations(N, S, z, step)
<1> DEFINE Fits(f, n) == f[0] = z /\ \A i \in 1..n : f[i] = step[i][f[i - 1]]
           G == {n \in Nat : \E f \in [0..n -> S] : Fits(f, n)}
<1>1. 0 \in G
  <2> DEFINE f == [i \in 0..0 |-> z]
  <2>1. f \in [0..0 -> S] /\ Fits(f, 0)
    OBVIOUS
  <2> QED  BY <2>1
<1>2. ASSUME NEW n \in 0..(N - 1), n \in G PROVE n + 1 \in G
  <2>1. PICK f \in [0..n -> S] : Fits(f, n)
    BY <1>2
  <2> DEFINE g == [i \in 0..(n + 1) |-> IF i <= n THEN f[i] ELSE step[n + 1][f[n]]]
  <2>2. n + 1 \in 1..N /\ n \in Nat
    OBVIOUS
  <2>3. step[n + 1][f[n]] \in S
    BY <2>2
  <2>4. g \in [0..(n + 1) -> S]
    BY <2>3
  <2>5. g[0] = z
    BY <2>1
  <2>6. ASSUME NEW i \in 1..(n + 1) PROVE g[i] = step[i][g[i - 1]]
    <3>1. CASE i <= n
      <4>1. f[i] = step[i][f[i - 1]]
        <5> HIDE DEF g
        <5> QED  BY <2>1, <3>1
      <4>2. g[i] = f[i] /\ g[i - 1] = f[i - 1]
        BY <3>1
      <4> QED  BY <4>1, <4>2
    <3>2. CASE i = n + 1
      BY <3>2, <2>2
    <3> QED  BY <3>1, <3>2
  <2>7. Fits(g, n + 1)
    BY <2>5, <2>6
  <2> HIDE DEF g, Fits
  <2> QED  BY <2>2, <2>4, <2>7
<1>3. 0..N \subseteq G
  <2> HIDE DEF G
  <2> QED  BY <1>1, <1>2, BoundedInduction
<1> QED  BY <1>3 DEF Iterations

LEMMA NotZero ==
  ASSUME NEW n, NEW i \in 1..n, n \in Nat
  PROVE  i # 0
OBVIOUS

(* The places of two sequences in their concatenation.                     *)
LEMMA ConcatFirst ==
  ASSUME NEW S, NEW s \in Seq(S), NEW t \in Seq(S), NEW j \in 1..Len(s)
  PROVE  (s \o t)[j] = s[j]
<1>1. Len(s) \in Nat /\ Len(t) \in Nat /\ j \in 1..(Len(s) + Len(t))
  OBVIOUS
<1>2. (s \o t)[j] = IF j <= Len(s) THEN s[j] ELSE t[j - Len(s)]
  BY <1>1, ConcatProperties
<1> QED  BY <1>1, <1>2

LEMMA ConcatSecond ==
  ASSUME NEW S, NEW s \in Seq(S), NEW t \in Seq(S), NEW j \in 1..Len(t)
  PROVE  (s \o t)[Len(s) + j] = t[j]
<1> DEFINE n == Len(s) + j
<1>1. Len(s) \in Nat /\ n \in 1..(Len(s) + Len(t)) /\ ~(n <= Len(s)) /\ n - Len(s) = j
  OBVIOUS
<1>2. (s \o t)[n] = IF n <= Len(s) THEN s[n] ELSE t[n - Len(s)]
  <2> HIDE DEF n
  <2> QED  BY <1>1, ConcatProperties
<1> HIDE DEF n
<1>3. (s \o t)[n] = t[j]
  BY <1>1, <1>2
<1> QED  BY <1>3 DEF n

(* A sequence is its first i elements and the others.                      *)
LEMMA SplitAt ==
  ASSUME NEW S, NEW s \in Seq(S), NEW i \in 0..Len(s)
  PROVE  /\ SubSeq(s, 1, i) \in Seq(S) /\ SubSeq(s, i + 1, Len(s)) \in Seq(S)
         /\ s = SubSeq(s, 1, i) \o SubSeq(s, i + 1, Len(s))
<1>1. /\ Len(s) \in Nat
      /\ 1 \in 1..(Len(s) + 1)
      /\ i \in (1 - 1)..Len(s) /\ Len(s) \in i..Len(s)
  OBVIOUS
<1>2. SubSeq(s, 1, i) \o SubSeq(s, i + 1, Len(s)) = SubSeq(s, 1, Len(s))
  BY <1>1, ConcatAdjacentSubSeq
<1>3. SubSeq(s, 1, Len(s)) = s
  BY SubSeqFull
<1>4. SubSeq(s, 1, i) \in Seq(S)
  <2>1. \A n \in 1..i : s[n] \in S
    BY <1>1
  <2> QED  BY <1>1, <2>1, SubSeqProperties
<1>5. SubSeq(s, i + 1, Len(s)) \in Seq(S)
  <2>1. (\A n \in (i + 1)..Len(s) : s[n] \in S) /\ i + 1 \in Int /\ Len(s) \in Int
    BY <1>1
  <2> QED  BY <2>1, SubSeqProperties
<1> QED  BY <1>2, <1>3, <1>4, <1>5

(* The elements that stay when the first i are taken away.                 *)
LEMMA SuffixAt ==
  ASSUME NEW S, NEW s \in Seq(S), NEW i \in 0..Len(s)
  PROVE  /\ Len(SubSeq(s, i + 1, Len(s))) = Len(s) - i
         /\ \A j \in 1..(Len(s) - i) : SubSeq(s, i + 1, Len(s))[j] = s[i + j]
<1>1. /\ Len(s) \in Nat /\ i + 1 \in Int /\ Len(s) \in Int
      /\ \A n \in (i + 1)..Len(s) : s[n] \in S
  OBVIOUS
<1>2. /\ Len(SubSeq(s, i + 1, Len(s))) = IF i + 1 <= Len(s) THEN Len(s) - (i + 1) + 1 ELSE 0
      /\ \A j \in 1..(Len(s) - (i + 1) + 1) :
           SubSeq(s, i + 1, Len(s))[j] = s[(i + 1) + j - 1]
  BY <1>1, SubSeqProperties
<1>3. Len(s) - (i + 1) + 1 = Len(s) - i /\ (~(i + 1 <= Len(s)) => Len(s) - i = 0)
  BY <1>1
<1>4. \A j \in 1..(Len(s) - i) : (i + 1) + j - 1 = i + j
  BY <1>1
<1> QED  BY <1>2, <1>3, <1>4
=============================================================================
