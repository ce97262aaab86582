----------------------------- MODULE ListLemmas -----------------------------
(***************************************************************************)
(* What the proofs about Select and Joins need to know of lists: induction *)
(* over their length, and the elements that are picked from a list or run  *)
(* together from several.                                                  *)
(***************************************************************************)
EXTENDS Expressions, SequencesExt, WellFoundedInduction, NaturalsInduction,
        SequenceTheorems, TLAPS

-----------------------------------------------------------------------------
(* Induction over the natural numbers, for the functions that are defined    *)
(* by recursion.                                                           *)

LEMMA InductionOnNat ==
    ASSUME NEW S, S \subseteq Nat, 0 \in S, \A m \in S : m + 1 \in S
    PROVE  \A m \in Nat : m \in S
<1>. DEFINE T == Nat \ S
<1>1. SUFFICES ASSUME T # {}
               PROVE  FALSE
  OBVIOUS
<1>2. PICK x \in T : \A y \in T : ~ (<<y, x>> \in OpToRel(<, Nat))
  BY <1>1, WFMin, NatLessThanWellFounded
<1>3. x \in Nat /\ x # 0 /\ x - 1 \in Nat /\ (x - 1) + 1 = x
  OBVIOUS
<1>4. <<x - 1, x>> \in {ss \in Nat \X Nat : ss[1] < ss[2]}
  BY <1>3
<1>5. x - 1 \in S
  BY <1>2, <1>3, <1>4 DEF OpToRel
<1> QED
  BY <1>2, <1>3, <1>5

-----------------------------------------------------------------------------
(* Sequences *)

\* A function on 1..n is a sequence.
LEMMA SeqIs ==
    ASSUME NEW S, NEW f, NEW n \in Nat, DOMAIN f = 1 .. n, f = [i \in DOMAIN f |-> f[i]],
           \A i \in 1 .. n : f[i] \in S
    PROVE  f \in Seq(S) /\ Len(f) = n
<1>1. f \in [1 .. n -> S]
  OBVIOUS
<1>2. f \in Seq(S)
  BY <1>1, SeqDef
<1>3. DOMAIN f = 1 .. Len(f) /\ Len(f) \in Nat
  BY <1>2, LenProperties
<1> QED
  BY <1>2, <1>3

\* Picked's function, which exists.
LEMMA PickedSteps ==
    ASSUME NEW list, NEW K, Len(list) \in Nat
    PROVE  \E f : /\ f[0] = <<>>
                  /\ \A n \in Nat : n + 1 <= Len(list) =>
                        f[n + 1] = IF n + 1 \in K THEN Append(f[n], list[n + 1]) ELSE f[n]
                  /\ Picked(list, K) = f[Len(list)]
<1>. DEFINE N == Len(list)
            Step(x, n) == IF n \in K THEN Append(x, list[n]) ELSE x
            Body(f, m) == [n \in 0 .. m |-> IF n = 0 THEN <<>>
                                            ELSE IF n \in K THEN Append(f[n - 1], list[n])
                                            ELSE f[n - 1]]
            Exists(m) == \E f : f = Body(f, m)
<1>1. Exists(0)
  <2>. DEFINE g == [n \in 0 .. 0 |-> <<>>]
  <2>1. g = Body(g, 0)
    OBVIOUS
  <2> QED
    BY <2>1
<1>2. ASSUME NEW m \in Nat, Exists(m)
      PROVE  Exists(m + 1)
  <2>1. PICK f : f = Body(f, m)
    BY <1>2
  <2>. DEFINE g == [n \in 0 .. m + 1 |-> IF n = m + 1 THEN Step(f[m], n) ELSE f[n]]
  <2>2. \A n \in 0 .. m + 1 : g[n] = Body(g, m + 1)[n]
    <3> SUFFICES ASSUME NEW n \in 0 .. m + 1
                 PROVE  g[n] = Body(g, m + 1)[n]
      OBVIOUS
    <3>1. CASE n = m + 1
      <4>1. g[n - 1] = f[m] /\ n # 0
        BY <3>1
      <4> QED
        BY <3>1, <4>1
    <3>2. CASE n \in 0 .. m
      <4>1. n # 0 => n - 1 \in 0 .. m /\ g[n - 1] = f[n - 1]
        BY <3>2
      <4>2. g[n] = f[n] /\ f[n] = Body(f, m)[n]
        <5>1. g[n] = f[n]
          BY <3>2
        <5>. HIDE DEF Body, g
        <5> QED
          BY <2>1, <5>1
      <4>3. Body(g, m + 1)[n] = Body(f, m)[n]
        <5>1. n \in 0 .. m /\ n \in 0 .. m + 1
          BY <3>2
        <5>. HIDE DEF g
        <5>2. CASE n = 0
          BY <5>1, <5>2
        <5>3. CASE n # 0
          BY <4>1, <5>1, <5>3
        <5> QED
          BY <5>2, <5>3
      <4> QED
        BY <4>2, <4>3
    <3> QED
      BY <3>1, <3>2
  <2>3. g = Body(g, m + 1)
    BY <2>2
  <2> QED
    BY <2>3
<1>3. Exists(N)
  <2>. DEFINE S == {m \in Nat : Exists(m)}
  <2>. HIDE DEF Exists
  <2>1. 0 \in S /\ \A m \in S : m + 1 \in S
    BY <1>1, <1>2
  <2>2. S \subseteq Nat
    OBVIOUS
  <2>. HIDE DEF S
  <2>3. \A m \in Nat : m \in S
    BY <2>1, <2>2, InductionOnNat
  <2> QED
    BY <2>3 DEF S
<1>. DEFINE R == CHOOSE f : f = Body(f, N)
<1>4. R = Body(R, N)
  BY <1>3
<1>5. Picked(list, K) = R[N]
  BY DEF Picked
<1>. HIDE DEF R
<1>6. R[0] = <<>>
  BY <1>4
<1>7. ASSUME NEW n \in Nat, n + 1 <= N
      PROVE  R[n + 1] = IF n + 1 \in K THEN Append(R[n], list[n + 1]) ELSE R[n]
  <2>1. n + 1 \in 0 .. N /\ n + 1 # 0 /\ (n + 1) - 1 = n
    BY <1>7
  <2> QED
    BY <1>4, <2>1
<1> QED
  BY <1>5, <1>6, <1>7

\* pos names the positions, rising, that the elements of out have in list: all
\* those of K up to n.
PicksAt(out, list, K, n, pos) ==
    /\ pos \in [1 .. Len(out) -> 1 .. n]
    /\ \A j \in 1 .. Len(out) : pos[j] \in K /\ out[j] = list[pos[j]]
    /\ \A i, j \in 1 .. Len(out) : i < j => pos[i] < pos[j]
    /\ \A k \in K : k \in 1 .. n => \E j \in 1 .. Len(out) : pos[j] = k

LEMMA PickedIs ==
    ASSUME NEW S, NEW list \in Seq(S), NEW K
    PROVE  /\ Picked(list, K) \in Seq(S)
           /\ \E pos : PicksAt(Picked(list, K), list, K, Len(list), pos)
<1>. DEFINE N == Len(list)
<1>0. N \in Nat /\ \A n \in 1 .. N : list[n] \in S
  BY LenProperties
<1>1. PICK f : /\ f[0] = <<>>
               /\ \A n \in Nat : n + 1 <= N =>
                     f[n + 1] = IF n + 1 \in K THEN Append(f[n], list[n + 1]) ELSE f[n]
               /\ Picked(list, K) = f[N]
  BY <1>0, PickedSteps
<1>. DEFINE Good(n) == f[n] \in Seq(S) /\ \E pos : PicksAt(f[n], list, K, n, pos)
<1>2. Good(0)
  <2>1. f[0] \in Seq(S) /\ Len(f[0]) = 0
    BY <1>1
  <2>2. PicksAt(f[0], list, K, 0, [j \in 1 .. 0 |-> 0])
    BY <2>1 DEF PicksAt
  <2> QED
    BY <2>1, <2>2
<1>3. ASSUME NEW n \in Nat, n + 1 <= N, Good(n)
      PROVE  Good(n + 1)
  <2>1. PICK pos : PicksAt(f[n], list, K, n, pos)
    BY <1>3
  <2>2. n + 1 \in 1 .. N
    BY <1>3
  <2>. DEFINE L == Len(f[n])
  <2>3. /\ L \in Nat /\ f[n] \in Seq(S)
        /\ pos \in [1 .. L -> 1 .. n]
        /\ \A j \in 1 .. L : pos[j] \in K /\ f[n][j] = list[pos[j]]
        /\ \A i, j \in 1 .. L : i < j => pos[i] < pos[j]
        /\ \A k \in K : k \in 1 .. n => \E j \in 1 .. L : pos[j] = k
    BY <1>3, <2>1, LenProperties DEF PicksAt
  <2>4. CASE n + 1 \notin K
    <3>1. f[n + 1] = f[n]
      BY <1>1, <1>3, <2>4
    <3>2. pos \in [1 .. L -> 1 .. n + 1]
      BY <2>3
    <3>3. \A k \in K : k \in 1 .. n + 1 => \E j \in 1 .. L : pos[j] = k
      BY <2>3, <2>4
    <3>4. PicksAt(f[n + 1], list, K, n + 1, pos)
      BY <2>3, <3>1, <3>2, <3>3 DEF PicksAt
    <3> QED
      BY <1>3, <3>1, <3>4
  <2>5. CASE n + 1 \in K
    <3>1. f[n + 1] = Append(f[n], list[n + 1])
      BY <1>1, <1>3, <2>5
    <3>0. L \in Nat /\ \A j \in 1 .. L : pos[j] \in 1 .. n
      BY <2>3
    <3>. DEFINE out == f[n + 1]
    <3>2. /\ out \in Seq(S) /\ Len(out) = L + 1
          /\ \A j \in 1 .. L : out[j] = f[n][j]
          /\ out[L + 1] = list[n + 1]
      BY <1>0, <2>2, <2>3, <3>1, AppendProperties
    <3>. DEFINE more == [j \in 1 .. L + 1 |-> IF j = L + 1 THEN n + 1 ELSE pos[j]]
    <3>3. more[L + 1] = n + 1 /\ \A j \in 1 .. L : more[j] = pos[j] /\ pos[j] \in 1 .. n
      <4>1. \A j \in 1 .. L : j \in 1 .. L + 1 /\ j # L + 1 /\ pos[j] \in 1 .. n
        <5>. HIDE DEF L
        <5> QED
          BY <3>0
      <4>2. L + 1 \in 1 .. L + 1
        BY <3>0
      <4>. HIDE DEF L
      <4> QED
        BY <4>1, <4>2
    <3>4. more \in [1 .. L + 1 -> 1 .. n + 1]
      BY <2>3
    <3>. HIDE DEF more, out, L
    <3>5. \A j \in 1 .. L + 1 : more[j] \in K /\ out[j] = list[more[j]]
      <4> SUFFICES ASSUME NEW j \in 1 .. L + 1
                   PROVE  more[j] \in K /\ out[j] = list[more[j]]
        OBVIOUS
      <4>1. j = L + 1 \/ j \in 1 .. L
        BY <3>0
      <4> QED
        BY <2>3, <2>5, <3>2, <3>3, <4>1
    <3>6. \A i, j \in 1 .. L + 1 : i < j => more[i] < more[j]
      <4> SUFFICES ASSUME NEW i \in 1 .. L + 1, NEW j \in 1 .. L + 1, i < j
                   PROVE  more[i] < more[j]
        OBVIOUS
      <4>1. i \in 1 .. L /\ (j = L + 1 \/ j \in 1 .. L)
        BY <3>0
      <4>2. more[i] = pos[i] /\ pos[i] \in 1 .. n
        BY <3>3, <4>1
      <4>3. CASE j = L + 1
        <5>1. more[j] = n + 1
          BY <3>3, <4>3
        <5> QED
          BY <4>2, <5>1
      <4>4. CASE j \in 1 .. L
        <5>1. pos[i] < pos[j] /\ more[j] = pos[j]
          BY <2>3, <3>3, <4>1, <4>4
        <5> QED
          BY <4>2, <5>1
      <4> QED
        BY <4>1, <4>3, <4>4
    <3>7. \A k \in K : k \in 1 .. n + 1 => \E j \in 1 .. L + 1 : more[j] = k
      <4> SUFFICES ASSUME NEW k \in K, k \in 1 .. n + 1
                   PROVE  \E j \in 1 .. L + 1 : more[j] = k
        OBVIOUS
      <4>1. CASE k = n + 1
        BY <2>3, <3>3, <4>1
      <4>2. CASE k \in 1 .. n
        <5>1. PICK j \in 1 .. L : pos[j] = k
          BY <2>3, <4>2
        <5>2. j \in 1 .. L + 1 /\ more[j] = k
          BY <2>3, <3>3, <5>1
        <5> QED
          BY <5>2
      <4> QED
        BY <4>1, <4>2
    <3>8. PicksAt(out, list, K, n + 1, more)
      BY <3>2, <3>4, <3>5, <3>6, <3>7 DEF PicksAt
    <3> QED
      BY <3>2, <3>8 DEF out
  <2> QED
    BY <2>4, <2>5
<1>4. Good(N)
  <2>. DEFINE T == {n \in Nat : n <= N => Good(n)}
  <2>. HIDE DEF Good
  <2>1. 0 \in T /\ T \subseteq Nat
    BY <1>2
  <2>2. \A n \in T : n + 1 \in T
    BY <1>0, <1>3
  <2>. HIDE DEF T
  <2>3. \A n \in Nat : n \in T
    BY <2>1, <2>2, InductionOnNat
  <2> QED
    BY <1>0, <2>3 DEF T
<1> QED
  BY <1>1, <1>4

IsSeq(s) == /\ Len(s) \in Nat /\ DOMAIN s = 1 .. Len(s)
            /\ s = [i \in DOMAIN s |-> s[i]]

LEMMA IsSeqIs ==
    ASSUME NEW s
    PROVE  /\ IsSeq(s) => s \in Seq(ToSet(s))
           /\ \A S : s \in Seq(S) => IsSeq(s)
<1>1. ASSUME IsSeq(s)
      PROVE  s \in Seq(ToSet(s))
  <2>1. \A i \in 1 .. Len(s) : s[i] \in ToSet(s)
    BY <1>1 DEF IsSeq, ToSet
  <2> QED
    BY <1>1, <2>1, SeqIs DEF IsSeq
<1>2. ASSUME NEW S, s \in Seq(S)
      PROVE  IsSeq(s)
  BY <1>2, LenProperties DEF IsSeq
<1> QED
  BY <1>1, <1>2

\* A function on the positions of a list is a list as long.
LEMMA MappedIs ==
    ASSUME NEW s, IsSeq(s), NEW f, DOMAIN f = DOMAIN s, f = [i \in DOMAIN f |-> f[i]]
    PROVE  IsSeq(f) /\ Len(f) = Len(s)
<1>1. DOMAIN f = 1 .. Len(s) /\ Len(s) \in Nat
  BY DEF IsSeq
<1>2. \A i \in 1 .. Len(s) : f[i] \in ToSet(f)
  BY <1>1 DEF ToSet
<1> QED
  BY <1>1, <1>2, SeqIs DEF IsSeq

LEMMA PickedSeq ==
    ASSUME NEW s, IsSeq(s), NEW K
    PROVE  IsSeq(Picked(s, K)) /\ Picked(s, K) \in Seq(ToSet(s))
BY IsSeqIs, PickedIs

LEMMA SubSeqIs ==
    ASSUME NEW s, IsSeq(s), NEW m \in Nat, NEW n \in Int, m >= 1, n <= Len(s)
    PROVE  IsSeq(SubSeq(s, m, n))
<1>1. \A i \in m .. n : s[i] \in ToSet(s)
  <2>1. \A i \in m .. n : i \in DOMAIN s
    BY DEF IsSeq
  <2> QED
    BY <2>1 DEF ToSet
<1>2. SubSeq(s, m, n) \in Seq(ToSet(s))
  BY <1>1, SubSeqProperties
<1> QED
  BY <1>2, IsSeqIs

\* Where each element of a list has its image, a part of it has that part's.
SliceIs(x, s, m, n) ==
    /\ IsSeq(x) /\ Len(x) = IF m <= n THEN n - m + 1 ELSE 0
    /\ \A i \in 1 .. Len(x) : m + i - 1 \in DOMAIN s /\ x[i] = s[m + i - 1]

LEMMA SlicesAre ==
    ASSUME NEW s, IsSeq(s), NEW m \in Nat, NEW n \in Nat, m >= 1, n <= Len(s)
    PROVE  SliceIs(SubSeq(s, m, n), s, m, n)
<1>1. \A i \in m .. n : s[i] \in ToSet(s)
  <2>1. \A i \in m .. n : i \in DOMAIN s
    BY DEF IsSeq
  <2> QED
    BY <2>1 DEF ToSet
<1>2. /\ Len(SubSeq(s, m, n)) = IF m <= n THEN n - m + 1 ELSE 0
      /\ \A i \in 1 .. n - m + 1 : SubSeq(s, m, n)[i] = s[m + i - 1]
  BY <1>1, SubSeqProperties
<1>3. IsSeq(SubSeq(s, m, n))
  BY SubSeqIs
<1>4. \A i \in 1 .. n - m + 1 : m + i - 1 \in DOMAIN s
  BY DEF IsSeq
<1> QED
  BY <1>2, <1>3, <1>4 DEF SliceIs

LEMMA OneSlice ==
    ASSUME NEW s, NEW m, NEW n, NEW x, NEW y, SliceIs(x, s, m, n), SliceIs(y, s, m, n)
    PROVE  x = y
<1>1. Len(x) = Len(y) /\ \A i \in 1 .. Len(x) : x[i] = y[i]
  BY DEF SliceIs
<1>2. /\ DOMAIN x = 1 .. Len(x) /\ x = [i \in DOMAIN x |-> x[i]]
      /\ DOMAIN y = 1 .. Len(y) /\ y = [i \in DOMAIN y |-> y[i]]
  BY DEF SliceIs, IsSeq
<1> QED
  BY <1>1, <1>2

Images(f, s) == IsSeq(f) /\ Len(f) = Len(s)
SameImages(x, y, f, s) == \A i \in DOMAIN y, j \in DOMAIN s : y[i] = s[j] => x[i] = f[j]

LEMMA SliceOfImages ==
    ASSUME NEW s, IsSeq(s), NEW m \in Nat, NEW n \in Nat, m >= 1, n <= Len(s),
           NEW f, Images(f, s), NEW x, Images(x, SubSeq(s, m, n)),
           SameImages(x, SubSeq(s, m, n), f, s)
    PROVE  x = SubSeq(f, m, n)
<1>. DEFINE y == SubSeq(s, m, n)
<1>1. SliceIs(y, s, m, n)
  BY SlicesAre
<1>2. SliceIs(SubSeq(f, m, n), f, m, n)
  BY SlicesAre DEF Images
<1>. HIDE DEF y
<1>3. SliceIs(x, f, m, n)
  <2>1. DOMAIN f = DOMAIN s /\ IsSeq(x) /\ Len(x) = Len(y) /\ DOMAIN y = 1 .. Len(x)
    BY <1>1 DEF Images, IsSeq, SliceIs, y
  <2>2. ASSUME NEW i \in 1 .. Len(x)
        PROVE  m + i - 1 \in DOMAIN f /\ x[i] = f[m + i - 1]
    <3>1. m + i - 1 \in DOMAIN s /\ y[i] = s[m + i - 1]
      BY <1>1, <2>1 DEF SliceIs
    <3>2. i \in DOMAIN y /\ SameImages(x, y, f, s)
      BY <2>1 DEF y
    <3> QED
      BY <2>1, <3>1, <3>2, Zenon DEF SameImages
  <2> QED
    BY <1>1, <2>1, <2>2 DEF SliceIs
<1> QED
  BY <1>2, <1>3, OneSlice

LEMMA MinIs ==
    ASSUME NEW x \in Int, NEW y \in Int
    PROVE  Min({x, y}) \in {x, y} /\ Min({x, y}) <= x /\ Min({x, y}) <= y
<1>1. \E z \in {x, y} : \A w \in {x, y} : z =< w
  <2>1. x <= y => \A w \in {x, y} : x =< w
    OBVIOUS
  <2>2. y <= x => \A w \in {x, y} : y =< w
    OBVIOUS
  <2>3. x <= y \/ y <= x
    OBVIOUS
  <2> QED
    BY <2>1, <2>2, <2>3
<1>. DEFINE z == Min({x, y})
<1>2. z \in {x, y} /\ \A w \in {x, y} : z =< w
  BY <1>1 DEF Min
<1>. HIDE DEF z
<1>3. z <= x /\ z <= y
  BY <1>2
<1> QED
  BY <1>2, <1>3 DEF z

\* FlattenSeq's function, which exists.
LEMMA FlattenSteps ==
    ASSUME NEW seqs, Len(seqs) \in Nat, Len(seqs) # 0
    PROVE  \E f : /\ f[1] = seqs[1]
                  /\ \A n \in Nat : n # 0 /\ n + 1 <= Len(seqs) => f[n + 1] = f[n] \o seqs[n + 1]
                  /\ FlattenSeq(seqs) = f[Len(seqs)]
<1>. DEFINE N == Len(seqs)
            Step(x, n) == x \o seqs[n]
            Body(f, m) == [n \in 1 .. m |-> IF n = 1 THEN seqs[n] ELSE Step(f[n - 1], n)]
            Exists(m) == \E f : f = Body(f, m)
<1>1. Exists(0)
  <2>. DEFINE g == [n \in 1 .. 0 |-> seqs]
  <2>1. g = Body(g, 0)
    OBVIOUS
  <2> QED
    BY <2>1
<1>2. ASSUME NEW m \in Nat, Exists(m)
      PROVE  Exists(m + 1)
  <2>1. PICK f : f = Body(f, m)
    BY <1>2
  <2>. HIDE DEF Step
  <2>. DEFINE g == [n \in 1 .. m + 1 |-> IF n # m + 1 THEN f[n]
                                         ELSE IF n = 1 THEN seqs[n] ELSE Step(f[m], n)]
  <2>2. \A n \in 1 .. m + 1 : g[n] = Body(g, m + 1)[n]
    <3> SUFFICES ASSUME NEW n \in 1 .. m + 1
                 PROVE  g[n] = Body(g, m + 1)[n]
      OBVIOUS
    <3>1. CASE n = m + 1
      <4>1. n # 1 => n - 1 \in 1 .. m + 1 /\ n - 1 # m + 1 /\ g[n - 1] = f[m]
        BY <3>1
      <4> QED
        BY <3>1, <4>1
    <3>2. CASE n \in 1 .. m
      <4>1. n # 1 => n - 1 \in 1 .. m /\ g[n - 1] = f[n - 1]
        BY <3>2
      <4>2. g[n] = f[n] /\ f[n] = Body(f, m)[n]
        BY <2>1, <3>2
      <4> QED
        BY <3>2, <4>1, <4>2
    <3> QED
      BY <3>1, <3>2
  <2>3. g = Body(g, m + 1)
    BY <2>2
  <2> QED
    BY <2>3
<1>3. Exists(N)
  <2>. DEFINE S == {m \in Nat : Exists(m)}
  <2>. HIDE DEF Exists
  <2>1. 0 \in S /\ \A m \in S : m + 1 \in S
    BY <1>1, <1>2
  <2>2. S \subseteq Nat
    OBVIOUS
  <2>. HIDE DEF S
  <2>3. \A m \in Nat : m \in S
    BY <2>1, <2>2, InductionOnNat
  <2> QED
    BY <2>3 DEF S
<1>. DEFINE R == CHOOSE f : f = Body(f, N)
<1>4. R = Body(R, N)
  BY <1>3
<1>5. FlattenSeq(seqs) = R[N]
  BY DEF FlattenSeq
<1>. HIDE DEF R
<1>6. R[1] = seqs[1]
  <2>1. 1 \in 1 .. N
    OBVIOUS
  <2> QED
    BY <1>4, <2>1
<1>7. ASSUME NEW n \in Nat, n # 0, n + 1 <= N
      PROVE  R[n + 1] = Step(R[n], n + 1)
  <2>1. n + 1 \in 1 .. N /\ n + 1 # 1 /\ (n + 1) - 1 = n
    BY <1>7
  <2>. HIDE DEF Step
  <2> QED
    BY <1>4, <2>1
<1> QED
  BY <1>5, <1>6, <1>7

LEMMA FlattenIs ==
    ASSUME NEW S, NEW seqs, IsSeq(seqs), \A i \in 1 .. Len(seqs) : seqs[i] \in Seq(S)
    PROVE  FlattenSeq(seqs) \in Seq(S)
<1>. DEFINE N == Len(seqs)
<1>1. N \in Nat
  BY DEF IsSeq
<1>2. CASE N = 0
  <2>1. seqs \in Seq(S)
    BY <1>2, SeqIs DEF IsSeq
  <2> QED
    BY <1>2, <2>1 DEF FlattenSeq
<1>3. CASE N # 0
  <2>1. PICK f : /\ f[1] = seqs[1]
                 /\ \A n \in Nat : n # 0 /\ n + 1 <= N => f[n + 1] = f[n] \o seqs[n + 1]
                 /\ FlattenSeq(seqs) = f[N]
    BY <1>1, <1>3, FlattenSteps
  <2>. DEFINE T == {n \in Nat : n # 0 /\ n <= N => f[n] \in Seq(S)}
  <2>2. 0 \in T /\ T \subseteq Nat
    OBVIOUS
  <2>3. ASSUME NEW n \in T
        PROVE  n + 1 \in T
    <3>1. CASE n = 0
      <4>1. 0 + 1 <= N => 1 \in 1 .. N
        BY <1>1
      <4> QED
        BY <2>1, <3>1, <4>1
    <3>2. CASE n # 0 /\ n + 1 <= N
      <4>1. n \in Nat /\ n + 1 \in 1 .. N /\ f[n] \in Seq(S)
        BY <1>1, <3>2
      <4>2. f[n + 1] = f[n] \o seqs[n + 1] /\ seqs[n + 1] \in Seq(S)
        BY <2>1, <3>2, <4>1
      <4>3. f[n + 1] \in Seq(S)
        BY <4>1, <4>2, ConcatProperties
      <4> QED
        BY <4>1, <4>3
    <3> QED
      BY <3>1, <3>2
  <2>. HIDE DEF T
  <2>4. N \in T
    BY <1>1, <2>2, <2>3, InductionOnNat
  <2> QED
    BY <1>1, <1>3, <2>1, <2>4 DEF T
<1> QED
  BY <1>2, <1>3

LEMMA Products ==
    ASSUME NEW i \in Nat, NEW n \in Nat
    PROVE  /\ i * n \in Nat /\ (i + 1) * n = i * n + n /\ 1 * n = n
           /\ n # 0 => i <= i * n
<1>1. i * n \in Nat /\ (i + 1) * n = i * n + n /\ 1 * n = n
  OBVIOUS
<1>2. ASSUME n # 0
      PROVE  i <= i * n
  <2>1. n - 1 \in Nat /\ n = (n - 1) + 1
    BY <1>2
  <2>2. i * ((n - 1) + 1) = i * (n - 1) + i /\ i * (n - 1) \in Nat
    BY <2>1
  <2> QED
    BY <2>1, <2>2
<1> QED
  BY <1>1, <1>2

\* The smaller of two numbers.
LEMMA MinCases ==
    ASSUME NEW x \in Nat, NEW y \in Nat
    PROVE  /\ x <= y => Min({x, y}) = x
           /\ y <= x => Min({x, y}) = y
<1>1. Min({x, y}) \in {x, y} /\ Min({x, y}) <= x /\ Min({x, y}) <= y
  <2>1. x \in Int /\ y \in Int
    OBVIOUS
  <2> QED
    BY <2>1, MinIs
<1>. DEFINE m == Min({x, y})
<1>2. m \in {x, y} /\ m <= x /\ m <= y
  BY <1>1
<1>. HIDE DEF m
<1>3. (x <= y => m = x) /\ (y <= x => m = y)
  BY <1>2
<1> QED
  BY <1>3 DEF m

\* A list's elements up to the b-th, if it has so many: all of them, those after the a-th.
UpTo(t, b) == SubSeq(t, 1, Min({b, Len(t)}))
Between(t, a, b) == SubSeq(t, a + 1, Min({b, Len(t)}))

LEMMA Glue ==
    ASSUME NEW S, NEW t \in Seq(S), NEW a \in Nat, NEW b \in Nat, a <= b
    PROVE  UpTo(t, a) \o Between(t, a, b) = UpTo(t, b)
<1>1. Len(t) \in Nat
  BY LenProperties
<1>2. CASE a <= Len(t)
  <2>1. PICK e \in a .. Len(t) : Min({b, Len(t)}) = e
    <3>1. (b <= Len(t) => Min({b, Len(t)}) = b) /\ (Len(t) <= b => Min({b, Len(t)}) = Len(t))
      BY <1>1, MinCases
    <3> QED
      BY <1>1, <1>2, <3>1
  <2>2. Min({a, Len(t)}) = a
    BY <1>1, <1>2, MinCases
  <2>3. 1 \in 1 .. Len(t) + 1 /\ a \in 1 - 1 .. Len(t)
    BY <1>1, <1>2
  <2>4. SubSeq(t, 1, a) \o SubSeq(t, a + 1, e) = SubSeq(t, 1, e)
    BY <2>3, ConcatAdjacentSubSeq
  <2> QED
    BY <2>1, <2>2, <2>4 DEF UpTo, Between
<1>3. CASE Len(t) < a
  <2>1. Min({a, Len(t)}) = Len(t) /\ Min({b, Len(t)}) = Len(t)
    <3>1. Len(t) <= a /\ Len(t) <= b
      BY <1>1, <1>3
    <3> QED
      BY <1>1, <3>1, MinCases
  <2>2. SubSeq(t, a + 1, Len(t)) = <<>>
    BY <1>1, <1>3, SubSeqEmpty
  <2>3. SubSeq(t, 1, Len(t)) \o <<>> = SubSeq(t, 1, Len(t))
    <3>1. SubSeq(t, 1, Len(t)) = t
      BY SubSeqFull
    <3> QED
      BY <3>1, ConcatEmptySeq
  <2> QED
    BY <2>1, <2>2, <2>3 DEF UpTo, Between
<1> QED
  BY <1>1, <1>2, <1>3

\* P[k] elements are on the first k pages.
Multiples(P, n) == P[0] = 0 /\ \A k \in Nat : P[k + 1] = P[k] + n /\ k <= P[k]

AreSlices(pages, t, P) ==
    /\ IsSeq(pages) /\ Len(pages) = Len(t)
    /\ \A k \in Nat : k + 1 <= Len(t) => pages[k + 1] = Between(t, P[k], P[k + 1])

JoinedUpTo(f, t, P, i) == i # 0 /\ i <= Len(t) => f[i] = UpTo(t, P[i])

\* The pages of n elements of a list make up the list.
LEMMA SlicesMakeUp ==
    ASSUME NEW S, NEW t \in Seq(S), NEW n \in Nat, NEW P \in [Nat -> Nat], Multiples(P, n),
           NEW pages, AreSlices(pages, t, P)
    PROVE  FlattenSeq(pages) = t
<1>1. Len(t) \in Nat
  BY LenProperties
<1>2. CASE Len(t) = 0
  <2>1. FlattenSeq(pages) = pages
    BY <1>2 DEF FlattenSeq, AreSlices
  <2>2. pages = <<>> /\ t = <<>>
    <3>1. pages \in Seq(ToSet(pages)) /\ Len(pages) = 0
      BY <1>2, IsSeqIs DEF AreSlices
    <3> QED
      BY <1>2, <3>1, EmptySeq
  <2> QED
    BY <2>1, <2>2
<1>3. CASE Len(t) # 0
  <2>1. PICK f : /\ f[1] = pages[1]
                 /\ \A i \in Nat : i # 0 /\ i + 1 <= Len(pages) => f[i + 1] = f[i] \o pages[i + 1]
                 /\ FlattenSeq(pages) = f[Len(pages)]
    <3>1. Len(pages) \in Nat /\ Len(pages) # 0
      BY <1>1, <1>3 DEF AreSlices
    <3> QED
      BY <3>1, FlattenSteps
  <2>2. Len(pages) = Len(t)
    BY DEF AreSlices
  <2>3. ASSUME NEW k \in Nat
        PROVE  /\ k + 1 <= Len(t) => pages[k + 1] = Between(t, P[k], P[k + 1])
               /\ P[k] \in Nat /\ P[k + 1] \in Nat /\ P[k] <= P[k + 1] /\ k <= P[k]
    <3>1. P[k] \in Nat /\ P[k + 1] = P[k] + n /\ k <= P[k]
      BY DEF Multiples
    <3>2. P[k] <= P[k] + n /\ P[k] + n \in Nat
      BY <3>1
    <3> QED
      BY <3>1, <3>2 DEF AreSlices
  <2>4. JoinedUpTo(f, t, P, 0)
    BY DEF JoinedUpTo
  <2>5. ASSUME NEW i \in Nat, JoinedUpTo(f, t, P, i)
        PROVE  JoinedUpTo(f, t, P, i + 1)
    <3>0. SUFFICES ASSUME i + 1 <= Len(t)
                   PROVE  f[i + 1] = UpTo(t, P[i + 1])
      BY DEF JoinedUpTo
    <3>1. UpTo(t, P[i]) \o Between(t, P[i], P[i + 1]) = UpTo(t, P[i + 1])
      BY <2>3, Glue
    <3>2. pages[i + 1] = Between(t, P[i], P[i + 1])
      BY <2>3, <3>0
    <3>3. CASE i = 0
      <4>1. f[1] = Between(t, 0, P[1])
        BY <2>1, <3>2, <3>3 DEF Multiples
      <4>2. Between(t, 0, P[1]) = UpTo(t, P[1])
        <5>1. 0 + 1 = 1
          OBVIOUS
        <5> QED
          BY <5>1, Zenon DEF UpTo, Between
      <4>3. i + 1 = 1
        BY <3>3
      <4> QED
        BY <4>1, <4>2, <4>3
    <3>4. CASE i # 0
      <4>1. f[i] = UpTo(t, P[i])
        BY <1>1, <3>0, <3>4, <2>5 DEF JoinedUpTo
      <4>2. f[i + 1] = f[i] \o pages[i + 1]
        BY <2>1, <2>2, <3>0, <3>4
      <4> QED
        BY <3>1, <3>2, <4>1, <4>2
    <3> QED
      BY <3>3, <3>4
  <2>. DEFINE T == {i \in Nat : JoinedUpTo(f, t, P, i)}
  <2>6. 0 \in T /\ T \subseteq Nat /\ \A i \in T : i + 1 \in T
    <3>1. \A i \in Nat : i + 1 \in Nat
      OBVIOUS
    <3>2. 0 \in Nat
      OBVIOUS
    <3> QED
      BY <2>4, <2>5, <3>1, <3>2, Zenon
  <2>7. T = Nat
    <3>. HIDE DEF T
    <3> QED
      BY <2>6, InductionOnNat
  <2>8. JoinedUpTo(f, t, P, Len(t))
    BY <1>1, <2>7
  <2>9. f[Len(t)] = UpTo(t, P[Len(t)])
    BY <1>1, <1>3, <2>8 DEF JoinedUpTo
  <2>10. Min({P[Len(t)], Len(t)}) = Len(t)
    <3>1. P[Len(t)] \in Nat /\ Len(t) <= P[Len(t)]
      BY <1>1, <2>3
    <3> QED
      BY <1>1, <3>1, MinCases
  <2> QED
    BY <2>1, <2>2, <2>9, <2>10, SubSeqFull DEF UpTo
<1> QED
  BY <1>2, <1>3

\* The k-th page of n elements, where there are n.
Page(t, n, k) == SubSeq(t, (k - 1) * n + 1, Min({(k - 1) * n + n, Len(t)}))

LEMMA PagesAre ==
    ASSUME NEW S, NEW t \in Seq(S), NEW n \in Nat, n # 0
    PROVE  FlattenSeq([k \in 1 .. Len(t) |-> Page(t, n, k)]) = t
<1>. DEFINE P == [k \in Nat |-> k * n]
            pages == [k \in 1 .. Len(t) |-> Page(t, n, k)]
<1>1. Len(t) \in Nat
  BY LenProperties
<1>2. P \in [Nat -> Nat] /\ P[0] = 0
  <2>1. \A k \in Nat : k * n \in Nat
    BY Products
  <2>2. 0 * n = 0
    OBVIOUS
  <2> QED
    BY <2>1, <2>2
<1>3. \A k \in Nat : P[k + 1] = P[k] + n /\ k <= P[k]
  BY Products
<1>4. IsSeq(pages) /\ Len(pages) = Len(t)
  <2>1. IsSeq(t) /\ DOMAIN pages = DOMAIN t /\ pages = [k \in DOMAIN pages |-> pages[k]]
    BY IsSeqIs DEF IsSeq
  <2>. HIDE DEF pages
  <2> QED
    BY <2>1, MappedIs
<1>5. ASSUME NEW k \in Nat, k + 1 <= Len(t)
      PROVE  pages[k + 1] = Between(t, P[k], P[k + 1])
  <2>1. k + 1 \in 1 .. Len(t)
    BY <1>1, <1>5
  <2>2. pages[k + 1] = Page(t, n, k + 1)
    BY <2>1
  <2>3. (k + 1) - 1 = k
    OBVIOUS
  <2>4. ((k + 1) - 1) * n = P[k]
    BY <2>3
  <2>5. P[k + 1] = P[k] + n
    BY <1>3
  <2>. HIDE DEF P, pages
  <2> QED
    BY <2>2, <2>4, <2>5 DEF Page, Between
<1>. HIDE DEF P, pages
<1>6. Multiples(P, n) /\ AreSlices(pages, t, P)
  BY <1>2, <1>3, <1>4, <1>5 DEF Multiples, AreSlices
<1>7. FlattenSeq(pages) = t
  BY <1>2, <1>6, SlicesMakeUp
<1> QED
  BY <1>7 DEF pages
=============================================================================
