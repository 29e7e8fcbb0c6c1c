--------------------------- MODULE SequenceLemmas ---------------------------
(***************************************************************************)
(* Facts that the proofs of several components cite: least elements, which *)
(* stand in for induction, and what FlattenSeq does to a longer sequence.  *)
(***************************************************************************)
EXTENDS Integers, SequencesExt, SequenceTheorems, WellFoundedInduction, TLAPS

\* A nonempty set of natural numbers has a least element.
LEMMA LeastElement ==
    ASSUME NEW S, S \subseteq Nat, S # {}
    PROVE  \E n \in S : \A m \in S : n <= m
  <1> DEFINE LT == {p \in Nat \X Nat : p[1] < p[2]}
  <1>1. IsWellFoundedOn(LT, Nat)
    BY NatLessThanWellFounded DEF OpToRel
  <1>2. PICK n \in S : \A m \in S : ~(<<m, n>> \in LT)
    <2> HIDE DEF LT
    <2> QED BY <1>1, WFMin
  <1>3. ASSUME NEW m \in S PROVE n <= m
    <2>1. m \in Nat /\ n \in Nat
      OBVIOUS
    <2>2. ~(m < n)
      BY <1>2, <2>1
    <2> QED BY <2>1, <2>2
  <1> QED BY <1>3

---------------------------------------------------------------------------
(* FlattenSeq. *)

\* f gives the concatenations of the prefixes of seqs.
Flattens(f, seqs) ==
    f = [i \in 1 .. Len(seqs) |-> IF i = 1 THEN seqs[i] ELSE f[i - 1] \o seqs[i]]

LEMMA FlattensExists ==
    ASSUME NEW seqs, Len(seqs) \in Nat
    PROVE  \E f : Flattens(f, seqs)
  <1> DEFINE L == Len(seqs)
             Upto(f, n) == f = [i \in 1 .. n |-> IF i = 1 THEN seqs[i] ELSE f[i - 1] \o seqs[i]]
             Without == {n \in 0 .. L : ~\E f : Upto(f, n)}
  <1>1. L \in Nat
    OBVIOUS
  <1>2. Upto([i \in 1 .. 0 |-> i], 0)
    OBVIOUS
  <1>3. ASSUME NEW n \in 1 .. L, NEW f, Upto(f, n - 1)
        PROVE  \E g : Upto(g, n)
    <2> DEFINE g == [i \in 1 .. n |->
                        IF i < n THEN f[i] ELSE IF n = 1 THEN seqs[n] ELSE f[n - 1] \o seqs[n]]
    <2>1. ASSUME NEW i \in 1 .. n
          PROVE  g[i] = IF i = 1 THEN seqs[i] ELSE g[i - 1] \o seqs[i]
      <3>1. CASE i < n
        <4>1. i \in 1 .. n - 1
          BY <1>1, <3>1
        <4>2. f[i] = IF i = 1 THEN seqs[i] ELSE f[i - 1] \o seqs[i]
          BY <1>3, <4>1
        <4>3. i # 1 => g[i - 1] = f[i - 1]
          BY <3>1
        <4>4. g[i] = f[i]
          BY <3>1
        <4> QED BY <4>2, <4>3, <4>4
      <3>2. CASE i = n
        <4>1. i # 1 => g[i - 1] = f[n - 1]
          BY <3>2
        <4>2. g[i] = IF n = 1 THEN seqs[n] ELSE f[n - 1] \o seqs[n]
          BY <3>2
        <4> QED BY <3>2, <4>1, <4>2
      <3> QED BY <1>1, <3>1, <3>2
    <2>2. g = [i \in 1 .. n |-> g[i]]
      OBVIOUS
    <2> HIDE DEF g
    <2>3. g = [i \in 1 .. n |-> IF i = 1 THEN seqs[i] ELSE g[i - 1] \o seqs[i]]
      BY <2>1, <2>2
    <2> QED BY <2>3
  <1> HIDE DEF Upto
  <1>4. SUFFICES ASSUME Without # {} PROVE FALSE
    <2>1. Without = {} => \E f : Upto(f, L)
      BY <1>1
    <2> QED BY <2>1 DEF Flattens, Upto
  <1>5. Without \subseteq Nat
    BY <1>1
  <1>6. PICK n \in Without : \A m \in Without : n <= m
    <2> HIDE DEF Without
    <2> QED BY <1>4, <1>5, LeastElement
  <1>7. n \in 1 .. L /\ n - 1 \notin Without /\ n - 1 \in 0 .. L
    BY <1>1, <1>2, <1>6
  <1>8. PICK f : Upto(f, n - 1)
    BY <1>7
  <1> QED BY <1>3, <1>6, <1>7, <1>8

LEMMA FlattensAt ==
    ASSUME NEW seqs, NEW f, Flattens(f, seqs), NEW k \in 1 .. Len(seqs)
    PROVE  f[k] = IF k = 1 THEN seqs[k] ELSE f[k - 1] \o seqs[k]
  BY DEF Flattens

\* Two functions that flatten sequences agree as far as the sequences do.
LEMMA FlattensAgree ==
    ASSUME NEW s, NEW t, Len(s) \in Nat, Len(t) \in Nat, Len(s) <= Len(t),
           \A k \in 1 .. Len(s) : t[k] = s[k],
           NEW f, NEW g, Flattens(f, s), Flattens(g, t)
    PROVE  \A k \in 1 .. Len(s) : g[k] = f[k]
  <1> DEFINE Differ == {k \in 1 .. Len(s) : g[k] # f[k]}
  <1>1. SUFFICES ASSUME Differ # {} PROVE FALSE
    OBVIOUS
  <1>2. PICK k \in Differ : \A m \in Differ : k <= m
    <2>1. Differ \subseteq Nat
      OBVIOUS
    <2> HIDE DEF Differ
    <2> QED BY <1>1, <2>1, LeastElement
  <1>3. f[k] = IF k = 1 THEN s[k] ELSE f[k - 1] \o s[k]
    BY FlattensAt
  <1>4. g[k] = IF k = 1 THEN t[k] ELSE g[k - 1] \o t[k]
    <2>1. k \in 1 .. Len(t)
      OBVIOUS
    <2> QED BY <2>1, FlattensAt
  <1>5. k # 1 => f[k - 1] = g[k - 1]
    BY <1>2
  <1> QED BY <1>2, <1>3, <1>4, <1>5

LEMMA FlattenSeqIs ==
    ASSUME NEW seqs, Len(seqs) \in Nat \ {0}, NEW f, Flattens(f, seqs)
    PROVE  FlattenSeq(seqs) = f[Len(seqs)]
  <1> DEFINE g == CHOOSE h : Flattens(h, seqs)
  <1>1. Flattens(g, seqs)
    OBVIOUS
  <1>2. FlattenSeq(seqs) = g[Len(seqs)]
    BY DEF FlattenSeq, Flattens
  <1>3. g[Len(seqs)] = f[Len(seqs)]
    <2> HIDE DEF g
    <2> QED BY <1>1, FlattensAgree
  <1> QED BY <1>2, <1>3

\* What is appended to a sequence of sequences is appended to its concatenation.
LEMMA FlattenSeqAppend ==
    ASSUME NEW S, NEW T, NEW seqs \in Seq(T), NEW s \in Seq(S)
    PROVE  FlattenSeq(Append(seqs, s)) = FlattenSeq(seqs) \o s
  <1> DEFINE n == Len(seqs)
             longer == Append(seqs, s)
  <1>1. /\ n \in Nat /\ Len(longer) = n + 1 /\ longer[n + 1] = s
        /\ \A k \in 1 .. n : longer[k] = seqs[k]
    OBVIOUS
  <1>2. PICK g : Flattens(g, longer)
    BY <1>1, FlattensExists
  <1>3. FlattenSeq(longer) = g[n + 1]
    <2>1. Len(longer) \in Nat \ {0}
      BY <1>1
    <2> HIDE DEF longer
    <2> QED BY <1>1, <1>2, <2>1, FlattenSeqIs
  <1>4. g[n + 1] = IF n + 1 = 1 THEN s ELSE g[n] \o s
    <2>1. n + 1 \in 1 .. Len(longer) /\ n + 1 - 1 = n
      BY <1>1
    <2> HIDE DEF longer
    <2>2. g[n + 1] = IF n + 1 = 1 THEN longer[n + 1] ELSE g[n + 1 - 1] \o longer[n + 1]
      BY <1>2, <2>1, FlattensAt
    <2> QED BY <1>1, <2>1, <2>2
  <1>5. CASE n = 0
    <2>1. seqs = <<>> /\ FlattenSeq(seqs) = seqs
      BY <1>5 DEF FlattenSeq
    <2>2. <<>> \o s = s
      OBVIOUS
    <2> QED BY <1>3, <1>4, <1>5, <2>1, <2>2
  <1>6. CASE n # 0
    <2>1. PICK f : Flattens(f, seqs)
      BY <1>1, FlattensExists
    <2>2. g[n] = f[n]
      <3> HIDE DEF longer
      <3> QED BY <1>1, <1>2, <1>6, <2>1, FlattensAgree
    <2>3. FlattenSeq(seqs) = f[n]
      BY <1>1, <1>6, <2>1, FlattenSeqIs
    <2> QED BY <1>1, <1>3, <1>4, <1>6, <2>2, <2>3
  <1> QED BY <1>5, <1>6
=============================================================================
