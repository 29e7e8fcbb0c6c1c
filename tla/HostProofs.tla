----------------------------- MODULE HostProofs -----------------------------
(***************************************************************************)
(* The bindings, for all chunks a host may append, all buffer limits, all  *)
(* texts, and whatever the host's callbacks answer.                        *)
(***************************************************************************)
EXTENDS HostCalls, SequenceLemmas

---------------------------------------------------------------------------
(* Sizes of texts. *)

\* f gives the sizes of the prefixes of u.
Sums(f, u, of) == f = [n \in 0 .. Len(u) |-> IF n = 0 THEN 0 ELSE f[n - 1] + of[u[n]]]

LEMMA SumsExist ==
    ASSUME NEW u, Len(u) \in Nat, NEW of
    PROVE  \E f : Sums(f, u, of)
  <1> DEFINE L == Len(u)
             Upto(f, n) == f = [i \in 0 .. n |-> IF i = 0 THEN 0 ELSE f[i - 1] + of[u[i]]]
             Without == {n \in 0 .. L : ~\E f : Upto(f, n)}
  <1>1. L \in Nat
    OBVIOUS
  <1>2. Upto([i \in 0 .. 0 |-> 0], 0)
    OBVIOUS
  <1>3. ASSUME NEW n \in 1 .. L, NEW f, Upto(f, n - 1)
        PROVE  \E g : Upto(g, n)
    <2> DEFINE g == [i \in 0 .. n |-> IF i < n THEN f[i] ELSE f[n - 1] + of[u[n]]]
    <2>1. ASSUME NEW i \in 0 .. n
          PROVE  g[i] = IF i = 0 THEN 0 ELSE g[i - 1] + of[u[i]]
      <3>1. CASE i < n
        <4>1. i \in 0 .. n - 1
          BY <1>1, <3>1
        <4>2. f[i] = IF i = 0 THEN 0 ELSE f[i - 1] + of[u[i]]
          BY <1>3, <4>1
        <4>3. i # 0 => g[i - 1] = f[i - 1]
          BY <3>1
        <4> QED BY <3>1, <4>2, <4>3
      <3>2. CASE i = n
        <4>1. g[i - 1] = f[n - 1]
          BY <3>2
        <4> QED BY <3>2, <4>1
      <3> QED BY <1>1, <3>1, <3>2
    <2>2. g = [i \in 0 .. n |-> g[i]]
      OBVIOUS
    <2> HIDE DEF g
    <2>3. g = [i \in 0 .. n |-> IF i = 0 THEN 0 ELSE g[i - 1] + of[u[i]]]
      BY <2>1, <2>2
    <2> QED BY <2>3
  <1> HIDE DEF Upto
  <1>4. SUFFICES ASSUME Without # {} PROVE FALSE
    <2>1. Without = {} => \E f : Upto(f, L)
      BY <1>1
    <2> QED BY <2>1 DEF Sums, Upto
  <1>5. Without \subseteq Nat
    BY <1>1
  <1>6. PICK n \in Without : \A m \in Without : n <= m
    <2> HIDE DEF Without
    <2> QED BY <1>4, <1>5, LeastElement
  <1>7. n \in 1 .. L /\ n - 1 \notin Without /\ n - 1 \in 0 .. L
    BY <1>1, <1>2, <1>6
  <1>8. PICK f : Upto(f, n - 1)
    BY <1>7
  <1> QED BY <1>3, <1>6, <1>7, <1>8

\* Two functions that sum up texts agree as far as the texts do.
LEMMA SumsAgree ==
    ASSUME NEW s, NEW t, Len(s) \in Nat, Len(t) \in Nat, Len(s) <= Len(t), NEW of,
           \A k \in 1 .. Len(s) : t[k] = s[k],
           NEW f, NEW g, Sums(f, s, of), Sums(g, t, of)
    PROVE  \A k \in 0 .. Len(s) : g[k] = f[k]
  <1> DEFINE Differ == {k \in 0 .. Len(s) : g[k] # f[k]}
  <1>1. SUFFICES ASSUME Differ # {} PROVE FALSE
    OBVIOUS
  <1>2. PICK k \in Differ : \A m \in Differ : k <= m
    <2>1. Differ \subseteq Nat
      OBVIOUS
    <2> HIDE DEF Differ
    <2> QED BY <1>1, <2>1, LeastElement
  <1>3. f[k] = IF k = 0 THEN 0 ELSE f[k - 1] + of[s[k]]
    BY DEF Sums
  <1>4. g[k] = IF k = 0 THEN 0 ELSE g[k - 1] + of[t[k]]
    <2>1. k \in 0 .. Len(t)
      OBVIOUS
    <2> QED BY <2>1 DEF Sums
  <1>5. k # 0 => f[k - 1] = g[k - 1]
    BY <1>2
  <1> QED BY <1>2, <1>3, <1>4, <1>5

LEMMA SizeIs ==
    ASSUME NEW u, Len(u) \in Nat, NEW of, NEW f, Sums(f, u, of)
    PROVE  size(u, of) = f[Len(u)]
  <1> DEFINE g == CHOOSE h : Sums(h, u, of)
  <1>1. Sums(g, u, of)
    OBVIOUS
  <1>2. size(u, of) = g[Len(u)]
    BY DEF size, Sums
  <1>3. g[Len(u)] = f[Len(u)]
    <2> HIDE DEF g
    <2> QED BY <1>1, SumsAgree
  <1> QED BY <1>2, <1>3

\* A prefix of a text, and what the next character adds to its size.
LEMMA PrefixIs ==
    ASSUME NEW S, NEW u \in Seq(S), NEW k \in 0 .. Len(u)
    PROVE  /\ SubSeq(u, 1, k) \in Seq(S) /\ Len(SubSeq(u, 1, k)) = k
           /\ \A i \in 1 .. k : SubSeq(u, 1, k)[i] = u[i]
  BY SubSeqProperties

LEMMA PrefixSizes ==
    ASSUME NEW S, NEW u \in Seq(S), NEW of \in [S -> Nat]
    PROVE  /\ size(SubSeq(u, 1, 0), of) = 0
           /\ \A k \in 0 .. Len(u) : size(SubSeq(u, 1, k), of) \in Nat
           /\ \A k \in 1 .. Len(u) :
                size(SubSeq(u, 1, k), of) = size(SubSeq(u, 1, k - 1), of) + of[u[k]]
           /\ size(u, of) = size(SubSeq(u, 1, Len(u)), of)
  <1>1. Len(u) \in Nat
    OBVIOUS
  <1>2. PICK f : Sums(f, u, of)
    BY <1>1, SumsExist
  <1>3. ASSUME NEW k \in 0 .. Len(u)
        PROVE  size(SubSeq(u, 1, k), of) = f[k]
    <2> DEFINE p == SubSeq(u, 1, k)
    <2>1. Len(p) = k /\ \A i \in 1 .. k : p[i] = u[i]
      BY PrefixIs
    <2> HIDE DEF p
    <2>2. /\ Len(p) \in Nat /\ k \in 0 .. Len(p) /\ Len(p) <= Len(u)
          /\ \A i \in 1 .. Len(p) : u[i] = p[i]
      BY <1>1, <2>1
    <2>3. PICK g : Sums(g, p, of)
      BY <2>2, SumsExist
    <2>4. f[k] = g[k]
      <3>1. \A i \in 0 .. Len(p) : f[i] = g[i]
        BY <1>1, <1>2, <2>2, <2>3, SumsAgree
      <3> QED BY <2>2, <3>1
    <2>5. size(p, of) = g[k]
      BY <2>1, <2>2, <2>3, SizeIs
    <2> QED BY <2>4, <2>5 DEF p
  <1>4. f[0] = 0 /\ \A k \in 1 .. Len(u) : f[k] = f[k - 1] + of[u[k]]
    BY <1>1, <1>2 DEF Sums
  <1>5. \A k \in 0 .. Len(u) : f[k] \in Nat
    <2> DEFINE Wrong == {k \in 0 .. Len(u) : f[k] \notin Nat}
    <2>1. SUFFICES ASSUME Wrong # {} PROVE FALSE
      OBVIOUS
    <2>2. PICK k \in Wrong : \A m \in Wrong : k <= m
      <3>1. Wrong \subseteq Nat
        OBVIOUS
      <3> HIDE DEF Wrong
      <3> QED BY <2>1, <3>1, LeastElement
    <2>3. k # 0 /\ f[k - 1] \in Nat /\ k \in 1 .. Len(u)
      BY <1>1, <1>4, <2>2
    <2>4. of[u[k]] \in Nat
      BY <2>3
    <2> QED BY <1>4, <2>2, <2>3, <2>4
  <1>6. size(u, of) = f[Len(u)]
    BY <1>1, <1>2, SizeIs
  <1>7. 0 \in 0 .. Len(u) /\ Len(u) \in 0 .. Len(u)
    BY <1>1
  <1>8. ASSUME NEW k \in 1 .. Len(u)
        PROVE  size(SubSeq(u, 1, k), of) = size(SubSeq(u, 1, k - 1), of) + of[u[k]]
    <2>1. k \in 0 .. Len(u) /\ k - 1 \in 0 .. Len(u)
      BY <1>1
    <2> QED BY <1>3, <1>4, <2>1
  <1> QED BY <1>3, <1>4, <1>5, <1>6, <1>7, <1>8

\* The text of a concatenation, prefix by prefix.
LEMMA SizeConcat ==
    ASSUME NEW S, NEW u \in Seq(S), NEW v \in Seq(S), NEW of \in [S -> Nat]
    PROVE  /\ \A k \in 0 .. Len(u) : SubSeq(u \o v, 1, k) = SubSeq(u, 1, k)
           /\ \A j \in 0 .. Len(v) :
                size(SubSeq(u \o v, 1, Len(u) + j), of) = size(u, of) + size(SubSeq(v, 1, j), of)
           /\ size(u \o v, of) = size(u, of) + size(v, of)
  <1> DEFINE w == u \o v
  <1>1. /\ w \in Seq(S) /\ Len(w) = Len(u) + Len(v) /\ Len(u) \in Nat /\ Len(v) \in Nat
        /\ \A i \in 1 .. Len(u) : w[i] = u[i]
        /\ \A j \in 1 .. Len(v) : w[Len(u) + j] = v[j]
    BY ConcatProperties
  <1> HIDE DEF w
  <1>2. ASSUME NEW k \in 0 .. Len(u)
        PROVE  SubSeq(w, 1, k) = SubSeq(u, 1, k)
    <2>1. k \in 0 .. Len(w)
      BY <1>1
    <2>2. /\ SubSeq(w, 1, k) \in Seq(S) /\ Len(SubSeq(w, 1, k)) = k
          /\ \A i \in 1 .. k : SubSeq(w, 1, k)[i] = w[i]
      BY <1>1, <2>1, PrefixIs
    <2>3. /\ SubSeq(u, 1, k) \in Seq(S) /\ Len(SubSeq(u, 1, k)) = k
          /\ \A i \in 1 .. k : SubSeq(u, 1, k)[i] = u[i]
      BY PrefixIs
    <2>4. \A i \in 1 .. k : w[i] = u[i]
      BY <1>1
    <2> DEFINE x == SubSeq(w, 1, k)
               y == SubSeq(u, 1, k)
    <2> HIDE DEF x, y
    <2>5. x \in Seq(S) /\ y \in Seq(S) /\ Len(x) = Len(y) /\ \A i \in 1 .. Len(x) : x[i] = y[i]
      BY <2>2, <2>3, <2>4 DEF x, y
    <2>6. x = y
      BY <2>5, SeqEqual
    <2> QED BY <2>6 DEF x, y
  <1>3. \A j \in 0 .. Len(v) :
            size(SubSeq(w, 1, Len(u) + j), of) = size(u, of) + size(SubSeq(v, 1, j), of)
    <2> DEFINE W(n) == size(SubSeq(w, 1, n), of)
               V(n) == size(SubSeq(v, 1, n), of)
               Wrong == {j \in 0 .. Len(v) : W(Len(u) + j) # size(u, of) + V(j)}
    <2>1. /\ \A n \in 0 .. Len(w) : W(n) \in Nat
          /\ \A n \in 1 .. Len(w) : W(n) = W(n - 1) + of[w[n]]
      BY <1>1, PrefixSizes
    <2>2. /\ V(0) = 0 /\ \A n \in 0 .. Len(v) : V(n) \in Nat
          /\ \A n \in 1 .. Len(v) : V(n) = V(n - 1) + of[v[n]]
      BY <1>1, PrefixSizes
    <2>3. W(Len(u)) = size(u, of) /\ size(u, of) \in Nat
      <3>1. Len(u) \in 0 .. Len(u)
        BY <1>1
      <3> QED BY <1>2, <3>1, PrefixSizes
    <2>4. \A n \in 1 .. Len(v) : of[v[n]] \in Nat
      OBVIOUS
    <2> HIDE DEF W, V
    <2>5. SUFFICES ASSUME Wrong # {} PROVE FALSE
      BY DEF W, V
    <2>6. PICK j \in Wrong : \A m \in Wrong : j <= m
      <3>1. Wrong \subseteq Nat
        BY <1>1
      <3> HIDE DEF Wrong
      <3> QED BY <2>5, <3>1, LeastElement
    <2>7. j \in 1 .. Len(v) /\ W(Len(u) + (j - 1)) = size(u, of) + V(j - 1)
      BY <1>1, <2>2, <2>3, <2>6
    <2>8. W(Len(u) + j) = W(Len(u) + (j - 1)) + of[w[Len(u) + j]]
      <3>1. Len(u) + j \in 1 .. Len(w) /\ Len(u) + j - 1 = Len(u) + (j - 1)
        BY <1>1, <2>7
      <3> QED BY <2>1, <3>1
    <2>9. of[w[Len(u) + j]] = of[v[j]] /\ V(j) = V(j - 1) + of[v[j]]
      BY <1>1, <2>2, <2>7
    <2>10. V(j - 1) \in Nat /\ of[v[j]] \in Nat
      <3>1. j - 1 \in 0 .. Len(v)
        BY <1>1, <2>7
      <3>2. V(j - 1) \in Nat
        BY <2>2, <3>1
      <3>3. of[v[j]] \in Nat
        BY <2>4, <2>7
      <3> QED BY <3>2, <3>3
    <2> QED BY <2>3, <2>6, <2>7, <2>8, <2>9, <2>10
  <1>4. size(w, of) = size(u, of) + size(v, of)
    <2>1. size(w, of) = size(SubSeq(w, 1, Len(w)), of)
      BY <1>1, PrefixSizes
    <2>2. size(v, of) = size(SubSeq(v, 1, Len(v)), of)
      BY PrefixSizes
    <2>3. Len(v) \in 0 .. Len(v)
      BY <1>1
    <2> QED BY <1>1, <1>3, <2>1, <2>2, <2>3
  <1> QED BY <1>2, <1>3, <1>4 DEF w

\* A longer prefix of a text whose characters all count is a larger one.
LEMMA PrefixesGrow ==
    ASSUME NEW S, NEW u \in Seq(S), NEW of \in [S -> Nat \ {0}],
           NEW i \in 0 .. Len(u), NEW k \in 0 .. Len(u), i < k
    PROVE  size(SubSeq(u, 1, i), of) < size(SubSeq(u, 1, k), of)
  <1> DEFINE P(n) == size(SubSeq(u, 1, n), of)
             Wrong == {n \in 0 .. Len(u) : i < n /\ ~(P(i) < P(n))}
  <1>1. Len(u) \in Nat /\ of \in [S -> Nat]
    OBVIOUS
  <1>2. /\ \A n \in 0 .. Len(u) : P(n) \in Nat
        /\ \A n \in 1 .. Len(u) : P(n) = P(n - 1) + of[u[n]]
    BY <1>1, PrefixSizes
  <1>3. \A n \in 1 .. Len(u) : of[u[n]] \in Nat \ {0}
    OBVIOUS
  <1> HIDE DEF P
  <1>4. SUFFICES ASSUME Wrong # {} PROVE FALSE
    BY DEF P
  <1>5. PICK n \in Wrong : \A m \in Wrong : n <= m
    <2>1. Wrong \subseteq Nat
      BY <1>1
    <2> HIDE DEF Wrong
    <2> QED BY <1>4, <2>1, LeastElement
  <1>6. n \in 1 .. Len(u) /\ (n - 1 = i \/ P(i) < P(n - 1))
    BY <1>1, <1>5
  <1>7. P(n) = P(n - 1) + of[u[n]] /\ P(n - 1) \in Nat /\ of[u[n]] \in Nat \ {0} /\ P(i) \in Nat
    BY <1>1, <1>2, <1>3, <1>6
  <1> QED BY <1>5, <1>6, <1>7

---------------------------------------------------------------------------
(* What the index records. *)

\* Offsets that ascend, and the first n of them the ones below a limit.
Ascends(s) == \A j, k \in 1 .. Len(s) : j <= k => s[j] <= s[k]
Leading(s, limit, n) ==
    /\ n \in 0 .. Len(s)
    /\ \A k \in 1 .. n : s[k] < limit
    /\ n < Len(s) => s[n + 1] >= limit

LEMMA LeadingIs ==
    ASSUME NEW s \in Seq(Nat), NEW limit \in Nat
    PROVE  /\ \E n \in 0 .. Len(s) : Leading(s, limit, n)
           /\ \A m, n : Leading(s, limit, m) /\ Leading(s, limit, n) => m = n
  <1>1. Len(s) \in Nat /\ \A k \in 1 .. Len(s) : s[k] \in Nat
    OBVIOUS
  <1>2. \E n \in 0 .. Len(s) : Leading(s, limit, n)
    <2> DEFINE Above == {k \in 1 .. Len(s) : s[k] >= limit}
    <2>1. CASE Above = {}
      <3>1. Leading(s, limit, Len(s))
        BY <1>1, <2>1 DEF Leading
      <3> QED BY <1>1, <3>1
    <2>2. CASE Above # {}
      <3>1. PICK k \in Above : \A m \in Above : k <= m
        <4>1. Above \subseteq Nat
          BY <1>1
        <4> HIDE DEF Above
        <4> QED BY <2>2, <4>1, LeastElement
      <3>2. Leading(s, limit, k - 1) /\ k - 1 \in 0 .. Len(s)
        BY <1>1, <3>1 DEF Leading
      <3> QED BY <3>2
    <2> QED BY <2>1, <2>2
  <1>3. ASSUME NEW m, NEW n, Leading(s, limit, m), Leading(s, limit, n), m < n
        PROVE  FALSE
    <2>1. m \in 0 .. Len(s) /\ n \in 0 .. Len(s) /\ s[m + 1] >= limit
      BY <1>1, <1>3 DEF Leading
    <2>2. m + 1 \in 1 .. n
      BY <1>1, <1>3, <2>1
    <2>3. s[m + 1] < limit
      BY <1>3, <2>2 DEF Leading
    <2> QED BY <1>1, <2>1, <2>2, <2>3
  <1>4. ASSUME NEW m, NEW n, Leading(s, limit, m), Leading(s, limit, n)
        PROVE  m = n
    <2>1. m \in Nat /\ n \in Nat
      BY <1>4 DEF Leading
    <2>2. ~(m < n)
      BY <1>3, <1>4
    <2>3. ~(n < m)
      BY <1>3, <1>4
    <2> QED BY <2>1, <2>2, <2>3
  <1> QED BY <1>2, <1>4

\* below counts the leading offsets.
LEMMA BelowIs ==
    ASSUME discounts \in Seq(Nat), NEW limit \in Nat
    PROVE  /\ Leading(discounts, limit, below(limit))
           /\ \A n : Leading(discounts, limit, n) => below(limit) = n
  <1>1. below(limit) = CHOOSE n \in 0 .. Len(discounts) : Leading(discounts, limit, n)
    <2>1. \A n \in 0 .. Len(discounts) :
            Leading(discounts, limit, n) <=>
              /\ \A k \in 1 .. n : discounts[k] < limit
              /\ n < Len(discounts) => discounts[n + 1] >= limit
      BY DEF Leading
    <2> QED BY <2>1 DEF below
  <1>2. \E n \in 0 .. Len(discounts) : Leading(discounts, limit, n)
    BY LeadingIs
  <1>3. Leading(discounts, limit, below(limit))
    BY <1>1, <1>2
  <1> QED BY <1>3, LeadingIs

\* Offsets below m, and behind them offsets at or above m.
LEMMA Joined ==
    ASSUME NEW m \in Nat, NEW s \in Seq(Nat), NEW t \in Seq(Nat), Ascends(s), Ascends(t),
           \A k \in 1 .. Len(s) : s[k] < m, \A k \in 1 .. Len(t) : m <= t[k]
    PROVE  /\ s \o t \in Seq(Nat) /\ Len(s \o t) = Len(s) + Len(t) /\ Ascends(s \o t)
           /\ \A k \in 1 .. Len(s) : (s \o t)[k] = s[k]
           /\ \A k \in 1 .. Len(t) : (s \o t)[Len(s) + k] = t[k]
           /\ \A limit \in Nat : \A n : limit <= m /\ Leading(s, limit, n) => Leading(s \o t, limit, n)
           /\ \A limit \in Nat : \A n :
                m <= limit /\ Leading(t, limit, n) => Leading(s \o t, limit, Len(s) + n)
  <1> DEFINE w == s \o t
  <1>1. /\ w \in Seq(Nat) /\ Len(w) = Len(s) + Len(t) /\ Len(s) \in Nat /\ Len(t) \in Nat
        /\ \A k \in 1 .. Len(s) : w[k] = s[k]
        /\ \A k \in 1 .. Len(t) : w[Len(s) + k] = t[k]
    BY ConcatProperties
  <1>2. (\A k \in 1 .. Len(s) : s[k] \in Nat) /\ (\A k \in 1 .. Len(t) : t[k] \in Nat)
    OBVIOUS
  <1> HIDE DEF w
  <1>3. \A k \in 1 .. Len(w) : k \in 1 .. Len(s) \/ \E i \in 1 .. Len(t) : k = Len(s) + i
    <2> TAKE k \in 1 .. Len(w)
    <2>1. k \in 1 .. Len(s) \/ (k - Len(s) \in 1 .. Len(t) /\ k = Len(s) + (k - Len(s)))
      BY <1>1
    <2> QED BY <2>1
  <1>4. Ascends(w)
    <2>1. SUFFICES ASSUME NEW j \in 1 .. Len(w), NEW k \in 1 .. Len(w), j <= k
                   PROVE  w[j] <= w[k]
      BY DEF Ascends
    <2>2. CASE k \in 1 .. Len(s)
      <3>1. j \in 1 .. Len(s) /\ s[j] <= s[k]
        BY <1>1, <2>1, <2>2 DEF Ascends
      <3> QED BY <1>1, <2>2, <3>1
    <2>3. ASSUME NEW i \in 1 .. Len(t), k = Len(s) + i
          PROVE  w[j] <= w[k]
      <3>1. CASE j \in 1 .. Len(s)
        <4>1. s[j] < m /\ m <= t[i] /\ s[j] \in Nat /\ t[i] \in Nat
          BY <1>2, <3>1
        <4>2. w[j] = s[j] /\ w[k] = t[i]
          BY <1>1, <2>3, <3>1
        <4>3. s[j] <= t[i]
          BY <4>1
        <4> QED BY <4>2, <4>3
      <3>2. ASSUME NEW h \in 1 .. Len(t), j = Len(s) + h
            PROVE  w[j] <= w[k]
        <4>1. h <= i
          BY <1>1, <2>1, <2>3, <3>2
        <4>2. t[h] <= t[i]
          BY <4>1 DEF Ascends
        <4> QED BY <1>1, <2>3, <3>2, <4>2
      <3> QED BY <1>3, <3>1, <3>2
    <2> QED BY <1>3, <2>2, <2>3
  <1>5. ASSUME NEW limit \in Nat, NEW n, limit <= m, Leading(s, limit, n)
        PROVE  Leading(w, limit, n)
    <2>1. n \in 0 .. Len(s) /\ n \in 0 .. Len(w)
      BY <1>1, <1>5 DEF Leading
    <2>2. ASSUME NEW k \in 1 .. n PROVE w[k] < limit
      <3>1. k \in 1 .. Len(s)
        BY <1>1, <2>1
      <3>2. s[k] < limit
        BY <1>5 DEF Leading
      <3> QED BY <1>1, <3>1, <3>2
    <2>3. ASSUME n < Len(w) PROVE w[n + 1] >= limit
      <3>1. CASE n < Len(s)
        <4>1. s[n + 1] >= limit /\ n + 1 \in 1 .. Len(s)
          BY <1>1, <1>5, <2>1, <3>1 DEF Leading
        <4> QED BY <1>1, <4>1
      <3>2. CASE n = Len(s)
        <4>1. 1 \in 1 .. Len(t) /\ w[n + 1] = t[1]
          BY <1>1, <2>3, <3>2
        <4> QED BY <1>2, <1>5, <4>1
      <3> QED BY <2>1, <3>1, <3>2
    <2> QED BY <2>1, <2>2, <2>3 DEF Leading
  <1>6. ASSUME NEW limit \in Nat, NEW n, m <= limit, Leading(t, limit, n)
        PROVE  Leading(w, limit, Len(s) + n)
    <2>1. n \in 0 .. Len(t) /\ Len(s) + n \in 0 .. Len(w)
      BY <1>1, <1>6 DEF Leading
    <2>2. ASSUME NEW k \in 1 .. (Len(s) + n) PROVE w[k] < limit
      <3>1. CASE k \in 1 .. Len(s)
        BY <1>1, <1>2, <1>6, <3>1
      <3>2. CASE k \notin 1 .. Len(s)
        <4>1. k - Len(s) \in 1 .. n /\ k - Len(s) \in 1 .. Len(t) /\ k = Len(s) + (k - Len(s))
          BY <1>1, <2>1, <3>2
        <4>2. t[k - Len(s)] < limit
          BY <1>6, <4>1 DEF Leading
        <4> QED BY <1>1, <4>1, <4>2
      <3> QED BY <3>1, <3>2
    <2>3. ASSUME Len(s) + n < Len(w) PROVE w[Len(s) + n + 1] >= limit
      <3>1. n < Len(t) /\ n + 1 \in 1 .. Len(t) /\ Len(s) + n + 1 = Len(s) + (n + 1)
        BY <1>1, <2>1, <2>3
      <3>2. t[n + 1] >= limit
        BY <1>6, <3>1 DEF Leading
      <3> QED BY <1>1, <3>1, <3>2
    <2> QED BY <2>1, <2>2, <2>3 DEF Leading
  <1> QED BY <1>1, <1>4, <1>5, <1>6 DEF w

\* What is left when the leading offsets are dropped.
LEMMA Dropped ==
    ASSUME NEW s \in Seq(Nat), Ascends(s), NEW lower \in Nat, NEW m, Leading(s, lower, m)
    PROVE  LET t == SubSeq(s, m + 1, Len(s))
           IN  /\ t \in Seq(Nat) /\ Ascends(t) /\ \A k \in 1 .. Len(t) : lower <= t[k]
               /\ \A k \in 1 .. Len(t) : \E i \in 1 .. Len(s) : t[k] = s[i]
               /\ \A limit \in Nat : \A n :
                    lower <= limit /\ Leading(s, limit, n) => Leading(t, limit, n - m)
  <1> DEFINE t == SubSeq(s, m + 1, Len(s))
  <1>1. /\ Len(s) \in Nat /\ m \in 0 .. Len(s) /\ \A k \in 1 .. Len(s) : s[k] \in Nat
        /\ \A k \in 1 .. m : s[k] < lower
        /\ m < Len(s) => s[m + 1] >= lower
    BY DEF Leading
  <1>2. t \in Seq(Nat) /\ Len(t) = Len(s) - m /\ \A k \in 1 .. Len(t) : t[k] = s[m + k]
    <2>1. /\ m + 1 \in Int /\ Len(s) \in Int
          /\ \A i \in (m + 1) .. Len(s) : s[i] \in Nat
      BY <1>1
    <2>2. /\ t \in Seq(Nat) /\ Len(t) = IF m + 1 <= Len(s) THEN Len(s) - (m + 1) + 1 ELSE 0
          /\ \A i \in 1 .. Len(s) - (m + 1) + 1 : t[i] = s[m + 1 + i - 1]
      BY <2>1, SubSeqProperties
    <2> HIDE DEF t
    <2>3. Len(t) = Len(s) - m
      BY <1>1, <2>2
    <2>4. ASSUME NEW i \in 1 .. Len(t) PROVE t[i] = s[m + i]
      <3>1. i \in 1 .. Len(s) - (m + 1) + 1 /\ m + 1 + i - 1 = m + i
        BY <1>1, <2>3
      <3> QED BY <2>2, <3>1
    <2> QED BY <2>2, <2>3, <2>4
  <1> HIDE DEF t
  <1>3. \A k \in 1 .. Len(t) : m + k \in 1 .. Len(s) /\ m + 1 <= m + k /\ m + 1 \in 1 .. Len(s)
    BY <1>1, <1>2
  <1>4. Ascends(t)
    <2>1. SUFFICES ASSUME NEW j \in 1 .. Len(t), NEW k \in 1 .. Len(t), j <= k
                   PROVE  t[j] <= t[k]
      BY DEF Ascends
    <2>2. m + j <= m + k /\ m + j \in 1 .. Len(s) /\ m + k \in 1 .. Len(s)
      BY <1>1, <1>3, <2>1
    <2>3. s[m + j] <= s[m + k]
      BY <2>2 DEF Ascends
    <2> QED BY <1>2, <2>3
  <1>5. ASSUME NEW k \in 1 .. Len(t)
        PROVE  lower <= t[k]
    <2>1. s[m + 1] <= s[m + k] /\ s[m + 1] >= lower
      <3>1. m < Len(s)
        BY <1>1, <1>2
      <3> QED BY <1>1, <1>3, <3>1 DEF Ascends
    <2>2. s[m + 1] \in Nat /\ s[m + k] \in Nat
      BY <1>1, <1>3
    <2> QED BY <1>2, <2>1, <2>2
  <1>6. ASSUME NEW limit \in Nat, NEW n, lower <= limit, Leading(s, limit, n)
        PROVE  Leading(t, limit, n - m)
    <2>1. n \in 0 .. Len(s)
      BY <1>6 DEF Leading
    <2>2. m <= n
      <3>1. SUFFICES ASSUME n < m PROVE FALSE
        BY <1>1, <2>1
      <3>2. n + 1 \in 1 .. m /\ n < Len(s) /\ n + 1 \in 1 .. Len(s)
        BY <1>1, <2>1, <3>1
      <3>3. s[n + 1] >= limit /\ s[n + 1] < lower
        BY <1>1, <1>6, <3>2 DEF Leading
      <3> QED BY <1>1, <1>6, <3>2, <3>3
    <2>3. n - m \in 0 .. Len(t)
      BY <1>1, <1>2, <2>1, <2>2
    <2>4. ASSUME NEW k \in 1 .. (n - m) PROVE t[k] < limit
      <3>1. m + k \in 1 .. n /\ k \in 1 .. Len(t)
        BY <1>1, <2>1, <2>3
      <3> QED BY <1>2, <1>6, <3>1 DEF Leading
    <2>5. ASSUME n - m < Len(t) PROVE t[n - m + 1] >= limit
      <3>1. n < Len(s) /\ n - m + 1 \in 1 .. Len(t) /\ m + (n - m + 1) = n + 1
        BY <1>1, <1>2, <2>1, <2>3, <2>5
      <3>2. s[n + 1] >= limit
        BY <1>6, <3>1 DEF Leading
      <3> QED BY <1>2, <3>1, <3>2
    <2> QED BY <2>3, <2>4, <2>5 DEF Leading
  <1>7. \A k \in 1 .. Len(t) : \E i \in 1 .. Len(s) : t[k] = s[i]
    BY <1>2, <1>3
  <1> QED BY <1>2, <1>4, <1>5, <1>6, <1>7 DEF t

\* Every character takes at least as many bytes as units, and at least one.
LEMMA Weights ==
    ASSUME NEW host
    PROVE  /\ Bytes \in [Char -> Nat] /\ Bytes \in [Char -> Nat \ {0}]
           /\ UnitsOf(host) \in [Char -> Nat] /\ UnitsOf(host) \in [Char -> Nat \ {0}]
           /\ \A c \in Char : UnitsOf(host)[c] <= Bytes[c]
  BY DEF Bytes, Char, UnitsOf

LEMMA RecordedIs ==
    ASSUME binding \in Bindings, NEW c \in Char, NEW at \in Nat
    PROVE  LET r == recorded(c, at)
           IN  /\ r \in Seq(Nat) /\ Len(r) = Bytes[c] - UnitsOf(binding)[c] /\ Ascends(r)
               /\ \A k \in 1 .. Len(r) : at <= r[k] /\ r[k] < at + Bytes[c]
               /\ Leading(r, at, 0) /\ Leading(r, at + Bytes[c], Len(r))
  <1> DEFINE r == recorded(c, at)
             n == Bytes[c] - UnitsOf(binding)[c]
  <1>1. n \in Nat /\ n < Bytes[c] /\ Bytes[c] \in Nat
    BY Weights
  <1>2. /\ r \in Seq(Nat) /\ Len(r) = n
        /\ \A k \in 1 .. n : r[k] = IF binding = "python" THEN at + k ELSE at
    <2>1. CASE binding = "python"
      <3>1. r = [k \in 1 .. n |-> at + k]
        BY <2>1 DEF recorded, continuation_bytes
      <3> HIDE DEF r, n
      <3> QED BY <1>1, <2>1, <3>1
    <2>2. CASE binding # "python"
      <3>1. UnitsOf("node") = UnitsOf(binding)
        BY <2>2 DEF UnitsOf
      <3>2. r = [k \in 1 .. n |-> at]
        BY <2>2, <3>1 DEF recorded, utf16_discounts
      <3> HIDE DEF r, n
      <3> QED BY <1>1, <2>2, <3>2
    <2> QED BY <2>1, <2>2
  <1> HIDE DEF r
  <1>3. \A k \in 1 .. n : at <= r[k] /\ r[k] < at + Bytes[c]
    <2> HIDE DEF n
    <2> QED BY <1>1, <1>2
  <1>4. Ascends(r)
    <2> HIDE DEF n
    <2> QED BY <1>1, <1>2 DEF Ascends
  <1>5. Leading(r, at, 0) /\ Leading(r, at + Bytes[c], n)
    <2> HIDE DEF n
    <2>1. Leading(r, at, 0)
      BY <1>1, <1>2, <1>3 DEF Leading
    <2>2. Leading(r, at + Bytes[c], n)
      BY <1>1, <1>2, <1>3 DEF Leading
    <2> QED BY <2>1, <2>2
  <1> QED BY <1>2, <1>3, <1>4, <1>5 DEF r

\* What observe records of a chunk: up to each character of it, one offset for each byte that is
\* not a unit of its own.
LEMMA Observed ==
    ASSUME binding \in Bindings, NEW chunk \in Seq(Char), NEW at \in Nat
    PROVE  LET new == FlattenSeq([k \in 1 .. Len(chunk) |->
                          recorded(chunk[k], at + bytes(SubSeq(chunk, 1, k - 1)))])
           IN  /\ new \in Seq(Nat) /\ Ascends(new)
               /\ \A k \in 1 .. Len(new) : at <= new[k] /\ new[k] < at + bytes(chunk)
               /\ \A i \in 0 .. Len(chunk) :
                    Leading(new, at + bytes(SubSeq(chunk, 1, i)),
                            bytes(SubSeq(chunk, 1, i)) - units(binding, SubSeq(chunk, 1, i)))
  <1> DEFINE B(i) == bytes(SubSeq(chunk, 1, i))
             U(i) == units(binding, SubSeq(chunk, 1, i))
             L == Len(chunk)
             seqs == [k \in 1 .. L |-> recorded(chunk[k], at + B(k - 1))]
  <1>1. L \in Nat /\ Len(seqs) = L
    OBVIOUS
  <1>2. PICK f : Flattens(f, seqs)
    <2> HIDE DEF seqs
    <2> QED BY <1>1, FlattensExists
  <1> DEFINE F(j) == IF j = 0 THEN <<>> ELSE f[j]
             Holds(j) == /\ F(j) \in Seq(Nat) /\ Ascends(F(j)) /\ Len(F(j)) = B(j) - U(j)
                         /\ \A k \in 1 .. Len(F(j)) : at <= F(j)[k] /\ F(j)[k] < at + B(j)
                         /\ \A i \in 0 .. j : Leading(F(j), at + B(i), B(i) - U(i))
             Wrong == {j \in 0 .. L : ~Holds(j)}
  <1>3. /\ B(0) = 0 /\ \A i \in 0 .. L : B(i) \in Nat
        /\ \A i \in 1 .. L : B(i) = B(i - 1) + Bytes[chunk[i]]
        /\ bytes(chunk) = B(L)
    BY Weights, PrefixSizes DEF bytes
  <1>4. /\ U(0) = 0 /\ \A i \in 0 .. L : U(i) \in Nat
        /\ \A i \in 1 .. L : U(i) = U(i - 1) + UnitsOf(binding)[chunk[i]]
    BY Weights, PrefixSizes DEF units
  <1>5. FlattenSeq(seqs) = F(L)
    <2>1. CASE L = 0
      BY <1>1, <2>1 DEF FlattenSeq
    <2>2. CASE L # 0
      <3>1. L \in Nat \ {0}
        BY <1>1, <2>2
      <3> HIDE DEF seqs
      <3>2. FlattenSeq(seqs) = f[L]
        BY <1>1, <1>2, <3>1, FlattenSeqIs
      <3> QED BY <2>2, <3>2
    <2> QED BY <2>1, <2>2
  <1>6. ASSUME NEW j \in 1 .. L
        PROVE  F(j) = F(j - 1) \o recorded(chunk[j], at + B(j - 1))
    <2>1. seqs[j] = recorded(chunk[j], at + B(j - 1))
      OBVIOUS
    <2>2. f[j] = IF j = 1 THEN seqs[j] ELSE f[j - 1] \o seqs[j]
      <3>1. j \in 1 .. Len(seqs)
        BY <1>1
      <3> HIDE DEF seqs
      <3> QED BY <1>2, <3>1, FlattensAt
    <2>3. recorded(chunk[j], at + B(j - 1)) \in Seq(Nat)
      <3>1. at + B(j - 1) \in Nat /\ chunk[j] \in Char
        BY <1>1, <1>3
      <3> QED BY <3>1, RecordedIs
    <2>4. <<>> \o recorded(chunk[j], at + B(j - 1)) = recorded(chunk[j], at + B(j - 1))
      BY <2>3, ConcatEmptySeq
    <2>5. F(j) = f[j] /\ F(j - 1) = IF j = 1 THEN <<>> ELSE f[j - 1]
      OBVIOUS
    <2> HIDE DEF F, seqs
    <2>6. CASE j = 1
      BY <2>1, <2>2, <2>4, <2>5, <2>6
    <2>7. CASE j # 1
      BY <2>1, <2>2, <2>5, <2>7
    <2> QED BY <2>6, <2>7
  <1> HIDE DEF B, U, F, seqs
  <1>7. Holds(0)
    <2>1. F(0) = <<>>
      BY DEF F
    <2>2. Leading(<<>>, at + B(0), B(0) - U(0))
      BY <1>3, <1>4 DEF Leading
    <2>3. <<>> \in Seq(Nat) /\ Len(<<>>) = 0 /\ Ascends(<<>>)
      BY DEF Ascends
    <2>4. \A i \in 0 .. 0 : i = 0
      OBVIOUS
    <2>5. \A i \in 0 .. 0 : Leading(<<>>, at + B(i), B(i) - U(i))
      BY <2>2, <2>4
    <2>6. Len(<<>>) = B(0) - U(0) /\ \A k \in 1 .. Len(<<>>) : FALSE
      BY <1>3, <1>4, <2>3
    <2> QED BY <2>1, <2>3, <2>5, <2>6
  <1>8. ASSUME NEW j \in 1 .. L, Holds(j - 1)
        PROVE  Holds(j)
    <2> DEFINE s == F(j - 1)
               r == recorded(chunk[j], at + B(j - 1))
               m == at + B(j - 1)
               c == chunk[j]
    <2>1. /\ c \in Char /\ m \in Nat /\ j - 1 \in 0 .. L /\ B(j - 1) \in Nat /\ U(j - 1) \in Nat
          /\ B(j) = B(j - 1) + Bytes[c] /\ U(j) = U(j - 1) + UnitsOf(binding)[c]
          /\ Bytes[c] \in Nat /\ UnitsOf(binding)[c] \in Nat
      BY <1>1, <1>3, <1>4, Weights
    <2>2. /\ r \in Seq(Nat) /\ Len(r) = Bytes[c] - UnitsOf(binding)[c] /\ Ascends(r)
          /\ \A k \in 1 .. Len(r) : m <= r[k] /\ r[k] < m + Bytes[c]
          /\ Leading(r, m, 0) /\ Leading(r, m + Bytes[c], Len(r))
      BY <2>1, RecordedIs
    <2>3. /\ s \in Seq(Nat) /\ Ascends(s) /\ Len(s) = B(j - 1) - U(j - 1)
          /\ \A k \in 1 .. Len(s) : at <= s[k] /\ s[k] < m
          /\ \A i \in 0 .. j - 1 : Leading(s, at + B(i), B(i) - U(i))
      BY <1>8
    <2>4. F(j) = s \o r
      BY <1>6
    <2> HIDE DEF s, r, m, c
    <2>5. /\ s \o r \in Seq(Nat) /\ Len(s \o r) = Len(s) + Len(r) /\ Ascends(s \o r)
          /\ \A k \in 1 .. Len(s) : (s \o r)[k] = s[k]
          /\ \A k \in 1 .. Len(r) : (s \o r)[Len(s) + k] = r[k]
          /\ \A limit \in Nat : \A n : limit <= m /\ Leading(s, limit, n) => Leading(s \o r, limit, n)
          /\ \A limit \in Nat : \A n :
                m <= limit /\ Leading(r, limit, n) => Leading(s \o r, limit, Len(s) + n)
      BY <2>1, <2>2, <2>3, Joined
    <2>6. Len(s \o r) = B(j) - U(j)
      <3>1. Len(s \o r) = (B(j - 1) - U(j - 1)) + (Bytes[c] - UnitsOf(binding)[c])
        BY <2>2, <2>3, <2>5
      <3> QED BY <2>1, <3>1
    <2>7. at + B(j) = m + Bytes[c] /\ at <= m /\ m <= at + B(j)
      BY <2>1 DEF m
    <2>8. ASSUME NEW k \in 1 .. Len(s \o r)
          PROVE  at <= (s \o r)[k] /\ (s \o r)[k] < at + B(j)
      <3>1. Len(s) \in Nat /\ Len(r) \in Nat
        BY <2>2, <2>3
      <3>2. CASE k \in 1 .. Len(s)
        <4>1. at <= s[k] /\ s[k] < m /\ s[k] \in Nat /\ (s \o r)[k] = s[k]
          BY <2>3, <2>5, <3>2
        <4>2. at + B(j) \in Nat
          BY <2>1
        <4> QED BY <2>1, <2>7, <4>1, <4>2
      <3>3. CASE k \notin 1 .. Len(s)
        <4>1. k - Len(s) \in 1 .. Len(r) /\ k = Len(s) + (k - Len(s))
          BY <2>5, <3>1, <3>3
        <4>2. m <= r[k - Len(s)] /\ r[k - Len(s)] < m + Bytes[c] /\ r[k - Len(s)] \in Nat
          BY <2>2, <4>1
        <4>3. (s \o r)[k] = r[k - Len(s)]
          BY <2>5, <4>1
        <4> QED BY <2>1, <2>7, <4>2, <4>3
      <3> QED BY <3>2, <3>3
    <2>9. ASSUME NEW i \in 0 .. j
          PROVE  Leading(s \o r, at + B(i), B(i) - U(i))
      <3>1. CASE i = j
        <4>1. Leading(s \o r, at + B(j), Len(s) + Len(r))
          <5>1. Leading(r, at + B(j), Len(r))
            BY <2>2, <2>7
          <5>2. at + B(j) \in Nat /\ m <= at + B(j)
            BY <2>1, <2>7
          <5> QED BY <2>5, <5>1, <5>2
        <4> QED BY <2>5, <2>6, <3>1, <4>1
      <3>2. CASE i # j
        <4>1. i \in 0 .. j - 1 /\ i \in 0 .. L
          BY <1>1, <3>2
        <4>2. Leading(s, at + B(i), B(i) - U(i)) /\ at + B(i) \in Nat
          BY <1>3, <2>3, <4>1
        <4>3. at + B(i) <= m
          <5>1. B(i) <= B(j - 1)
            <6>1. i < j - 1 => B(i) < B(j - 1)
              BY <1>1, <2>1, <4>1, Weights, PrefixesGrow DEF B, bytes
            <6>2. i = j - 1 => B(i) = B(j - 1)
              OBVIOUS
            <6>3. i = j - 1 \/ i < j - 1
              BY <1>1, <4>1
            <6>4. B(i) \in Nat /\ B(j - 1) \in Nat
              BY <1>3, <2>1, <4>1
            <6> QED BY <6>1, <6>2, <6>3, <6>4
          <5> QED BY <1>3, <2>1, <4>1, <5>1 DEF m
        <4> QED BY <2>5, <4>2, <4>3
      <3> QED BY <3>1, <3>2
    <2> QED BY <2>4, <2>5, <2>6, <2>8, <2>9
  <1>9. Holds(L)
    <2>1. SUFFICES ASSUME Wrong # {} PROVE FALSE
      BY <1>1
    <2>2. Wrong \subseteq Nat
      BY <1>1
    <2>3. PICK j \in Wrong : \A m \in Wrong : j <= m
      <3> HIDE DEF Wrong
      <3> QED BY <2>1, <2>2, LeastElement
    <2>4. j \in 0 .. L /\ ~Holds(j) /\ \A m \in 0 .. L : ~Holds(m) => j <= m
      BY <2>3
    <2> HIDE DEF Holds, Wrong
    <2>5. j \in 1 .. L /\ j - 1 \in 0 .. L /\ Holds(j - 1)
      BY <1>1, <1>7, <2>4
    <2> QED BY <1>8, <2>4, <2>5
  <1>10. FlattenSeq(seqs) \in Seq(Nat) /\ Ascends(FlattenSeq(seqs))
    BY <1>5, <1>9
  <1>11. \A k \in 1 .. Len(FlattenSeq(seqs)) :
            at <= FlattenSeq(seqs)[k] /\ FlattenSeq(seqs)[k] < at + bytes(chunk)
    BY <1>3, <1>5, <1>9
  <1>12. \A i \in 0 .. Len(chunk) : Leading(FlattenSeq(seqs), at + B(i), B(i) - U(i))
    BY <1>5, <1>9
  <1> QED BY <1>10, <1>11, <1>12 DEF seqs, B, U

---------------------------------------------------------------------------
(* The inductive invariant of a session. *)

SessionShape ==
    /\ binding \in Bindings /\ SessionTypeOK
    /\ discounts \in Seq(Nat)
    /\ answered \in {Silent} \cup [of : {"policy"}, answer : PolicyAnswers]
                             \cup [of : {"formatter"}, answer : FormatterAnswers]

\* Only a session that accepts text runs a call or remembers an offset.
Idle ==
    /\ core_state = "None" =>
          text = <<>> /\ total_bytes = 0 /\ floor = 0 /\ below_floor = 0 /\ settled = 0
    /\ core_state # "Accepting" => calling = "None" /\ discounts = <<>>

\* The offsets at hand are the ones of the text from the floor on, in order, and what was pruned
\* is counted: up to every boundary that is not pruned, one for each byte that is not a unit.
IndexCovers ==
    core_state = "Accepting" =>
        /\ Ascends(discounts)
        /\ \A k \in 1 .. Len(discounts) : floor <= discounts[k] /\ discounts[k] < total_bytes
        /\ \A k \in 0 .. Len(text) :
              LET b == bytes(SubSeq(text, 1, k))
              IN  floor <= b =>
                    Leading(discounts, b, b - units(binding, SubSeq(text, 1, k)) - below_floor)

\* The floor follows the buffer limit, and never passes what is settled.
FloorFollows ==
    core_state = "Accepting" =>
        /\ floor = 0 \/ floor + max_buffered_bytes <= total_bytes
        /\ floor <= settled
        /\ calling = "None" => total_bytes - floor <= max_buffered_bytes

\* The error of a callback that failed, with the reason an adapter recorded: what a one-shot call
\* would report.
CallbackError ==
    IF answered.of = "formatter" THEN formatter_error(answered.answer)
    ELSE IF binding = "wasm" /\ answered.answer = "unknown" THEN "INVALID_POLICY_ACTION"
    ELSE policy_error(answered.answer)
CallbackFails ==
    calling # "None" =>
        /\ current_env = (binding = "node")
        /\ core_error # "None" /\ answered # Silent =>
              IF answered.of = "formatter" THEN core_error = CallbackError
              ELSE core_error = "POLICY_FAILURE" /\ policy_failure = CallbackError
                   /\ policy_failure # "None"

SInv ==
    /\ SessionShape /\ Idle /\ IndexCovers /\ FloorFollows /\ CallbackFails
    /\ OffsetsExact /\ SameErrorEitherWay

---------------------------------------------------------------------------
(* Offsets. *)

LEMMA BoundariesAre ==
    ASSUME NEW u \in Seq(Char)
    PROVE  /\ bytes(u) \in Nat /\ Boundaries(u) \subseteq 0 .. bytes(u)
           /\ 0 \in Boundaries(u) /\ bytes(<<>>) = 0
           /\ \A k \in 0 .. Len(u) : bytes(SubSeq(u, 1, k)) \in 0 .. bytes(u)
  <1> DEFINE B(k) == bytes(SubSeq(u, 1, k))
  <1>1. /\ Len(u) \in Nat /\ B(0) = 0 /\ bytes(u) = B(Len(u))
        /\ \A k \in 0 .. Len(u) : B(k) \in Nat
    BY Weights, PrefixSizes DEF bytes
  <1>2. \A k \in 0 .. Len(u) : k < Len(u) => B(k) < B(Len(u))
    <2>1. Len(u) \in 0 .. Len(u)
      BY <1>1
    <2> QED BY <2>1, Weights, PrefixesGrow DEF bytes
  <1>3. bytes(<<>>) = 0
    <2> DEFINE e == <<>>
    <2>1. e \in Seq(Char) /\ Len(e) = 0 /\ Bytes \in [Char -> Nat]
      BY Weights
    <2> HIDE DEF e
    <2>2. size(e, Bytes) = size(SubSeq(e, 1, Len(e)), Bytes) /\ size(SubSeq(e, 1, 0), Bytes) = 0
      BY <2>1, PrefixSizes
    <2> QED BY <2>1, <2>2 DEF bytes, e
  <1> HIDE DEF B
  <1>4. ASSUME NEW k \in 0 .. Len(u) PROVE B(k) \in 0 .. bytes(u)
    <2>1. k = Len(u) \/ k < Len(u)
      BY <1>1
    <2>2. Len(u) \in 0 .. Len(u)
      BY <1>1
    <2> QED BY <1>1, <1>2, <2>1, <2>2
  <1>5. 0 \in 0 .. Len(u) /\ bytes(u) \in Nat
    <2>1. Len(u) \in 0 .. Len(u)
      BY <1>1
    <2> QED BY <1>1, <2>1
  <1>6. Boundaries(u) = {B(k) : k \in 0 .. Len(u)}
    BY DEF Boundaries, B
  <1>7. 0 \in Boundaries(u)
    BY <1>1, <1>5, <1>6
  <1> QED BY <1>3, <1>4, <1>5, <1>6, <1>7 DEF B

\* A byte offset names one character boundary at most.
LEMMA ReferenceIs ==
    ASSUME NEW host, NEW u \in Seq(Char), NEW k \in 0 .. Len(u)
    PROVE  Reference(host, u, bytes(SubSeq(u, 1, k))) = units(host, SubSeq(u, 1, k))
  <1> DEFINE b == bytes(SubSeq(u, 1, k))
             j == CHOOSE j \in 0 .. Len(u) : bytes(SubSeq(u, 1, j)) = b
  <1>1. j \in 0 .. Len(u) /\ bytes(SubSeq(u, 1, j)) = b
    OBVIOUS
  <1>2. Reference(host, u, b) = units(host, SubSeq(u, 1, j))
    BY DEF Reference
  <1>3. \A i \in 0 .. Len(u) : bytes(SubSeq(u, 1, i)) \in Nat
    BY BoundariesAre
  <1> HIDE DEF j
  <1>4. ~(j < k) /\ ~(k < j)
    <2>1. j < k => bytes(SubSeq(u, 1, j)) < b
      BY <1>1, Weights, PrefixesGrow DEF bytes
    <2>2. k < j => b < bytes(SubSeq(u, 1, j))
      BY <1>1, Weights, PrefixesGrow DEF bytes
    <2> HIDE DEF b
    <2>3. b \in Nat
      BY <1>3 DEF b
    <2> QED BY <1>1, <2>1, <2>2, <2>3
  <1>5. j = k
    BY <1>1, <1>4
  <1> QED BY <1>2, <1>5

LEMMA UnitsAre ==
    ASSUME NEW host, NEW u \in Seq(Char), NEW k \in 0 .. Len(u)
    PROVE  units(host, SubSeq(u, 1, k)) \in Nat
  BY Weights, PrefixSizes DEF units

\* Every boundary from the floor on is converted, and exactly.
LEMMA OffsetIs ==
    ASSUME SInv, core_state = "Accepting", NEW b \in Boundaries(text), floor <= b
    PROVE  offset(b) = Reference(binding, text, b) /\ offset(b) # NoOffset
  <1>1. /\ text \in Seq(Char) /\ discounts \in Seq(Nat) /\ below_floor \in Nat /\ floor \in Nat
    <2>1. total_bytes \in Nat
      BY BoundariesAre DEF SInv, SessionShape, SessionTypeOK, IndexTypeOK
    <2> QED BY <2>1 DEF SInv, SessionShape, SessionTypeOK, IndexTypeOK
  <1>2. PICK k \in 0 .. Len(text) : b = bytes(SubSeq(text, 1, k))
    BY DEF Boundaries
  <1> DEFINE U == units(binding, SubSeq(text, 1, k))
  <1>3. b \in Nat /\ U \in Nat
    <2>1. b \in 0 .. bytes(text) /\ bytes(text) \in Nat
      BY <1>1, <1>2, BoundariesAre
    <2> QED BY <1>1, <2>1, UnitsAre
  <1>4. Leading(discounts, b, b - U - below_floor)
    BY <1>2 DEF SInv, IndexCovers
  <1>5. below(b) = b - U - below_floor
    BY <1>1, <1>3, <1>4, BelowIs
  <1>6. Reference(binding, text, b) = U
    BY <1>1, <1>2, ReferenceIs
  <1> HIDE DEF U
  <1>7. offset(b) = b - (below_floor + below(b))
    BY <1>1, <1>3 DEF offset
  <1>8. offset(b) = U
    BY <1>1, <1>3, <1>5, <1>7
  <1> QED BY <1>3, <1>6, <1>8 DEF NoOffset

\* What the host is told of a range of this call.
LEMMA TellsExactly ==
    ASSUME SInv, core_state = "Accepting", NEW r \in FindingRanges
    PROVE  /\ ~unconvertible(r)
           /\ tell(r).start = Reference(binding, text, tell(r).from)
           /\ tell(r).end = Reference(binding, text, tell(r).to)
  <1>1. /\ r.from \in Boundaries(text) /\ r.to \in Boundaries(text)
        /\ settled <= r.from /\ r.from < r.to
    BY DEF FindingRanges
  <1>2. text \in Seq(Char) /\ settled \in 0 .. total_bytes /\ floor \in 0 .. total_bytes
    BY DEF SInv, SessionShape, SessionTypeOK, IndexTypeOK
  <1>3. r.from \in Nat /\ r.to \in Nat /\ settled \in Nat /\ floor \in Nat /\ total_bytes \in Nat
    <2>1. bytes(text) \in Nat /\ Boundaries(text) \subseteq 0 .. bytes(text)
      BY <1>2, BoundariesAre
    <2>2. total_bytes = bytes(text)
      BY DEF SInv, SessionShape, SessionTypeOK, IndexTypeOK
    <2> QED BY <1>1, <1>2, <2>1, <2>2
  <1>4. floor <= settled
    BY DEF SInv, FloorFollows
  <1>5. floor <= r.from /\ floor <= r.to
    BY <1>1, <1>3, <1>4
  <1>6. /\ offset(r.from) = Reference(binding, text, r.from) /\ offset(r.from) # NoOffset
        /\ offset(r.to) = Reference(binding, text, r.to) /\ offset(r.to) # NoOffset
    BY <1>1, <1>5, OffsetIs
  <1> QED BY <1>6 DEF unconvertible, tell

LEMMA NothingIsExact ==
    ASSUME NEW host, NEW u \in Seq(Char)
    PROVE  Reference(host, u, 0) = 0
  <1>1. 0 \in 0 .. Len(u) /\ bytes(SubSeq(u, 1, 0)) = 0 /\ units(host, SubSeq(u, 1, 0)) = 0
    BY Weights, PrefixSizes DEF bytes, units
  <1> QED BY <1>1, ReferenceIs

LEMMA WithinSeq ==
    ASSUME NEW n \in Nat, NEW s \in Seq(Nat), \A k \in 1 .. Len(s) : s[k] <= n
    PROVE  s \in Seq(0 .. n)
  <1>1. \A k \in 1 .. Len(s) : s[k] \in 0 .. n
    OBVIOUS
  <1>2. s = [k \in 1 .. Len(s) |-> s[k]] /\ Len(s) \in Nat
    OBVIOUS
  <1> QED BY <1>1, <1>2

---------------------------------------------------------------------------
(* Steps of a session that leave its text and its index alone. *)

\* The types of a session's variables, as numbers.
LEMMA SessionNumbers ==
    ASSUME SInv
    PROVE  /\ text \in Seq(Char) /\ discounts \in Seq(Nat) /\ Len(text) \in Nat
           /\ total_bytes = bytes(text) /\ total_bytes \in Nat
           /\ below_floor \in Nat /\ floor \in Nat /\ floor <= total_bytes
           /\ settled \in Nat /\ settled <= total_bytes
           /\ max_buffered_bytes \in Nat \ {0}
           /\ binding \in Bindings
  <1>1. text \in Seq(Char) /\ total_bytes = bytes(text)
    BY DEF SInv, SessionShape, SessionTypeOK, IndexTypeOK
  <1>2. total_bytes \in Nat
    BY <1>1, BoundariesAre
  <1> QED BY <1>1, <1>2, HostText DEF SInv, SessionShape, SessionTypeOK, IndexTypeOK

LEMMA IndexKept ==
    ASSUME SInv, UNCHANGED <<binding, text, index, settled, core_state>>
    PROVE  /\ IndexTypeOK' /\ discounts' \in Seq(Nat)
           /\ IndexCovers'
           /\ calling' # "None" \/ UNCHANGED calling => FloorFollows'
           /\ UNCHANGED calling \/ core_state = "Accepting" => Idle'
  <1>1. /\ UNCHANGED <<binding, text, settled, core_state>>
        /\ UNCHANGED <<discounts, below_floor, floor, total_bytes>>
    BY DEF index
  <1>2. IndexTypeOK' /\ discounts' \in Seq(Nat)
    BY <1>1 DEF SInv, SessionShape, SessionTypeOK, IndexTypeOK
  <1>3. IndexCovers'
    BY <1>1 DEF SInv, IndexCovers
  <1>4. calling' # "None" \/ UNCHANGED calling => FloorFollows'
    BY <1>1 DEF SInv, FloorFollows
  <1>5. UNCHANGED calling \/ core_state = "Accepting" => Idle'
    BY <1>1 DEF SInv, Idle
  <1> QED BY <1>2, <1>3, <1>4, <1>5

\* What the host was told stays exact while the text stays.
LEMMA ToldKept ==
    ASSUME SInv, UNCHANGED <<binding, text>>,
           told' = told \/ told' = Nothing \/ \E r \in FindingRanges :
                core_state = "Accepting" /\ told' = tell(r)
    PROVE  OffsetsExact'
  <1>1. CASE told' = told
    BY <1>1 DEF SInv, OffsetsExact
  <1>2. CASE told' = Nothing
    <2>1. Reference(binding, text, 0) = 0
      BY SessionNumbers, NothingIsExact
    <2> QED BY <1>2, <2>1 DEF OffsetsExact, Nothing
  <1>3. ASSUME NEW r \in FindingRanges, core_state = "Accepting", told' = tell(r)
        PROVE  OffsetsExact'
    BY <1>3, TellsExactly DEF OffsetsExact
  <1> QED BY <1>1, <1>2, <1>3

LEMMA CreateKeeps ==
    ASSUME SInv, UNCHANGED binding, Create \/ CreateRefused
    PROVE  SInv'
  <1>1. /\ core_state = "None" /\ core_state' \in {"None", "Accepting"}
        /\ UNCHANGED <<text, discounts, below_floor, floor, total_bytes, settled, calling,
                       core_error, answered, policy_failure, current_env, told>>
    BY DEF Create, CreateRefused, index
  <1>2. /\ text = <<>> /\ total_bytes = 0 /\ floor = 0 /\ below_floor = 0 /\ settled = 0
        /\ calling = "None" /\ discounts = <<>>
    BY <1>1 DEF SInv, Idle
  <1>3. SessionShape'
    BY <1>1 DEF SInv, SessionShape, SessionTypeOK, IndexTypeOK
  <1>4. Idle'
    BY <1>1, <1>2 DEF Idle
  <1>5. FloorFollows'
    <2>1. 0 <= max_buffered_bytes
      BY SessionNumbers
    <2> QED BY <1>1, <1>2, <2>1 DEF FloorFollows
  <1>6. IndexCovers'
    <2>1. bytes(SubSeq(text, 1, 0)) = 0 /\ units(binding, SubSeq(text, 1, 0)) = 0
      BY SessionNumbers, Weights, PrefixSizes DEF bytes, units
    <2>2. Len(<<>>) = 0 /\ Ascends(<<>>) /\ Leading(<<>>, 0, 0)
      BY DEF Ascends, Leading
    <2>3. \A k \in 0 .. Len(text) : k = 0
      BY <1>2, <2>2
    <2>4. 0 - 0 - 0 = 0
      OBVIOUS
    <2> QED BY <1>1, <1>2, <2>1, <2>2, <2>3, <2>4 DEF IndexCovers
  <1>7. CallbackFails'
    BY <1>1, <1>2 DEF CallbackFails
  <1>8. OffsetsExact'
    BY <1>1, ToldKept
  <1>9. SameErrorEitherWay'
    BY <1>1 DEF SameErrorEitherWay
  <1> QED BY <1>3, <1>4, <1>5, <1>6, <1>7, <1>8, <1>9 DEF SInv

LEMMA BeginFinalizeKeeps ==
    ASSUME SInv, UNCHANGED binding, BeginFinalize
    PROVE  SInv'
  <1>1. /\ core_state = "Accepting"
        /\ UNCHANGED <<text, index, core_state, settled, policy_failure>>
        /\ calling' = "finalize" /\ core_error' = "None" /\ answered' = Silent
        /\ current_env' = (binding = "node") /\ told' = Nothing
    BY DEF BeginFinalize, require_accepting, enter
  <1>2. IndexTypeOK' /\ discounts' \in Seq(Nat) /\ IndexCovers' /\ FloorFollows' /\ Idle'
    BY <1>1, IndexKept
  <1>3. SessionShape'
    <2>1. current_env' \in BOOLEAN
      BY <1>1
    <2>2. answered'.answer = "none"
      BY <1>1 DEF Silent
    <2>3. settled' \in 0 .. total_bytes'
      BY <1>1 DEF SInv, SessionShape, SessionTypeOK, index
    <2> QED BY <1>1, <1>2, <2>1, <2>2, <2>3 DEF SInv, SessionShape, SessionTypeOK
  <1>4. CallbackFails'
    BY <1>1 DEF CallbackFails
  <1>5. OffsetsExact'
    BY <1>1, ToldKept
  <1>6. SameErrorEitherWay'
    BY <1>1 DEF SameErrorEitherWay
  <1> QED BY <1>2, <1>3, <1>4, <1>5, <1>6 DEF SInv

LEMMA RefusedKeeps ==
    ASSUME SInv, UNCHANGED binding, AppendNotText \/ Refused
    PROVE  SInv'
  <1>1. /\ UNCHANGED <<text, index, core_state, settled, calling, core_error, policy_failure,
                       current_env>>
        /\ answered' = Silent /\ told' = Nothing
    BY DEF AppendNotText, Refused, refuse
  <1>2. calling = "None"
    BY DEF SInv, Idle, AppendNotText, Refused
  <1>3. IndexTypeOK' /\ discounts' \in Seq(Nat) /\ IndexCovers' /\ FloorFollows' /\ Idle'
    BY <1>1, IndexKept
  <1>4. SessionShape'
    <2>1. answered'.answer = "none"
      BY <1>1 DEF Silent
    <2>2. settled' \in 0 .. total_bytes'
      BY <1>1 DEF SInv, SessionShape, SessionTypeOK, index
    <2> QED BY <1>1, <1>3, <2>1, <2>2 DEF SInv, SessionShape, SessionTypeOK
  <1>5. CallbackFails'
    BY <1>1, <1>2 DEF CallbackFails
  <1>6. OffsetsExact'
    BY <1>1, ToldKept
  <1>7. SameErrorEitherWay'
    BY <1>1 DEF SameErrorEitherWay
  <1> QED BY <1>3, <1>4, <1>5, <1>6, <1>7 DEF SInv

---------------------------------------------------------------------------
(* Callbacks. *)

\* What the steps inside a call have in common.
LEMMA CallbackKeeps ==
    ASSUME SInv, core_runs,
           UNCHANGED <<binding, text, index, core_state, settled, calling, current_env>>,
           OffsetsExact', CallbackFails',
           answered' \in {Silent} \cup [of : {"policy"}, answer : PolicyAnswers]
                                  \cup [of : {"formatter"}, answer : FormatterAnswers]
    PROVE  SInv'
  <1>1. core_state = "Accepting" /\ calling # "None"
    BY DEF SInv, Idle, core_runs
  <1>2. IndexTypeOK' /\ discounts' \in Seq(Nat) /\ IndexCovers' /\ FloorFollows' /\ Idle'
    BY IndexKept
  <1>3. SessionShape'
    <2>1. answered'.answer \in PolicyAnswers \cup FormatterAnswers \cup {"none"}
      BY DEF Silent
    <2>2. settled' \in 0 .. total_bytes'
      BY DEF SInv, SessionShape, SessionTypeOK, index
    <2> QED BY <1>2, <2>1, <2>2 DEF SInv, SessionShape, SessionTypeOK
  <1>4. SameErrorEitherWay'
    BY <1>1 DEF SameErrorEitherWay
  <1> QED BY <1>2, <1>3, <1>4 DEF SInv

LEMMA EvaluatePolicyKeeps ==
    ASSUME SInv, UNCHANGED binding, NEW r \in FindingRanges, NEW answer \in PolicyAnswers,
           EvaluatePolicy(r, answer)
    PROVE  SInv'
  <1>1. core_runs
    BY DEF EvaluatePolicy
  <1>2. core_state = "Accepting" /\ calling # "None" /\ current_env = (binding = "node")
    BY <1>1 DEF SInv, Idle, core_runs, CallbackFails
  <1>3. ~unconvertible(r)
    BY <1>2, TellsExactly
  <1> DEFINE failure == recorded_failure(answer)
  <1>4. /\ told' = tell(r) /\ answered' = [of |-> "policy", answer |-> answer]
        /\ policy_failure' = IF failure = "None" THEN policy_failure ELSE failure
        /\ core_error' = IF failure = "None" THEN "None" ELSE "POLICY_FAILURE"
        /\ UNCHANGED <<text, index, core_state, settled, calling, current_env>>
    BY <1>3 DEF EvaluatePolicy
  <1>5. failure # "None" =>
           failure = IF binding = "wasm" /\ answer = "unknown" THEN "INVALID_POLICY_ACTION"
                     ELSE policy_error(answer)
    <2>1. binding \in {"python", "node", "wasm"}
      BY SessionNumbers DEF Bindings
    <2>2. CASE binding = "python"
      BY <2>2 DEF recorded_failure, python_failure, policy_error, call_python_policy, Actions,
                  PolicyAnswers
    <2>3. CASE binding = "node"
      BY <1>2, <2>3 DEF recorded_failure, node_failure, policy_error, node_policy_error, Actions,
                        PolicyAnswers
    <2>4. CASE binding = "wasm"
      BY <2>4 DEF recorded_failure, wasm_failure, policy_error, JsPolicy, Actions, PolicyAnswers
    <2> QED BY <2>1, <2>2, <2>3, <2>4
  <1> HIDE DEF failure
  <1>6. CallbackFails'
    <2>1. answered'.of = "policy" /\ answered'.answer = answer
      BY <1>4
    <2>2. CallbackError' = IF binding = "wasm" /\ answer = "unknown" THEN "INVALID_POLICY_ACTION"
                           ELSE policy_error(answer)
      BY <2>1 DEF CallbackError, policy_error
    <2> QED BY <1>2, <1>4, <1>5, <2>1, <2>2 DEF CallbackFails
  <1>7. OffsetsExact'
    BY <1>2, <1>4, ToldKept
  <1>8. answered' \in [of : {"policy"}, answer : PolicyAnswers]
    BY <1>4
  <1> QED BY <1>1, <1>4, <1>6, <1>7, <1>8, CallbackKeeps

LEMMA FormatPlaceholderKeeps ==
    ASSUME SInv, UNCHANGED binding, NEW r \in FindingRanges, NEW answer \in FormatterAnswers,
           FormatPlaceholder(r, answer)
    PROVE  SInv'
  <1>1. core_runs
    BY DEF FormatPlaceholder
  <1>2. core_state = "Accepting" /\ calling # "None" /\ current_env = (binding = "node")
    BY <1>1 DEF SInv, Idle, core_runs, CallbackFails
  <1>3. ~unconvertible(r)
    BY <1>2, TellsExactly
  <1>4. /\ told' = tell(r) /\ answered' = [of |-> "formatter", answer |-> answer]
        /\ UNCHANGED <<text, index, core_state, settled, calling, policy_failure, current_env>>
        /\ core_error' # "None" => core_error' = "PLACEHOLDER_FAILURE" /\ answer # "string"
    BY <1>2, <1>3 DEF FormatPlaceholder, node_format_fails, format_fails
  <1>5. CallbackFails'
    <2>1. answered'.of = "formatter" /\ answered'.answer = answer
      BY <1>4
    <2>2. answer # "string" => CallbackError' = "PLACEHOLDER_FAILURE"
      BY <2>1 DEF CallbackError, formatter_error
    <2> QED BY <1>2, <1>4, <2>1, <2>2 DEF CallbackFails
  <1>6. OffsetsExact'
    BY <1>2, <1>4, ToldKept
  <1>7. answered' \in [of : {"formatter"}, answer : FormatterAnswers]
    BY <1>4
  <1> QED BY <1>1, <1>4, <1>5, <1>6, <1>7, CallbackKeeps

LEMMA CoreRefusesKeeps ==
    ASSUME SInv, UNCHANGED binding, NEW code, CoreRefuses(code)
    PROVE  SInv'
  <1>1. /\ core_runs /\ answered' = Silent
        /\ UNCHANGED <<text, index, core_state, settled, calling, current_env, told>>
    BY DEF CoreRefuses
  <1>2. CallbackFails'
    BY <1>1 DEF SInv, CallbackFails
  <1>3. OffsetsExact'
    BY <1>1, ToldKept
  <1> QED BY <1>1, <1>2, <1>3, CallbackKeeps

---------------------------------------------------------------------------
(* Appending: the index observes the chunk. *)

\* The offsets at hand are as many as the text has bytes that are not units, less the pruned ones.
LEMMA AllLead ==
    ASSUME SInv, core_state = "Accepting"
    PROVE  /\ units(binding, text) \in Nat
           /\ Len(discounts) = total_bytes - units(binding, text) - below_floor
  <1> DEFINE n == Len(text)
  <1>1. /\ text \in Seq(Char) /\ n \in 0 .. Len(text) /\ discounts \in Seq(Nat)
        /\ total_bytes = bytes(text) /\ total_bytes \in Nat /\ floor <= total_bytes
        /\ below_floor \in Nat /\ Len(discounts) \in Nat
    BY SessionNumbers
  <1>2. SubSeq(text, 1, n) = text
    BY <1>1, SubSeqFull
  <1>3. units(binding, text) \in Nat
    BY <1>1, <1>2, UnitsAre
  <1>4. Leading(discounts, total_bytes, total_bytes - units(binding, text) - below_floor)
    BY <1>1, <1>2 DEF SInv, IndexCovers
  <1>5. Leading(discounts, total_bytes, Len(discounts))
    BY <1>1 DEF SInv, IndexCovers, Leading
  <1> QED BY <1>1, <1>3, <1>4, <1>5, LeadingIs

LEMMA BeginAppendKeeps ==
    ASSUME SInv, UNCHANGED binding, NEW chunk \in Chunks, BeginAppend(chunk)
    PROVE  SInv'
  <1> DEFINE new == FlattenSeq([k \in 1 .. Len(chunk) |->
                          recorded(chunk[k], total_bytes + bytes(SubSeq(chunk, 1, k - 1)))])
             Bc(j) == bytes(SubSeq(chunk, 1, j))
             Uc(j) == units(binding, SubSeq(chunk, 1, j))
  <1>1. /\ core_state = "Accepting" /\ calling = "None"
        /\ discounts' = discounts \o new
        /\ total_bytes' = total_bytes + bytes(chunk)
        /\ text' = text \o chunk
        /\ calling' = "append" /\ core_error' = "None" /\ answered' = Silent
        /\ current_env' = (binding = "node") /\ told' = Nothing
        /\ UNCHANGED <<below_floor, floor, core_state, settled, policy_failure, error>>
    BY DEF BeginAppend, require_accepting, enter, observe
  <1>2. /\ text \in Seq(Char) /\ Len(text) \in Nat /\ discounts \in Seq(Nat)
        /\ total_bytes = bytes(text) /\ total_bytes \in Nat
        /\ floor \in Nat /\ floor <= total_bytes /\ below_floor \in Nat
        /\ settled \in Nat /\ settled <= total_bytes /\ max_buffered_bytes \in Nat
        /\ binding \in Bindings
    BY SessionNumbers
  <1>3. chunk \in Seq(Char) /\ Len(chunk) \in Nat /\ bytes(chunk) \in Nat
    <2>1. chunk \in Seq(Char)
      BY HostText
    <2> QED BY <2>1, BoundariesAre
  <1>4. /\ new \in Seq(Nat) /\ Ascends(new)
        /\ \A k \in 1 .. Len(new) : total_bytes <= new[k] /\ new[k] < total_bytes + bytes(chunk)
        /\ \A j \in 0 .. Len(chunk) : Leading(new, total_bytes + Bc(j), Bc(j) - Uc(j))
    BY <1>2, <1>3, Observed
  <1> HIDE DEF new
  <1>5. /\ Ascends(discounts)
        /\ \A k \in 1 .. Len(discounts) : floor <= discounts[k] /\ discounts[k] < total_bytes
    BY <1>1 DEF SInv, IndexCovers
  <1>6. /\ discounts' \in Seq(Nat) /\ Len(discounts') = Len(discounts) + Len(new)
        /\ Ascends(discounts')
        /\ \A k \in 1 .. Len(discounts) : discounts'[k] = discounts[k]
        /\ \A k \in 1 .. Len(new) : discounts'[Len(discounts) + k] = new[k]
        /\ \A limit \in Nat : \A n :
              limit <= total_bytes /\ Leading(discounts, limit, n) => Leading(discounts', limit, n)
        /\ \A limit \in Nat : \A n :
              total_bytes <= limit /\ Leading(new, limit, n)
                => Leading(discounts', limit, Len(discounts) + n)
    <2> DEFINE joined == discounts \o new
    <2>1. \A k \in 1 .. Len(discounts) : discounts[k] < total_bytes
      BY <1>5
    <2>2. \A k \in 1 .. Len(new) : total_bytes <= new[k]
      BY <1>4
    <2>3. /\ joined \in Seq(Nat) /\ Len(joined) = Len(discounts) + Len(new)
          /\ Ascends(joined)
          /\ \A k \in 1 .. Len(discounts) : joined[k] = discounts[k]
          /\ \A k \in 1 .. Len(new) : joined[Len(discounts) + k] = new[k]
          /\ \A limit \in Nat : \A n :
                limit <= total_bytes /\ Leading(discounts, limit, n) => Leading(joined, limit, n)
          /\ \A limit \in Nat : \A n :
                total_bytes <= limit /\ Leading(new, limit, n)
                  => Leading(joined, limit, Len(discounts) + n)
      BY <1>2, <1>4, <1>5, <2>1, <2>2, Joined
    <2>4. discounts' = joined
      BY <1>1
    <2> HIDE DEF joined
    <2> QED BY <2>3, <2>4
  <1>7. /\ text' \in Seq(Char) /\ Len(text') = Len(text) + Len(chunk)
        /\ bytes(text') = total_bytes + bytes(chunk)
        /\ \A k \in 0 .. Len(text) : SubSeq(text', 1, k) = SubSeq(text, 1, k)
        /\ \A j \in 0 .. Len(chunk) :
              /\ bytes(SubSeq(text', 1, Len(text) + j)) = total_bytes + Bc(j)
              /\ units(binding, SubSeq(text', 1, Len(text) + j)) = units(binding, text) + Uc(j)
    <2>1. text \o chunk \in Seq(Char) /\ Len(text \o chunk) = Len(text) + Len(chunk)
      BY <1>2, <1>3, ConcatProperties
    <2>2. /\ size(text \o chunk, Bytes) = size(text, Bytes) + size(chunk, Bytes)
          /\ \A k \in 0 .. Len(text) : SubSeq(text \o chunk, 1, k) = SubSeq(text, 1, k)
          /\ \A j \in 0 .. Len(chunk) :
                /\ size(SubSeq(text \o chunk, 1, Len(text) + j), Bytes)
                      = size(text, Bytes) + size(SubSeq(chunk, 1, j), Bytes)
                /\ size(SubSeq(text \o chunk, 1, Len(text) + j), UnitsOf(binding))
                      = size(text, UnitsOf(binding)) + size(SubSeq(chunk, 1, j), UnitsOf(binding))
      <3>1. Bytes \in [Char -> Nat] /\ UnitsOf(binding) \in [Char -> Nat]
        BY Weights
      <3>2. /\ size(text \o chunk, Bytes) = size(text, Bytes) + size(chunk, Bytes)
            /\ \A k \in 0 .. Len(text) : SubSeq(text \o chunk, 1, k) = SubSeq(text, 1, k)
            /\ \A j \in 0 .. Len(chunk) :
                  size(SubSeq(text \o chunk, 1, Len(text) + j), Bytes)
                      = size(text, Bytes) + size(SubSeq(chunk, 1, j), Bytes)
        BY <1>2, <1>3, <3>1, SizeConcat
      <3> DEFINE of == UnitsOf(binding)
      <3> HIDE DEF of
      <3>3. of \in [Char -> Nat]
        BY <3>1 DEF of
      <3>4. \A j \in 0 .. Len(chunk) :
                size(SubSeq(text \o chunk, 1, Len(text) + j), of)
                    = size(text, of) + size(SubSeq(chunk, 1, j), of)
        BY <1>2, <1>3, <3>3, SizeConcat
      <3> QED BY <3>2, <3>4 DEF of
    <2> QED BY <1>1, <1>2, <2>1, <2>2 DEF bytes, units
  <1>8. ASSUME NEW k \in 1 .. Len(discounts')
        PROVE  floor <= discounts'[k] /\ discounts'[k] < total_bytes'
    <2>1. Len(discounts) \in Nat /\ Len(new) \in Nat
      BY <1>2, <1>4
    <2>2. CASE k \in 1 .. Len(discounts)
      <3>1. floor <= discounts[k] /\ discounts[k] < total_bytes /\ discounts[k] \in Nat
        BY <1>2, <1>5, <2>2
      <3> QED BY <1>1, <1>2, <1>3, <1>6, <2>2, <3>1
    <2>3. CASE k \notin 1 .. Len(discounts)
      <3>1. k - Len(discounts) \in 1 .. Len(new) /\ k = Len(discounts) + (k - Len(discounts))
        BY <1>6, <2>1, <2>3
      <3> DEFINE v == new[k - Len(discounts)]
      <3>2. total_bytes <= v /\ v < total_bytes + bytes(chunk) /\ v \in Nat
        BY <1>4, <3>1
      <3>3. discounts'[k] = v
        BY <1>6, <3>1
      <3> HIDE DEF v
      <3> QED BY <1>1, <1>2, <3>2, <3>3
    <2> QED BY <2>2, <2>3
  <1>9. SessionShape'
    <2>1. discounts' \in Seq(0 .. total_bytes')
      <3>1. total_bytes' \in Nat
        BY <1>1, <1>2, <1>3
      <3>2. \A k \in 1 .. Len(discounts') : discounts'[k] \in Nat
        BY <1>6
      <3>3. \A k \in 1 .. Len(discounts') : discounts'[k] <= total_bytes'
        BY <1>8, <3>1, <3>2
      <3> QED BY <1>6, <3>1, <3>3, WithinSeq
    <2>2. /\ total_bytes' = bytes(text') /\ floor' \in 0 .. total_bytes'
          /\ settled' \in 0 .. total_bytes'
      BY <1>1, <1>2, <1>3, <1>7
    <2>3. current_env' \in BOOLEAN /\ answered'.answer = "none"
      BY <1>1 DEF Silent
    <2> QED BY <1>1, <1>2, <1>6, <1>7, <2>1, <2>2, <2>3
            DEF SInv, SessionShape, SessionTypeOK, IndexTypeOK
  <1>10. Idle'
    BY <1>1 DEF Idle
  <1>11. IndexCovers'
    <2>1. ASSUME NEW k \in 0 .. Len(text'), floor <= bytes(SubSeq(text', 1, k))
          PROVE  Leading(discounts', bytes(SubSeq(text', 1, k)),
                         bytes(SubSeq(text', 1, k)) - units(binding, SubSeq(text', 1, k))
                           - below_floor)
      <3>1. CASE k \in 0 .. Len(text)
        <4> DEFINE b == bytes(SubSeq(text, 1, k))
                   n == b - units(binding, SubSeq(text, 1, k)) - below_floor
        <4>1. SubSeq(text', 1, k) = SubSeq(text, 1, k)
          BY <1>7, <3>1
        <4>2. Leading(discounts, b, n)
          BY <1>1, <2>1, <3>1, <4>1 DEF SInv, IndexCovers
        <4>3. b \in Nat /\ b <= total_bytes
          BY <1>2, <3>1, BoundariesAre
        <4> HIDE DEF b, n
        <4>4. Leading(discounts', b, n)
          BY <1>6, <4>2, <4>3
        <4> QED BY <4>1, <4>4 DEF b, n
      <3>2. CASE k \notin 0 .. Len(text)
        <4> DEFINE j == k - Len(text)
        <4>1. j \in 0 .. Len(chunk) /\ k = Len(text) + j
          BY <1>2, <1>3, <1>7, <3>2
        <4> HIDE DEF j
        <4>2. Bc(j) \in Nat /\ Uc(j) \in Nat
          BY <1>3, <4>1, BoundariesAre, UnitsAre
        <4>3. Leading(new, total_bytes + Bc(j), Bc(j) - Uc(j))
          BY <1>4, <4>1
        <4>4. /\ bytes(SubSeq(text', 1, k)) = total_bytes + Bc(j)
              /\ units(binding, SubSeq(text', 1, k)) = units(binding, text) + Uc(j)
          BY <1>7, <4>1
        <4>5. /\ units(binding, text) \in Nat
              /\ Len(discounts) = total_bytes - units(binding, text) - below_floor
          BY <1>1, AllLead
        <4> DEFINE b == Bc(j)
                   c == Uc(j)
        <4> HIDE DEF b, c
        <4>6. Leading(discounts', total_bytes + b, Len(discounts) + (b - c))
          <5>1. total_bytes + b \in Nat /\ total_bytes <= total_bytes + b
            BY <1>2, <4>2 DEF b
          <5> QED BY <1>6, <4>3, <5>1 DEF b, c
        <4>7. Len(discounts) + (b - c)
                = (total_bytes + b) - (units(binding, text) + c) - below_floor
          BY <1>2, <4>2, <4>5 DEF b, c
        <4> QED BY <4>4, <4>6, <4>7 DEF b, c
      <3> QED BY <3>1, <3>2
    <2> QED BY <1>1, <1>6, <1>8, <2>1 DEF IndexCovers
  <1>12. FloorFollows'
    <2>1. floor = 0 \/ floor + max_buffered_bytes <= total_bytes
      BY <1>1 DEF SInv, FloorFollows
    <2>2. floor = 0 \/ floor + max_buffered_bytes <= total_bytes'
      BY <1>1, <1>2, <1>3, <2>1
    <2>3. floor <= settled
      BY <1>1 DEF SInv, FloorFollows
    <2> QED BY <1>1, <2>2, <2>3 DEF FloorFollows
  <1>13. CallbackFails'
    BY <1>1 DEF CallbackFails
  <1>14. OffsetsExact'
    <2>1. Reference(binding, text', 0) = 0
      BY <1>7, NothingIsExact
    <2> QED BY <1>1, <2>1 DEF OffsetsExact, Nothing
  <1>15. SameErrorEitherWay'
    BY <1>1 DEF SameErrorEitherWay
  <1> QED BY <1>9, <1>10, <1>11, <1>12, <1>13, <1>14, <1>15 DEF SInv

---------------------------------------------------------------------------
(* Returning: the findings are converted, then the index is pruned or cleared. *)

LEMMA FinishConverts ==
    ASSUME SInv, core_state = "Accepting", NEW r \in FindingRanges \cup {Nothing},
           NEW ended \in BOOLEAN, finish(r, ended)
    PROVE  /\ core_state' = IF ended THEN "Finalized" ELSE "Accepting"
           /\ IF ended THEN clear ELSE prune
           /\ told' = told \/ (r \in FindingRanges /\ told' = tell(r))
  <1>1. r = Nothing \/ (r \in FindingRanges /\ ~unconvertible(r))
    BY TellsExactly
  <1>2. /\ told' = IF r = Nothing THEN told ELSE tell(r)
        /\ IF ended THEN clear ELSE prune
        /\ core_state' = IF ended THEN "Finalized" ELSE core_state
    BY <1>1 DEF finish
  <1> QED BY <1>1, <1>2

LEMMA FinishAppendKeeps ==
    ASSUME SInv, UNCHANGED binding, NEW upto \in Boundaries(text),
           NEW r \in FindingRanges \cup {Nothing}, FinishAppend(upto, r)
    PROVE  SInv'
  <1> DEFINE new_floor == IF total_bytes > max_buffered_bytes
                          THEN total_bytes - max_buffered_bytes ELSE 0
             m == below(new_floor)
             left == SubSeq(discounts, m + 1, Len(discounts))
  <1>1. /\ calling = "append" /\ core_runs
        /\ settled <= upto /\ total_bytes - upto <= max_buffered_bytes
        /\ settled' = upto /\ calling' = "None" /\ current_env' = FALSE
        /\ finish(r, FALSE)
        /\ UNCHANGED <<text, core_error, answered>>
    BY DEF FinishAppend, leave
  <1>2. core_state = "Accepting"
    BY <1>1 DEF SInv, Idle
  <1>3. /\ core_state' = "Accepting"
        /\ prune
        /\ told' = told \/ (r \in FindingRanges /\ told' = tell(r))
    BY <1>1, <1>2, FinishConverts
  <1>4. /\ discounts' = left /\ below_floor' = below_floor + m /\ floor' = new_floor
        /\ total_bytes' = total_bytes
    BY <1>3 DEF prune
  <1>5. /\ text \in Seq(Char) /\ Len(text) \in Nat /\ discounts \in Seq(Nat)
        /\ total_bytes = bytes(text) /\ total_bytes \in Nat
        /\ floor \in Nat /\ floor <= total_bytes /\ below_floor \in Nat
        /\ settled \in Nat /\ settled <= total_bytes /\ max_buffered_bytes \in Nat
        /\ binding \in Bindings
    BY SessionNumbers
  <1>6. upto \in Nat /\ upto <= total_bytes
    BY <1>5, BoundariesAre
  <1>7. /\ new_floor \in Nat /\ new_floor <= total_bytes /\ floor <= new_floor
        /\ new_floor <= upto /\ total_bytes - new_floor <= max_buffered_bytes
        /\ new_floor = 0 \/ new_floor + max_buffered_bytes <= total_bytes
    <2>1. floor = 0 \/ floor + max_buffered_bytes <= total_bytes
      BY <1>2 DEF SInv, FloorFollows
    <2>2. CASE total_bytes > max_buffered_bytes
      <3>1. new_floor = total_bytes - max_buffered_bytes
        BY <2>2
      <3> HIDE DEF new_floor
      <3>2. new_floor \in Nat /\ new_floor + max_buffered_bytes = total_bytes
        BY <1>5, <2>2, <3>1
      <3> QED BY <1>1, <1>5, <1>6, <2>1, <3>2
    <2>3. CASE ~(total_bytes > max_buffered_bytes)
      <3>1. new_floor = 0
        BY <2>3
      <3> HIDE DEF new_floor
      <3>2. floor = 0
        BY <1>5, <2>1, <2>3, SessionNumbers
      <3> QED BY <1>1, <1>5, <1>6, <2>3, <3>1, <3>2
    <2> QED BY <2>2, <2>3
  <1> HIDE DEF new_floor
  <1>8. Leading(discounts, new_floor, m)
    BY <1>5, <1>7, BelowIs
  <1> HIDE DEF m
  <1>9. m \in Nat
    BY <1>8 DEF Leading
  <1>10. /\ Ascends(discounts)
         /\ \A k \in 1 .. Len(discounts) : discounts[k] < total_bytes
    BY <1>2 DEF SInv, IndexCovers
  <1>11. /\ left \in Seq(Nat) /\ Ascends(left)
         /\ \A k \in 1 .. Len(left) : new_floor <= left[k]
         /\ \A k \in 1 .. Len(left) : \E i \in 1 .. Len(discounts) : left[k] = discounts[i]
         /\ \A limit \in Nat : \A n :
              new_floor <= limit /\ Leading(discounts, limit, n) => Leading(left, limit, n - m)
    BY <1>5, <1>7, <1>8, <1>10, Dropped
  <1> HIDE DEF left
  <1>12. \A k \in 1 .. Len(left) : left[k] < total_bytes
    BY <1>10, <1>11
  <1>13. SessionShape'
    <2>1. left \in Seq(0 .. total_bytes)
      <3>1. \A k \in 1 .. Len(left) : left[k] \in Nat
        BY <1>11
      <3>2. \A k \in 1 .. Len(left) : left[k] <= total_bytes
        BY <1>5, <1>12, <3>1
      <3> QED BY <1>5, <1>11, <3>2, WithinSeq
    <2>2. floor' \in 0 .. total_bytes' /\ settled' \in 0 .. total_bytes' /\ below_floor' \in Nat
      BY <1>1, <1>4, <1>5, <1>6, <1>7, <1>9
    <2>3. current_env' \in BOOLEAN
      BY <1>1
    <2> QED BY <1>1, <1>3, <1>4, <1>11, <2>1, <2>2, <2>3
            DEF SInv, SessionShape, SessionTypeOK, IndexTypeOK
  <1>14. Idle'
    BY <1>3 DEF Idle
  <1>15. IndexCovers'
    <2>1. ASSUME NEW k \in 0 .. Len(text), new_floor <= bytes(SubSeq(text, 1, k))
          PROVE  Leading(left, bytes(SubSeq(text, 1, k)),
                         bytes(SubSeq(text, 1, k)) - units(binding, SubSeq(text, 1, k))
                           - (below_floor + m))
      <3> DEFINE b == bytes(SubSeq(text, 1, k))
                 c == units(binding, SubSeq(text, 1, k))
      <3>1. b \in Nat /\ c \in Nat
        <4>1. bytes(text) \in Nat /\ b \in 0 .. bytes(text)
          BY <1>5, BoundariesAre
        <4> QED BY <1>5, <4>1, UnitsAre
      <3>2. floor <= b
        <4> HIDE DEF b
        <4> QED BY <1>5, <1>7, <2>1, <3>1 DEF b
      <3>3. Leading(discounts, b, b - c - below_floor)
        BY <1>2, <3>2 DEF SInv, IndexCovers
      <3> HIDE DEF b, c
      <3>4. Leading(left, b, b - c - below_floor - m)
        BY <1>11, <2>1, <3>1, <3>3 DEF b
      <3>5. b - c - below_floor - m = b - c - (below_floor + m)
        BY <1>5, <1>9, <3>1
      <3> QED BY <3>4, <3>5 DEF b, c
    <2>2. \A k \in 1 .. Len(left) : new_floor <= left[k] /\ left[k] < total_bytes
      BY <1>11, <1>12
    <2>3. /\ Ascends(left)
          /\ UNCHANGED <<text, binding, total_bytes>>
      BY <1>1, <1>4, <1>11
    <2> QED BY <1>4, <2>1, <2>2, <2>3 DEF IndexCovers
  <1>16. FloorFollows'
    BY <1>1, <1>4, <1>7 DEF FloorFollows
  <1>17. CallbackFails'
    BY <1>1 DEF CallbackFails
  <1>18. OffsetsExact'
    BY <1>1, <1>2, <1>3, ToldKept
  <1>19. SameErrorEitherWay'
    BY <1>3 DEF SameErrorEitherWay
  <1> QED BY <1>13, <1>14, <1>15, <1>16, <1>17, <1>18, <1>19 DEF SInv

\* A session that is over remembers nothing.
LEMMA OverKeeps ==
    ASSUME SInv, UNCHANGED <<binding, text, answered>>, clear,
           core_state' \in {"Finalized", "Aborted", "Failed"}, calling' = "None",
           current_env' \in BOOLEAN,
           settled' = settled \/ settled' = total_bytes,
           OffsetsExact', SameErrorEitherWay'
    PROVE  SInv'
  <1>1. /\ discounts' = <<>> /\ below_floor' = 0 /\ floor' = total_bytes
        /\ total_bytes' = total_bytes
    BY DEF clear
  <1>2. total_bytes \in Nat /\ settled \in Nat /\ settled <= total_bytes
    BY SessionNumbers
  <1>3. SessionShape'
    <2>1. <<>> \in Seq(0 .. total_bytes) /\ <<>> \in Seq(Nat)
      OBVIOUS
    <2>2. floor' \in 0 .. total_bytes' /\ settled' \in 0 .. total_bytes' /\ below_floor' \in Nat
      BY <1>1, <1>2
    <2> QED BY <1>1, <2>1, <2>2 DEF SInv, SessionShape, SessionTypeOK, IndexTypeOK
  <1>4. Idle' /\ IndexCovers' /\ FloorFollows' /\ CallbackFails'
    BY <1>1 DEF Idle, IndexCovers, FloorFollows, CallbackFails
  <1> QED BY <1>3, <1>4 DEF SInv

LEMMA FinishFinalizeKeeps ==
    ASSUME SInv, UNCHANGED binding, NEW r \in FindingRanges \cup {Nothing}, FinishFinalize(r)
    PROVE  SInv'
  <1>1. /\ calling = "finalize" /\ settled' = total_bytes
        /\ calling' = "None" /\ current_env' = FALSE
        /\ finish(r, TRUE)
        /\ UNCHANGED <<text, core_error, answered>>
    BY DEF FinishFinalize, leave
  <1>2. core_state = "Accepting"
    BY <1>1 DEF SInv, Idle
  <1>3. /\ core_state' = "Finalized" /\ clear
        /\ told' = told \/ (r \in FindingRanges /\ told' = tell(r))
    BY <1>1, <1>2, FinishConverts
  <1>4. OffsetsExact'
    BY <1>1, <1>2, <1>3, ToldKept
  <1>5. SameErrorEitherWay'
    BY <1>3 DEF SameErrorEitherWay
  <1>6. current_env' \in BOOLEAN
    BY <1>1
  <1> QED BY <1>1, <1>3, <1>4, <1>5, <1>6, OverKeeps

LEMMA FailKeeps ==
    ASSUME SInv, UNCHANGED binding, Fail
    PROVE  SInv'
  <1>1. /\ calling # "None" /\ core_error # "None"
        /\ core_state' = "Failed"
        /\ error' = IF core_error = "POLICY_FAILURE" /\ policy_failure # "None"
                    THEN policy_failure ELSE core_error
        /\ clear /\ calling' = "None" /\ current_env' = FALSE
        /\ UNCHANGED <<text, settled, core_error, answered, told>>
    BY DEF Fail, leave
  <1>2. OffsetsExact'
    BY <1>1, ToldKept
  <1>3. SameErrorEitherWay'
    <2>1. SUFFICES ASSUME answered # Silent
                   PROVE  error' = CallbackError
      BY <1>1 DEF SameErrorEitherWay, CallbackError, formatter_error, policy_error
    <2>2. CASE answered.of = "formatter"
      <3>1. core_error = CallbackError
        BY <1>1, <2>1, <2>2 DEF SInv, CallbackFails
      <3>2. CallbackError \in {"None", "PLACEHOLDER_FAILURE"}
        BY <2>2 DEF CallbackError, formatter_error
      <3> QED BY <1>1, <3>1, <3>2
    <2>3. CASE answered.of # "formatter"
      <3>1. core_error = "POLICY_FAILURE" /\ policy_failure = CallbackError /\ policy_failure # "None"
        BY <1>1, <2>1, <2>3 DEF SInv, CallbackFails
      <3> QED BY <1>1, <3>1
    <2> QED BY <2>2, <2>3
  <1>4. current_env' \in BOOLEAN
    BY <1>1
  <1> QED BY <1>1, <1>2, <1>3, <1>4, OverKeeps

LEMMA AbortKeeps ==
    ASSUME SInv, UNCHANGED binding, Abort
    PROVE  SInv'
  <1>1. /\ calling = "None" /\ core_state' = "Aborted" /\ clear
        /\ UNCHANGED <<text, settled, calling, core_error, answered, current_env, told>>
    BY DEF Abort, require_accepting
  <1>2. OffsetsExact'
    BY <1>1, ToldKept
  <1>3. SameErrorEitherWay'
    BY <1>1 DEF SameErrorEitherWay
  <1>4. current_env' \in BOOLEAN
    BY <1>1 DEF SInv, SessionShape, SessionTypeOK
  <1> QED BY <1>1, <1>2, <1>3, <1>4, OverKeeps

---------------------------------------------------------------------------
(* The theorems about sessions. *)

LEMMA SessionInitHolds == Init => SInv
  <1>1. SUFFICES ASSUME Init PROVE SInv
    OBVIOUS
  <1>2. /\ binding \in Bindings /\ text = <<>> /\ discounts = <<>> /\ below_floor = 0 /\ floor = 0
        /\ total_bytes = 0 /\ core_state = "None" /\ settled = 0 /\ calling = "None"
        /\ answered = Silent /\ current_env = FALSE /\ told = Nothing
    BY <1>1 DEF Init, SessionInit, IndexInit
  <1>3. SessionShape
    <2>1. <<>> \in Seq(Char) /\ <<>> \in Seq(0 .. 0) /\ <<>> \in Seq(Nat)
      OBVIOUS
    <2>3. bytes(<<>>) = 0
      <3>1. \A u \in Seq(Char) : bytes(<<>>) = 0
        BY BoundariesAre
      <3> QED BY <2>1, <3>1
    <2>2. current_env \in BOOLEAN /\ answered.answer = "none"
      BY <1>2 DEF Silent
    <2> QED BY <1>2, <2>1, <2>2, <2>3 DEF SessionShape, SessionTypeOK, IndexTypeOK
  <1>4. Idle /\ IndexCovers /\ FloorFollows /\ CallbackFails /\ SameErrorEitherWay
    BY <1>2 DEF Idle, IndexCovers, FloorFollows, CallbackFails, SameErrorEitherWay
  <1>5. OffsetsExact
    <2>1. Reference(binding, text, 0) = 0
      <3>1. text \in Seq(Char)
        BY <1>2
      <3> QED BY <3>1, NothingIsExact
    <2> QED BY <1>2, <2>1 DEF OffsetsExact, Nothing
  <1> QED BY <1>3, <1>4, <1>5 DEF SInv

LEMMA SessionStepKeeps ==
    ASSUME SInv, SessionNext, UNCHANGED binding
    PROVE  SInv'
  <1>1. CASE Create \/ CreateRefused
    BY <1>1, CreateKeeps
  <1>2. ASSUME NEW chunk \in Chunks, BeginAppend(chunk)
        PROVE  SInv'
    BY <1>2, BeginAppendKeeps
  <1>3. CASE BeginFinalize \/ AppendNotText \/ Refused
    BY <1>3, BeginFinalizeKeeps, RefusedKeeps
  <1>4. ASSUME NEW r \in FindingRanges, NEW answer \in PolicyAnswers, EvaluatePolicy(r, answer)
        PROVE  SInv'
    BY <1>4, EvaluatePolicyKeeps
  <1>5. ASSUME NEW r \in FindingRanges, NEW answer \in FormatterAnswers,
               FormatPlaceholder(r, answer)
        PROVE  SInv'
    BY <1>5, FormatPlaceholderKeeps
  <1>6. ASSUME NEW code, CoreRefuses(code)
        PROVE  SInv'
    BY <1>6, CoreRefusesKeeps
  <1>7. ASSUME NEW upto \in Boundaries(text), NEW r \in FindingRanges \cup {Nothing},
               FinishAppend(upto, r)
        PROVE  SInv'
    BY <1>7, FinishAppendKeeps
  <1>8. ASSUME NEW r \in FindingRanges \cup {Nothing}, FinishFinalize(r)
        PROVE  SInv'
    BY <1>8, FinishFinalizeKeeps
  <1>9. CASE Fail \/ Abort
    BY <1>9, FailKeeps, AbortKeeps
  <1> QED BY <1>1, <1>2, <1>3, <1>4, <1>5, <1>6, <1>7, <1>8, <1>9 DEF SessionNext

\* A step that leaves the session alone.
LEMMA SessionKept ==
    ASSUME SInv, UNCHANGED <<binding, session_vars>>
    PROVE  SInv'
  <1>1. /\ UNCHANGED <<binding, text, core_state, settled, calling, core_error, answered,
                       policy_failure, current_env, told, error>>
        /\ UNCHANGED <<discounts, below_floor, floor, total_bytes>>
        /\ UNCHANGED index
    BY DEF session_vars, index
  <1>2. SessionShape'
    BY <1>1 DEF SInv, SessionShape, SessionTypeOK, IndexTypeOK
  <1>3. Idle' /\ IndexCovers' /\ FloorFollows'
    BY <1>1, IndexKept
  <1>4. CallbackFails'
    BY <1>1 DEF SInv, CallbackFails, CallbackError, formatter_error, policy_error
  <1>5. OffsetsExact'
    BY <1>1, ToldKept
  <1>6. SameErrorEitherWay'
    BY <1>1 DEF SInv, SameErrorEitherWay, formatter_error, policy_error
  <1> QED BY <1>2, <1>3, <1>4, <1>5, <1>6 DEF SInv

LEMMA NextPreserves == SInv /\ [Next]_vars => SInv'
  <1>1. SUFFICES ASSUME SInv, [Next]_vars
                 PROVE  SInv'
    OBVIOUS
  <1>2. CASE using = "session" /\ SessionNext /\ UNCHANGED <<binding, call_vars>>
    BY <1>1, <1>2, SessionStepKeeps
  <1>3. CASE host_calls
    BY <1>1, <1>3, SessionKept DEF host_calls
  <1>4. CASE UNCHANGED vars
    BY <1>1, <1>4, SessionKept DEF vars
  <1>5. ASSUME NEW u \in CallTexts, NEW d \in Detections(u), NEW answers \in Answers(Len(d)),
               Scan(u, d, answers)
        PROVE  host_calls
    BY <1>5 DEF Scan
  <1>6. ASSUME NEW u \in CallTexts, NEW answer \in FormatterAnswers, Redact(u, answer)
        PROVE  host_calls
    BY <1>6 DEF Redact
  <1>7. ASSUME NEW u \in CallTexts, NEW d \in Detections(u), NEW answers \in Answers(Len(d)),
               NEW answer \in FormatterAnswers, ScanAndRedact(u, d, answers, answer)
        PROVE  host_calls
    BY <1>7 DEF ScanAndRedact
  <1>8. Initialize \/ NotInitialized \/ NotText \/ HostReorders => host_calls
    BY DEF Initialize, NotInitialized, NotText, HostReorders
  <1>9. ASSUME NEW k, NEW start, NEW end, NEW action, HostEdits(k, start, end, action)
        PROVE  host_calls
    BY <1>9 DEF HostEdits
  <1> QED BY <1>1, <1>2, <1>3, <1>4, <1>5, <1>6, <1>7, <1>8, <1>9 DEF Next

\* In every reachable state the index of a session covers its text from the floor on, and the
\* floor follows the buffer limit without passing what the core has settled.
THEOREM Invariant == Spec => []SInv
  BY SessionInitHolds, NextPreserves, PTL DEF Spec

\* For every chunking and every limit, a host is told, in callbacks and in results, exactly the
\* ranges its own string of the whole text has there.
THEOREM OffsetsAreExact == Spec => []OffsetsExact
  <1>1. SInv => OffsetsExact
    BY DEF SInv
  <1> QED BY <1>1, Invariant, PTL

\* Pruning is never ahead of the core: what is not settled can still be converted, exactly.
THEOREM PruningIsInTime == Spec => []PrunedInTime
  <1>1. ASSUME SInv
        PROVE  PrunedInTime
    <2>1. SUFFICES ASSUME core_state = "Accepting", NEW b \in Boundaries(text), b >= settled
                   PROVE  offset(b) = Reference(binding, text, b)
      BY DEF PrunedInTime
    <2>2. floor <= settled /\ floor \in Nat /\ settled \in Nat
      BY <1>1, <2>1, SessionNumbers DEF SInv, FloorFollows
    <2>3. b \in Nat
      <3>1. text \in Seq(Char) /\ bytes(text) \in Nat
        BY <1>1, SessionNumbers
      <3> QED BY <3>1, BoundariesAre
    <2>4. floor <= b
      BY <2>1, <2>2, <2>3
    <2> QED BY <1>1, <2>1, <2>4, OffsetIs
  <1> QED BY <1>1, Invariant, PTL

\* Between calls the index holds offsets of the buffered window only, in order; after the end of
\* the session it holds none.
THEOREM IndexStaysBounded == Spec => []IndexBounded
  <1>1. ASSUME SInv
        PROVE  IndexBounded
    <2>1. ASSUME core_state = "Accepting", calling = "None", NEW k \in 1 .. Len(discounts)
          PROVE  /\ total_bytes - discounts[k] <= max_buffered_bytes
                 /\ k > 1 => discounts[k - 1] <= discounts[k]
      <3>1. /\ Len(discounts) \in Nat /\ discounts[k] \in Nat /\ total_bytes \in Nat
            /\ floor \in Nat /\ max_buffered_bytes \in Nat
        BY <1>1, SessionNumbers
      <3>2. Ascends(discounts) /\ floor <= discounts[k]
        BY <1>1, <2>1 DEF SInv, IndexCovers
      <3>3. total_bytes - floor <= max_buffered_bytes
        BY <1>1, <2>1 DEF SInv, FloorFollows
      <3>4. k > 1 => k - 1 \in 1 .. Len(discounts) /\ k - 1 <= k
        BY <3>1
      <3>5. k > 1 => discounts[k - 1] <= discounts[k]
        BY <3>2, <3>4 DEF Ascends
      <3> QED BY <3>1, <3>2, <3>3, <3>5
    <2>2. core_state # "Accepting" => discounts = <<>>
      BY <1>1 DEF SInv, Idle
    <2> QED BY <2>1, <2>2 DEF IndexBounded
  <1> QED BY <1>1, Invariant, PTL

\* A callback that fails ends the session with the error the one-shot calls report for it.
THEOREM SameError == Spec => []SameErrorEitherWay
  <1>1. SInv => SameErrorEitherWay
    BY DEF SInv
  <1> QED BY <1>1, Invariant, PTL

---------------------------------------------------------------------------
(* The one-shot calls: the invariant of the findings a host holds. *)

CoreFindings == [from : Nat, to : Nat, action : Actions]
HostFindings == [from : Nat, to : Nat, action : Actions \cup {"unknown"}, start : Nat, end : Nat]

CallsShape ==
    /\ binding \in Bindings /\ using \in {"session", "calls"}
    /\ initialized \in BOOLEAN /\ edited \in BOOLEAN
    /\ scanned \in [input : CallTexts \cup {<<>>}, findings : Seq(CoreFindings)]
    /\ held \in Seq(HostFindings) /\ Len(held) = Len(scanned.findings) /\ Len(held) <= 2

\* An order of n findings.
Order(p, n) ==
    /\ p \in [1 .. n -> 1 .. n]
    /\ \A j, k \in 1 .. n : p[j] = p[k] => j = k
    /\ \A k \in 1 .. n : \E j \in 1 .. n : p[j] = k

\* The findings of a scan are whole characters and disjoint; what the host holds is those
\* findings in some order, with the ranges of its own string, until it edits them.
HeldAreFound ==
    /\ valid(scanned.input, scanned.findings)
    /\ ~edited => \E p :
          /\ Order(p, Len(held))
          /\ \A k \in 1 .. Len(held) :
                held[k] = to_host_finding(scanned.input, scanned.findings[p[k]])
    /\ edited => binding = "node"

\* A result is that of redacting with the findings the host holds now, as they are handed to the
\* core.
ResultIsHeld ==
    \/ result.given = <<>>
    \/ /\ result.input \in CallTexts
       /\ \E answer \in FormatterAnswers :
             result = run_redact(result.input,
                                 [k \in DOMAIN held |-> to_core(result.input, held[k])], answer)

CInv == CallsShape /\ HeldAreFound /\ ResultIsHeld

\* Node's offsets, there and back.
LEMMA Utf16Names ==
    ASSUME NEW u \in Seq(Char), NEW j \in 0 .. Len(u), NEW k \in 0 .. Len(u),
           units("node", SubSeq(u, 1, j)) = units("node", SubSeq(u, 1, k))
    PROVE  j = k
  <1>1. units("node", SubSeq(u, 1, j)) \in Nat /\ units("node", SubSeq(u, 1, k)) \in Nat
    BY UnitsAre
  <1>2. j < k => units("node", SubSeq(u, 1, j)) < units("node", SubSeq(u, 1, k))
    BY Weights, PrefixesGrow DEF units
  <1>3. k < j => units("node", SubSeq(u, 1, k)) < units("node", SubSeq(u, 1, j))
    BY Weights, PrefixesGrow DEF units
  <1> QED BY <1>1, <1>2, <1>3

LEMMA ToUtf16AndBack ==
    ASSUME NEW u \in Seq(Char), NEW b \in Boundaries(u)
    PROVE  utf16_to_byte(u, Reference("node", u, b)) = b
  <1>1. PICK k \in 0 .. Len(u) : b = bytes(SubSeq(u, 1, k))
    BY DEF Boundaries
  <1> DEFINE x == units("node", SubSeq(u, 1, k))
             j == CHOOSE j \in 0 .. Len(u) : units("node", SubSeq(u, 1, j)) = x
  <1>2. Reference("node", u, b) = x
    BY <1>1, ReferenceIs
  <1>3. j \in 0 .. Len(u) /\ units("node", SubSeq(u, 1, j)) = x
    OBVIOUS
  <1>4. utf16_to_byte(u, x) = bytes(SubSeq(u, 1, j))
    BY DEF utf16_to_byte
  <1> HIDE DEF j
  <1>5. j = k
    BY <1>3, Utf16Names
  <1> QED BY <1>1, <1>2, <1>4, <1>5

LEMMA FromUtf16AndBack ==
    ASSUME NEW u \in Seq(Char), NEW x, utf16_to_byte(u, x) \in Boundaries(u)
    PROVE  Reference("node", u, utf16_to_byte(u, x)) = x
  <1> DEFINE Named == \E k \in 0 .. Len(u) : units("node", SubSeq(u, 1, k)) = x
             j == CHOOSE k \in 0 .. Len(u) : units("node", SubSeq(u, 1, k)) = x
  <1>1. Named
    <2>1. utf16_to_byte(u, x) # NoOffset
      <3>1. utf16_to_byte(u, x) \in 0 .. bytes(u) /\ bytes(u) \in Nat
        BY BoundariesAre
      <3> QED BY <3>1 DEF NoOffset
    <2> QED BY <2>1 DEF utf16_to_byte
  <1>2. j \in 0 .. Len(u) /\ units("node", SubSeq(u, 1, j)) = x
    BY <1>1
  <1>3. utf16_to_byte(u, x) = bytes(SubSeq(u, 1, j))
    BY <1>1 DEF utf16_to_byte
  <1> HIDE DEF j
  <1> QED BY <1>2, <1>3, ReferenceIs

\* On a boundary every binding converts exactly.
LEMMA ToHostIs ==
    ASSUME binding \in Bindings, NEW u \in Seq(Char), NEW b \in Boundaries(u)
    PROVE  to_host(u, b) = Reference(binding, u, b) /\ to_host(u, b) \in Nat
  <1>1. to_host(u, b) = Reference(binding, u, b)
    BY DEF to_host, char_offset, byte_to_utf16, to_utf16_offset, Bindings
  <1>2. PICK k \in 0 .. Len(u) : b = bytes(SubSeq(u, 1, k))
    BY DEF Boundaries
  <1>3. Reference(binding, u, b) = units(binding, SubSeq(u, 1, k))
    BY <1>2, ReferenceIs
  <1> QED BY <1>1, <1>3, UnitsAre

\* The core gets back the finding it gave.
LEMMA HandedBack ==
    ASSUME binding \in Bindings, NEW u \in Seq(Char), NEW f \in CoreFindings,
           f.from \in Boundaries(u), f.to \in Boundaries(u)
    PROVE  to_core(u, to_host_finding(u, f)) = f
  <1>1. f = [from |-> f.from, to |-> f.to, action |-> f.action]
    BY DEF CoreFindings
  <1>2. CASE binding = "node"
    <2>1. /\ to_host(u, f.from) = Reference("node", u, f.from)
          /\ to_host(u, f.to) = Reference("node", u, f.to)
      BY <1>2, ToHostIs
    <2>2. /\ utf16_to_byte(u, to_host(u, f.from)) = f.from
          /\ utf16_to_byte(u, to_host(u, f.to)) = f.to
      BY <2>1, ToUtf16AndBack
    <2> QED BY <1>1, <1>2, <2>2 DEF to_core, from_js_finding, to_host_finding
  <1>3. CASE binding # "node"
    BY <1>1, <1>3 DEF to_core, into_inner, to_host_finding
  <1> QED BY <1>2, <1>3

\* The order of findings does not matter to their validity, nor to what they replace.
Reorders(gs, fs, n) ==
    /\ n \in Nat /\ DOMAIN fs = 1 .. n /\ DOMAIN gs = 1 .. n
    /\ \E p : Order(p, n) /\ \A k \in 1 .. n : gs[k] = fs[p[k]]

LEMMA OrderDoesNotMatter ==
    ASSUME NEW u, NEW n, NEW fs, NEW gs, Reorders(gs, fs, n)
    PROVE  /\ valid(u, fs) => valid(u, gs)
           /\ replaced_by(gs) = replaced_by(fs)
  <1>1. n \in Nat /\ DOMAIN fs = 1 .. n /\ DOMAIN gs = 1 .. n
    BY DEF Reorders
  <1>2. PICK p : Order(p, n) /\ \A k \in 1 .. n : gs[k] = fs[p[k]]
    BY DEF Reorders
  <1>3. \A k \in 1 .. n : p[k] \in 1 .. n
    BY <1>2 DEF Order
  <1>4. valid(u, fs) => valid(u, gs)
    <2>1. SUFFICES ASSUME valid(u, fs) PROVE valid(u, gs)
      OBVIOUS
    <2>2. ASSUME NEW k \in 1 .. n
          PROVE  /\ gs[k].action \in Actions /\ gs[k].from < gs[k].to
                 /\ {gs[k].from, gs[k].to} \subseteq Boundaries(u)
      BY <1>1, <1>2, <1>3, <2>1 DEF valid
    <2>3. ASSUME NEW j \in 1 .. n, NEW k \in 1 .. n, j # k
          PROVE  gs[j].to <= gs[k].from \/ gs[k].to <= gs[j].from
      <3>1. p[j] \in 1 .. n /\ p[k] \in 1 .. n /\ p[j] # p[k]
        BY <1>2, <1>3, <2>3 DEF Order
      <3> QED BY <1>1, <1>2, <2>1, <3>1 DEF valid
    <2> QED BY <1>1, <2>2, <2>3 DEF valid
  <1>5. ASSUME NEW x
        PROVE  (\E k \in 1 .. n : gs[k].action = "redact" /\ x = [from |-> gs[k].from, to |-> gs[k].to])
               <=> (\E k \in 1 .. n : fs[k].action = "redact" /\ x = [from |-> fs[k].from, to |-> fs[k].to])
    <2>1. ASSUME NEW k \in 1 .. n, gs[k].action = "redact", x = [from |-> gs[k].from, to |-> gs[k].to]
          PROVE  \E i \in 1 .. n : fs[i].action = "redact" /\ x = [from |-> fs[i].from, to |-> fs[i].to]
      BY <1>2, <1>3, <2>1
    <2>2. ASSUME NEW k \in 1 .. n, fs[k].action = "redact", x = [from |-> fs[k].from, to |-> fs[k].to]
          PROVE  \E i \in 1 .. n : gs[i].action = "redact" /\ x = [from |-> gs[i].from, to |-> gs[i].to]
      <3>1. PICK j \in 1 .. n : p[j] = k
        BY <1>2 DEF Order
      <3> QED BY <1>2, <2>2, <3>1
    <2> QED BY <2>1, <2>2
  <1>6. \A x : x \in replaced_by(gs) <=> x \in replaced_by(fs)
    BY <1>1, <1>5 DEF replaced_by
  <1> QED BY <1>4, <1>6

\* What a scan finds is in order, disjoint and made of whole characters.
LEMMA DetectionsAre ==
    ASSUME NEW u \in Seq(Char), NEW d \in Detections(u)
    PROVE  /\ Len(d) \in 0 .. 2 /\ DOMAIN d = 1 .. Len(d)
           /\ \A k \in 1 .. Len(d) :
                d[k].from \in Boundaries(u) /\ d[k].to \in Boundaries(u) /\ d[k].from < d[k].to
           /\ \A j, k \in 1 .. Len(d) : j < k => d[j].to <= d[k].from
  <1> DEFINE Ranges == {r \in [from : Boundaries(u), to : Boundaries(u)] : r.from < r.to}
  <1>1. \/ d = <<>>
        \/ \E r \in Ranges : d = <<r>>
        \/ d \in Ranges \X Ranges /\ d[1].to <= d[2].from
    BY DEF Detections
  <1>2. \A r \in Ranges : r.from \in Boundaries(u) /\ r.to \in Boundaries(u) /\ r.from < r.to
    OBVIOUS
  <1> HIDE DEF Ranges
  <1>3. CASE d = <<>>
    BY <1>3
  <1>4. ASSUME NEW r \in Ranges, d = <<r>>
        PROVE  /\ Len(d) \in 0 .. 2 /\ DOMAIN d = 1 .. Len(d)
               /\ \A k \in 1 .. Len(d) :
                    d[k].from \in Boundaries(u) /\ d[k].to \in Boundaries(u) /\ d[k].from < d[k].to
               /\ \A j, k \in 1 .. Len(d) : j < k => d[j].to <= d[k].from
    BY <1>2, <1>4
  <1>5. CASE d \in Ranges \X Ranges /\ d[1].to <= d[2].from
    <2>1. PICK r \in Ranges, q \in Ranges : d = <<r, q>>
      BY <1>5
    <2>2. Len(d) = 2 /\ DOMAIN d = 1 .. 2 /\ d[1] = r /\ d[2] = q
      BY <2>1
    <2>3. \A k \in 1 .. 2 : k = 1 \/ k = 2
      OBVIOUS
    <2> QED BY <1>2, <1>5, <2>2, <2>3
  <1> QED BY <1>1, <1>3, <1>4, <1>5

\* A scan without an error has an action for every finding.
LEMMA AllAnswered ==
    ASSUME NEW n \in Nat, NEW answers \in Answers(n), scan_error(answers) = "None",
           binding \in Bindings
    PROVE  \A k \in 1 .. n : answers[k] \in Actions
  <1> DEFINE failed == {k \in 1 .. n : policy_error(answers[k]) # "None"}
             first == CHOOSE k \in failed : \A j \in failed : k <= j
  <1>1. DOMAIN answers = 1 .. n
    BY DEF Answers
  <1>2. failed = {}
    <2>1. SUFFICES ASSUME failed # {} PROVE FALSE
      OBVIOUS
    <2>2. scan_error(answers) = policy_error(answers[first])
      BY <1>1, <2>1 DEF scan_error
    <2>3. \E k \in failed : \A j \in failed : k <= j
      <3>1. failed \subseteq Nat
        OBVIOUS
      <3> HIDE DEF failed
      <3> QED BY <2>1, <3>1, LeastElement
    <2>4. first \in failed
      <3> HIDE DEF failed
      <3> QED BY <2>3
    <2> QED BY <2>2, <2>4
  <1>3. \A a : policy_error(a) = "None" => a \in Actions
    BY DEF policy_error, call_python_policy, node_policy_error, JsPolicy, Bindings
  <1> QED BY <1>2, <1>3

LEMMA ScannedAre ==
    ASSUME binding \in Bindings, NEW u \in CallTexts, NEW d \in Detections(u),
           NEW answers \in Answers(Len(d)), scan_error(answers) = "None"
    PROVE  LET fs == with_actions(d, answers)
           IN  /\ fs \in Seq(CoreFindings) /\ Len(fs) = Len(d) /\ valid(u, fs)
               /\ DOMAIN fs = 1 .. Len(d) /\ Len(d) \in 0 .. 2
  <1> DEFINE fs == with_actions(d, answers)
             n == Len(d)
  <1>1. u \in Seq(Char)
    BY HostCallTexts
  <1>2. /\ n \in 0 .. 2 /\ DOMAIN d = 1 .. n
        /\ \A k \in 1 .. n :
             d[k].from \in Boundaries(u) /\ d[k].to \in Boundaries(u) /\ d[k].from < d[k].to
        /\ \A j, k \in 1 .. n : j < k => d[j].to <= d[k].from
    BY <1>1, DetectionsAre
  <1>3. \A k \in 1 .. n : answers[k] \in Actions
    BY <1>2, AllAnswered
  <1>4. fs = [k \in 1 .. n |-> [from |-> d[k].from, to |-> d[k].to, action |-> answers[k]]]
    BY <1>2 DEF with_actions
  <1> HIDE DEF fs, n
  <1>5. Boundaries(u) \subseteq Nat
    <2>1. bytes(u) \in Nat /\ Boundaries(u) \subseteq 0 .. bytes(u)
      BY <1>1, BoundariesAre
    <2> QED BY <2>1
  <1>6. \A k \in 1 .. n : fs[k] \in CoreFindings
    BY <1>2, <1>3, <1>4, <1>5 DEF CoreFindings
  <1>7. fs \in Seq(CoreFindings) /\ Len(fs) = n /\ DOMAIN fs = 1 .. n
    BY <1>2, <1>4, <1>6
  <1>8. ASSUME NEW j \in 1 .. n, NEW k \in 1 .. n, j # k
        PROVE  fs[j].to <= fs[k].from \/ fs[k].to <= fs[j].from
    <2>1. j < k \/ k < j
      BY <1>2, <1>8
    <2> QED BY <1>2, <1>4, <2>1
  <1>9. valid(u, fs)
    <2>1. \A k \in 1 .. n :
             /\ fs[k].action \in Actions /\ fs[k].from < fs[k].to
             /\ {fs[k].from, fs[k].to} \subseteq Boundaries(u)
      BY <1>2, <1>3, <1>4
    <2> QED BY <1>7, <1>8, <2>1 DEF valid
  <1> QED BY <1>2, <1>7, <1>9 DEF fs, n

---------------------------------------------------------------------------
(* The calls keep the invariant. *)

\* What a host finding is, for a finding of the core on boundaries.
LEMMA HostFindingIs ==
    ASSUME binding \in Bindings, NEW u \in Seq(Char), NEW f \in CoreFindings,
           f.from \in Boundaries(u), f.to \in Boundaries(u)
    PROVE  to_host_finding(u, f) \in HostFindings
  <1>1. to_host(u, f.from) \in Nat /\ to_host(u, f.to) \in Nat
    BY ToHostIs
  <1> QED BY <1>1 DEF to_host_finding, HostFindings, CoreFindings

\* A scan that succeeds.
LEMMA ScannedKeeps ==
    ASSUME CInv, NEW u \in CallTexts, NEW d \in Detections(u), NEW answers \in Answers(Len(d)),
           scan_error(answers) = "None",
           UNCHANGED <<binding, using, initialized>>,
           scanned' = [input |-> u, findings |-> with_actions(d, answers)],
           held' = [k \in DOMAIN with_actions(d, answers) |->
                      to_host_finding(u, with_actions(d, answers)[k])],
           edited' = FALSE
    PROVE  CallsShape' /\ HeldAreFound'
  <1> DEFINE fs == with_actions(d, answers)
             n == Len(d)
  <1>1. binding \in Bindings /\ u \in Seq(Char)
    BY HostCallTexts DEF CInv, CallsShape
  <1>2. /\ fs \in Seq(CoreFindings) /\ Len(fs) = n /\ valid(u, fs)
        /\ DOMAIN fs = 1 .. n /\ n \in 0 .. 2
    BY <1>1, ScannedAre
  <1>3. held' = [k \in 1 .. n |-> to_host_finding(u, fs[k])]
    BY <1>2
  <1>4. scanned' = [input |-> u, findings |-> fs]
    OBVIOUS
  <1> HIDE DEF fs, n
  <1>5. ASSUME NEW k \in 1 .. n
        PROVE  to_host_finding(u, fs[k]) \in HostFindings
    <2>1. fs[k] \in CoreFindings
      BY <1>2
    <2>2. fs[k].from \in Boundaries(u) /\ fs[k].to \in Boundaries(u)
      BY <1>2 DEF valid
    <2> QED BY <1>1, <2>1, <2>2, HostFindingIs
  <1>6. held' \in Seq(HostFindings) /\ Len(held') = n
    BY <1>2, <1>3, <1>5
  <1>7. CallsShape'
    <2>1. scanned' \in [input : CallTexts \cup {<<>>}, findings : Seq(CoreFindings)]
      BY <1>2, <1>4
    <2>2. scanned'.findings = fs
      BY <1>4
    <2>3. /\ binding' \in Bindings /\ using' \in {"session", "calls"}
          /\ initialized' \in BOOLEAN /\ edited' \in BOOLEAN
      BY DEF CInv, CallsShape
    <2>4. Len(held') = Len(scanned'.findings) /\ Len(held') <= 2
      BY <1>2, <1>6, <2>2
    <2> QED BY <1>6, <2>1, <2>3, <2>4 DEF CallsShape
  <1>8. HeldAreFound'
    <2> DEFINE p == [k \in 1 .. n |-> k]
    <2>1. Order(p, n) /\ \A k \in 1 .. n : p[k] = k
      BY DEF Order
    <2> HIDE DEF p
    <2>2. scanned'.input = u /\ scanned'.findings = fs
      BY <1>4
    <2>3. \A k \in 1 .. Len(held') :
             held'[k] = to_host_finding(u, fs[p[k]])'
      BY <1>3, <1>6, <2>1 DEF to_host_finding, to_host
    <2>4. valid(scanned'.input, scanned'.findings)
      BY <1>2, <2>2
    <2> QED BY <1>6, <2>1, <2>2, <2>3, <2>4 DEF HeldAreFound
  <1> QED BY <1>7, <1>8

\* A step that leaves the findings alone and has no result.
LEMMA NoResultKeeps ==
    ASSUME CInv, UNCHANGED <<binding, using, scanned, held, edited>>,
           initialized' \in BOOLEAN, result' = result \/ result'.given = <<>>
    PROVE  CInv'
  <1>1. CallsShape'
    BY DEF CInv, CallsShape
  <1>2. HeldAreFound'
    BY DEF CInv, HeldAreFound, to_host_finding, to_host
  <1>3. ResultIsHeld'
    BY DEF CInv, ResultIsHeld, to_core, from_js_finding
  <1> QED BY <1>1, <1>2, <1>3 DEF CInv

LEMMA FailsGivesNothing ==
    ASSUME NEW code, Fails(code)
    PROVE  UNCHANGED <<scanned, held, edited>> /\ result'.given = <<>>
  BY DEF Fails, NoResult

LEMMA ScanKeeps ==
    ASSUME CInv, NEW u \in CallTexts, NEW d \in Detections(u), NEW answers \in Answers(Len(d)),
           Scan(u, d, answers)
    PROVE  CInv'
  <1>1. UNCHANGED <<binding, using, initialized>> /\ initialized' \in BOOLEAN
    BY DEF Scan, host_calls, CInv, CallsShape
  <1>2. CASE scan_error(answers) = "None"
    <2>1. CallsShape' /\ HeldAreFound'
      BY <1>1, <1>2, ScannedKeeps DEF Scan
    <2>2. result'.given = <<>>
      BY <1>2 DEF Scan, NoResult
    <2> QED BY <2>1, <2>2 DEF CInv, ResultIsHeld
  <1>3. CASE scan_error(answers) # "None"
    <2>1. Fails(scan_error(answers))
      BY <1>3 DEF Scan
    <2> QED BY <1>1, <2>1, FailsGivesNothing, NoResultKeeps
  <1> QED BY <1>2, <1>3

LEMMA RedactKeeps ==
    ASSUME CInv, NEW u \in CallTexts, NEW answer \in FormatterAnswers, Redact(u, answer)
    PROVE  CInv'
  <1>1. UNCHANGED <<binding, using, initialized, scanned, held, edited>>
    BY DEF Redact, host_calls
  <1>2. CallsShape'
    BY <1>1 DEF CInv, CallsShape
  <1>3. HeldAreFound'
    BY <1>1 DEF CInv, HeldAreFound, to_host_finding, to_host
  <1>4. ResultIsHeld'
    <2> DEFINE given == [k \in DOMAIN held |-> to_core(u, held[k])]
    <2>1. result' = run_redact(u, given, answer)
      BY DEF Redact
    <2>2. result'.input = u
      BY <2>1 DEF run_redact
    <2>3. given = [k \in DOMAIN held' |-> to_core(u, held[k])']
      BY <1>1 DEF to_core, from_js_finding
    <2> HIDE DEF given
    <2>4. result' = run_redact(u, [k \in DOMAIN held' |-> to_core(u, held[k])'], answer)
      BY <2>1, <2>3
    <2> QED BY <2>2, <2>4 DEF ResultIsHeld
  <1> QED BY <1>2, <1>3, <1>4 DEF CInv

LEMMA ScanAndRedactKeeps ==
    ASSUME CInv, NEW u \in CallTexts, NEW d \in Detections(u), NEW answers \in Answers(Len(d)),
           NEW answer \in FormatterAnswers, ScanAndRedact(u, d, answers, answer)
    PROVE  CInv'
  <1> DEFINE fs == with_actions(d, answers)
             redacted == run_redact(u, fs, answer)
  <1>1. UNCHANGED <<binding, using, initialized>> /\ initialized' \in BOOLEAN
    BY DEF ScanAndRedact, host_calls, CInv, CallsShape
  <1>2. \/ Fails(scan_error(answers))
        \/ Fails(redacted.error)
        \/ /\ scan_error(answers) = "None"
           /\ scanned' = [input |-> u, findings |-> fs]
           /\ held' = [k \in DOMAIN fs |-> to_host_finding(u, fs[k])]
           /\ edited' = FALSE /\ result' = redacted
    BY DEF ScanAndRedact
  <1>3. CASE Fails(scan_error(answers)) \/ Fails(redacted.error)
    BY <1>1, <1>3, FailsGivesNothing, NoResultKeeps
  <1>4. CASE /\ scan_error(answers) = "None"
             /\ scanned' = [input |-> u, findings |-> fs]
             /\ held' = [k \in DOMAIN fs |-> to_host_finding(u, fs[k])]
             /\ edited' = FALSE /\ result' = redacted
    <2>1. CallsShape' /\ HeldAreFound'
      BY <1>1, <1>4, ScannedKeeps
    <2>2. binding \in Bindings /\ u \in Seq(Char)
      BY HostCallTexts DEF CInv, CallsShape
    <2>3. /\ fs \in Seq(CoreFindings) /\ valid(u, fs) /\ DOMAIN fs = 1 .. Len(d)
      BY <1>4, <2>2, ScannedAre
    <2>4. result'.input = u /\ result' = run_redact(u, fs, answer)
      BY <1>4 DEF run_redact
    <2>5. /\ DOMAIN held' = 1 .. Len(d)
          /\ \A k \in 1 .. Len(d) : held'[k] = to_host_finding(u, fs[k])
      BY <1>4, <2>3
    <2> HIDE DEF fs
    <2>6. ASSUME NEW k \in 1 .. Len(d)
          PROVE  to_core(u, held[k])' = fs[k]
      <3>1. fs[k] \in CoreFindings /\ fs[k].from \in Boundaries(u) /\ fs[k].to \in Boundaries(u)
        BY <2>3 DEF valid
      <3>2. to_core(u, to_host_finding(u, fs[k])) = fs[k]
        BY <2>2, <3>1, HandedBack
      <3>3. to_core(u, held[k])' = to_core(u, to_host_finding(u, fs[k]))
        BY <1>1, <2>5 DEF to_core, from_js_finding
      <3> QED BY <3>2, <3>3
    <2>7. fs = [k \in DOMAIN held' |-> to_core(u, held[k])']
      BY <2>3, <2>5, <2>6
    <2>8. result' = run_redact(u, [k \in DOMAIN held' |-> to_core(u, held[k])'], answer)
      BY <2>4, <2>7
    <2>9. ResultIsHeld'
      BY <2>4, <2>8 DEF ResultIsHeld
    <2> QED BY <2>1, <2>9 DEF CInv
  <1> QED BY <1>2, <1>3, <1>4

LEMMA HostReordersKeeps ==
    ASSUME CInv, HostReorders
    PROVE  CInv'
  <1>1. /\ UNCHANGED <<binding, using, initialized, scanned, edited>>
        /\ Len(held) = 2 /\ held' = <<held[2], held[1]>> /\ result'.given = <<>>
    BY DEF HostReorders, host_calls, NoResult
  <1>2. /\ held \in Seq(HostFindings) /\ held[1] \in HostFindings /\ held[2] \in HostFindings
    <2>1. held \in Seq(HostFindings)
      BY DEF CInv, CallsShape
    <2> QED BY <1>1, <2>1
  <1>3. held' \in Seq(HostFindings) /\ Len(held') = 2 /\ held'[1] = held[2] /\ held'[2] = held[1]
    BY <1>1, <1>2
  <1>4. CallsShape'
    BY <1>1, <1>3 DEF CInv, CallsShape
  <1>5. HeldAreFound'
    <2>1. ASSUME ~edited
          PROVE  \E p : /\ Order(p, 2)
                        /\ \A k \in 1 .. 2 :
                             held'[k] = to_host_finding(scanned.input, scanned.findings[p[k]])
      <3>1. PICK p : /\ Order(p, 2)
                     /\ \A k \in 1 .. 2 :
                           held[k] = to_host_finding(scanned.input, scanned.findings[p[k]])
        BY <1>1, <2>1 DEF CInv, HeldAreFound
      <3> DEFINE q == [k \in 1 .. 2 |-> p[3 - k]]
      <3>2. /\ q \in [1 .. 2 -> 1 .. 2] /\ q[1] = p[2] /\ q[2] = p[1]
        BY <3>1 DEF Order
      <3> HIDE DEF q
      <3>3. \A k \in 1 .. 2 : k = 1 \/ k = 2
        OBVIOUS
      <3>4. Order(q, 2)
        <4>1. \A j, k \in 1 .. 2 : q[j] = q[k] => j = k
          BY <3>1, <3>2, <3>3 DEF Order
        <4>2. \A k \in 1 .. 2 : \E j \in 1 .. 2 : q[j] = k
          BY <3>1, <3>2, <3>3 DEF Order
        <4> QED BY <3>2, <4>1, <4>2 DEF Order
      <3>5. \A k \in 1 .. 2 : held'[k] = to_host_finding(scanned.input, scanned.findings[q[k]])
        BY <1>3, <3>1, <3>2, <3>3
      <3> QED BY <3>4, <3>5
    <2>2. valid(scanned.input, scanned.findings)' /\ (edited => binding = "node")'
      BY <1>1 DEF CInv, HeldAreFound
    <2>3. \A u, f : to_host_finding(u, f)' = to_host_finding(u, f)
      BY <1>1 DEF to_host_finding, to_host
    <2>4. (~edited)' => \E p : /\ Order(p, Len(held'))
                              /\ \A k \in 1 .. Len(held') :
                                    held'[k] = to_host_finding(scanned.input, scanned.findings[p[k]])
      BY <1>1, <1>3, <2>1
    <2> QED BY <1>1, <2>2, <2>3, <2>4 DEF HeldAreFound
  <1> QED BY <1>1, <1>4, <1>5 DEF CInv, ResultIsHeld

LEMMA HostEditsKeeps ==
    ASSUME CInv, NEW k, NEW start \in Nat, NEW end \in Nat, NEW action \in {"redact", "unknown"},
           HostEdits(k, start, end, action)
    PROVE  CInv'
  <1>1. /\ UNCHANGED <<binding, using, initialized, scanned>> /\ binding = "node"
        /\ k \in DOMAIN held /\ edited' = TRUE /\ result'.given = <<>>
        /\ held' = [held EXCEPT ![k].start = start, ![k].end = end, ![k].action = action]
    BY DEF HostEdits, host_calls, NoResult
  <1>2. held \in Seq(HostFindings) /\ k \in 1 .. Len(held) /\ held[k] \in HostFindings
    BY <1>1 DEF CInv, CallsShape
  <1> DEFINE f == [held[k] EXCEPT !.start = start, !.end = end, !.action = action]
  <1>3. f \in HostFindings
    BY <1>2 DEF HostFindings, Actions
  <1>4. held' = [held EXCEPT ![k] = f]
    BY <1>1, <1>2 DEF HostFindings
  <1> HIDE DEF f
  <1>5. held' \in Seq(HostFindings) /\ Len(held') = Len(held)
    BY <1>2, <1>3, <1>4
  <1>6. CallsShape'
    BY <1>1, <1>5 DEF CInv, CallsShape
  <1>7. HeldAreFound'
    BY <1>1 DEF CInv, HeldAreFound
  <1> QED BY <1>1, <1>6, <1>7 DEF CInv, ResultIsHeld

LEMMA CallsInitHold == Init => CInv
  <1>1. SUFFICES ASSUME Init PROVE CInv
    OBVIOUS
  <1>2. /\ binding \in Bindings /\ using \in {"session", "calls"}
        /\ initialized = (binding # "wasm")
        /\ scanned = [input |-> <<>>, findings |-> <<>>]
        /\ held = <<>> /\ edited = FALSE /\ result.given = <<>>
    BY <1>1 DEF Init, NoResult
  <1>3. CallsShape
    <2>1. <<>> \in Seq(CoreFindings) /\ <<>> \in Seq(HostFindings) /\ Len(<<>>) = 0
      OBVIOUS
    <2>2. initialized \in BOOLEAN /\ edited \in BOOLEAN
      BY <1>2
    <2>3. scanned \in [input : CallTexts \cup {<<>>}, findings : Seq(CoreFindings)]
      BY <1>2, <2>1
    <2> QED BY <1>2, <2>1, <2>2, <2>3 DEF CallsShape
  <1>4. HeldAreFound
    <2>1. Order(<<>>, 0)
      BY DEF Order
    <2>2. DOMAIN scanned.findings = {} /\ Len(held) = 0
      BY <1>2
    <2> QED BY <1>2, <2>1, <2>2 DEF HeldAreFound, valid
  <1> QED BY <1>2, <1>3, <1>4 DEF CInv, ResultIsHeld

LEMMA CallsNextPreserves == CInv /\ [Next]_vars => CInv'
  <1>1. SUFFICES ASSUME CInv, [Next]_vars
                 PROVE  CInv'
    OBVIOUS
  <1>2. CASE UNCHANGED <<binding, call_vars>>
    <2>1. UNCHANGED <<binding, using, initialized, scanned, held, edited, result>>
      BY <1>2 DEF call_vars
    <2>2. initialized' \in BOOLEAN
      BY <1>1, <2>1 DEF CInv, CallsShape
    <2> QED BY <1>1, <2>1, <2>2, NoResultKeeps
  <1>3. CASE Initialize
    <2>1. /\ UNCHANGED <<binding, using, scanned, held, edited, result>>
          /\ initialized' \in BOOLEAN
      BY <1>3 DEF Initialize, host_calls
    <2> QED BY <1>1, <2>1, NoResultKeeps
  <1>4. CASE NotInitialized \/ NotText
    <2>1. /\ UNCHANGED <<binding, using, initialized>>
          /\ Fails("NOT_INITIALIZED") \/ Fails("INVALID_INPUT")
      BY <1>4 DEF NotInitialized, NotText, host_calls
    <2>2. initialized' \in BOOLEAN
      BY <1>1, <2>1 DEF CInv, CallsShape
    <2> QED BY <1>1, <2>1, <2>2, FailsGivesNothing, NoResultKeeps
  <1>5. ASSUME NEW u \in CallTexts, NEW d \in Detections(u), NEW answers \in Answers(Len(d)),
               Scan(u, d, answers)
        PROVE  CInv'
    BY <1>1, <1>5, ScanKeeps
  <1>6. ASSUME NEW u \in CallTexts, NEW answer \in FormatterAnswers, Redact(u, answer)
        PROVE  CInv'
    BY <1>1, <1>6, RedactKeeps
  <1>7. ASSUME NEW u \in CallTexts, NEW d \in Detections(u), NEW answers \in Answers(Len(d)),
               NEW answer \in FormatterAnswers, ScanAndRedact(u, d, answers, answer)
        PROVE  CInv'
    BY <1>1, <1>7, ScanAndRedactKeeps
  <1>8. CASE HostReorders
    BY <1>1, <1>8, HostReordersKeeps
  <1>9. ASSUME NEW k \in 1 .. 2, NEW start \in 0 .. units(binding, scanned.input) + 1,
               NEW end \in 0 .. units(binding, scanned.input) + 1,
               NEW action \in {"redact", "unknown"}, HostEdits(k, start, end, action)
        PROVE  CInv'
    <2>1. start \in Nat /\ end \in Nat
      OBVIOUS
    <2> QED BY <1>1, <1>9, <2>1, HostEditsKeeps
  <1> QED BY <1>1, <1>2, <1>3, <1>4, <1>5, <1>6, <1>7, <1>8, <1>9 DEF Next, vars

\* The findings a host holds are the last scan's, in some order, unless it edited them; a result
\* is that of the findings it holds.
THEOREM CallsInvariant == Spec => []CInv
  BY CallsInitHold, CallsNextPreserves, PTL DEF Spec

\* The types of a session, its index, and of the host program with its findings.
THEOREM TypeCorrect == Spec => []TypeOK
  <1>1. SInv /\ CInv => TypeOK
    <2>1. CallsShape => /\ scanned.input \in CallTexts \cup {<<>>} /\ Len(held) <= 2
                        /\ binding \in Bindings /\ using \in {"session", "calls"}
                        /\ initialized \in BOOLEAN /\ edited \in BOOLEAN
      BY DEF CallsShape
    <2> QED BY <2>1 DEF SInv, SessionShape, CInv, TypeOK
  <1> QED BY <1>1, Invariant, CallsInvariant, PTL

\* Whatever order the host puts them in, the findings of a scan redact the scanned text, and what
\* is replaced is what the scan found.
THEOREM FindingsRedact == Spec => []ScannedFindingsRedact
  <1>1. ASSUME CInv
        PROVE  ScannedFindingsRedact
    <2>1. SUFFICES ASSUME ~edited, result.given # <<>>, result.input = scanned.input
                   PROVE  /\ result.error # "INVALID_FINDINGS"
                          /\ result.error = "None" =>
                                result.replaced = replaced_by(scanned.findings)
      BY DEF ScannedFindingsRedact
    <2> DEFINE u == result.input
               n == Len(held)
               fs == scanned.findings
               gs == [k \in DOMAIN held |-> to_core(u, held[k])]
    <2>2. u \in CallTexts /\ \E answer \in FormatterAnswers : result = run_redact(u, gs, answer)
      BY <1>1, <2>1 DEF CInv, ResultIsHeld
    <2>3. /\ n \in Nat /\ fs \in Seq(CoreFindings) /\ DOMAIN fs = 1 .. n /\ DOMAIN held = 1 .. n
          /\ binding \in Bindings /\ u \in Seq(Char)
      BY <1>1, <2>2, HostCallTexts DEF CInv, CallsShape
    <2>4. PICK p : /\ Order(p, n)
                   /\ \A k \in 1 .. n : held[k] = to_host_finding(u, fs[p[k]])
      BY <1>1, <2>1 DEF CInv, HeldAreFound
    <2>5. valid(u, fs)
      BY <1>1, <2>1 DEF CInv, HeldAreFound
    <2>6. DOMAIN gs = 1 .. n /\ \A k \in 1 .. n : gs[k] = to_core(u, held[k])
      BY <2>3
    <2> HIDE DEF u, n, fs, gs
    <2>7. ASSUME NEW k \in 1 .. n
          PROVE  gs[k] = fs[p[k]]
      <3>1. p[k] \in 1 .. n
        BY <2>4 DEF Order
      <3>2. /\ fs[p[k]] \in CoreFindings /\ fs[p[k]].from \in Boundaries(u)
            /\ fs[p[k]].to \in Boundaries(u)
        BY <2>3, <2>5, <3>1 DEF valid
      <3>3. to_core(u, to_host_finding(u, fs[p[k]])) = fs[p[k]]
        BY <2>3, <3>2, HandedBack
      <3> QED BY <2>4, <2>6, <3>3
    <2>8. valid(u, gs) /\ replaced_by(gs) = replaced_by(fs)
      <3>1. Reorders(gs, fs, n)
        BY <2>3, <2>4, <2>6, <2>7 DEF Reorders
      <3> QED BY <2>5, <3>1, OrderDoesNotMatter
    <2>9. ASSUME NEW answer \in FormatterAnswers, result = run_redact(u, gs, answer)
          PROVE  /\ result.error # "INVALID_FINDINGS"
                 /\ result.error = "None" => result.replaced = replaced_by(gs)
      BY <2>8, <2>9 DEF run_redact, formatter_error
    <2> QED BY <2>2, <2>8, <2>9 DEF fs
  <1> QED BY <1>1, CallsInvariant, PTL

\* What a redaction replaced is, in the host's own string, what the findings it passed name.
THEOREM NamedIsRedacted == Spec => []RedactsWhatTheHostNamed
  <1>1. ASSUME CInv
        PROVE  RedactsWhatTheHostNamed
    <2> DEFINE u == result.input
               n == Len(held)
               gs == [k \in DOMAIN held |-> to_core(u, held[k])]
               R(b) == Reference(binding, u, b)
    <2>1. SUFFICES ASSUME result.given # <<>>, result.error = "None",
                          binding = "node" \/ u = scanned.input
                   PROVE  {<<R(r.from), R(r.to)>> : r \in result.replaced}
                          = {<<held[k].start, held[k].end>> :
                               k \in {j \in DOMAIN held : held[j].action = "redact"}}
      BY DEF RedactsWhatTheHostNamed
    <2>2. u \in CallTexts /\ \E answer \in FormatterAnswers : result = run_redact(u, gs, answer)
      BY <1>1, <2>1 DEF CInv, ResultIsHeld
    <2>3. /\ n \in Nat /\ DOMAIN held = 1 .. n /\ binding \in Bindings /\ u \in Seq(Char)
          /\ held \in Seq(HostFindings)
      BY <1>1, <2>2, HostCallTexts DEF CInv, CallsShape
    <2>4. DOMAIN gs = 1 .. n /\ \A k \in 1 .. n : gs[k] = to_core(u, held[k])
      BY <2>3
    <2> HIDE DEF gs
    <2>5. valid(u, gs) /\ result.replaced = replaced_by(gs)
      <3>1. ASSUME NEW answer \in FormatterAnswers, result = run_redact(u, gs, answer)
            PROVE  valid(u, gs) /\ result.replaced = replaced_by(gs)
        <4>1. result.error = IF ~valid(u, gs) THEN "INVALID_FINDINGS"
                             ELSE IF replaced_by(gs) # {} THEN formatter_error(answer)
                             ELSE "None"
          BY <3>1 DEF run_redact
        <4>2. valid(u, gs)
          <5>1. ~valid(u, gs) => result.error = "INVALID_FINDINGS"
            BY <4>1
          <5> QED BY <2>1, <5>1
        <4>3. result.replaced = IF result.error = "None" THEN replaced_by(gs) ELSE {}
          BY <3>1 DEF run_redact
        <4> QED BY <2>1, <4>2, <4>3
      <3> QED BY <2>2, <3>1
    <2>6. ASSUME NEW k \in 1 .. n
          PROVE  /\ gs[k].action = held[k].action
                 /\ R(gs[k].from) = held[k].start /\ R(gs[k].to) = held[k].end
      <3>1. gs[k].from \in Boundaries(u) /\ gs[k].to \in Boundaries(u)
        BY <2>4, <2>5 DEF valid
      <3>2. CASE binding = "node"
        <4>1. /\ gs[k].from = utf16_to_byte(u, held[k].start)
              /\ gs[k].to = utf16_to_byte(u, held[k].end)
              /\ gs[k].action = held[k].action
          BY <2>4, <3>2 DEF to_core, from_js_finding
        <4> QED BY <2>3, <3>1, <3>2, <4>1, FromUtf16AndBack
      <3>3. CASE binding # "node"
        <4>1. /\ gs[k].from = held[k].from /\ gs[k].to = held[k].to
              /\ gs[k].action = held[k].action
          BY <2>4, <3>3 DEF to_core, into_inner
        <4>2. \E f : held[k] = to_host_finding(u, f)
          BY <1>1, <2>1, <2>3, <3>3 DEF CInv, HeldAreFound
        <4>3. held[k].start = to_host(u, held[k].from) /\ held[k].end = to_host(u, held[k].to)
          BY <4>2 DEF to_host_finding
        <4> QED BY <2>3, <3>1, <4>1, <4>3, ToHostIs
      <3> QED BY <3>2, <3>3
    <2>7. result.replaced = {[from |-> gs[k].from, to |-> gs[k].to] :
                               k \in {j \in 1 .. n : gs[j].action = "redact"}}
      BY <2>4, <2>5 DEF replaced_by
    <2> HIDE DEF R, n
    <2>8. {<<R(r.from), R(r.to)>> : r \in result.replaced}
          = {<<R(gs[k].from), R(gs[k].to)>> : k \in {j \in 1 .. n : gs[j].action = "redact"}}
      <3> DEFINE G(k) == [from |-> gs[k].from, to |-> gs[k].to]
                 J == {j \in 1 .. n : gs[j].action = "redact"}
      <3>1. \A k : G(k).from = gs[k].from /\ G(k).to = gs[k].to
        OBVIOUS
      <3>2. result.replaced = {G(k) : k \in J}
        BY <2>7
      <3> HIDE DEF G, J
      <3> QED BY <3>1, <3>2 DEF J
    <2>9. {j \in 1 .. n : gs[j].action = "redact"} = {j \in DOMAIN held : held[j].action = "redact"}
      BY <2>3, <2>6
    <2> QED BY <2>6, <2>8, <2>9
  <1> QED BY <1>1, CallsInvariant, PTL

=============================================================================
