------------------------ MODULE DelimiterTrackerProofs ------------------------
(***************************************************************************)
(* The retention tracker, for all texts and all ways of cutting them into  *)
(* pieces: it loses no delimiter and counts none twice.                    *)
(***************************************************************************)
EXTENDS DelimiterTracker, SequenceLemmas

---------------------------------------------------------------------------
(* Where a delimiter occurs. *)

Kinds == DOMAIN KindOf

\* A delimiter at position i of u, symbol by symbol.
At(k, l, u, i) ==
    /\ i + Len(l) + 2 <= Len(u)
    /\ u[i] = "dash" /\ u[i + 1] = k
    /\ l = <<"pk">> => u[i + 2] = "pk"
    /\ l = <<"rsa", "pk">> => u[i + 2] = "rsa" /\ u[i + 3] = "pk"
    /\ u[i + Len(l) + 2] = "dash"

LEMMA KindsAndLabels ==
    /\ Kinds = {"begin", "end"} /\ Kinds \subseteq Symbol
    /\ \A k \in Kinds : KindOf[k] \in {"Begin", "End"}
    /\ \A j, k \in Kinds : KindOf[j] = KindOf[k] => j = k
    /\ \A l \in LABELS : l = <<"pk">> \/ l = <<"rsa", "pk">>
    /\ Len(<<"pk">>) = 1 /\ Len(<<"rsa", "pk">>) = 2 /\ <<"pk">> # <<"rsa", "pk">>
    /\ \A l \in LABELS : l \in Seq(Symbol)
  BY DEF Kinds, KindOf, LABELS, Symbol

LEMMA LabelLength ==
    ASSUME NEW l \in LABELS
    PROVE  Len(l) \in Nat /\ (Len(l) = 1 \/ Len(l) = 2)
  BY DEF LABELS

LEMMA ConcatIs ==
    ASSUME NEW S, NEW a \in Seq(S), NEW b \in Seq(S)
    PROVE  /\ a \o b \in Seq(S) /\ Len(a \o b) = Len(a) + Len(b)
           /\ \A i \in 1 .. Len(a) : (a \o b)[i] = a[i]
           /\ \A i \in 1 .. Len(b) : (a \o b)[Len(a) + i] = b[i]
  <1>1. /\ a \o b \in Seq(S) /\ Len(a \o b) = Len(a) + Len(b)
        /\ Len(a) \in Nat /\ Len(b) \in Nat
        /\ \A i \in 1 .. Len(a) + Len(b) :
               (a \o b)[i] = IF i <= Len(a) THEN a[i] ELSE b[i - Len(a)]
    BY ConcatProperties
  <1>2. ASSUME NEW i \in 1 .. Len(a) PROVE (a \o b)[i] = a[i]
    BY <1>1
  <1>3. ASSUME NEW i \in 1 .. Len(b) PROVE (a \o b)[Len(a) + i] = b[i]
    <2>1. /\ Len(a) + i \in 1 .. Len(a) + Len(b) /\ ~(Len(a) + i <= Len(a))
          /\ Len(a) + i - Len(a) = i
      BY <1>1
    <2> QED BY <1>1, <2>1
  <1> QED BY <1>1, <1>2, <1>3

LEMMA FormIs ==
    ASSUME NEW k \in Kinds, NEW l \in LABELS
    PROVE  /\ Form(k, l) \in Seq(Symbol) /\ Len(Form(k, l)) = Len(l) + 3
           /\ Form(k, l)[1] = "dash" /\ Form(k, l)[2] = k
           /\ \A j \in 1 .. Len(l) : Form(k, l)[2 + j] = l[j]
           /\ Form(k, l)[Len(l) + 3] = "dash"
  <1> DEFINE a == <<"dash", k>>
             b == a \o l
             c == <<"dash">>
             d == b \o c
  <1>1. k \in Symbol /\ l \in Seq(Symbol)
    BY KindsAndLabels
  <1>2. a \in Seq(Symbol) /\ Len(a) = 2 /\ a[1] = "dash" /\ a[2] = k
    BY <1>1 DEF Symbol
  <1>3. c \in Seq(Symbol) /\ Len(c) = 1 /\ c[1] = "dash"
    BY DEF Symbol
  <1>4. Form(k, l) = d
    BY DEF Form
  <1> HIDE DEF a, c
  <1>8. b = a \o l
    OBVIOUS
  <1>9. d = b \o c
    OBVIOUS
  <1> HIDE DEF b, d
  <1>5. /\ b \in Seq(Symbol) /\ Len(b) = 2 + Len(l) /\ b[1] = "dash" /\ b[2] = k
        /\ \A j \in 1 .. Len(l) : b[2 + j] = l[j]
    <2>1. /\ b \in Seq(Symbol) /\ Len(b) = Len(a) + Len(l)
          /\ \A i \in 1 .. Len(a) : b[i] = a[i]
          /\ \A i \in 1 .. Len(l) : b[Len(a) + i] = l[i]
      BY <1>1, <1>2, <1>8, ConcatIs
    <2> QED BY <1>2, <2>1, LabelLength
  <1>6. /\ d \in Seq(Symbol) /\ Len(d) = Len(b) + 1
        /\ \A i \in 1 .. Len(b) : d[i] = b[i]
        /\ d[Len(b) + 1] = "dash"
    <2>1. /\ d \in Seq(Symbol) /\ Len(d) = Len(b) + Len(c)
          /\ \A i \in 1 .. Len(b) : d[i] = b[i]
          /\ \A i \in 1 .. Len(c) : d[Len(b) + i] = c[i]
      <3>1. b \in Seq(Symbol) /\ c \in Seq(Symbol)
        BY <1>3, <1>5
      <3> QED BY <3>1, <1>9, ConcatIs
    <2> QED BY <1>3, <2>1
  <1>7. Len(l) \in Nat
    BY LabelLength
  <1> QED BY <1>4, <1>5, <1>6, <1>7

LEMMA AtIs ==
    ASSUME NEW u \in Seq(Symbol), NEW k \in Kinds, NEW l \in LABELS, NEW i \in Nat \ {0}
    PROVE  Occurs(Form(k, l), u, i) <=> At(k, l, u, i)
  <1> DEFINE n == Len(l) + 3
             part == SubSeq(u, i, i + n - 1)
             form == Form(k, l)
  <1>1. /\ Len(u) \in Nat /\ Len(l) \in Nat /\ n \in Nat /\ i + n - 1 = i + Len(l) + 2
        /\ form \in Seq(Symbol) /\ Len(form) = n
        /\ form[1] = "dash" /\ form[2] = k /\ form[n] = "dash"
        /\ \A j \in 1 .. Len(l) : form[2 + j] = l[j]
    BY FormIs, LabelLength
  <1>2. Occurs(form, u, i) <=> i + Len(l) + 2 <= Len(u) /\ part = form
    BY <1>1 DEF Occurs
  <1>3. CASE i + Len(l) + 2 <= Len(u)
    <2>1. /\ part \in Seq(Symbol) /\ Len(part) = n
          /\ \A j \in 1 .. n : part[j] = u[i + j - 1]
      <3>1. \A j \in i .. i + n - 1 : j \in 1 .. Len(u)
        BY <1>1, <1>3
      <3>2. i + n - 1 - i + 1 = n /\ i <= i + n - 1
        BY <1>1
      <3> QED BY <1>1, <3>1, <3>2, SubSeqProperties
    <2> HIDE DEF part, form
    <2>2. part = form <=> \A j \in 1 .. n : form[j] = u[i + j - 1]
      BY <1>1, <2>1, SeqEqual
    <2>3. CASE l = <<"pk">>
      <3>1. Len(l) = 1 /\ l[1] = "pk" /\ l # <<"rsa", "pk">>
        BY <2>3
      <3>2. n = 4 /\ form[1] = "dash" /\ form[2] = k /\ form[3] = "pk" /\ form[4] = "dash"
        BY <1>1, <3>1
      <3>3. \A j \in 1 .. n : j = 1 \/ j = 2 \/ j = 3 \/ j = 4
        BY <3>2
      <3>4. part = form <=> /\ u[i] = "dash" /\ u[i + 1] = k /\ u[i + 2] = "pk"
                            /\ u[i + 3] = "dash"
        BY <2>2, <3>2, <3>3
      <3> QED BY <1>2, <1>3, <2>3, <3>1, <3>4 DEF At, form
    <2>4. CASE l = <<"rsa", "pk">>
      <3>1. Len(l) = 2 /\ l[1] = "rsa" /\ l[2] = "pk" /\ l # <<"pk">>
        BY <2>4
      <3>2. n = 5 /\ form[1] = "dash" /\ form[2] = k /\ form[3] = "rsa" /\ form[4] = "pk"
            /\ form[5] = "dash"
        BY <1>1, <3>1
      <3>3. \A j \in 1 .. n : j = 1 \/ j = 2 \/ j = 3 \/ j = 4 \/ j = 5
        BY <3>2
      <3>4. /\ i + 1 - 1 = i /\ i + 2 - 1 = i + 1 /\ i + 3 - 1 = i + 2
            /\ i + 4 - 1 = i + 3 /\ i + 5 - 1 = i + 4
        OBVIOUS
      <3>5. part = form <=> /\ u[i] = "dash" /\ u[i + 1] = k /\ u[i + 2] = "rsa"
                            /\ u[i + 3] = "pk" /\ u[i + 4] = "dash"
        <4>1. ASSUME part = form
              PROVE  /\ u[i] = "dash" /\ u[i + 1] = k /\ u[i + 2] = "rsa"
                     /\ u[i + 3] = "pk" /\ u[i + 4] = "dash"
          <5>1. 1 \in 1 .. n /\ 2 \in 1 .. n /\ 3 \in 1 .. n /\ 4 \in 1 .. n /\ 5 \in 1 .. n
            BY <3>2
          <5>2. \A j \in 1 .. n : form[j] = u[i + j - 1]
            BY <2>2, <4>1
          <5> HIDE DEF n
          <5> QED BY <3>2, <3>4, <5>1, <5>2
        <4>2. ASSUME /\ u[i] = "dash" /\ u[i + 1] = k /\ u[i + 2] = "rsa"
                     /\ u[i + 3] = "pk" /\ u[i + 4] = "dash"
              PROVE  part = form
          <5>1. ASSUME NEW j \in 1 .. n PROVE form[j] = u[i + j - 1]
            BY <3>2, <3>3, <3>4, <4>2
          <5> QED BY <2>2, <5>1
        <4> QED BY <4>1, <4>2
      <3> QED BY <1>2, <1>3, <2>4, <3>1, <3>5 DEF At, form
    <2> QED BY <2>3, <2>4, KindsAndLabels
  <1>4. CASE ~(i + Len(l) + 2 <= Len(u))
    BY <1>2, <1>4 DEF At
  <1> QED BY <1>3, <1>4

\* One delimiter at most begins at a position, and what lies inside one begins none.
LEMMA SameAt ==
    ASSUME NEW u, NEW i \in Nat, NEW j \in Kinds, NEW k \in Kinds, NEW l \in LABELS,
           NEW q \in LABELS, At(j, l, u, i), At(k, q, u, i)
    PROVE  j = k /\ l = q
  <1>1. j = k
    BY DEF At
  <1>2. l # q => u[i + 2] = "pk" /\ u[i + 2] = "rsa"
    <2>1. (l = <<"pk">> \/ l = <<"rsa", "pk">>) /\ (q = <<"pk">> \/ q = <<"rsa", "pk">>)
      BY KindsAndLabels
    <2> QED BY <2>1 DEF At
  <1> QED BY <1>1, <1>2

LEMMA NotInside ==
    ASSUME NEW u, NEW i \in Nat, NEW n \in Nat, NEW j \in Kinds, NEW k \in Kinds,
           NEW l \in LABELS, NEW q \in LABELS, At(j, l, u, i), At(k, q, u, n), i < n
    PROVE  i + Len(l) + 2 <= n
  <1>1. CASE l = <<"pk">>
    <2>1. n = i + 1 \/ n = i + 2 \/ i + 3 <= n
      OBVIOUS
    <2>2. u[i + 1] # "dash" /\ u[i + 2] # "dash" /\ u[n] = "dash"
      BY <1>1, KindsAndLabels DEF At
    <2> QED BY <1>1, <2>1, <2>2, KindsAndLabels
  <1>2. CASE l = <<"rsa", "pk">>
    <2>1. n = i + 1 \/ n = i + 2 \/ n = i + 3 \/ i + 4 <= n
      OBVIOUS
    <2>2. u[i + 1] # "dash" /\ u[i + 2] # "dash" /\ u[i + 3] # "dash" /\ u[n] = "dash"
      BY <1>2, KindsAndLabels DEF At
    <2> QED BY <1>2, <2>1, <2>2, KindsAndLabels
  <1> QED BY <1>1, <1>2, KindsAndLabels

\* Delimiters that share no dashes are apart.
LEMMA SharingIs ==
    ASSUME NEW u \in Seq(Symbol)
    PROVE  SharesDashes(u) <=>
             \E i \in 1 .. Len(u) : \E j, k \in Kinds : \E l, q \in LABELS :
                At(j, l, u, i) /\ At(k, q, u, i + Len(l) + 2)
  <1> DEFINE forms == {Form(k, l) : k \in Kinds, l \in LABELS}
  <1>1. SharesDashes(u) <=>
          \E i \in 1 .. Len(u) : \E d, e \in forms : Occurs(d, u, i) /\ Occurs(e, u, i + Len(d) - 1)
    <2>1. SharesDashes(u) <=>
            \E d \in forms, e \in forms, i \in 1 .. Len(u) :
               Occurs(d, u, i) /\ Occurs(e, u, i + Len(d) - 1)
      BY DEF SharesDashes, Kinds
    <2> HIDE DEF forms
    <2> QED BY <2>1
  <1>2. ASSUME NEW i \in 1 .. Len(u)
        PROVE  (\E d, e \in forms : Occurs(d, u, i) /\ Occurs(e, u, i + Len(d) - 1)) <=>
               \E j, k \in Kinds : \E l, q \in LABELS :
                 Occurs(Form(j, l), u, i) /\ Occurs(Form(k, q), u, i + Len(Form(j, l)) - 1)
    OBVIOUS
  <1>3. ASSUME NEW i \in 1 .. Len(u), NEW j \in Kinds, NEW k \in Kinds, NEW l \in LABELS,
               NEW q \in LABELS
        PROVE  (Occurs(Form(j, l), u, i) /\ Occurs(Form(k, q), u, i + Len(Form(j, l)) - 1)) <=>
               (At(j, l, u, i) /\ At(k, q, u, i + Len(l) + 2))
    <2>1. /\ i \in Nat \ {0} /\ Len(l) \in Nat /\ i + Len(l) + 2 \in Nat \ {0}
          /\ i + Len(Form(j, l)) - 1 = i + Len(l) + 2
      <3>1. Len(Form(j, l)) = Len(l) + 3
        BY FormIs
      <3> HIDE DEF forms
      <3> QED BY <3>1, LabelLength
    <2> QED BY <2>1, AtIs
  <1> HIDE DEF forms
  <1> QED BY <1>1, <1>2, <1>3

LEMMA Apart ==
    ASSUME NEW u \in Seq(Symbol), ~SharesDashes(u), NEW i \in Nat \ {0}, NEW n \in Nat \ {0},
           NEW j \in Kinds, NEW k \in Kinds, NEW l \in LABELS, NEW q \in LABELS,
           At(j, l, u, i), At(k, q, u, n), i < n
    PROVE  i + Len(l) + 2 < n
  <1>1. i + Len(l) + 2 <= n /\ Len(l) \in Nat
    <2>1. i \in Nat /\ n \in Nat
      OBVIOUS
    <2> QED BY <2>1, NotInside, LabelLength
  <1>2. i + Len(l) + 2 # n
    <2>1. i \in 1 .. Len(u)
      BY KindsAndLabels DEF At
    <2> QED BY <2>1, SharingIs
  <1> QED BY <1>1, <1>2

---------------------------------------------------------------------------
(* The delimiters of a text. *)

Delim(k, l, i) == [kind |-> KindOf[k], label |-> l, start |-> i, end |-> i + Len(l) + 2]

\* What `delimiters` looks for at a position, given what it finds behind it.
FoundAt(found, u, i) ==
    IF \E k \in DOMAIN KindOf, l \in LABELS : Occurs(Form(k, l), u, i)
      THEN LET m == CHOOSE m \in (DOMAIN KindOf) \X LABELS : Occurs(Form(m[1], m[2]), u, i)
               last == i + Len(m[2]) + 2
           IN  <<[kind |-> KindOf[m[1]], label |-> m[2], start |-> i, end |-> last]>>
                 \o found[last + 1]
      ELSE IF i > Len(u) THEN <<>> ELSE found[i + 1]

LEMMA FoundThere ==
    ASSUME NEW u \in Seq(Symbol), NEW i \in 1 .. (Len(u) + 1),
           NEW j \in Kinds, NEW q \in LABELS, At(j, q, u, i)
    PROVE  \A found : FoundAt(found, u, i) = <<Delim(j, q, i)>> \o found[i + Len(q) + 3]
  <1> DEFINE m == CHOOSE m \in (DOMAIN KindOf) \X LABELS : Occurs(Form(m[1], m[2]), u, i)
  <1>1. i \in Nat \ {0} /\ i \in Nat
    BY LenProperties
  <1>2. Occurs(Form(j, q), u, i)
    BY <1>1, AtIs
  <1>3. m \in (DOMAIN KindOf) \X LABELS /\ Occurs(Form(m[1], m[2]), u, i)
    <2>1. <<j, q>> \in (DOMAIN KindOf) \X LABELS /\ <<j, q>>[1] = j /\ <<j, q>>[2] = q
      BY DEF Kinds
    <2> QED BY <1>2, <2>1
  <1>4. \A found : FoundAt(found, u, i) =
            <<[kind |-> KindOf[m[1]], label |-> m[2], start |-> i, end |-> i + Len(m[2]) + 2]>>
              \o found[i + Len(m[2]) + 2 + 1]
    BY <1>2 DEF FoundAt, Kinds
  <1> HIDE DEF m
  <1>5. m[1] = j /\ m[2] = q
    <2>1. m[1] \in Kinds /\ m[2] \in LABELS
      BY <1>3 DEF Kinds
    <2>2. At(m[1], m[2], u, i)
      BY <1>1, <1>3, <2>1, AtIs
    <2> QED BY <1>1, <2>1, <2>2, SameAt
  <1>6. i + Len(q) + 2 + 1 = i + Len(q) + 3
    BY <1>1, LabelLength
  <1> QED BY <1>4, <1>5, <1>6 DEF Delim

LEMMA NotFoundThere ==
    ASSUME NEW u \in Seq(Symbol), NEW i \in 1 .. (Len(u) + 1),
           \A j \in Kinds, q \in LABELS : ~At(j, q, u, i)
    PROVE  \A found : FoundAt(found, u, i) = IF i > Len(u) THEN <<>> ELSE found[i + 1]
  <1>1. i \in Nat \ {0}
    BY LenProperties
  <1>2. ~\E j \in DOMAIN KindOf, q \in LABELS : Occurs(Form(j, q), u, i)
    BY <1>1, AtIs DEF Kinds
  <1> QED BY <1>2 DEF FoundAt

Finds(found, u) == found = [i \in 1 .. (Len(u) + 1) |-> FoundAt(found, u, i)]

LEMMA FoundAtAgrees ==
    ASSUME NEW u \in Seq(Symbol), NEW i \in 1 .. (Len(u) + 1), NEW f, NEW g,
           \A n \in (i + 1) .. (Len(u) + 1) : f[n] = g[n]
    PROVE  FoundAt(f, u, i) = FoundAt(g, u, i)
  <1>1. i \in Nat /\ Len(u) \in Nat
    BY LenProperties
  <1>2. CASE \E j \in Kinds, q \in LABELS : At(j, q, u, i)
    <2>1. PICK j \in Kinds, q \in LABELS : At(j, q, u, i)
      BY <1>2
    <2>2. i + Len(q) + 3 \in (i + 1) .. (Len(u) + 1)
      BY <1>1, <2>1, LabelLength DEF At
    <2>3. \A found : FoundAt(found, u, i) = <<Delim(j, q, i)>> \o found[i + Len(q) + 3]
      BY <2>1, FoundThere
    <2>4. f[i + Len(q) + 3] = g[i + Len(q) + 3]
      BY <2>2
    <2> QED BY <2>3, <2>4
  <1>3. CASE ~\E j \in Kinds, q \in LABELS : At(j, q, u, i)
    <2>1. i <= Len(u) => f[i + 1] = g[i + 1]
      BY <1>1
    <2>2. /\ FoundAt(f, u, i) = IF i > Len(u) THEN <<>> ELSE f[i + 1]
          /\ FoundAt(g, u, i) = IF i > Len(u) THEN <<>> ELSE g[i + 1]
      BY <1>3, NotFoundThere
    <2> QED BY <1>1, <2>1, <2>2
  <1> QED BY <1>2, <1>3

LEMMA FindsExists ==
    ASSUME NEW u \in Seq(Symbol)
    PROVE  \E found : Finds(found, u)
  <1> DEFINE L == Len(u) + 1
             From(f, n) == f = [i \in n .. L |-> FoundAt(f, u, i)]
             Without == {n \in 0 .. L : ~\E f : From(f, L + 1 - n)}
  <1>1. L \in Nat /\ Len(u) \in Nat /\ L = Len(u) + 1
    BY LenProperties
  <1>2. \E f : From(f, L + 1)
    <2>1. (L + 1) .. L = {}
      BY <1>1
    <2>2. From([i \in (L + 1) .. L |-> i], L + 1)
      BY <2>1
    <2> QED BY <2>2
  <1>3. ASSUME NEW n \in 1 .. L, NEW f, From(f, n + 1)
        PROVE  \E g : From(g, n)
    <2> DEFINE g == [i \in n .. L |-> IF i = n THEN FoundAt(f, u, n) ELSE f[i]]
    <2>1. \A i \in (n + 1) .. L : g[i] = f[i]
      BY <1>1
    <2>2. g[n] = FoundAt(f, u, n)
      BY <1>1
    <2>3. \A i \in (n + 1) .. L : f[i] = FoundAt(f, u, i)
      BY <1>3
    <2>4. g = [i \in n .. L |-> g[i]]
      OBVIOUS
    <2> HIDE DEF g
    <2>5. ASSUME NEW i \in n .. L
          PROVE  g[i] = FoundAt(g, u, i)
      <3>1. \A k \in (i + 1) .. L : f[k] = g[k]
        BY <1>1, <2>1
      <3>2. FoundAt(f, u, i) = FoundAt(g, u, i)
        <4>1. i \in 1 .. Len(u) + 1 /\ \A k \in (i + 1) .. (Len(u) + 1) : f[k] = g[k]
          BY <1>1, <3>1
        <4> QED BY <4>1, FoundAtAgrees
      <3>3. i = n \/ i \in (n + 1) .. L
        BY <1>1
      <3> QED BY <2>1, <2>2, <2>3, <3>2, <3>3
    <2>6. g = [i \in n .. L |-> FoundAt(g, u, i)]
      BY <2>4, <2>5
    <2> QED BY <2>6
  <1> HIDE DEF From
  <1>4. SUFFICES ASSUME Without # {} PROVE FALSE
    <2>1. Without = {} => \E f : From(f, 1)
      <3>1. L \in 0 .. L /\ L + 1 - L = 1
        BY <1>1
      <3> QED BY <3>1
    <2> QED BY <2>1 DEF Finds, From
  <1>5. PICK n \in Without : \A m \in Without : n <= m
    <2>1. Without \subseteq Nat
      BY <1>1
    <2> HIDE DEF Without
    <2> QED BY <1>4, <2>1, LeastElement
  <1>6. n # 0
    <2>1. L + 1 - 0 = L + 1
      BY <1>1
    <2> QED BY <1>2, <1>5, <2>1
  <1>7. /\ n - 1 \in 0 .. L /\ n - 1 \notin Without
        /\ L + 1 - n \in 1 .. L /\ L + 1 - (n - 1) = L + 1 - n + 1
    BY <1>1, <1>5, <1>6
  <1>8. PICK f : From(f, L + 1 - n + 1)
    BY <1>7
  <1> QED BY <1>3, <1>5, <1>7, <1>8

LEMMA DelimitersFound ==
    ASSUME NEW u \in Seq(Symbol)
    PROVE  \E found : Finds(found, u) /\ delimiters(u) = found[1]
  <1> DEFINE found == CHOOSE f : Finds(f, u)
  <1>1. Finds(found, u)
    BY FindsExists
  <1>2. delimiters(u) = found[1]
    BY DEF delimiters, Finds, FoundAt
  <1> QED BY <1>1, <1>2

DelimRecs == [kind : {"Begin", "End"}, label : LABELS, start : Nat \ {0}, end : Nat \ {0}]

IsDelim(d, u) == \E k \in Kinds, l \in LABELS : At(k, l, u, d.start) /\ d = Delim(k, l, d.start)

\* ds are delimiters of u from position i on, in their order; all of them, unless u has some that
\* share dashes.
Lists(ds, u, i) ==
    /\ ds \in Seq(DelimRecs)
    /\ \A k \in 1 .. Len(ds) : IsDelim(ds[k], u) /\ i <= ds[k].start /\ ds[k].start < ds[k].end
    /\ \A j, k \in 1 .. Len(ds) : j < k => ds[j].end < ds[k].start
    /\ ~SharesDashes(u) =>
         \A j \in Kinds, q \in LABELS, n \in Nat \ {0} :
            At(j, q, u, n) /\ i <= n => \E k \in 1 .. Len(ds) : ds[k] = Delim(j, q, n)

LEMMA DelimIs ==
    ASSUME NEW k \in Kinds, NEW l \in LABELS, NEW i \in Nat \ {0}
    PROVE  /\ Delim(k, l, i) \in DelimRecs
           /\ Delim(k, l, i).kind = KindOf[k] /\ Delim(k, l, i).label = l
           /\ Delim(k, l, i).start = i /\ Delim(k, l, i).end = i + Len(l) + 2
  BY LabelLength, KindsAndLabels DEF Delim, DelimRecs

LEMMA ListsMore ==
    ASSUME NEW u \in Seq(Symbol), NEW i \in Nat \ {0}, NEW j \in Kinds, NEW q \in LABELS,
           At(j, q, u, i), NEW rest, Lists(rest, u, i + Len(q) + 3)
    PROVE  Lists(<<Delim(j, q, i)>> \o rest, u, i)
  <1> DEFINE d == Delim(j, q, i)
             ds == <<d>> \o rest
  <1>1. /\ d \in DelimRecs /\ d.start = i /\ d.end = i + Len(q) + 2
        /\ Len(q) \in Nat /\ i \in Nat
    <2>1. /\ Delim(j, q, i) \in DelimRecs
          /\ Delim(j, q, i).start = i /\ Delim(j, q, i).end = i + Len(q) + 2
      <3>1. Delim(j, q, i).start = i /\ Delim(j, q, i).end = i + Len(q) + 2
        BY DEF Delim
      <3>2. Delim(j, q, i) \in DelimRecs
        BY DelimIs, Zenon
      <3> QED BY <3>1, <3>2
    <2>2. d = Delim(j, q, i)
      OBVIOUS
    <2> HIDE DEF d, ds
    <2>3. d \in DelimRecs /\ d.start = i /\ d.end = i + Len(q) + 2
      BY <2>1, <2>2
    <2> QED BY <2>3, LabelLength
  <1>2. rest \in Seq(DelimRecs)
    BY DEF Lists
  <1>3. /\ ds \in Seq(DelimRecs) /\ Len(ds) = 1 + Len(rest) /\ Len(rest) \in Nat
        /\ ds[1] = d /\ \A k \in 1 .. Len(rest) : ds[1 + k] = rest[k]
    <2>1. <<d>> \in Seq(DelimRecs) /\ Len(<<d>>) = 1 /\ <<d>>[1] = d
      BY <1>1
    <2> HIDE DEF d
    <2> QED BY <1>2, <2>1, ConcatIs, LenProperties
  <1> HIDE DEF ds
  <1>4. ASSUME NEW k \in 1 .. Len(ds)
        PROVE  \/ k = 1 /\ ds[k] = d
               \/ k - 1 \in 1 .. Len(rest) /\ ds[k] = rest[k - 1]
    <2>1. CASE k = 1
      BY <1>3, <2>1
    <2>2. CASE k # 1
      <3>1. k - 1 \in 1 .. Len(rest) /\ 1 + (k - 1) = k
        BY <1>3, <2>2
      <3> QED BY <1>3, <3>1
    <2> QED BY <2>1, <2>2
  <1>5. ASSUME NEW k \in 1 .. Len(rest)
        PROVE  /\ IsDelim(rest[k], u) /\ rest[k].start < rest[k].end
               /\ rest[k].start \in Nat /\ rest[k].end \in Nat
               /\ d.end < rest[k].start /\ i <= rest[k].start
    <2>1. /\ IsDelim(rest[k], u) /\ i + Len(q) + 3 <= rest[k].start
          /\ rest[k].start < rest[k].end
      BY DEF Lists
    <2>2. rest[k] \in DelimRecs
      BY <1>2, <1>3, ElementOfSeq
    <2>3. rest[k].start \in Nat /\ rest[k].end \in Nat
      BY <2>2 DEF DelimRecs
    <2> HIDE DEF d
    <2> QED BY <1>1, <2>1, <2>3
  <1>6. IsDelim(d, u) /\ i <= d.start /\ d.start < d.end
    <2>1. IsDelim(d, u)
      BY <1>1 DEF IsDelim
    <2> HIDE DEF d
    <2> QED BY <1>1, <2>1
  <1>7. \A k \in 1 .. Len(ds) : IsDelim(ds[k], u) /\ i <= ds[k].start /\ ds[k].start < ds[k].end
    <2> HIDE DEF d
    <2> QED BY <1>4, <1>5, <1>6
  <1>8. ASSUME NEW m \in 1 .. Len(ds), NEW k \in 1 .. Len(ds), m < k
        PROVE  ds[m].end < ds[k].start
    <2>1. k # 1
      BY <1>3, <1>8
    <2>2. k - 1 \in 1 .. Len(rest) /\ ds[k] = rest[k - 1]
      BY <1>4, <2>1
    <2>3. CASE m = 1
      <3> HIDE DEF d
      <3> QED BY <1>3, <1>5, <2>2, <2>3
    <2>4. CASE m # 1
      <3>1. m - 1 \in 1 .. Len(rest) /\ ds[m] = rest[m - 1] /\ m - 1 < k - 1
        BY <1>3, <1>4, <1>8, <2>4
      <3> QED BY <2>2, <3>1 DEF Lists
    <2> QED BY <2>3, <2>4
  <1>9. ASSUME ~SharesDashes(u), NEW k \in Kinds, NEW l \in LABELS, NEW n \in Nat \ {0},
               At(k, l, u, n), i <= n
        PROVE  \E m \in 1 .. Len(ds) : ds[m] = Delim(k, l, n)
    <2>1. CASE i = n
      <3>1. k = j /\ l = q
        BY <1>1, <1>9, <2>1, SameAt
      <3> QED BY <1>3, <2>1, <3>1
    <2>2. CASE i # n
      <3>1. i + Len(q) + 2 < n
        <4>1. i < n
          BY <1>9, <2>2
        <4> QED BY <1>9, <4>1, Apart
      <3>2. i + Len(q) + 3 <= n
        BY <1>1, <3>1
      <3>3. PICK m \in 1 .. Len(rest) : rest[m] = Delim(k, l, n)
        BY <1>9, <3>2 DEF Lists
      <3>4. 1 + m \in 1 .. Len(ds)
        BY <1>3
      <3> QED BY <1>3, <3>3, <3>4
    <2> QED BY <2>1, <2>2
  <1> HIDE DEF d
  <1> QED BY <1>3, <1>7, <1>8, <1>9 DEF Lists, ds, d

LEMMA ListsNone ==
    ASSUME NEW u \in Seq(Symbol), NEW i \in Nat \ {0}, Len(u) < i
    PROVE  Lists(<<>>, u, i)
  <1>1. <<>> \in Seq(DelimRecs) /\ Len(<<>>) = 0 /\ 1 .. 0 = {}
    OBVIOUS
  <1>2. ASSUME NEW j \in Kinds, NEW q \in LABELS, NEW n \in Nat \ {0}, At(j, q, u, n), i <= n
        PROVE  FALSE
    BY <1>2, LabelLength, LenProperties DEF At
  <1> QED BY <1>1, <1>2 DEF Lists

LEMMA ListsFrom ==
    ASSUME NEW u \in Seq(Symbol), NEW i \in Nat \ {0}, NEW ds, Lists(ds, u, i + 1),
           \A j \in Kinds, q \in LABELS : ~At(j, q, u, i)
    PROVE  Lists(ds, u, i)
  <1>1. ASSUME NEW k \in 1 .. Len(ds)
        PROVE  IsDelim(ds[k], u) /\ i <= ds[k].start /\ ds[k].start < ds[k].end
    <2>1. /\ IsDelim(ds[k], u) /\ i + 1 <= ds[k].start /\ ds[k].start < ds[k].end
          /\ ds \in Seq(DelimRecs)
      BY DEF Lists
    <2>2. ds[k].start \in Nat
      <3>1. ds[k] \in DelimRecs
        BY <2>1, ElementOfSeq
      <3> QED BY <3>1 DEF DelimRecs
    <2> QED BY <2>1, <2>2
  <1>2. ASSUME ~SharesDashes(u), NEW j \in Kinds, NEW q \in LABELS, NEW n \in Nat \ {0},
               At(j, q, u, n), i <= n
        PROVE  \E k \in 1 .. Len(ds) : ds[k] = Delim(j, q, n)
    <2>1. i # n
      BY <1>2
    <2>2. i + 1 <= n
      BY <1>2, <2>1
    <2> QED BY <1>2, <2>2 DEF Lists
  <1> QED BY <1>1, <1>2 DEF Lists

\* What `delimiters` returns.
LEMMA DelimitersAre ==
    ASSUME NEW u \in Seq(Symbol)
    PROVE  Lists(delimiters(u), u, 1)
  <1>1. PICK f : Finds(f, u) /\ delimiters(u) = f[1]
    BY DelimitersFound
  <1> DEFINE L == Len(u) + 1
             Wrong == {n \in 0 .. Len(u) : ~Lists(f[L - n], u, L - n)}
  <1>2. Len(u) \in Nat /\ L = Len(u) + 1
    BY LenProperties
  <1>3. SUFFICES ASSUME Wrong # {} PROVE FALSE
    <2>1. Len(u) \in 0 .. Len(u) /\ L - Len(u) = 1
      BY <1>2
    <2> QED BY <1>1, <2>1
  <1>4. PICK n \in Wrong : \A m \in Wrong : n <= m
    <2>1. Wrong \subseteq Nat
      BY <1>2
    <2> HIDE DEF Wrong
    <2> QED BY <1>3, <2>1, LeastElement
  <1>5. /\ n \in 0 .. Len(u) /\ L - n \in 1 .. Len(u) + 1 /\ L - n \in Nat \ {0}
        /\ ~Lists(f[L - n], u, L - n)
    BY <1>2, <1>4
  <1> DEFINE i == L - n
  <1>6. ASSUME NEW m \in (i + 1) .. L PROVE Lists(f[m], u, m)
    <2>1. L - m \in 0 .. Len(u) /\ L - m < n /\ L - (L - m) = m
      BY <1>2, <1>5
    <2>2. L - m \notin Wrong
      BY <1>4, <1>5, <2>1
    <2> QED BY <2>1, <2>2
  <1>7. f[i] = FoundAt(f, u, i)
    BY <1>1, <1>5 DEF Finds
  <1> HIDE DEF Wrong, L, i
  <1>8. /\ i \in 1 .. Len(u) + 1 /\ i \in Nat \ {0} /\ i \in Nat /\ L = Len(u) + 1
        /\ Len(u) \in Nat /\ ~Lists(f[i], u, i)
    BY <1>2, <1>5 DEF i
  <1>9. CASE \E j \in Kinds, q \in LABELS : At(j, q, u, i)
    <2>1. PICK j \in Kinds, q \in LABELS : At(j, q, u, i)
      BY <1>9
    <2>2. i + Len(q) + 3 \in (i + 1) .. L
      BY <1>8, <2>1, LabelLength DEF At
    <2>3. f[i] = <<Delim(j, q, i)>> \o f[i + Len(q) + 3]
      BY <1>7, <1>8, <2>1, FoundThere
    <2>4. Lists(f[i + Len(q) + 3], u, i + Len(q) + 3)
      BY <1>6, <2>2
    <2> QED BY <1>8, <2>1, <2>3, <2>4, ListsMore
  <1>10. CASE ~\E j \in Kinds, q \in LABELS : At(j, q, u, i)
    <2>1. f[i] = IF i > Len(u) THEN <<>> ELSE f[i + 1]
      BY <1>7, <1>8, <1>10, NotFoundThere
    <2>2. CASE i > Len(u)
      BY <1>8, <2>1, <2>2, ListsNone
    <2>3. CASE ~(i > Len(u))
      <3>1. i + 1 \in (i + 1) .. L
        BY <1>8, <2>3
      <3> QED BY <1>6, <1>8, <1>10, <2>1, <2>3, <3>1, ListsFrom
    <2> QED BY <2>2, <2>3
  <1> QED BY <1>9, <1>10

---------------------------------------------------------------------------
(* A scan of delimiters, one after the other. *)

IsState(s) ==
    /\ s = [stack |-> s.stack, has_begin |-> s.has_begin, malformed |-> s.malformed,
            outer_start |-> s.outer_start, body_start |-> s.body_start,
            completed |-> s.completed]
    /\ s.stack \in Seq(LABELS) /\ s.has_begin \in BOOLEAN

\* The stack after a delimiter.
StackAfter(labels, kind, label) ==
    IF kind = "Begin" THEN Append(labels, label)
    ELSE IF Len(labels) > 0 /\ labels[Len(labels)] = label
           THEN SubSeq(labels, 1, Len(labels) - 1)
    ELSE labels

LEMMA ProcessIs ==
    ASSUME NEW s, IsState(s), NEW d \in DelimRecs
    PROVE  /\ IsState(process_delimiter(s, d))
           /\ process_delimiter(s, d).stack = StackAfter(s.stack, d.kind, d.label)
           /\ process_delimiter(s, d).has_begin = (s.has_begin \/ d.kind = "Begin")
  <1> DEFINE depth == Len(s.stack)
             r == process_delimiter(s, d)
  <1>1. /\ s.stack \in Seq(LABELS) /\ depth \in Nat /\ s.has_begin \in BOOLEAN
        /\ d.kind \in {"Begin", "End"} /\ d.label \in LABELS
    BY LenProperties DEF IsState, DelimRecs
  <1>2. ASSUME NEW l \in LABELS
        PROVE  Append(s.stack, l) \in Seq(LABELS) /\ <<l>> \in Seq(LABELS)
    BY <1>1
  <1>3. <<>> \in Seq(LABELS)
    OBVIOUS
  <1>4. depth > 0 => SubSeq(s.stack, 1, depth - 1) \in Seq(LABELS)
    <2>1. \A i \in 1 .. depth - 1 : s.stack[i] \in LABELS
      BY <1>1, ElementOfSeq
    <2>2. 1 \in Int /\ depth - 1 \in Int
      BY <1>1
    <2> QED BY <2>1, <2>2, SubSeqProperties
  <1>5. CASE d.kind = "Begin" /\ depth = 0
    <2>1. r = [s EXCEPT !.stack = <<d.label>>, !.has_begin = TRUE,
                        !.outer_start = d.start, !.body_start = d.end + 1]
      BY <1>5 DEF process_delimiter
    <2>2. IsState(r) /\ r.stack = <<d.label>> /\ r.has_begin = TRUE
      BY <1>1, <1>2, <2>1 DEF IsState
    <2>3. s.stack = <<>> /\ <<d.label>> = Append(<<>>, d.label)
      BY <1>1, <1>5, EmptySeq
    <2> QED BY <1>5, <2>2, <2>3 DEF StackAfter
  <1>6. CASE d.kind = "Begin" /\ depth > 0
    <2>1. r = [s EXCEPT !.stack = Append(@, d.label), !.has_begin = TRUE, !.malformed = TRUE]
      BY <1>6 DEF process_delimiter
    <2>2. IsState(r) /\ r.stack = Append(s.stack, d.label) /\ r.has_begin = TRUE
      BY <1>1, <1>2, <2>1 DEF IsState
    <2> QED BY <1>6, <2>2 DEF StackAfter
  <1>7. CASE d.kind = "End" /\ depth > 0 /\ s.stack[depth] # d.label
    <2>1. r = [s EXCEPT !.malformed = TRUE]
      BY <1>7 DEF process_delimiter
    <2>2. IsState(r) /\ r.stack = s.stack /\ r.has_begin = s.has_begin
      BY <1>1, <2>1 DEF IsState
    <2> QED BY <1>1, <1>7, <2>2 DEF StackAfter
  <1>8. CASE d.kind = "End" /\ depth > 1 /\ s.stack[depth] = d.label
    <2> DEFINE popped == SubSeq(s.stack, 1, depth - 1)
    <2>1. r = [s EXCEPT !.stack = popped]
      <3>1. r = [s EXCEPT !.stack = SubSeq(@, 1, depth - 1)]
        BY <1>8 DEF process_delimiter
      <3> HIDE DEF r
      <3> QED BY <3>1
    <2>2. IsState(r) /\ r.stack = popped /\ r.has_begin = s.has_begin
      <3>1. popped \in Seq(LABELS)
        BY <1>1, <1>4, <1>8
      <3> HIDE DEF popped, r, depth
      <3> QED BY <1>1, <2>1, <3>1 DEF IsState
    <2> QED BY <1>1, <1>8, <2>2 DEF StackAfter
  <1>9. CASE d.kind = "End" /\ depth = 1 /\ s.stack[depth] = d.label
    <2>1. r = [s EXCEPT !.stack = <<>>, !.malformed = FALSE,
                        !.completed = Append(@, [start |-> s.outer_start, end |-> d.end,
                                                 body_start |-> s.body_start,
                                                 footer_start |-> d.start,
                                                 malformed |-> s.malformed])]
      BY <1>9 DEF process_delimiter
    <2>2. IsState(r) /\ r.stack = <<>> /\ r.has_begin = s.has_begin
      BY <1>1, <1>3, <2>1 DEF IsState
    <2>3. SubSeq(s.stack, 1, depth - 1) = <<>>
      BY <1>9, SubSeqEmpty
    <2> QED BY <1>1, <1>9, <2>2, <2>3 DEF StackAfter
  <1>10. CASE d.kind = "End" /\ depth = 0
    <2>1. r = s
      BY <1>10 DEF process_delimiter
    <2> QED BY <1>1, <1>10, <2>1 DEF StackAfter
  <1>11. \/ depth = 0 \/ depth = 1 \/ depth > 1
    <2> HIDE DEF depth
    <2> QED BY <1>1
  <1> QED BY <1>1, <1>5, <1>6, <1>7, <1>8, <1>9, <1>10, <1>11

Same(s, t) == s.stack = t.stack /\ s.has_begin = t.has_begin

LEMMA ProcessSame ==
    ASSUME NEW s, NEW t, IsState(s), IsState(t), Same(s, t),
           NEW d \in DelimRecs, NEW e \in DelimRecs, d.kind = e.kind, d.label = e.label
    PROVE  Same(process_delimiter(s, d), process_delimiter(t, e))
  BY ProcessIs DEF Same

\* The states a scan goes through; what ends by position `bound` is skipped.
ScanOf(f, s, ds, offset, bound) ==
    f = [k \in 0 .. Len(ds) |->
            IF k = 0 THEN s
            ELSE IF offset + ds[k].end <= bound THEN f[k - 1]
            ELSE process_delimiter(f[k - 1], ds[k])]

LEMMA ScanExists ==
    ASSUME NEW s, NEW ds, Len(ds) \in Nat, NEW offset \in Nat, NEW bound \in Nat
    PROVE  \E f : ScanOf(f, s, ds, offset, bound)
  <1> DEFINE L == Len(ds)
             Next_(f, k) == IF offset + ds[k].end <= bound THEN f[k - 1]
                            ELSE process_delimiter(f[k - 1], ds[k])
             Upto(f, n) == f = [k \in 0 .. n |-> IF k = 0 THEN s ELSE Next_(f, k)]
             Without == {n \in 0 .. L : ~\E f : Upto(f, n)}
  <1>1. L \in Nat
    OBVIOUS
  <1>2. \E f : Upto(f, 0)
    <2>1. Upto([k \in 0 .. 0 |-> s], 0)
      OBVIOUS
    <2> QED BY <2>1
  <1>3. ASSUME NEW n \in 1 .. L, NEW f, Upto(f, n - 1)
        PROVE  \E g : Upto(g, n)
    <2> DEFINE g == [k \in 0 .. n |-> IF k < n THEN f[k] ELSE Next_(f, n)]
    <2>1. \A k \in 0 .. n - 1 : g[k] = f[k]
      OBVIOUS
    <2>2. g[n] = Next_(f, n)
      OBVIOUS
    <2>3. \A k \in 0 .. n - 1 : f[k] = IF k = 0 THEN s ELSE Next_(f, k)
      BY <1>3
    <2>4. g = [k \in 0 .. n |-> g[k]]
      OBVIOUS
    <2> HIDE DEF g
    <2>5. ASSUME NEW k \in 1 .. n PROVE Next_(g, k) = Next_(f, k)
      BY <2>1
    <2> HIDE DEF Next_
    <2>6. ASSUME NEW k \in 0 .. n PROVE g[k] = IF k = 0 THEN s ELSE Next_(g, k)
      <3>1. k = n \/ k \in 0 .. n - 1
        OBVIOUS
      <3>2. k # 0 => k \in 1 .. n
        OBVIOUS
      <3> QED BY <2>1, <2>2, <2>3, <2>5, <3>1, <3>2
    <2>7. g = [k \in 0 .. n |-> IF k = 0 THEN s ELSE Next_(g, k)]
      BY <2>4, <2>6
    <2> QED BY <2>7
  <1>4. (\E f : Upto(f, L)) => \E f : ScanOf(f, s, ds, offset, bound)
    BY DEF ScanOf
  <1> HIDE DEF Upto
  <1>5. SUFFICES ASSUME Without # {} PROVE FALSE
    BY <1>1, <1>4
  <1>6. PICK n \in Without : \A m \in Without : n <= m
    <2>1. Without \subseteq Nat
      BY <1>1
    <2> HIDE DEF Without
    <2> QED BY <1>5, <2>1, LeastElement
  <1>7. n \in 1 .. L /\ n - 1 \notin Without /\ n - 1 \in 0 .. L
    BY <1>1, <1>2, <1>6
  <1>8. PICK f : Upto(f, n - 1)
    BY <1>7
  <1> QED BY <1>3, <1>6, <1>7, <1>8

LEMMA ScanStep ==
    ASSUME NEW s, IsState(s), NEW ds \in Seq(DelimRecs), NEW offset \in Nat, NEW bound \in Nat,
           NEW f, ScanOf(f, s, ds, offset, bound)
    PROVE  /\ f[0] = s
           /\ \A k \in 1 .. Len(ds) :
                 f[k] = IF offset + ds[k].end <= bound THEN f[k - 1]
                        ELSE process_delimiter(f[k - 1], ds[k])
           /\ \A k \in 0 .. Len(ds) : IsState(f[k])
  <1>1. Len(ds) \in Nat
    BY LenProperties
  <1>2. /\ f[0] = s
        /\ \A k \in 1 .. Len(ds) :
                 f[k] = IF offset + ds[k].end <= bound THEN f[k - 1]
                        ELSE process_delimiter(f[k - 1], ds[k])
    BY <1>1 DEF ScanOf
  <1> DEFINE Wrong == {k \in 0 .. Len(ds) : ~IsState(f[k])}
  <1>3. SUFFICES ASSUME Wrong # {} PROVE FALSE
    BY <1>2
  <1>4. PICK n \in Wrong : \A m \in Wrong : n <= m
    <2>1. Wrong \subseteq Nat
      BY <1>1
    <2> HIDE DEF Wrong
    <2> QED BY <1>3, <2>1, LeastElement
  <1>5. n \in 1 .. Len(ds) /\ n - 1 \in 0 .. Len(ds) /\ n - 1 \notin Wrong
    BY <1>1, <1>2, <1>4
  <1>6. IsState(f[n - 1]) /\ ds[n] \in DelimRecs
    BY <1>5, ElementOfSeq
  <1>7. IsState(process_delimiter(f[n - 1], ds[n]))
    BY <1>6, ProcessIs
  <1> QED BY <1>2, <1>4, <1>5, <1>6, <1>7

LEMMA ScanAgrees ==
    ASSUME NEW s, NEW ds, Len(ds) \in Nat, NEW offset, NEW bound, NEW f, NEW g,
           ScanOf(f, s, ds, offset, bound), ScanOf(g, s, ds, offset, bound)
    PROVE  f = g
  <1> DEFINE Wrong == {k \in 0 .. Len(ds) : f[k] # g[k]}
  <1>1. /\ f = [k \in 0 .. Len(ds) |-> f[k]] /\ g = [k \in 0 .. Len(ds) |-> g[k]]
    BY DEF ScanOf
  <1>2. SUFFICES ASSUME Wrong # {} PROVE FALSE
    BY <1>1
  <1>3. PICK n \in Wrong : \A m \in Wrong : n <= m
    <2>1. Wrong \subseteq Nat
      OBVIOUS
    <2> HIDE DEF Wrong
    <2> QED BY <1>2, <2>1, LeastElement
  <1>4. f[0] = s /\ g[0] = s
    BY DEF ScanOf
  <1>5. n \in 1 .. Len(ds) /\ f[n - 1] = g[n - 1]
    BY <1>3, <1>4
  <1>6. /\ f[n] = IF offset + ds[n].end <= bound THEN f[n - 1]
                  ELSE process_delimiter(f[n - 1], ds[n])
        /\ g[n] = IF offset + ds[n].end <= bound THEN g[n - 1]
                  ELSE process_delimiter(g[n - 1], ds[n])
    BY <1>5 DEF ScanOf
  <1> QED BY <1>3, <1>5, <1>6

LEMMA ScanDelimitersIs ==
    ASSUME NEW s, NEW ds, Len(ds) \in Nat, NEW offset, NEW f,
           ScanOf(f, s, ds, offset, processed_bytes)
    PROVE  scan_delimiters(s, ds, offset) = f[Len(ds)]
  <1> DEFINE g == CHOOSE h : ScanOf(h, s, ds, offset, processed_bytes)
  <1>1. ScanOf(g, s, ds, offset, processed_bytes)
    OBVIOUS
  <1>2. scan_delimiters(s, ds, offset) = g[Len(ds)]
    BY DEF scan_delimiters, ScanOf
  <1> QED BY <1>1, <1>2, ScanAgrees

LEMMA ProcessDelimitersIs ==
    ASSUME NEW s, NEW ds \in Seq(DelimRecs), NEW f, ScanOf(f, s, ds, 0, 0)
    PROVE  process_delimiters(s, ds) = f[Len(ds)]
  <1> DEFINE Plain(h) == h = [k \in 0 .. Len(ds) |->
                                 IF k = 0 THEN s ELSE process_delimiter(h[k - 1], ds[k])]
             g == CHOOSE h : Plain(h)
  <1>1. Len(ds) \in Nat
    BY LenProperties
  <1>2. ASSUME NEW k \in 1 .. Len(ds) PROVE ~(0 + ds[k].end <= 0)
    <2>1. ds[k] \in DelimRecs
      BY ElementOfSeq
    <2>2. ds[k].end \in Nat \ {0}
      BY <2>1 DEF DelimRecs
    <2> QED BY <2>2
  <1>3. ASSUME NEW h PROVE Plain(h) <=> ScanOf(h, s, ds, 0, 0)
    BY <1>1, <1>2 DEF ScanOf
  <1>4. Plain(g)
    BY <1>3
  <1>5. process_delimiters(s, ds) = g[Len(ds)]
    BY DEF process_delimiters
  <1> HIDE DEF g, Plain
  <1> QED BY <1>1, <1>3, <1>4, <1>5, ScanAgrees

---------------------------------------------------------------------------
(* Two scans that meet the same delimiters at the same positions agree. *)

Ordered(ds) == \A j, k \in 1 .. Len(ds) : j < k => ds[j].end < ds[k].end

\* The first k delimiters are those that end by position p.
Passed(ds, offset, k, p) ==
    /\ k > 0 => offset + ds[k].end <= p
    /\ k < Len(ds) => p < offset + ds[k + 1].end

EndsAt(ds, offset, p, kind, label) ==
    \E k \in 1 .. Len(ds) : offset + ds[k].end = p /\ ds[k].kind = kind /\ ds[k].label = label

LEMMA ListsIsOrdered ==
    ASSUME NEW ds, NEW u, NEW i, Lists(ds, u, i)
    PROVE  ds \in Seq(DelimRecs) /\ Ordered(ds)
  <1>1. ds \in Seq(DelimRecs)
    BY DEF Lists
  <1>2. ASSUME NEW j \in 1 .. Len(ds), NEW k \in 1 .. Len(ds), j < k
        PROVE  ds[j].end < ds[k].end
    <2>1. ds[j].end < ds[k].start /\ ds[k].start < ds[k].end
      BY <1>2 DEF Lists
    <2>2. ds[j] \in DelimRecs /\ ds[k] \in DelimRecs
      BY <1>1, ElementOfSeq
    <2>3. ds[j].end \in Nat /\ ds[k].end \in Nat /\ ds[k].start \in Nat
      BY <2>2 DEF DelimRecs
    <2> QED BY <2>1, <2>3
  <1> QED BY <1>1, <1>2 DEF Ordered

LEMMA EndsAreNat ==
    ASSUME NEW ds \in Seq(DelimRecs), NEW k \in 1 .. Len(ds)
    PROVE  ds[k].end \in Nat /\ ds[k].end > 0 /\ ds[k] \in DelimRecs
  <1>1. ds[k] \in DelimRecs
    BY ElementOfSeq
  <1> QED BY <1>1 DEF DelimRecs

\* What ends at p is the last of the delimiters that end by p.
LEMMA LastPassed ==
    ASSUME NEW ds \in Seq(DelimRecs), Ordered(ds), NEW offset \in Nat, NEW p \in Nat,
           NEW k \in 0 .. Len(ds), Passed(ds, offset, k, p),
           NEW j \in 1 .. Len(ds), offset + ds[j].end = p
    PROVE  j = k
  <1>1. Len(ds) \in Nat /\ ds[j].end \in Nat
    BY LenProperties, EndsAreNat
  <1>2. CASE j < k
    <2>1. k \in 1 .. Len(ds)
      BY <1>1, <1>2
    <2>2. ds[k].end \in Nat /\ ds[j].end < ds[k].end /\ offset + ds[k].end <= p
      BY <1>2, <2>1, EndsAreNat DEF Ordered, Passed
    <2> QED BY <1>1, <2>2
  <1>3. CASE k < j
    <2>1. k + 1 \in 1 .. Len(ds) /\ k < Len(ds)
      BY <1>1, <1>3
    <2>2. ds[k + 1].end \in Nat /\ p < offset + ds[k + 1].end
      BY <2>1, EndsAreNat DEF Passed
    <2>3. CASE k + 1 = j
      BY <1>1, <2>2, <2>3
    <2>4. CASE k + 1 < j
      <3>1. ds[k + 1].end < ds[j].end
        BY <2>1, <2>4 DEF Ordered
      <3> QED BY <1>1, <2>2, <3>1
    <2> QED BY <1>1, <1>3, <2>3, <2>4
  <1> QED BY <1>1, <1>2, <1>3

LEMMA PassedBefore ==
    ASSUME NEW ds \in Seq(DelimRecs), Ordered(ds), NEW offset \in Nat, NEW p \in Nat \ {0},
           NEW k \in 0 .. Len(ds), Passed(ds, offset, k, p)
    PROVE  \/ /\ k \in 1 .. Len(ds) /\ offset + ds[k].end = p /\ k - 1 \in 0 .. Len(ds)
              /\ Passed(ds, offset, k - 1, p - 1)
           \/ /\ Passed(ds, offset, k, p - 1)
              /\ \A j \in 1 .. Len(ds) : offset + ds[j].end # p
  <1>1. Len(ds) \in Nat
    BY LenProperties
  <1>2. CASE k > 0 /\ offset + ds[k].end = p
    <2>1. k \in 1 .. Len(ds) /\ k - 1 \in 0 .. Len(ds) /\ k - 1 + 1 = k
      BY <1>1, <1>2
    <2>2. ds[k].end \in Nat
      BY <2>1, EndsAreNat
    <2>3. k - 1 < Len(ds) => p - 1 < offset + ds[k - 1 + 1].end
      BY <1>2, <2>1, <2>2
    <2>4. ASSUME k - 1 > 0 PROVE offset + ds[k - 1].end <= p - 1
      <3>1. k - 1 \in 1 .. Len(ds) /\ k - 1 < k
        BY <2>1, <2>4
      <3>2. ds[k - 1].end \in Nat /\ ds[k - 1].end < ds[k].end
        BY <2>1, <3>1, EndsAreNat DEF Ordered
      <3> QED BY <1>2, <2>2, <3>2
    <2> QED BY <1>2, <2>1, <2>3, <2>4 DEF Passed
  <1>3. CASE ~(k > 0 /\ offset + ds[k].end = p)
    <2>1. k > 0 => offset + ds[k].end <= p - 1
      <3>1. CASE k > 0
        <4>1. k \in 1 .. Len(ds)
          BY <1>1, <3>1
        <4>2. ds[k].end \in Nat /\ offset + ds[k].end <= p /\ offset + ds[k].end # p
          BY <1>3, <3>1, <4>1, EndsAreNat DEF Passed
        <4> QED BY <4>2
      <3> QED BY <3>1
    <2>2. k < Len(ds) => p - 1 < offset + ds[k + 1].end
      <3>1. CASE k < Len(ds)
        <4>1. k + 1 \in 1 .. Len(ds)
          BY <1>1, <3>1
        <4>2. ds[k + 1].end \in Nat /\ p < offset + ds[k + 1].end
          BY <3>1, <4>1, EndsAreNat DEF Passed
        <4> QED BY <4>2
      <3> QED BY <3>1
    <2>3. ASSUME NEW j \in 1 .. Len(ds), offset + ds[j].end = p PROVE FALSE
      <3>1. j = k
        BY <2>3, LastPassed
      <3> QED BY <1>1, <1>3, <2>3, <3>1
    <2> QED BY <2>1, <2>2, <2>3 DEF Passed
  <1> QED BY <1>2, <1>3

\* A scan as the lemmas below need it.
Scanned(f, s, ds, offset, bound) ==
    /\ ds \in Seq(DelimRecs) /\ Ordered(ds) /\ offset \in Nat /\ bound \in Nat
    /\ IsState(s) /\ ScanOf(f, s, ds, offset, bound)

LEMMA Skipped ==
    ASSUME NEW f, NEW s, NEW ds, NEW offset, NEW bound, Scanned(f, s, ds, offset, bound),
           NEW k \in 0 .. Len(ds), Passed(ds, offset, k, bound)
    PROVE  f[k] = s
  <1>1. /\ ds \in Seq(DelimRecs) /\ Ordered(ds) /\ offset \in Nat /\ bound \in Nat
        /\ IsState(s) /\ ScanOf(f, s, ds, offset, bound) /\ Len(ds) \in Nat
    BY LenProperties DEF Scanned
  <1>2. /\ f[0] = s
        /\ \A j \in 1 .. Len(ds) :
              f[j] = IF offset + ds[j].end <= bound THEN f[j - 1]
                     ELSE process_delimiter(f[j - 1], ds[j])
    BY <1>1, ScanStep
  <1> DEFINE Wrong == {j \in 0 .. k : f[j] # s}
  <1>3. SUFFICES ASSUME Wrong # {} PROVE FALSE
    <2>1. k \in 0 .. k
      BY <1>1
    <2> QED BY <2>1
  <1>4. PICK n \in Wrong : \A m \in Wrong : n <= m
    <2>1. Wrong \subseteq Nat
      BY <1>1
    <2> HIDE DEF Wrong
    <2> QED BY <1>3, <2>1, LeastElement
  <1>5. n \in 1 .. k /\ n \in 1 .. Len(ds) /\ f[n - 1] = s /\ k \in 1 .. Len(ds)
    BY <1>1, <1>2, <1>4
  <1>6. offset + ds[n].end <= bound
    <2>1. ds[k].end \in Nat /\ ds[n].end \in Nat /\ offset + ds[k].end <= bound
      BY <1>1, <1>5, EndsAreNat DEF Passed
    <2>2. n = k \/ ds[n].end < ds[k].end
      BY <1>1, <1>5 DEF Ordered
    <2> QED BY <1>1, <2>1, <2>2
  <1> QED BY <1>2, <1>4, <1>5, <1>6

\* Between positions q and p, both scans meet the same delimiters.
SameEnds(ds, a, es, b, q, p) ==
    \A n \in (q + 1) .. p : \A kind \in {"Begin", "End"} : \A label \in LABELS :
        EndsAt(ds, a, n, kind, label) <=> EndsAt(es, b, n, kind, label)

\* At position p, both scans have come to the same stack.
Agree(f, ds, a, g, es, b, p) ==
    \A j \in 0 .. Len(ds) : \A k \in 0 .. Len(es) :
        Passed(ds, a, j, p) /\ Passed(es, b, k, p) => Same(f[j], g[k])

LEMMA ScansAgree ==
    ASSUME NEW f, NEW s, NEW ds, NEW a, NEW m, Scanned(f, s, ds, a, m),
           NEW g, NEW t, NEW es, NEW b, NEW n, Scanned(g, t, es, b, n),
           NEW q \in Nat, NEW p \in Nat, q <= p, m <= q, n <= q,
           SameEnds(ds, a, es, b, q, p), Agree(f, ds, a, g, es, b, q)
    PROVE  Agree(f, ds, a, g, es, b, p)
  <1>1. /\ ds \in Seq(DelimRecs) /\ Ordered(ds) /\ a \in Nat /\ m \in Nat /\ Len(ds) \in Nat
        /\ IsState(s) /\ ScanOf(f, s, ds, a, m)
    BY LenProperties DEF Scanned
  <1>2. /\ es \in Seq(DelimRecs) /\ Ordered(es) /\ b \in Nat /\ n \in Nat /\ Len(es) \in Nat
        /\ IsState(t) /\ ScanOf(g, t, es, b, n)
    BY LenProperties DEF Scanned
  <1>3. /\ \A k \in 1 .. Len(ds) :
              f[k] = IF a + ds[k].end <= m THEN f[k - 1] ELSE process_delimiter(f[k - 1], ds[k])
        /\ \A k \in 0 .. Len(ds) : IsState(f[k])
    BY <1>1, ScanStep
  <1>4. /\ \A k \in 1 .. Len(es) :
              g[k] = IF b + es[k].end <= n THEN g[k - 1] ELSE process_delimiter(g[k - 1], es[k])
        /\ \A k \in 0 .. Len(es) : IsState(g[k])
    BY <1>2, ScanStep
  <1> DEFINE Wrong == {i \in q .. p : ~Agree(f, ds, a, g, es, b, i)}
  <1>5. SUFFICES ASSUME Wrong # {} PROVE FALSE
    BY DEF Agree
  <1>6. PICK i \in Wrong : \A o \in Wrong : i <= o
    <2>1. Wrong \subseteq Nat
      OBVIOUS
    <2> HIDE DEF Wrong
    <2> QED BY <1>5, <2>1, LeastElement
  <1>7. i \in (q + 1) .. p /\ i \in Nat \ {0} /\ i \in Nat /\ i > m /\ i > n
    <2>1. i # q /\ i \in q .. p
      BY <1>6
    <2> QED BY <1>1, <1>2, <2>1
  <1>8. Agree(f, ds, a, g, es, b, i - 1)
    <2>1. i - 1 \in q .. p /\ i - 1 < i
      BY <1>7
    <2> QED BY <1>6, <1>7, <2>1
  <1>9. ASSUME NEW j \in 0 .. Len(ds), NEW k \in 0 .. Len(es),
               Passed(ds, a, j, i), Passed(es, b, k, i)
        PROVE  Same(f[j], g[k])
    <2>1. \/ /\ j \in 1 .. Len(ds) /\ a + ds[j].end = i /\ j - 1 \in 0 .. Len(ds)
             /\ Passed(ds, a, j - 1, i - 1)
          \/ Passed(ds, a, j, i - 1) /\ \A o \in 1 .. Len(ds) : a + ds[o].end # i
      BY <1>1, <1>7, <1>9, PassedBefore
    <2>2. \/ /\ k \in 1 .. Len(es) /\ b + es[k].end = i /\ k - 1 \in 0 .. Len(es)
             /\ Passed(es, b, k - 1, i - 1)
          \/ Passed(es, b, k, i - 1) /\ \A o \in 1 .. Len(es) : b + es[o].end # i
      BY <1>2, <1>7, <1>9, PassedBefore
    <2>3. CASE /\ j \in 1 .. Len(ds) /\ a + ds[j].end = i /\ j - 1 \in 0 .. Len(ds)
               /\ Passed(ds, a, j - 1, i - 1)
      <3>1. ds[j] \in DelimRecs /\ ds[j].kind \in {"Begin", "End"} /\ ds[j].label \in LABELS
        BY <1>1, <2>3, EndsAreNat DEF DelimRecs
      <3>2. EndsAt(ds, a, i, ds[j].kind, ds[j].label)
        BY <2>3 DEF EndsAt
      <3>3. EndsAt(es, b, i, ds[j].kind, ds[j].label)
        BY <1>7, <3>1, <3>2 DEF SameEnds
      <3>4. PICK o \in 1 .. Len(es) :
                b + es[o].end = i /\ es[o].kind = ds[j].kind /\ es[o].label = ds[j].label
        BY <3>3 DEF EndsAt
      <3>5. o = k
        BY <1>2, <1>7, <1>9, <3>4, LastPassed
      <3>6. /\ k \in 1 .. Len(es) /\ k - 1 \in 0 .. Len(es) /\ Passed(es, b, k - 1, i - 1)
            /\ b + es[k].end = i /\ es[k] \in DelimRecs
        BY <1>2, <2>2, <3>4, <3>5, EndsAreNat
      <3>7. Same(f[j - 1], g[k - 1])
        BY <1>8, <2>3, <3>6 DEF Agree
      <3>8. f[j] = process_delimiter(f[j - 1], ds[j]) /\ IsState(f[j - 1])
        <4>1. ~(a + ds[j].end <= m)
          BY <1>1, <1>7, <2>3
        <4> QED BY <1>3, <2>3, <4>1
      <3>9. g[k] = process_delimiter(g[k - 1], es[k]) /\ IsState(g[k - 1])
        <4>1. ~(b + es[k].end <= n)
          BY <1>2, <1>7, <3>6
        <4> QED BY <1>4, <3>6, <4>1
      <3> QED BY <3>1, <3>4, <3>5, <3>6, <3>7, <3>8, <3>9, ProcessSame
    <2>4. CASE Passed(ds, a, j, i - 1) /\ \A o \in 1 .. Len(ds) : a + ds[o].end # i
      <3>1. Passed(es, b, k, i - 1)
        <4>1. SUFFICES ASSUME k \in 1 .. Len(es), b + es[k].end = i PROVE FALSE
          BY <2>2
        <4>2. es[k].kind \in {"Begin", "End"} /\ es[k].label \in LABELS
          BY <1>2, <4>1, EndsAreNat DEF DelimRecs
        <4>3. EndsAt(es, b, i, es[k].kind, es[k].label)
          BY <4>1 DEF EndsAt
        <4>4. EndsAt(ds, a, i, es[k].kind, es[k].label)
          BY <1>7, <4>2, <4>3 DEF SameEnds
        <4> QED BY <2>4, <4>4 DEF EndsAt
      <3> QED BY <1>8, <2>4, <3>1 DEF Agree
    <2> QED BY <2>1, <2>3, <2>4
  <1>10. Agree(f, ds, a, g, es, b, i)
    BY <1>9 DEF Agree
  <1> QED BY <1>6, <1>10

---------------------------------------------------------------------------
(* A part of a text has the delimiters of the text that lie in it. *)

\* u is the part of v behind its first a symbols.
Window(u, v, a) ==
    /\ u \in Seq(Symbol) /\ v \in Seq(Symbol) /\ a \in Nat /\ a + Len(u) <= Len(v)
    /\ \A i \in 1 .. Len(u) : u[i] = v[a + i]

LEMMA AtInWindow ==
    ASSUME NEW u, NEW v, NEW a, Window(u, v, a), NEW k \in Kinds, NEW l \in LABELS,
           NEW i \in Nat \ {0}, i + Len(l) + 2 <= Len(u)
    PROVE  At(k, l, u, i) <=> At(k, l, v, a + i)
  <1>1. /\ a \in Nat /\ Len(u) \in Nat /\ Len(v) \in Nat /\ Len(l) \in Nat
        /\ a + Len(u) <= Len(v) /\ Len(l) > 0
    <2>1. u \in Seq(Symbol) /\ v \in Seq(Symbol) /\ a \in Nat /\ a + Len(u) <= Len(v)
      BY DEF Window
    <2>2. Len(l) \in Nat /\ Len(l) > 0
      BY LabelLength
    <2> QED BY <2>1, <2>2, LenProperties
  <1>2. /\ i \in 1 .. Len(u) /\ i + 1 \in 1 .. Len(u) /\ i + 2 \in 1 .. Len(u)
        /\ i + Len(l) + 2 \in 1 .. Len(u) /\ i + 3 \in 1 .. Len(u)
        /\ a + (i + 1) = a + i + 1 /\ a + (i + 2) = a + i + 2 /\ a + (i + 3) = a + i + 3
        /\ a + (i + Len(l) + 2) = a + i + Len(l) + 2
    BY <1>1
  <1>3. /\ u[i] = v[a + i] /\ u[i + 1] = v[a + i + 1] /\ u[i + 2] = v[a + i + 2]
        /\ u[i + 3] = v[a + i + 3] /\ u[i + Len(l) + 2] = v[a + i + Len(l) + 2]
    <2>1. \A n \in 1 .. Len(u) : u[n] = v[a + n]
      BY DEF Window
    <2>2. /\ u[i] = v[a + i] /\ u[i + 1] = v[a + (i + 1)] /\ u[i + 2] = v[a + (i + 2)]
          /\ u[i + 3] = v[a + (i + 3)] /\ u[i + Len(l) + 2] = v[a + (i + Len(l) + 2)]
      BY <1>2, <2>1
    <2> QED BY <1>2, <2>2
  <1>4. i + Len(l) + 2 <= Len(u) /\ a + i + Len(l) + 2 <= Len(v)
    BY <1>1
  <1> QED BY <1>3, <1>4 DEF At

LEMMA WindowSharesNone ==
    ASSUME NEW u, NEW v, NEW a, Window(u, v, a), ~SharesDashes(v)
    PROVE  ~SharesDashes(u)
  <1>1. /\ u \in Seq(Symbol) /\ v \in Seq(Symbol) /\ a \in Nat /\ a + Len(u) <= Len(v)
        /\ Len(u) \in Nat /\ Len(v) \in Nat
    BY LenProperties DEF Window
  <1>2. SUFFICES ASSUME NEW i \in 1 .. Len(u), NEW j \in Kinds, NEW k \in Kinds,
                        NEW l \in LABELS, NEW q \in LABELS,
                        At(j, l, u, i), At(k, q, u, i + Len(l) + 2)
                 PROVE  FALSE
    BY <1>1, SharingIs
  <1>3. /\ Len(l) \in Nat /\ Len(q) \in Nat /\ i \in Nat \ {0} /\ i + Len(l) + 2 \in Nat \ {0}
        /\ i + Len(l) + 2 <= Len(u) /\ i + Len(l) + 2 + Len(q) + 2 <= Len(u)
        /\ a + i \in 1 .. Len(v) /\ a + (i + Len(l) + 2) = a + i + Len(l) + 2
    BY <1>1, <1>2, LabelLength DEF At
  <1>4. At(j, l, v, a + i)
    BY <1>2, <1>3, AtInWindow
  <1>5. At(k, q, v, a + i + Len(l) + 2)
    <2>1. At(k, q, v, a + (i + Len(l) + 2))
      BY <1>2, <1>3, AtInWindow
    <2> QED BY <1>3, <2>1
  <1> QED BY <1>1, <1>3, <1>4, <1>5, SharingIs

LEMMA EndsAtIs ==
    ASSUME NEW u \in Seq(Symbol), ~SharesDashes(u), NEW ds, Lists(ds, u, 1),
           NEW offset \in Nat, NEW p \in Nat, NEW kind, NEW label \in LABELS
    PROVE  EndsAt(ds, offset, p, kind, label) <=>
             \E k \in Kinds : \E i \in Nat \ {0} :
               KindOf[k] = kind /\ At(k, label, u, i) /\ offset + i + Len(label) + 2 = p
  <1>1. ASSUME EndsAt(ds, offset, p, kind, label)
        PROVE  \E k \in Kinds : \E i \in Nat \ {0} :
                 KindOf[k] = kind /\ At(k, label, u, i) /\ offset + i + Len(label) + 2 = p
    <2>1. PICK n \in 1 .. Len(ds) :
              offset + ds[n].end = p /\ ds[n].kind = kind /\ ds[n].label = label
      BY <1>1 DEF EndsAt
    <2>2. IsDelim(ds[n], u) /\ ds \in Seq(DelimRecs)
      BY DEF Lists
    <2>3. ds[n].start \in Nat \ {0}
      BY <2>2, EndsAreNat DEF DelimRecs
    <2>4. PICK k \in Kinds, l \in LABELS :
              At(k, l, u, ds[n].start) /\ ds[n] = Delim(k, l, ds[n].start)
      BY <2>2 DEF IsDelim
    <2>5. PICK i \in Nat \ {0} : i = ds[n].start
      BY <2>3
    <2>9. ds[n].kind = KindOf[k] /\ ds[n].label = l /\ ds[n].end = i + Len(l) + 2
      <3>1. ds[n] = Delim(k, l, i)
        BY <2>4, <2>5
      <3>2. /\ Delim(k, l, i).kind = KindOf[k] /\ Delim(k, l, i).label = l
            /\ Delim(k, l, i).end = i + Len(l) + 2
        BY DEF Delim
      <3> QED BY <3>1, <3>2
    <2>6. Len(label) \in Nat
      BY LabelLength
    <2>7. At(k, label, u, i) /\ KindOf[k] = kind
      BY <2>1, <2>4, <2>5, <2>9
    <2>8. offset + i + Len(label) + 2 = p
      <3>1. offset + (i + Len(label) + 2) = p
        BY <2>1, <2>9
      <3> QED BY <2>6, <3>1
    <2> QED BY <2>7, <2>8
  <1>2. ASSUME NEW k \in Kinds, NEW i \in Nat \ {0},
               KindOf[k] = kind, At(k, label, u, i), offset + i + Len(label) + 2 = p
        PROVE  EndsAt(ds, offset, p, kind, label)
    <2>1. 1 <= i /\ Len(label) \in Nat /\ offset + (i + Len(label) + 2) = p
      BY <1>2, LabelLength
    <2>2. PICK n \in 1 .. Len(ds) : ds[n] = Delim(k, label, i)
      BY <1>2, <2>1 DEF Lists
    <2>3. ds[n].kind = kind /\ ds[n].label = label /\ ds[n].end = i + Len(label) + 2
      <3>1. /\ Delim(k, label, i).kind = KindOf[k] /\ Delim(k, label, i).label = label
            /\ Delim(k, label, i).end = i + Len(label) + 2
        BY DelimIs
      <3> QED BY <1>2, <2>2, <3>1
    <2> QED BY <2>1, <2>3 DEF EndsAt
  <1> QED BY <1>1, <1>2

\* A part has the ends of the whole, from a position on before which no delimiter starts and
\* behind which it ends.
LEMMA WindowEnds ==
    ASSUME NEW u, NEW v, NEW a, Window(u, v, a), ~SharesDashes(v),
           NEW ds, Lists(ds, u, 1), NEW es, Lists(es, v, 1), NEW q \in Nat,
           \A k \in Kinds : \A l \in LABELS : \A i \in 1 .. a :
              At(k, l, v, i) => i + Len(l) + 2 <= q
    PROVE  SameEnds(es, 0, ds, a, q, a + Len(u))
  <1>1. /\ u \in Seq(Symbol) /\ v \in Seq(Symbol) /\ a \in Nat /\ a + Len(u) <= Len(v)
        /\ Len(u) \in Nat /\ Len(v) \in Nat /\ ~SharesDashes(u)
    BY LenProperties, WindowSharesNone DEF Window
  <1>2. SUFFICES ASSUME NEW p \in (q + 1) .. (a + Len(u)), NEW kind \in {"Begin", "End"},
                        NEW l \in LABELS
                 PROVE  EndsAt(es, 0, p, kind, l) <=> EndsAt(ds, a, p, kind, l)
    BY DEF SameEnds
  <1>3. p \in Nat /\ q < p /\ p <= a + Len(u) /\ Len(l) \in Nat
    BY <1>1, LabelLength
  <1>4. ASSUME NEW k \in Kinds, NEW i \in Nat \ {0},
               KindOf[k] = kind, At(k, l, v, i), 0 + i + Len(l) + 2 = p
        PROVE  EndsAt(ds, a, p, kind, l)
    <2>1. i > a
      <3>1. CASE i <= a
        <4>1. i \in 1 .. a
          BY <1>1, <3>1
        <4>2. i + Len(l) + 2 <= q
          BY <1>4, <4>1
        <4> QED BY <1>3, <1>4, <4>2
      <3> QED BY <1>1, <3>1
    <2>2. /\ i - a \in Nat \ {0} /\ a + (i - a) = i /\ (i - a) + Len(l) + 2 <= Len(u)
          /\ a + (i - a) + Len(l) + 2 = p
      BY <1>1, <1>3, <1>4, <2>1
    <2>3. At(k, l, u, i - a)
      BY <1>4, <2>2, AtInWindow
    <2> QED BY <1>1, <1>3, <1>4, <2>2, <2>3, EndsAtIs
  <1>5. ASSUME NEW k \in Kinds, NEW i \in Nat \ {0},
               KindOf[k] = kind, At(k, l, u, i), a + i + Len(l) + 2 = p
        PROVE  EndsAt(es, 0, p, kind, l)
    <2>1. i + Len(l) + 2 <= Len(u) /\ a + i \in Nat \ {0} /\ 0 + (a + i) + Len(l) + 2 = p
      BY <1>1, <1>3, <1>5
    <2>2. At(k, l, v, a + i)
      BY <1>5, <2>1, AtInWindow
    <2> QED BY <1>1, <1>3, <1>5, <2>1, <2>2, EndsAtIs
  <1>6. EndsAt(es, 0, p, kind, l) => EndsAt(ds, a, p, kind, l)
    BY <1>1, <1>3, <1>4, EndsAtIs
  <1>7. EndsAt(ds, a, p, kind, l) => EndsAt(es, 0, p, kind, l)
    BY <1>1, <1>3, <1>5, EndsAtIs
  <1> QED BY <1>6, <1>7

---------------------------------------------------------------------------
(* The lookbehind. *)

\* The last n symbols of u are in w, if they begin a character.
Reach(w, u, bound) ==
    \A n \in 1 .. bound :
        n <= Len(u) /\ u[Len(u) - n + 1] # "more" => n <= Len(w)

LEMMA SuffixIs ==
    ASSUME NEW u \in Seq(Symbol), NEW m \in Nat, NEW w, w = byte_suffix(u, m)
    PROVE  /\ Len(w) <= m /\ Len(w) <= Len(u) /\ Window(w, u, Len(u) - Len(w))
           /\ Reach(w, u, m)
  <1>1. Len(u) \in Nat
    BY LenProperties
  <1>2. CASE Len(u) <= m
    <2>1. w = u
      BY <1>2 DEF byte_suffix
    <2>2. Len(u) - Len(w) = 0 /\ \A i \in 1 .. Len(u) : 0 + i = i
      BY <1>1, <2>1
    <2>3. Window(w, u, 0)
      BY <1>1, <2>1, <2>2 DEF Window
    <2> QED BY <1>1, <1>2, <2>1, <2>2, <2>3 DEF Reach
  <1>3. CASE Len(u) > m
    <2> DEFINE cut == Len(u) - m + 1
               start == IF u[cut] = "more" THEN cut + 1 ELSE cut
    <2>1. w = SubSeq(u, start, Len(u))
      <3>1. w = IF Len(u) <= m THEN u ELSE SubSeq(u, start, Len(u))
        BY DEF byte_suffix
      <3> HIDE DEF start
      <3>2. ~(Len(u) <= m)
        BY <1>1, <1>3
      <3> QED BY <3>1, <3>2
    <2>2. /\ cut \in 1 .. Len(u) + 1 /\ cut = Len(u) - m + 1
          /\ start = cut \/ (u[cut] = "more" /\ start = cut + 1)
      BY <1>1, <1>3
    <2> HIDE DEF start, cut
    <2>3. CASE m = 0
      <3>1. start > Len(u) /\ start \in Int
        BY <1>1, <2>2, <2>3
      <3>2. w = <<>>
        BY <1>1, <2>1, <3>1, SubSeqEmpty
      <3>3. Len(w) = 0 /\ w \in Seq(Symbol)
        BY <3>2
      <3> QED BY <1>1, <2>3, <3>3 DEF Window, Reach
    <2>4. CASE m # 0
      <3>1. start \in 1 .. Len(u) + 1 /\ cut \in 1 .. Len(u)
        BY <1>1, <2>2, <2>4
      <3>2. /\ w \in Seq(Symbol) /\ Len(w) = Len(u) - start + 1
            /\ \A i \in 1 .. Len(u) - start + 1 : w[i] = u[start + i - 1]
        <4>1. \A i \in start .. Len(u) : u[i] \in Symbol
          BY <1>1, <3>1, ElementOfSeq
        <4>2. start \in Int /\ Len(u) \in Int
          BY <1>1, <3>1
        <4>3. Len(u) - start + 1 = IF start <= Len(u) THEN Len(u) - start + 1 ELSE 0
          BY <1>1, <3>1
        <4> QED BY <2>1, <4>1, <4>2, <4>3, SubSeqProperties
      <3>3. Window(w, u, Len(u) - Len(w))
        <4>1. Len(u) - Len(w) = start - 1 /\ start - 1 \in Nat
          BY <1>1, <3>1, <3>2
        <4>2. start \in Int /\ Len(w) \in Nat /\ Len(w) = Len(u) - start + 1 /\ Len(u) \in Nat
          BY <1>1, <3>1, <3>2
        <4>3. Len(u) - Len(w) + Len(w) = Len(u) /\ Len(u) - Len(w) \in Nat
          BY <4>1, <4>2
        <4>4. ASSUME NEW i \in 1 .. Len(w)
              PROVE  w[i] = u[Len(u) - Len(w) + i]
          <5>1. i \in 1 .. Len(u) - start + 1 /\ Len(u) - Len(w) + i = start + i - 1
            BY <4>1, <4>2
          <5>2. w[i] = u[start + i - 1]
            BY <3>2, <5>1
          <5> QED BY <5>1, <5>2
        <4> QED BY <3>2, <4>2, <4>3, <4>4 DEF Window
      <3>4. Len(w) <= m /\ Len(w) <= Len(u)
        BY <1>1, <2>2, <3>1, <3>2
      <3>5. ASSUME NEW n \in 1 .. m, n <= Len(u), u[Len(u) - n + 1] # "more"
            PROVE  n <= Len(w)
        <4>1. CASE n = m
          <5>1. start = cut
            BY <2>2, <3>5, <4>1
          <5> QED BY <1>1, <2>2, <3>2, <4>1, <5>1
        <4>2. CASE n # m
          BY <1>1, <2>2, <3>1, <3>2, <4>2
        <4> QED BY <4>1, <4>2
      <3> QED BY <3>3, <3>4, <3>5 DEF Reach
    <2> QED BY <2>3, <2>4
  <1> QED BY <1>1, <1>2, <1>3

LEMMA DelimEnds ==
    ASSUME NEW d, NEW u, IsDelim(d, u), d.end \in Nat
    PROVE  d.end <= Len(u) /\ 0 + d.end <= Len(u)
  <1>1. PICK k \in Kinds, l \in LABELS : At(k, l, u, d.start) /\ d = Delim(k, l, d.start)
    BY DEF IsDelim
  <1>2. d.end = d.start + Len(l) + 2
    BY <1>1 DEF Delim
  <1>3. d.start + Len(l) + 2 <= Len(u)
    BY <1>1 DEF At
  <1>4. d.end <= Len(u)
    BY <1>2, <1>3
  <1>5. 0 + d.end = d.end
    OBVIOUS
  <1> QED BY <1>4, <1>5

LEMMA WindowOfWindow ==
    ASSUME NEW w, NEW u, NEW v, NEW a, NEW b, Window(w, u, a), Window(u, v, b)
    PROVE  Window(w, v, a + b)
  <1>1. /\ Len(w) \in Nat /\ Len(u) \in Nat /\ Len(v) \in Nat /\ a \in Nat /\ b \in Nat
        /\ w \in Seq(Symbol) /\ v \in Seq(Symbol) /\ a + Len(w) <= Len(u)
        /\ b + Len(u) <= Len(v)
    BY LenProperties DEF Window
  <1>2. ASSUME NEW i \in 1 .. Len(w) PROVE w[i] = v[a + b + i]
    <2>1. w[i] = u[a + i] /\ a + i \in 1 .. Len(u) /\ b + (a + i) = a + b + i
      BY <1>1 DEF Window
    <2>2. u[a + i] = v[b + (a + i)]
      BY <2>1 DEF Window
    <2> QED BY <2>1, <2>2
  <1> QED BY <1>1, <1>2 DEF Window

\* The lookbehind and the piece behind it.
LEMMA InputIs ==
    ASSUME NEW u \in Seq(Symbol), NEW w, Window(w, u, Len(u) - Len(w)),
           NEW piece \in Seq(Symbol)
    PROVE  /\ w \o piece \in Seq(Symbol) /\ Len(w \o piece) = Len(w) + Len(piece)
           /\ u \o piece \in Seq(Symbol) /\ Len(u \o piece) = Len(u) + Len(piece)
           /\ Window(u, u \o piece, 0)
           /\ Window(w \o piece, u \o piece, Len(u) - Len(w))
  <1>1. /\ w \in Seq(Symbol) /\ Len(w) \in Nat /\ Len(u) \in Nat /\ Len(piece) \in Nat
        /\ Len(u) - Len(w) \in Nat /\ \A i \in 1 .. Len(w) : w[i] = u[Len(u) - Len(w) + i]
    BY LenProperties DEF Window
  <1> DEFINE x == w \o piece
             v == u \o piece
             a == Len(u) - Len(w)
  <1>2. /\ x \in Seq(Symbol) /\ Len(x) = Len(w) + Len(piece)
        /\ \A i \in 1 .. Len(w) : x[i] = w[i]
        /\ \A i \in 1 .. Len(piece) : x[Len(w) + i] = piece[i]
    BY <1>1, ConcatIs
  <1>3. /\ v \in Seq(Symbol) /\ Len(v) = Len(u) + Len(piece)
        /\ \A i \in 1 .. Len(u) : v[i] = u[i]
        /\ \A i \in 1 .. Len(piece) : v[Len(u) + i] = piece[i]
    BY ConcatIs
  <1> HIDE DEF x, v
  <1>4. Window(u, v, 0)
    BY <1>1, <1>3 DEF Window
  <1>5. ASSUME NEW i \in 1 .. Len(x) PROVE x[i] = v[a + i]
    <2>1. CASE i <= Len(w)
      <3>1. i \in 1 .. Len(w) /\ a + i \in 1 .. Len(u)
        BY <1>1, <2>1
      <3> QED BY <1>1, <1>2, <1>3, <3>1
    <2>2. CASE i > Len(w)
      <3>1. i - Len(w) \in 1 .. Len(piece)
        BY <1>1, <1>2, <2>2
      <3>2. x[Len(w) + (i - Len(w))] = v[Len(u) + (i - Len(w))]
        BY <1>2, <1>3, <3>1
      <3>3. Len(w) + (i - Len(w)) = i /\ Len(u) + (i - Len(w)) = a + i
        BY <1>1
      <3> QED BY <3>2, <3>3
    <2> QED BY <1>1, <2>1, <2>2
  <1>6. Window(x, v, a)
    BY <1>1, <1>2, <1>3, <1>5 DEF Window
  <1> QED BY <1>2, <1>3, <1>4, <1>6 DEF x, v

---------------------------------------------------------------------------
(* The invariant. *)

\* The lookbehind is the end of the text, and reaches as far back as its length allows.
LookbehindShape ==
    /\ Window(lookbehind, text, Len(text) - Len(lookbehind))
    /\ Len(lookbehind) < MAX_DELIMITER_LEN
    /\ Reach(lookbehind, text, MAX_DELIMITER_LEN - 1)

TInv ==
    /\ text \in Seq(Symbol) /\ processed_bytes = Len(text)
    /\ stack \in Seq(LABELS) /\ has_begin \in BOOLEAN
    /\ LookbehindShape
    /\ TrackerMatchesScan

LEMMA LongEnough == MAX_DELIMITER_LEN \in Nat /\ \A l \in LABELS : Len(l) + 3 <= MAX_DELIMITER_LEN
  <1>1. ASSUME NEW l \in LABELS PROVE Len(l) + 3 <= MAX_DELIMITER_LEN
    <2>1. "begin" \in Kinds /\ Len(Form("begin", l)) = Len(l) + 3
      BY KindsAndLabels, FormIs
    <2> QED BY <2>1, LongestDelimiter DEF Kinds
  <1> QED BY <1>1, LongestDelimiter

LEMMA EmptyStart == IsState(ParserState) /\ ParserState.stack = <<>> /\ ~ParserState.has_begin
  <1>1. <<>> \in Seq(LABELS)
    OBVIOUS
  <1> QED BY <1>1 DEF ParserState, IsState

LEMMA NothingListed == Len(delimiters(<<>>)) = 0
  <1> DEFINE ds == delimiters(<<>>)
  <1>1. <<>> \in Seq(Symbol) /\ Len(<<>>) = 0
    OBVIOUS
  <1>2. Lists(ds, <<>>, 1)
    BY <1>1, DelimitersAre
  <1>3. ds \in Seq(DelimRecs) /\ Len(ds) \in Nat
    BY <1>2, LenProperties DEF Lists
  <1>4. ASSUME 1 \in 1 .. Len(ds) PROVE FALSE
    <2>1. IsDelim(ds[1], <<>>) /\ ds[1] \in DelimRecs
      BY <1>2, <1>3, <1>4, ElementOfSeq DEF Lists
    <2>2. ds[1].start \in Nat
      BY <2>1 DEF DelimRecs
    <2>3. PICK l \in LABELS : ds[1].start + Len(l) + 2 <= 0
      BY <1>1, <2>1 DEF IsDelim, At
    <2> QED BY <2>2, <2>3, LabelLength
  <1> HIDE DEF ds
  <1>5. Len(ds) = 0
    BY <1>3, <1>4
  <1> QED BY <1>5 DEF ds

LEMMA StartsRight == Init => TInv
  <1> SUFFICES ASSUME Init PROVE TInv
    OBVIOUS
  <1>1. /\ text = <<>> /\ lookbehind = <<>> /\ stack = <<>> /\ has_begin = FALSE
        /\ processed_bytes = 0
    BY DEF Init
  <1>2. <<>> \in Seq(Symbol) /\ <<>> \in Seq(LABELS) /\ Len(<<>>) = 0
    OBVIOUS
  <1>3. LookbehindShape
    <2>1. Window(<<>>, <<>>, 0) /\ Reach(<<>>, <<>>, MAX_DELIMITER_LEN - 1)
      BY <1>2 DEF Window, Reach
    <2>2. 0 < MAX_DELIMITER_LEN
      BY LongEnough, LabelLength, KindsAndLabels DEF LABELS
    <2> QED BY <1>1, <1>2, <2>1, <2>2 DEF LookbehindShape
  <1>4. Whole = ParserState
    <2> DEFINE ds == delimiters(<<>>)
    <2>1. ds \in Seq(DelimRecs) /\ Len(ds) = 0
      BY <1>2, DelimitersAre, NothingListed DEF Lists
    <2> HIDE DEF ds
    <2>2. PICK f : ScanOf(f, ParserState, ds, 0, 0)
      <3>1. Len(ds) \in Nat /\ 0 \in Nat
        BY <2>1
      <3> QED BY <3>1, ScanExists
    <2>3. process_delimiters(ParserState, ds) = f[0]
      BY <2>1, <2>2, ProcessDelimitersIs
    <2>4. f[0] = ParserState
      BY <2>1, <2>2 DEF ScanOf
    <2> QED BY <1>1, <2>3, <2>4 DEF Whole, ds
  <1>5. TrackerMatchesScan
    <2>1. ParserState.has_begin = FALSE
      BY DEF ParserState
    <2> QED BY <1>1, <1>4, <2>1, EmptyStart DEF TrackerMatchesScan
  <1> QED BY <1>1, <1>2, <1>3, <1>5 DEF TInv

LEMMA LookbehindKept ==
    ASSUME NEW piece \in Fragments, TInv, append(piece), text' = text \o piece
    PROVE  LookbehindShape' /\ text' \in Seq(Symbol) /\ processed_bytes' = Len(text')
  <1> DEFINE input == lookbehind \o piece
             a == Len(text) - Len(lookbehind)
             M == MAX_DELIMITER_LEN - 1
  <1>1. /\ piece \in Seq(Symbol) /\ text \in Seq(Symbol)
        /\ Window(lookbehind, text, a) /\ Reach(lookbehind, text, M)
        /\ Len(lookbehind) < MAX_DELIMITER_LEN /\ processed_bytes = Len(text)
    BY TrackerPieces DEF TInv, LookbehindShape
  <1>2. M \in Nat /\ M = MAX_DELIMITER_LEN - 1
    <2>1. <<"pk">> \in LABELS /\ Len(<<"pk">>) = 1
      BY DEF LABELS
    <2>2. MAX_DELIMITER_LEN \in Nat /\ 1 + 3 <= MAX_DELIMITER_LEN
      BY <2>1, LongEnough
    <2> QED BY <2>2
  <1>3. /\ input \in Seq(Symbol) /\ Len(input) = Len(lookbehind) + Len(piece)
        /\ text \o piece \in Seq(Symbol) /\ Len(text \o piece) = Len(text) + Len(piece)
        /\ Window(text, text \o piece, 0) /\ Window(input, text \o piece, a)
    BY <1>1, InputIs
  <1>4. lookbehind' = byte_suffix(input, M) /\ processed_bytes' = processed_bytes + Len(piece)
    BY DEF append
  <1> HIDE DEF input, M
  <1>5. /\ Len(lookbehind') <= M /\ Len(lookbehind') <= Len(input)
        /\ Window(lookbehind', input, Len(input) - Len(lookbehind'))
        /\ Reach(lookbehind', input, M)
    BY <1>2, <1>3, <1>4, SuffixIs
  <1>6. /\ Len(text) \in Nat /\ Len(lookbehind) \in Nat /\ Len(piece) \in Nat
        /\ Len(input) \in Nat /\ lookbehind' \in Seq(Symbol) /\ Len(lookbehind') \in Nat
    BY <1>1, <1>3, <1>5, LenProperties DEF Window
  <1>7. Window(lookbehind', text', Len(text') - Len(lookbehind'))
    <2>1. Len(input) - Len(lookbehind') + a = Len(text') - Len(lookbehind')
      BY <1>3, <1>6
    <2>2. Window(lookbehind', text', Len(input) - Len(lookbehind') + a)
      BY <1>3, <1>5, WindowOfWindow
    <2> QED BY <2>1, <2>2
  <1>8. ASSUME NEW n \in 1 .. M, n <= Len(text'), text'[Len(text') - n + 1] # "more"
        PROVE  n <= Len(lookbehind')
    <2>1. n <= Len(input)
      <3>1. CASE n <= Len(piece)
        BY <1>3, <1>6, <3>1
      <3>2. CASE n > Len(piece)
        <4>1. n - Len(piece) \in 1 .. M /\ n - Len(piece) <= Len(text)
          BY <1>2, <1>3, <1>6, <1>8, <3>2
        <4>2. /\ Len(text) - (n - Len(piece)) + 1 = Len(text') - n + 1
              /\ Len(text) - (n - Len(piece)) + 1 \in 1 .. Len(text)
              /\ 0 + (Len(text) - (n - Len(piece)) + 1) = Len(text) - (n - Len(piece)) + 1
          BY <1>3, <1>6, <4>1
        <4>3. text[Len(text) - (n - Len(piece)) + 1] = text'[Len(text') - n + 1]
          BY <1>3, <4>2 DEF Window
        <4>4. n - Len(piece) <= Len(lookbehind)
          BY <1>1, <1>8, <4>1, <4>3 DEF Reach
        <4> QED BY <1>3, <1>6, <4>4
      <3> QED BY <1>6, <3>1, <3>2
    <2>2. /\ a + (Len(input) - n + 1) = Len(text') - n + 1
          /\ Len(input) - n + 1 \in 1 .. Len(input)
      BY <1>3, <1>6, <2>1
    <2>3. input[Len(input) - n + 1] = text'[Len(text') - n + 1]
      BY <1>3, <2>2 DEF Window
    <2> QED BY <1>5, <1>8, <2>1, <2>3 DEF Reach
  <1>9. Reach(lookbehind', text', M)
    BY <1>8 DEF Reach
  <1>10. Len(lookbehind') < MAX_DELIMITER_LEN
    <2>1. MAX_DELIMITER_LEN \in Nat
      BY LongEnough
    <2> QED BY <1>2, <1>5, <1>6, <2>1
  <1>11. processed_bytes' = Len(text')
    BY <1>1, <1>3, <1>4
  <1> QED BY <1>2, <1>3, <1>7, <1>9, <1>10, <1>11 DEF LookbehindShape

\* The scan of a piece and the scan of the text it ends come to the same stack.
LEMMA PieceScanned ==
    ASSUME NEW piece \in Fragments, TInv, append(piece), text' = text \o piece
    PROVE  stack' \in Seq(LABELS) /\ has_begin' \in BOOLEAN /\ TrackerMatchesScan'
  <1> DEFINE input == lookbehind \o piece
             longer == text \o piece
             a == Len(text) - Len(lookbehind)
             open == [ParserState EXCEPT !.stack = stack, !.has_begin = has_begin]
             A == delimiters(text)
             T == delimiters(longer)
             B == delimiters(input)
  <1>1. /\ piece \in Seq(Symbol) /\ text \in Seq(Symbol) /\ Window(lookbehind, text, a)
        /\ stack \in Seq(LABELS) /\ has_begin \in BOOLEAN /\ processed_bytes = Len(text)
        /\ Reach(lookbehind, text, MAX_DELIMITER_LEN - 1) /\ TrackerMatchesScan
    BY TrackerPieces DEF TInv, LookbehindShape
  <1>2. /\ input \in Seq(Symbol) /\ Len(input) = Len(lookbehind) + Len(piece)
        /\ longer \in Seq(Symbol) /\ Len(longer) = Len(text) + Len(piece)
        /\ Window(text, longer, 0) /\ Window(input, longer, a)
    BY <1>1, InputIs
  <1>3. /\ Len(text) \in Nat /\ Len(lookbehind) \in Nat /\ Len(piece) \in Nat /\ a \in Nat
        /\ a + Len(lookbehind) = Len(text) /\ a + Len(input) = Len(longer)
        /\ Len(longer) \in Nat
    <2>1. /\ lookbehind \in Seq(Symbol) /\ a \in Nat
      BY <1>1 DEF Window
    <2> QED BY <1>1, <1>2, <2>1, LenProperties
  <1>4. /\ IsState(open) /\ open.stack = stack /\ open.has_begin = has_begin
    <2>1. /\ IsState(ParserState) /\ stack \in Seq(LABELS) /\ has_begin \in BOOLEAN
          /\ open = [ParserState EXCEPT !.stack = stack, !.has_begin = has_begin]
      BY <1>1, EmptyStart
    <2> HIDE DEF open
    <2> QED BY <2>1 DEF IsState
  <1>5. IsState(ParserState)
    BY EmptyStart
  <1>6. /\ stack' = scan_delimiters(open, B, a).stack
        /\ has_begin' = scan_delimiters(open, B, a).has_begin
    BY <1>1 DEF append
  <1>7. Whole = process_delimiters(ParserState, A)
    BY DEF Whole
  <1>8. Whole' = process_delimiters(ParserState, T)
    BY DEF Whole
  <1> HIDE DEF open
  <1>9. Lists(A, text, 1) /\ Lists(T, longer, 1) /\ Lists(B, input, 1)
    BY <1>1, <1>2, DelimitersAre
  <1> HIDE DEF A, T, B, input, longer
  <1>10. /\ A \in Seq(DelimRecs) /\ Ordered(A) /\ Len(A) \in Nat
         /\ T \in Seq(DelimRecs) /\ Ordered(T) /\ Len(T) \in Nat
         /\ B \in Seq(DelimRecs) /\ Ordered(B) /\ Len(B) \in Nat
    <2>1. A \in Seq(DelimRecs) /\ Ordered(A) /\ T \in Seq(DelimRecs) /\ Ordered(T)
          /\ B \in Seq(DelimRecs) /\ Ordered(B)
      BY <1>9, ListsIsOrdered
    <2> QED BY <2>1, LenProperties
  <1>11. \E f : ScanOf(f, ParserState, A, 0, 0)
    BY <1>10, ScanExists
  <1>12. PICK f : ScanOf(f, ParserState, A, 0, 0)
    BY <1>11
  <1>13. PICK g : ScanOf(g, ParserState, T, 0, 0)
    BY <1>10, ScanExists
  <1>14. PICK h : ScanOf(h, open, B, a, processed_bytes)
    BY <1>1, <1>3, <1>10, ScanExists
  <1>15. Scanned(f, ParserState, A, 0, 0)
    BY <1>5, <1>10, <1>12 DEF Scanned
  <1>16. Scanned(g, ParserState, T, 0, 0)
    BY <1>5, <1>10, <1>13 DEF Scanned
  <1>17. Scanned(h, open, B, a, Len(text))
    BY <1>1, <1>3, <1>4, <1>10, <1>14 DEF Scanned
  <1>18. Whole = f[Len(A)] /\ Whole' = g[Len(T)]
    BY <1>7, <1>8, <1>10, <1>12, <1>13, ProcessDelimitersIs
  <1>19. scan_delimiters(open, B, a) = h[Len(B)]
    BY <1>10, <1>14, ScanDelimitersIs
  <1>20. stack' \in Seq(LABELS) /\ has_begin' \in BOOLEAN
    <2>1. IsState(h[Len(B)])
      <3>1. \A k \in 0 .. Len(B) : IsState(h[k])
        BY <1>3, <1>4, <1>10, <1>17, ScanStep DEF Scanned
      <3> QED BY <1>10, <3>1
    <2> QED BY <1>6, <1>19, <2>1 DEF IsState
  <1>21. ASSUME ~SharesDashes(longer)
         PROVE  stack' = Whole'.stack /\ has_begin' = Whole'.has_begin
    <2>1. ~SharesDashes(text)
      BY <1>2, <1>21, WindowSharesNone
    <2>2. Same(open, f[Len(A)])
      BY <1>1, <1>4, <1>18, <2>1 DEF TrackerMatchesScan, Same
    <2>3. Agree(g, T, 0, f, A, 0, Len(text))
      <3>1. SameEnds(T, 0, A, 0, 0, Len(text))
        <4>1. 1 .. 0 = {} /\ 0 + Len(text) = Len(text)
          BY <1>3
        <4>2. SameEnds(T, 0, A, 0, 0, 0 + Len(text))
          BY <1>2, <1>9, <1>21, <4>1, WindowEnds
        <4> QED BY <4>1, <4>2
      <3>2. Agree(g, T, 0, f, A, 0, 0)
        <4>1. g[0] = ParserState /\ f[0] = ParserState
          BY <1>10, <1>12, <1>13 DEF ScanOf
        <4>2. ASSUME NEW j \in 0 .. Len(T), Passed(T, 0, j, 0) PROVE j = 0
          BY <1>10, <4>2, EndsAreNat DEF Passed
        <4>3. ASSUME NEW j \in 0 .. Len(A), Passed(A, 0, j, 0) PROVE j = 0
          BY <1>10, <4>3, EndsAreNat DEF Passed
        <4> QED BY <4>1, <4>2, <4>3 DEF Agree, Same
      <3> QED BY <1>3, <1>15, <1>16, <3>1, <3>2, ScansAgree
    <2>4. Agree(g, T, 0, h, B, a, Len(text))
      <3> SUFFICES ASSUME NEW j \in 0 .. Len(T), NEW k \in 0 .. Len(B),
                          Passed(T, 0, j, Len(text)), Passed(B, a, k, Len(text))
                   PROVE  Same(g[j], h[k])
        BY DEF Agree
      <3>1. h[k] = open
        BY <1>17, Skipped
      <3>2. Passed(A, 0, Len(A), Len(text))
        <4>1. ASSUME Len(A) > 0 PROVE 0 + A[Len(A)].end <= Len(text)
          <5>1. Len(A) \in 1 .. Len(A)
            BY <1>10, <4>1
          <5>2. IsDelim(A[Len(A)], text) /\ A[Len(A)].end \in Nat
            BY <1>9, <1>10, <5>1, EndsAreNat DEF Lists
          <5> QED BY <5>2, DelimEnds
        <4> QED BY <1>10, <4>1 DEF Passed
      <3>3. Same(g[j], f[Len(A)])
        BY <1>10, <2>3, <3>2 DEF Agree
      <3> QED BY <2>2, <3>1, <3>3 DEF Same
    <2>5. SameEnds(T, 0, B, a, Len(text), Len(longer))
      <3>1. ASSUME NEW k \in Kinds, NEW l \in LABELS, NEW i \in 1 .. a, At(k, l, longer, i)
            PROVE  i + Len(l) + 2 <= Len(text)
        <4> SUFFICES ASSUME i + Len(l) + 2 > Len(text) PROVE FALSE
          BY <1>3, LabelLength
        <4> DEFINE n == Len(text) - i + 1
        <4>1. n \in 1 .. MAX_DELIMITER_LEN - 1 /\ n <= Len(text) /\ Len(text) - n + 1 = i
          <5>1. Len(l) + 3 <= MAX_DELIMITER_LEN /\ MAX_DELIMITER_LEN \in Nat /\ Len(l) \in Nat
            BY LongEnough, LabelLength
          <5> QED BY <1>3, <5>1
        <4>2. text[i] = longer[i] /\ longer[i] = "dash"
          <5>1. i \in 1 .. Len(text) /\ 0 + i = i
            BY <1>3
          <5>2. text[i] = longer[0 + i]
            BY <1>2, <5>1 DEF Window
          <5> QED BY <3>1, <5>1, <5>2 DEF At
        <4>3. n <= Len(lookbehind)
          BY <1>1, <4>1, <4>2 DEF Reach
        <4> QED BY <1>3, <4>3
      <3>2. SameEnds(T, 0, B, a, Len(text), a + Len(input))
        BY <1>2, <1>3, <1>9, <1>21, <3>1, WindowEnds
      <3> QED BY <1>3, <3>2
    <2>6. Agree(g, T, 0, h, B, a, Len(longer))
      <3>1. Len(text) <= Len(longer) /\ 0 <= Len(text)
        BY <1>2, <1>3
      <3> QED BY <1>3, <1>16, <1>17, <2>4, <2>5, <3>1, ScansAgree
    <2>7. Passed(T, 0, Len(T), Len(longer)) /\ Passed(B, a, Len(B), Len(longer))
      <3>1. ASSUME Len(T) > 0 PROVE 0 + T[Len(T)].end <= Len(longer)
        <4>1. Len(T) \in 1 .. Len(T)
          BY <1>10, <3>1
        <4>2. IsDelim(T[Len(T)], longer) /\ T[Len(T)].end \in Nat
          BY <1>9, <1>10, <4>1, EndsAreNat DEF Lists
        <4> QED BY <4>2, DelimEnds
      <3>2. ASSUME Len(B) > 0 PROVE a + B[Len(B)].end <= Len(longer)
        <4>1. Len(B) \in 1 .. Len(B)
          BY <1>10, <3>2
        <4>2. IsDelim(B[Len(B)], input) /\ B[Len(B)].end \in Nat
          BY <1>9, <1>10, <4>1, EndsAreNat DEF Lists
        <4>3. B[Len(B)].end <= Len(input)
          BY <4>2, DelimEnds
        <4> QED BY <1>2, <1>3, <4>2, <4>3
      <3> QED BY <1>10, <3>1, <3>2 DEF Passed
    <2>8. Same(g[Len(T)], h[Len(B)])
      BY <1>10, <2>6, <2>7 DEF Agree
    <2> QED BY <1>6, <1>18, <1>19, <2>8 DEF Same
  <1>22. TrackerMatchesScan'
    <2>1. text' = longer
      BY DEF longer
    <2> QED BY <1>21, <2>1 DEF TrackerMatchesScan
  <1> QED BY <1>20, <1>22

LEMMA KeepsRight ==
    ASSUME TInv, [Next]_vars
    PROVE  TInv'
  <1>1. CASE Next
    <2>1. ASSUME NEW piece \in Fragments, Append_(piece) PROVE TInv'
      <3>1. append(piece) /\ text' = text \o piece
        BY <2>1 DEF Append_
      <3>2. LookbehindShape' /\ text' \in Seq(Symbol) /\ processed_bytes' = Len(text')
        BY <3>1, LookbehindKept
      <3>3. stack' \in Seq(LABELS) /\ has_begin' \in BOOLEAN /\ TrackerMatchesScan'
        BY <3>1, PieceScanned
      <3> QED BY <3>2, <3>3 DEF TInv
    <2>2. CASE reset
      <3>1. Init'
        BY <2>2 DEF reset, Init
      <3> QED BY <3>1, StartsRight, PTL
    <2> QED BY <1>1, <2>1, <2>2 DEF Next
  <1>2. CASE UNCHANGED vars
    <2>1. /\ stack' = stack /\ has_begin' = has_begin /\ processed_bytes' = processed_bytes
          /\ lookbehind' = lookbehind /\ text' = text
      BY <1>2 DEF vars, tracker
    <2>2. LookbehindShape' = LookbehindShape
      BY <2>1 DEF LookbehindShape
    <2>3. TrackerMatchesScan' = TrackerMatchesScan
      BY <2>1 DEF TrackerMatchesScan, Whole
    <2> QED BY <2>1, <2>2, <2>3 DEF TInv
  <1> QED BY <1>1, <1>2

\* TInv holds throughout.
THEOREM Invariant == Spec => []TInv
  <1> QED BY StartsRight, KeepsRight, PTL DEF Spec

\* The tracker's state has its types, and the lookbehind stays shorter than a delimiter.
THEOREM TypeCorrect == Spec => []TypeOK
  <1>1. TInv => TypeOK
    BY DEF TInv, TypeOK, LookbehindShape, Window
  <1> QED BY <1>1, Invariant, PTL

\* append of private_key.rs keeps enough of the text: a delimiter that the text could still be in
\* the middle of starts inside the lookbehind, whatever was cut where.
THEOREM LookbehindSuffices == Spec => []LookbehindReaches
  <1>1. TInv => LookbehindReaches
    <2> SUFFICES ASSUME TInv, NEW k \in DOMAIN KindOf, NEW l \in LABELS,
                        NEW n \in 1 .. (MAX_DELIMITER_LEN - 1),
                        n < Len(Form(k, l)), n <= Len(text),
                        SubSeq(text, Len(text) - n + 1, Len(text)) = SubSeq(Form(k, l), 1, n)
                 PROVE  n <= Len(lookbehind)
      BY DEF LookbehindReaches
    <2>1. /\ text \in Seq(Symbol) /\ Len(text) \in Nat /\ MAX_DELIMITER_LEN \in Nat
          /\ Reach(lookbehind, text, MAX_DELIMITER_LEN - 1)
      BY LenProperties, LongEnough DEF TInv, LookbehindShape
    <2>2. /\ Form(k, l) \in Seq(Symbol) /\ Form(k, l)[1] = "dash" /\ Len(Form(k, l)) \in Nat
      BY FormIs, LenProperties DEF Kinds
    <2> DEFINE form == Form(k, l)
               m == Len(text) - n + 1
    <2>3. m \in 1 .. Len(text) /\ n \in Nat /\ n >= 1 /\ Len(text) - m + 1 = n
      BY <2>1
    <2> HIDE DEF form, m
    <2>4. SubSeq(text, m, Len(text))[1] = text[m]
      <3>1. \A i \in m .. Len(text) : text[i] \in Symbol
        BY <2>1, <2>3, ElementOfSeq
      <3>2. m \in Int /\ Len(text) \in Int /\ 1 \in 1 .. Len(text) - m + 1 /\ m + 1 - 1 = m
        BY <2>1, <2>3
      <3> QED BY <3>1, <3>2, SubSeqProperties
    <2>5. SubSeq(form, 1, n)[1] = form[1]
      <3>1. \A i \in 1 .. n : form[i] \in Symbol
        BY <2>2, ElementOfSeq DEF form
      <3>2. 1 \in Int /\ n \in Int /\ 1 \in 1 .. n - 1 + 1 /\ 1 + 1 - 1 = 1
        BY <2>3
      <3> QED BY <3>1, <3>2, SubSeqProperties
    <2>6. text[m] = "dash"
      BY <2>2, <2>4, <2>5 DEF form, m
    <2> QED BY <2>1, <2>6 DEF Reach, m
  <1> QED BY <1>1, Invariant, PTL

\* However the session cuts the text of a construct into pieces, the tracker holds open the blocks
\* that one scan of the whole text finds open.
THEOREM TrackerIsRight == Spec => []TrackerMatchesScan
  <1>1. TInv => TrackerMatchesScan
    BY DEF TInv
  <1> QED BY <1>1, Invariant, PTL
=============================================================================
