--------------------------- MODULE DetectionProofs ---------------------------
(***************************************************************************)
(* From a text to its findings.  First the built-in detectors, each by     *)
(* itself: their loops end, and what the loops of all but two report is    *)
(* what the grammar says, for all texts and all limits.  Then overlap      *)
(* resolution and numbering, for all detectors, whatever they emit, all    *)
(* texts and all policies.                                                 *)
(***************************************************************************)
EXTENDS DetectorGrammar, ScanPipeline, SequenceLemmas

---------------------------------------------------------------------------
(* Runs. *)

\* The least position from i on where a run of S is over.
RunEndsAt(t, i, S, e) ==
    /\ e \in Nat /\ i <= e /\ e <= Len(t) + 1
    /\ WholeRun(t, i, e, S)

\* An upward search that is bounded finds a least element.
LEMMA LeastOf ==
    ASSUME NEW n \in Nat, NEW S, S \subseteq 0 .. n, S # {}
    PROVE  Min(S) \in S /\ \A x \in S : Min(S) <= x
  <1>1. \E m \in S : \A x \in S : m <= x
    <2>1. S \subseteq Nat
      OBVIOUS
    <2> QED BY <2>1, LeastElement
  <1> QED BY <1>1 DEF Min

LEMMA RunEnd ==
    ASSUME NEW t \in Seq(STRING), NEW i \in 1 .. Len(t) + 1, NEW S
    PROVE  RunEndsAt(t, i, S, run_end(t, i, S))
  <1> DEFINE C == {k \in i .. (Len(t) + 1) : k > Len(t) \/ t[k] \notin S}
  <1>1. Len(t) \in Nat
    OBVIOUS
  <1>2. C # {} /\ C \subseteq 0 .. Len(t) + 1
    <2>1. Len(t) + 1 \in C
      BY <1>1
    <2> QED BY <1>1, <2>1
  <1>3. Min(C) \in C /\ \A x \in C : Min(C) <= x
    <2>1. PICK n \in Nat : n = Len(t) + 1
      BY <1>1
    <2>2. C \subseteq 0 .. n
      BY <1>2, <2>1
    <2> HIDE DEF C
    <2> QED BY <1>2, <2>2, LeastOf
  <1>4. ASSUME NEW k \in i .. (Min(C) - 1) PROVE t[k] \in S
    <2>1. Min(C) \in i .. Len(t) + 1
      BY <1>3
    <2>2. k \in i .. (Len(t) + 1) /\ k < Min(C)
      BY <1>1, <2>1
    <2>3. k \notin C
      <3> HIDE DEF C
      <3>1. SUFFICES ASSUME k \in C PROVE FALSE
        OBVIOUS
      <3>2. Min(C) <= k
        BY <1>3, <3>1
      <3> QED BY <1>1, <2>1, <2>2, <3>2
    <2> QED BY <2>2, <2>3
  <1>5. Min(C) = run_end(t, i, S)
    BY DEF run_end
  <1>6. /\ Min(C) \in Nat /\ i <= Min(C) /\ Min(C) <= Len(t) + 1
        /\ Min(C) > Len(t) \/ t[Min(C)] \notin S
    BY <1>1, <1>3
  <1> HIDE DEF C
  <1> QED BY <1>4, <1>5, <1>6 DEF RunEndsAt, WholeRun, All

\* A run ends in one place.
LEMMA RunEndsOnce ==
    ASSUME NEW t \in Seq(STRING), NEW i \in Nat, NEW S, NEW e, RunEndsAt(t, i, S, e),
           NEW f, RunEndsAt(t, i, S, f)
    PROVE  e = f
  <1>1. Len(t) \in Nat
    OBVIOUS
  <1>2. e < f => FALSE
    BY <1>1 DEF RunEndsAt, WholeRun, All
  <1>3. f < e => FALSE
    BY <1>1 DEF RunEndsAt, WholeRun, All
  <1> QED BY <1>2, <1>3 DEF RunEndsAt

---------------------------------------------------------------------------
(* Literals. *)

Literal(p) == \E S : p \in Seq(S)
SpelledAt(t, at, p) == \A k \in 1 .. Len(p) : t[at + k - 1] = p[k]

LEMMA StartsWith ==
    ASSUME NEW t \in Seq(STRING), NEW at \in Nat \ {0}, NEW p, Literal(p)
    PROVE  starts_with(t, at, p) <=>
             at + Len(p) <= Len(t) + 1 /\ SpelledAt(t, at, p)
  <1> DEFINE to == at + Len(p) - 1
  <1>1. Len(t) \in Nat /\ Len(p) \in Nat
    BY DEF Literal
  <1>2. ASSUME to <= Len(t)
        PROVE  SubSeq(t, at, to) = p <=> \A k \in 1 .. Len(p) : t[at + k - 1] = p[k]
    <2>1. /\ SubSeq(t, at, to) \in Seq(STRING) /\ Len(SubSeq(t, at, to)) = Len(p)
          /\ \A k \in 1 .. Len(p) : SubSeq(t, at, to)[k] = t[at + k - 1]
      <3>1. PICK n \in Int : n = to
        BY <1>1
      <3>2. at <= n + 1 /\ n <= Len(t) /\ n - at + 1 = Len(p)
        BY <1>1, <1>2, <3>1
      <3>3. at \in 1 .. (Len(t) + 1)
        BY <1>1, <3>2
      <3>4. /\ SubSeq(t, at, n) \in Seq(STRING) /\ Len(SubSeq(t, at, n)) = n - at + 1
            /\ \A k \in 1 .. (n - at + 1) : SubSeq(t, at, n)[k] = t[at + k - 1]
        BY <3>2, <3>3, SubSeqProperties
      <3> QED BY <3>1, <3>2, <3>4
    <2>2. SubSeq(t, at, to) = p <=> \A k \in 1 .. Len(p) : SubSeq(t, at, to)[k] = p[k]
      <3>1. PICK S : p \in Seq(S)
        BY DEF Literal
      <3>2. PICK s \in Seq(STRING) : s = SubSeq(t, at, to)
        BY <2>1
      <3>3. PICK A : A = STRING \cup S
        OBVIOUS
      <3>4. s \in Seq(A) /\ p \in Seq(A)
        BY <3>1, <3>3
      <3> QED BY <2>1, <3>2, <3>4, SeqEqual
    <2> QED BY <2>1, <2>2
  <1> QED BY <1>1, <1>2 DEF starts_with, SpelledAt

---------------------------------------------------------------------------
(* The loop, for attempts that are sensible: they move on, and report ranges of the text. *)

Ranges(t) == {r \in [start : Nat, end : Nat] : 1 <= r.start /\ r.start < r.end /\ r.end <= Len(t) + 1}

Sensible(s, t) ==
    \A at \in DOMAIN t : \A m \in attempt(s, t, at) :
        /\ m.resume \in (at + 1) .. (Len(t) + 1)
        /\ m.found \in Seq(Ranges(t))

\* The passes of the detector.
PassesOf(d) == {Passes[d][p] : p \in DOMAIN Passes[d]}

\* What the loop is run on, and where it is.
LoopTyped ==
    /\ detector \in DOMAIN Passes /\ text \in Seq(STRING)
    /\ pass \in DOMAIN Passes[detector] /\ cursor \in 1 .. (Len(text) + 1)
    /\ candidates \in Seq(Ranges(text))

LEMMA ToSetConcat ==
    ASSUME NEW S, NEW a \in Seq(S), NEW b \in Seq(S)
    PROVE  ToSet(a \o b) = ToSet(a) \cup ToSet(b)
  <1>1. /\ Len(a) \in Nat /\ Len(b) \in Nat
        /\ a \o b \in Seq(S) /\ Len(a \o b) = Len(a) + Len(b)
        /\ \A i \in 1 .. Len(a) + Len(b) : (a \o b)[i] = IF i <= Len(a) THEN a[i] ELSE b[i - Len(a)]
    BY ConcatProperties
  <1>2. DOMAIN a = 1 .. Len(a) /\ DOMAIN b = 1 .. Len(b) /\ DOMAIN (a \o b) = 1 .. Len(a) + Len(b)
    BY <1>1
  <1>3. ASSUME NEW x \in ToSet(a \o b) PROVE x \in ToSet(a) \cup ToSet(b)
    <2>1. PICK i \in 1 .. Len(a) + Len(b) : x = (a \o b)[i]
      BY <1>2 DEF ToSet
    <2>2. CASE i <= Len(a)
      BY <1>1, <1>2, <2>1, <2>2 DEF ToSet
    <2>3. CASE i > Len(a)
      <3>1. i - Len(a) \in 1 .. Len(b) /\ x = b[i - Len(a)]
        BY <1>1, <2>1, <2>3
      <3> QED BY <1>2, <3>1 DEF ToSet
    <2> QED BY <1>1, <2>2, <2>3
  <1>4. ASSUME NEW x \in ToSet(a) PROVE x \in ToSet(a \o b)
    <2>1. PICK i \in 1 .. Len(a) : x = a[i]
      BY <1>2 DEF ToSet
    <2>2. i \in 1 .. Len(a) + Len(b) /\ x = (a \o b)[i]
      BY <1>1, <2>1
    <2> QED BY <1>2, <2>2 DEF ToSet
  <1>5. ASSUME NEW x \in ToSet(b) PROVE x \in ToSet(a \o b)
    <2>1. PICK i \in 1 .. Len(b) : x = b[i]
      BY <1>2 DEF ToSet
    <2>2. Len(a) + i \in 1 .. Len(a) + Len(b) /\ x = (a \o b)[Len(a) + i]
      BY <1>1, <2>1
    <2> QED BY <1>2, <2>2 DEF ToSet
  <1> QED BY <1>3, <1>4, <1>5

LEMMA PassDomain ==
    ASSUME NEW d \in DOMAIN Passes
    PROVE  Len(Passes[d]) \in Nat \ {0} /\ DOMAIN Passes[d] = 1 .. Len(Passes[d])
  BY DEF Passes

LEMMA InitTyped == DetectInit => LoopTyped
  <1> SUFFICES ASSUME DetectInit PROVE LoopTyped
    OBVIOUS
  <1>1. detector \in DOMAIN Passes /\ text \in Seq(STRING)
    BY TextsAssumption DEF DetectInit
  <1>2. Len(text) \in Nat
    BY <1>1
  <1>3. 1 \in DOMAIN Passes[detector]
    BY <1>1, PassDomain
  <1>4. candidates \in Seq(Ranges(text))
    BY DEF DetectInit
  <1> QED BY <1>1, <1>2, <1>3, <1>4 DEF DetectInit, LoopTyped

LEMMA MatchMoves ==
    ASSUME LoopTyped, Sensible(Scan, text), NEW m \in attempt(Scan, text, cursor),
           cursor <= Len(text)
    PROVE  /\ cursor \in DOMAIN text
           /\ m.resume \in (cursor + 1) .. (Len(text) + 1)
           /\ m.found \in Seq(Ranges(text))
           /\ candidates \o m.found \in Seq(Ranges(text))
           /\ ToSet(candidates \o m.found) = Found \cup ToSet(m.found)
  <1>1. cursor \in DOMAIN text
    BY DEF LoopTyped
  <1>2. m.resume \in (cursor + 1) .. (Len(text) + 1) /\ m.found \in Seq(Ranges(text))
    BY <1>1 DEF Sensible
  <1>3. candidates \in Seq(Ranges(text))
    BY DEF LoopTyped
  <1>4. candidates \o m.found \in Seq(Ranges(text))
    BY <1>2, <1>3, ConcatProperties
  <1>5. ToSet(candidates \o m.found) = Found \cup ToSet(m.found)
    BY <1>2, <1>3, ToSetConcat DEF Found
  <1> QED BY <1>1, <1>2, <1>4, <1>5

LEMMA NextTyped ==
    ASSUME LoopTyped, [DetectNext]_detect_vars, Sensible(Scan, text)
    PROVE  LoopTyped'
  <1>1. Len(text) \in Nat
    BY DEF LoopTyped
  <1>2. CASE Advance
    BY <1>1, <1>2 DEF Advance, LoopTyped
  <1>3. CASE Match
    <2>1. PICK m \in attempt(Scan, text, cursor) :
             cursor' = m.resume /\ candidates' = candidates \o m.found
      BY <1>3 DEF Match
    <2>2. cursor <= Len(text) /\ UNCHANGED <<detector, text, pass>>
      BY <1>3 DEF Match
    <2>3. m.resume \in (cursor + 1) .. (Len(text) + 1) /\ candidates \o m.found \in Seq(Ranges(text))
      BY <2>1, <2>2, MatchMoves
    <2> QED BY <1>1, <2>1, <2>2, <2>3 DEF LoopTyped
  <1>4. CASE NextPass
    <2>1. pass + 1 \in DOMAIN Passes[detector]
      BY <1>4, PassDomain DEF NextPass, LoopTyped
    <2> QED BY <1>1, <1>4, <2>1 DEF NextPass, LoopTyped
  <1>5. CASE UNCHANGED detect_vars
    BY <1>5 DEF detect_vars, LoopTyped
  <1> QED BY <1>2, <1>3, <1>4, <1>5 DEF DetectNext

LEMMA TypedIsTypeOK == LoopTyped => DetectTypeOK
  <1> SUFFICES ASSUME LoopTyped PROVE DetectTypeOK
    OBVIOUS
  <1>1. ASSUME NEW r \in Found PROVE r \in Ranges(text)
    BY DEF LoopTyped, Found, ToSet
  <1> QED BY <1>1 DEF LoopTyped, DetectTypeOK, Ranges

LEMMA NextMoves ==
    ASSUME LoopTyped, DetectNext, Sensible(Scan, text)
    PROVE  pass' > pass \/ cursor' > cursor
  <1>1. CASE Advance
    BY <1>1 DEF Advance, LoopTyped
  <1>2. CASE Match
    <2>1. PICK m \in attempt(Scan, text, cursor) : cursor' = m.resume
      BY <1>2 DEF Match
    <2>2. cursor <= Len(text)
      BY <1>2 DEF Match
    <2>3. m.resume \in (cursor + 1) .. (Len(text) + 1) /\ cursor \in Nat
      BY <2>2, MatchMoves DEF LoopTyped
    <2> QED BY <2>1, <2>3
  <1>3. CASE NextPass
    <2>1. pass \in Nat
      BY PassDomain DEF LoopTyped
    <2> QED BY <1>3, <2>1 DEF NextPass
  <1> QED BY <1>1, <1>2, <1>3 DEF DetectNext

---------------------------------------------------------------------------
(* The loop against the grammar, for attempts that agree with it position by position. *)

\* What an attempt skips has the shape of the pass, what it reports is a value of it that stands
\* alone, and at the start of a shape that stands alone it reports its values.
Agrees(s, t) ==
    /\ \A at \in DOMAIN t : \A m \in attempt(s, t, at) :
          /\ \E longer \in Shapes(s, t) : longer.start = at /\ longer.end = m.resume
          /\ \A r \in ToSet(m.found) :
                \E shape \in Shapes(s, t) : r \in shape.values /\ StandsAlone(s, t, shape)
    /\ \A shape \in Shapes(s, t) :
          /\ shape.start \in DOMAIN t
          /\ StandsAlone(s, t, shape) =>
                /\ attempt(s, t, shape.start) # {}
                /\ \A m \in attempt(s, t, shape.start) : shape.values \subseteq ToSet(m.found)

\* All passes of the detector do.
DetectorAgrees == \A p \in DOMAIN Passes[detector] : Agrees(Passes[detector][p], text)

\* What was reported so far are values of shapes that stand alone.
SoundSoFar ==
    \A r \in Found :
      \E p \in DOMAIN Passes[detector] :
        \E shape \in Shapes(Passes[detector][p], text) :
          r \in shape.values /\ StandsAlone(Passes[detector][p], text, shape)

\* A shape that the loop has gone by was reported if it stands alone, or lies in a longer one.
GoneBy(p, shape) == p < pass \/ (p = pass /\ shape.start < cursor)
Hidden(s, t, shape) ==
    \E longer \in Shapes(s, t) : longer.start < shape.start /\ shape.start < longer.end
Handled(s, shape) == shape.values \subseteq Found \/ Hidden(s, text, shape)
CompleteSoFar ==
    \A p \in DOMAIN Passes[detector] :
      \A shape \in Shapes(Passes[detector][p], text) :
        GoneBy(p, shape) /\ StandsAlone(Passes[detector][p], text, shape) =>
          Handled(Passes[detector][p], shape)

GrammarInv == LoopTyped /\ SoundSoFar /\ CompleteSoFar

LEMMA InitGrammar ==
    ASSUME DetectInit, DetectorAgrees
    PROVE  GrammarInv
  <1>1. LoopTyped
    BY InitTyped
  <1>2. Found = {}
    BY DEF DetectInit, Found, ToSet
  <1>3. ASSUME NEW p \in DOMAIN Passes[detector], NEW shape \in Shapes(Passes[detector][p], text)
        PROVE  ~GoneBy(p, shape)
    <2>1. shape.start \in DOMAIN text
      BY <1>3 DEF DetectorAgrees, Agrees
    <2>2. shape.start \in Nat \ {0}
      BY <1>1, <2>1 DEF LoopTyped
    <2>3. p \in Nat \ {0}
      BY <1>1, PassDomain DEF LoopTyped
    <2> QED BY <2>2, <2>3 DEF GoneBy, DetectInit
  <1> QED BY <1>1, <1>2, <1>3 DEF GrammarInv, SoundSoFar, CompleteSoFar

LEMMA FoundKept ==
    ASSUME Found \subseteq Found', UNCHANGED text, NEW s, NEW shape, Handled(s, shape)
    PROVE  Handled(s, shape)'
  BY DEF Handled

\* A step of a pass: the cursor moves on, over shapes that are reported or lie in a longer one.
LEMMA PassGoesOn ==
    ASSUME GrammarInv, LoopTyped', UNCHANGED <<detector, text, pass>>,
           NEW found, ToSet(candidates') = Found \cup found,
           \A r \in found :
              \E shape \in Shapes(Scan, text) : r \in shape.values /\ StandsAlone(Scan, text, shape),
           \A shape \in Shapes(Scan, text) :
              /\ shape.start \in DOMAIN text
              /\ shape.start \in cursor .. (cursor' - 1) /\ StandsAlone(Scan, text, shape) =>
                    shape.values \subseteq found \/ Hidden(Scan, text, shape)
    PROVE  GrammarInv'
  <1>1. Found' = Found \cup found
    BY DEF Found
  <1>2. pass \in DOMAIN Passes[detector] /\ Scan = Passes[detector][pass]
    BY DEF GrammarInv, LoopTyped, Scan
  <1>3. SoundSoFar'
    <2>1. SUFFICES ASSUME NEW r \in Found'
                   PROVE  \E p \in DOMAIN Passes[detector] :
                             \E shape \in Shapes(Passes[detector][p], text) :
                                r \in shape.values /\ StandsAlone(Passes[detector][p], text, shape)
      BY DEF SoundSoFar
    <2>2. CASE r \in Found
      BY <2>2 DEF GrammarInv, SoundSoFar
    <2>3. CASE r \in found
      BY <1>2, <2>3
    <2> QED BY <1>1, <2>1, <2>2, <2>3
  <1>4. CompleteSoFar'
    <2>1. SUFFICES ASSUME NEW p \in DOMAIN Passes[detector],
                          NEW shape \in Shapes(Passes[detector][p], text),
                          GoneBy(p, shape)', StandsAlone(Passes[detector][p], text, shape)
                   PROVE  Handled(Passes[detector][p], shape)'
      BY DEF CompleteSoFar
    <2>2. CASE GoneBy(p, shape)
      <3>1. Handled(Passes[detector][p], shape)
        BY <2>1, <2>2 DEF GrammarInv, CompleteSoFar
      <3> QED BY <1>1, <3>1, FoundKept
    <2>3. CASE ~GoneBy(p, shape)
      <3>1. p = pass /\ ~(shape.start < cursor) /\ shape.start < cursor'
        BY <2>1, <2>3 DEF GoneBy
      <3>2. shape \in Shapes(Scan, text) /\ StandsAlone(Scan, text, shape)
        BY <1>2, <2>1, <3>1
      <3>3. shape.start \in cursor .. (cursor' - 1)
        <4>1. shape.start \in DOMAIN text
          BY <3>2
        <4>2. shape.start \in Nat /\ cursor \in Nat /\ cursor' \in Nat
          BY <4>1 DEF GrammarInv, LoopTyped
        <4> QED BY <3>1, <4>2
      <3>4. shape.values \subseteq found \/ Hidden(Scan, text, shape)
        BY <3>2, <3>3
      <3> QED BY <1>1, <1>2, <3>1, <3>4 DEF Handled
    <2> QED BY <2>2, <2>3
  <1> QED BY <1>3, <1>4 DEF GrammarInv

LEMMA NextGrammar ==
    ASSUME GrammarInv, [DetectNext]_detect_vars, DetectorAgrees,
           \A p \in DOMAIN Passes[detector] : Sensible(Passes[detector][p], text)
    PROVE  GrammarInv'
  <1>1. pass \in DOMAIN Passes[detector] /\ Scan = Passes[detector][pass] /\ LoopTyped
    BY DEF GrammarInv, LoopTyped, Scan
  <1>2. Sensible(Scan, text) /\ Agrees(Scan, text)
    BY <1>1 DEF DetectorAgrees
  <1>3. LoopTyped'
    BY <1>1, <1>2, NextTyped
  <1>4. Len(text) \in Nat /\ DOMAIN text = 1 .. Len(text) /\ cursor \in Nat \ {0}
    BY <1>1 DEF LoopTyped
  <1>5. \A shape \in Shapes(Scan, text) : shape.start \in DOMAIN text
    BY <1>2 DEF Agrees
  <1>6. CASE Advance
    <2>1. /\ cursor <= Len(text) /\ attempt(Scan, text, cursor) = {}
          /\ cursor' = cursor + 1 /\ UNCHANGED <<detector, text, pass, candidates>>
      BY <1>6 DEF Advance
    <2>2. ASSUME NEW shape \in Shapes(Scan, text), shape.start \in cursor .. (cursor' - 1)
          PROVE  ~StandsAlone(Scan, text, shape)
      <3>1. shape.start = cursor
        BY <1>4, <2>1, <2>2
      <3> QED BY <1>2, <2>1, <3>1 DEF Agrees
    <2>3. ToSet(candidates') = Found \cup {}
      BY <2>1 DEF Found
    <2> QED BY <1>3, <1>5, <2>1, <2>2, <2>3, PassGoesOn
  <1>7. CASE Match
    <2>1. PICK m \in attempt(Scan, text, cursor) :
             cursor' = m.resume /\ candidates' = candidates \o m.found
      BY <1>7 DEF Match
    <2>2. cursor <= Len(text) /\ UNCHANGED <<detector, text, pass>>
      BY <1>7 DEF Match
    <2>3. cursor \in DOMAIN text /\ ToSet(candidates \o m.found) = Found \cup ToSet(m.found)
      BY <1>1, <1>2, <2>2, MatchMoves
    <2>4. ToSet(candidates') = Found \cup ToSet(m.found)
      BY <2>1, <2>3
    <2>5. ASSUME NEW shape \in Shapes(Scan, text), shape.start \in cursor .. (cursor' - 1),
                 StandsAlone(Scan, text, shape)
          PROVE  shape.values \subseteq ToSet(m.found) \/ Hidden(Scan, text, shape)
      <3>1. CASE shape.start = cursor
        BY <1>2, <2>5, <3>1 DEF Agrees
      <3>2. CASE shape.start # cursor
        <4>1. PICK longer \in Shapes(Scan, text) : longer.start = cursor /\ longer.end = m.resume
          BY <1>2, <2>3 DEF Agrees
        <4>2. cursor' \in Nat /\ shape.start \in Nat
          BY <1>3, <1>4, <1>5 DEF LoopTyped
        <4>3. cursor < shape.start /\ shape.start < cursor'
          BY <1>4, <2>5, <3>2, <4>2
        <4> QED BY <2>1, <4>1, <4>3 DEF Hidden
      <3> QED BY <3>1, <3>2
    <2>6. \A r \in ToSet(m.found) :
             \E shape \in Shapes(Scan, text) : r \in shape.values /\ StandsAlone(Scan, text, shape)
      BY <1>2, <2>3 DEF Agrees
    <2> DEFINE found == ToSet(m.found)
    <2> HIDE DEF found
    <2> QED BY <1>3, <1>5, <2>2, <2>4, <2>5, <2>6, PassGoesOn DEF found
  <1>8. CASE NextPass
    <2>1. /\ cursor > Len(text) /\ pass' = pass + 1 /\ cursor' = 1
          /\ UNCHANGED <<detector, text, candidates>>
      BY <1>8 DEF NextPass
    <2>2. Found' = Found
      BY <2>1 DEF Found
    <2>3. SoundSoFar'
      BY <2>1, <2>2 DEF GrammarInv, SoundSoFar
    <2>4. ASSUME NEW p \in DOMAIN Passes[detector], NEW shape \in Shapes(Passes[detector][p], text),
                 GoneBy(p, shape)', StandsAlone(Passes[detector][p], text, shape)
          PROVE  Handled(Passes[detector][p], shape)'
      <3>1. shape.start \in DOMAIN text
        BY DEF DetectorAgrees, Agrees
      <3>2. shape.start \in Nat \ {0} /\ shape.start <= Len(text)
        BY <1>4, <3>1
      <3>3. p \in Nat /\ pass \in Nat
        BY <1>1, PassDomain DEF LoopTyped
      <3>4. GoneBy(p, shape)
        BY <1>4, <2>1, <2>4, <3>2, <3>3 DEF GoneBy
      <3>5. Handled(Passes[detector][p], shape)
        BY <2>4, <3>4 DEF GrammarInv, CompleteSoFar
      <3> QED BY <2>1, <2>2, <3>5, FoundKept
    <2>5. CompleteSoFar'
      BY <2>1, <2>4 DEF CompleteSoFar
    <2> QED BY <1>3, <2>3, <2>5 DEF GrammarInv
  <1>9. CASE UNCHANGED detect_vars
    <2>1. UNCHANGED <<detector, text, pass, cursor, candidates>>
      BY <1>9 DEF detect_vars
    <2>2. Found' = Found
      BY <2>1 DEF Found
    <2>3. SoundSoFar'
      BY <2>1, <2>2 DEF GrammarInv, SoundSoFar
    <2>4. ASSUME NEW p \in DOMAIN Passes[detector], NEW shape \in Shapes(Passes[detector][p], text),
                 GoneBy(p, shape)', StandsAlone(Passes[detector][p], text, shape)
          PROVE  Handled(Passes[detector][p], shape)'
      <3>1. GoneBy(p, shape)
        BY <2>1, <2>4 DEF GoneBy
      <3>2. Handled(Passes[detector][p], shape)
        BY <2>4, <3>1 DEF GrammarInv, CompleteSoFar
      <3> QED BY <2>1, <2>2, <3>2, FoundKept
    <2>5. CompleteSoFar'
      BY <2>1, <2>4 DEF CompleteSoFar
    <2> QED BY <1>3, <2>3, <2>5 DEF GrammarInv
  <1> QED BY <1>6, <1>7, <1>8, <1>9 DEF DetectNext

LEMMA GrammarFollows ==
    ASSUME GrammarInv, DetectorAgrees
    PROVE  CandidatesAreCredentials /\ NoCredentialMissed
  <1>1. CandidatesAreCredentials
    BY DEF CandidatesAreCredentials, GrammarInv, SoundSoFar
  <1>2. ASSUME Done, NEW p \in DOMAIN Passes[detector],
               NEW shape \in Shapes(Passes[detector][p], text),
               StandsAlone(Passes[detector][p], text, shape)
        PROVE  Handled(Passes[detector][p], shape)
    <2>1. shape.start \in DOMAIN text
      BY DEF DetectorAgrees, Agrees
    <2>2. /\ text \in Seq(STRING) /\ cursor \in 1 .. (Len(text) + 1)
          /\ p \in 1 .. Len(Passes[detector]) /\ Len(Passes[detector]) \in Nat
      BY PassDomain DEF GrammarInv, LoopTyped
    <2>3. shape.start \in 1 .. Len(text) /\ Len(text) \in Nat
      BY <2>1, <2>2
    <2>4. GoneBy(p, shape)
      BY <1>2, <2>2, <2>3 DEF Done, GoneBy
    <2> QED BY <1>2, <2>4 DEF GrammarInv, CompleteSoFar
  <1>3. NoCredentialMissed
    BY <1>2 DEF NoCredentialMissed, Handled, Hidden
  <1> QED BY <1>1, <1>3

---------------------------------------------------------------------------
(* Passes that report their match as it is, if its boundaries let them. *)

\* The only token that begins at a position ends at one of ends[at]; the attempt there is for it.
TokenPass(s, t, boundary, ends) ==
    /\ Before(s) = boundary /\ Behind(s) = boundary
    /\ \A at \in DOMAIN t :
         /\ ends[at] \subseteq (at + 1) .. (Len(t) + 1)
         /\ \A e, f \in ends[at] : e = f
         /\ attempt(s, t, at) = UNION {bounded(t, at, e, boundary) : e \in ends[at]}
         /\ \A e \in ends[at] : Token(at, e) \in Shapes(s, t)
    /\ \A shape \in Shapes(s, t) : \E at \in DOMAIN t : \E e \in ends[at] : shape = Token(at, e)

LEMMA TokenAlone ==
    ASSUME NEW s, NEW t, NEW boundary, Before(s) = boundary, Behind(s) = boundary, NEW at, NEW e
    PROVE  StandsAlone(s, t, Token(at, e)) <=> boundary_ok(t, at, e, boundary)
  BY DEF StandsAlone, Token, Shape, boundary_ok

LEMMA OneFound ==
    ASSUME NEW x
    PROVE  ToSet(<<x>>) = {x} /\ ToSet(<<>>) = {}
  BY DEF ToSet

LEMMA BoundedIs ==
    ASSUME NEW t, NEW at, NEW e, NEW boundary, NEW m \in bounded(t, at, e, boundary)
    PROVE  /\ m.resume = e
           /\ boundary_ok(t, at, e, boundary) => m.found = <<ByteRange(at, e)>>
           /\ ~boundary_ok(t, at, e, boundary) => m.found = <<>>
  BY DEF bounded, Raw

LEMMA TokensAgree ==
    ASSUME NEW t \in Seq(STRING), NEW s, NEW boundary, NEW ends, TokenPass(s, t, boundary, ends)
    PROVE  Sensible(s, t) /\ Agrees(s, t)
  <1>1. Len(t) \in Nat /\ DOMAIN t = 1 .. Len(t)
    OBVIOUS
  <1>2. ASSUME NEW at \in DOMAIN t, NEW m \in attempt(s, t, at)
        PROVE  \E e \in ends[at] : m \in bounded(t, at, e, boundary)
    BY <1>2 DEF TokenPass
  <1>3. ASSUME NEW at \in DOMAIN t, NEW e \in ends[at]
        PROVE  at \in Nat /\ e \in (at + 1) .. (Len(t) + 1) /\ ByteRange(at, e) \in Ranges(t)
    <2>1. at \in 1 .. Len(t) /\ e \in (at + 1) .. (Len(t) + 1)
      BY <1>1, <1>3 DEF TokenPass
    <2> QED BY <1>1, <2>1 DEF ByteRange, Ranges
  <1>4. Sensible(s, t)
    <2>1. ASSUME NEW at \in DOMAIN t, NEW m \in attempt(s, t, at)
          PROVE  m.resume \in (at + 1) .. (Len(t) + 1) /\ m.found \in Seq(Ranges(t))
      <3>1. PICK e \in ends[at] : m \in bounded(t, at, e, boundary)
        BY <1>2
      <3>2. ByteRange(at, e) \in Ranges(t) /\ e \in (at + 1) .. (Len(t) + 1)
        BY <1>3
      <3>3. m.resume = e /\ (m.found = <<ByteRange(at, e)>> \/ m.found = <<>>)
        BY <3>1, BoundedIs
      <3>4. <<ByteRange(at, e)>> \in Seq(Ranges(t)) /\ <<>> \in Seq(Ranges(t))
        BY <3>2
      <3> QED BY <3>2, <3>3, <3>4
    <2> QED BY <2>1 DEF Sensible
  <1>5. ASSUME NEW at \in DOMAIN t, NEW m \in attempt(s, t, at)
        PROVE  /\ \E longer \in Shapes(s, t) : longer.start = at /\ longer.end = m.resume
               /\ \A r \in ToSet(m.found) :
                    \E shape \in Shapes(s, t) : r \in shape.values /\ StandsAlone(s, t, shape)
    <2>1. PICK e \in ends[at] : m \in bounded(t, at, e, boundary)
      BY <1>2
    <2>2. m.resume = e /\ (boundary_ok(t, at, e, boundary) => m.found = <<ByteRange(at, e)>>)
          /\ (~boundary_ok(t, at, e, boundary) => m.found = <<>>)
      BY <2>1, BoundedIs
    <2>3. Token(at, e) \in Shapes(s, t)
      BY DEF TokenPass
    <2>4. /\ Token(at, e).start = at /\ Token(at, e).end = e
          /\ Token(at, e).values = {ByteRange(at, e)}
      BY DEF Token, Shape
    <2>5. ASSUME NEW r \in ToSet(m.found)
          PROVE  r \in Token(at, e).values /\ StandsAlone(s, t, Token(at, e))
      <3>1. boundary_ok(t, at, e, boundary)
        BY <2>2, <2>5, OneFound
      <3>2. r = ByteRange(at, e)
        BY <2>2, <2>5, <3>1, OneFound
      <3> QED BY <2>4, <3>1, <3>2, TokenAlone DEF TokenPass
    <2> QED BY <2>2, <2>3, <2>4, <2>5
  <1>6. ASSUME NEW shape \in Shapes(s, t)
        PROVE  /\ shape.start \in DOMAIN t
               /\ StandsAlone(s, t, shape) =>
                    /\ attempt(s, t, shape.start) # {}
                    /\ \A m \in attempt(s, t, shape.start) : shape.values \subseteq ToSet(m.found)
    <2>1. PICK at \in DOMAIN t : \E e \in ends[at] : shape = Token(at, e)
      BY <1>6 DEF TokenPass
    <2>0. PICK e \in ends[at] : shape = Token(at, e)
      BY <2>1
    <2>2. shape.start = at /\ shape.values = {ByteRange(at, e)}
      BY <2>0 DEF Token, Shape
    <2>3. attempt(s, t, at) # {}
      <3>1. bounded(t, at, e, boundary) # {}
        BY DEF bounded
      <3>2. attempt(s, t, at) = UNION {bounded(t, at, f, boundary) : f \in ends[at]}
        BY DEF TokenPass
      <3> QED BY <3>1, <3>2
    <2>4. ASSUME StandsAlone(s, t, shape), NEW m \in attempt(s, t, at)
          PROVE  shape.values \subseteq ToSet(m.found)
      <3>1. PICK f \in ends[at] : m \in bounded(t, at, f, boundary)
        BY <1>2
      <3>2. f = e
        BY DEF TokenPass
      <3>3. boundary_ok(t, at, e, boundary)
        BY <2>0, <2>4, TokenAlone DEF TokenPass
      <3>4. m.found = <<ByteRange(at, e)>>
        BY <3>1, <3>2, <3>3, BoundedIs
      <3> QED BY <2>2, <3>4, OneFound
    <2> QED BY <2>2, <2>3, <2>4
  <1>7. Agrees(s, t)
    BY <1>5, <1>6 DEF Agrees
  <1> QED BY <1>4, <1>7

---------------------------------------------------------------------------
(* A prefix and a run. *)

\* Two prefixes of which neither begins the other.
Apart(p, q) == \E k \in 1 .. Len(p) : k <= Len(q) /\ p[k] # q[k]

RunPass(s) ==
    /\ s.kind = "run" /\ s.exact \in BOOLEAN /\ s.length \in Nat \ {0}
    /\ \A p \in s.prefixes : Literal(p)
    /\ \A p, q \in s.prefixes : p # q => Apart(p, q)

LEMMA OnePrefix ==
    ASSUME NEW t \in Seq(STRING), NEW at \in Nat \ {0}, NEW p, Literal(p), NEW q, Literal(q),
           starts_with(t, at, p), starts_with(t, at, q)
    PROVE  ~Apart(p, q)
  <1>1. SUFFICES ASSUME NEW k \in 1 .. Len(p), k <= Len(q), p[k] # q[k] PROVE FALSE
    BY DEF Apart
  <1>2. t[at + k - 1] = p[k]
    BY StartsWith DEF SpelledAt
  <1>3. k \in 1 .. Len(q)
    BY <1>1 DEF Literal
  <1>4. t[at + k - 1] = q[k]
    BY <1>3, StartsWith DEF SpelledAt
  <1> QED BY <1>1, <1>2, <1>4

\* The token ends where the run does, or at its length.
RunFits(s, t, from, e) ==
    IF s.exact THEN e - from = s.length /\ All(t, from, e, s.alphabet)
               ELSE e - from >= s.length /\ WholeRun(t, from, e, s.alphabet)

RunEndsOf(s, t) ==
    [at \in DOMAIN t |->
       UNION {{e \in Ends(t, at + Len(p)) : RunFits(s, t, at + Len(p), e)} :
              p \in {p \in s.prefixes : starts_with(t, at, p)}}]

LEMMA RunFitsIs ==
    ASSUME NEW t \in Seq(STRING), NEW s, RunPass(s), NEW from \in 1 .. (Len(t) + 1)
    PROVE  LET available == run_end(t, from, s.alphabet) - from
               matched == IF s.exact THEN s.length ELSE available
           IN  {e \in Ends(t, from) : RunFits(s, t, from, e)}
                  = IF available < s.length THEN {} ELSE {from + matched}
  <1> DEFINE to == run_end(t, from, s.alphabet)
  <1>1. RunEndsAt(t, from, s.alphabet, to)
    BY RunEnd
  <1>2. Len(t) \in Nat /\ s.length \in Nat \ {0} /\ s.exact \in BOOLEAN
    BY DEF RunPass
  <1> HIDE DEF to
  <1>3. to \in Nat /\ from <= to /\ to <= Len(t) + 1 /\ WholeRun(t, from, to, s.alphabet)
    BY <1>1 DEF RunEndsAt
  <1>4. CASE s.exact
    <2>1. ASSUME NEW e \in Ends(t, from)
          PROVE  RunFits(s, t, from, e) <=> to - from >= s.length /\ e = from + s.length
      <3>1. e \in from .. (Len(t) + 1)
        BY DEF Ends
      <3>2. ASSUME RunFits(s, t, from, e) PROVE to - from >= s.length /\ e = from + s.length
        <4>1. e - from = s.length /\ \A k \in from .. (e - 1) : t[k] \in s.alphabet
          BY <1>4, <3>2 DEF RunFits, All
        <4>2. to > Len(t) \/ t[to] \notin s.alphabet
          BY <1>3 DEF WholeRun
        <4>3. to >= e
          BY <1>2, <1>3, <3>1, <4>1, <4>2
        <4> QED BY <1>2, <1>3, <3>1, <4>1, <4>3
      <3>3. ASSUME to - from >= s.length, e = from + s.length PROVE RunFits(s, t, from, e)
        <4>1. \A k \in from .. (to - 1) : t[k] \in s.alphabet
          BY <1>3 DEF WholeRun, All
        <4>2. \A k \in from .. (e - 1) : t[k] \in s.alphabet
          BY <1>2, <1>3, <3>1, <3>3, <4>1
        <4> QED BY <1>2, <1>4, <3>1, <3>3, <4>2 DEF RunFits, All
      <3> QED BY <3>2, <3>3
    <2>2. to - from >= s.length => from + s.length \in Ends(t, from)
      BY <1>2, <1>3 DEF Ends
    <2> QED BY <1>2, <1>3, <1>4, <2>1, <2>2 DEF to
  <1>5. CASE ~s.exact
    <2>1. ASSUME NEW e \in Ends(t, from)
          PROVE  RunFits(s, t, from, e) <=> to - from >= s.length /\ e = to
      <3>1. e \in from .. (Len(t) + 1)
        BY DEF Ends
      <3>2. WholeRun(t, from, e, s.alphabet) <=> e = to
        <4>1. WholeRun(t, from, e, s.alphabet) => RunEndsAt(t, from, s.alphabet, e)
          BY <1>2, <3>1 DEF RunEndsAt
        <4> QED BY <1>1, <1>3, <4>1, RunEndsOnce
      <3> QED BY <1>5, <3>2 DEF RunFits
    <2>2. to \in Ends(t, from) /\ from + (to - from) = to
      BY <1>2, <1>3 DEF Ends
    <2> QED BY <1>2, <1>3, <1>5, <2>1, <2>2 DEF to
  <1> QED BY <1>2, <1>4, <1>5

LEMMA RunTokens ==
    ASSUME NEW t \in Seq(STRING), NEW s, RunPass(s)
    PROVE  TokenPass(s, t, s.boundary, RunEndsOf(s, t))
  <1> DEFINE ends == RunEndsOf(s, t)
  <1>1. Len(t) \in Nat /\ DOMAIN t = 1 .. Len(t)
    OBVIOUS
  <1>2. Before(s) = s.boundary /\ Behind(s) = s.boundary
    BY DEF RunPass, Before, Behind
  <1>3. ASSUME NEW at \in DOMAIN t, NEW p \in s.prefixes, starts_with(t, at, p)
        PROVE  /\ {q \in s.prefixes : starts_with(t, at, q)} = {p}
               /\ at + Len(p) \in 1 .. (Len(t) + 1) /\ at + Len(p) >= at
               /\ ends[at] = {e \in Ends(t, at + Len(p)) : RunFits(s, t, at + Len(p), e)}
    <2>1. Literal(p) /\ Len(p) \in Nat /\ at \in Nat \ {0}
      BY <1>1 DEF RunPass, Literal
    <2>2. ASSUME NEW q \in s.prefixes, starts_with(t, at, q) PROVE q = p
      <3>1. Literal(q)
        BY DEF RunPass
      <3>2. ~Apart(p, q)
        BY <1>3, <2>1, <2>2, <3>1, OnePrefix
      <3> QED BY <3>2 DEF RunPass
    <2>3. {q \in s.prefixes : starts_with(t, at, q)} = {p}
      BY <1>3, <2>2
    <2>4. at + Len(p) <= Len(t) + 1
      BY <1>3, <2>1, StartsWith
    <2>5. ends[at] = UNION {{e \in Ends(t, at + Len(q)) : RunFits(s, t, at + Len(q), e)} : q \in {p}}
      BY <2>3 DEF RunEndsOf
    <2> QED BY <1>1, <2>1, <2>3, <2>4, <2>5
  <1>4. ASSUME NEW at \in DOMAIN t, ~\E p \in s.prefixes : starts_with(t, at, p)
        PROVE  ends[at] = {} /\ scan_prefixed_runs(s, t, at) = {}
    BY <1>4 DEF RunEndsOf, scan_prefixed_runs
  <1>5. \A at \in DOMAIN t : attempt(s, t, at) = scan_prefixed_runs(s, t, at)
    BY DEF attempt, RunPass
  <1>6. ASSUME NEW at \in DOMAIN t
        PROVE  /\ ends[at] \subseteq (at + 1) .. (Len(t) + 1)
               /\ \A e, f \in ends[at] : e = f
               /\ scan_prefixed_runs(s, t, at) = UNION {bounded(t, at, e, s.boundary) : e \in ends[at]}
    <2>1. CASE \E p \in s.prefixes : starts_with(t, at, p)
      <3>1. PICK p \in s.prefixes : starts_with(t, at, p)
        BY <2>1
      <3> DEFINE from == at + Len(p)
                 available == run_end(t, from, s.alphabet) - from
                 matched == IF s.exact THEN s.length ELSE available
      <3>2. /\ {q \in s.prefixes : starts_with(t, at, q)} = {p}
            /\ from \in 1 .. (Len(t) + 1) /\ from >= at
            /\ ends[at] = {e \in Ends(t, from) : RunFits(s, t, from, e)}
        BY <1>3, <3>1
      <3>3. ends[at] = IF available < s.length THEN {} ELSE {from + matched}
        BY <3>2, RunFitsIs
      <3>4. RunEndsAt(t, from, s.alphabet, run_end(t, from, s.alphabet))
        BY <3>2, RunEnd
      <3>5. available \in Nat /\ from + available <= Len(t) + 1 /\ s.length \in Nat \ {0}
        <4>1. PICK to : to = run_end(t, from, s.alphabet)
          OBVIOUS
        <4>2. to \in Nat /\ from <= to /\ to <= Len(t) + 1
          BY <3>4, <4>1 DEF RunEndsAt
        <4>3. from \in Nat /\ Len(t) \in Nat
          BY <1>1, <3>2
        <4>4. s.length \in Nat \ {0}
          BY DEF RunPass
        <4>5. available = to - from
          BY <4>1
        <4> HIDE DEF from, available
        <4> QED BY <4>2, <4>3, <4>4, <4>5
      <3>6. scan_prefixed_runs(s, t, at)
              = IF available < s.length THEN {} ELSE bounded(t, at, from + matched, s.boundary)
        <4>1. (CHOOSE x \in {p} : \A y \in {p} : Len(y) <= Len(x)) = p
          <5>1. Len(p) <= Len(p)
            BY DEF RunPass, Literal
          <5> QED BY <5>1
        <4> QED BY <3>2, <4>1 DEF scan_prefixed_runs
      <3>7. available >= s.length => from + matched \in (at + 1) .. (Len(t) + 1)
        <4>1. at \in Nat /\ from \in Nat
          BY <1>1, <3>2
        <4> HIDE DEF from, available
        <4> QED BY <1>1, <3>2, <3>5, <4>1
      <3> HIDE DEF from, available, matched, ends
      <3> QED BY <1>1, <3>3, <3>5, <3>6, <3>7
    <2>2. CASE ~\E p \in s.prefixes : starts_with(t, at, p)
      BY <1>4, <2>2
    <2> QED BY <2>1, <2>2
  <1>7. Shapes(s, t) = RunShapes(s, t)
    BY DEF Shapes, RunPass
  <1>8. ASSUME NEW at \in DOMAIN t, NEW e \in ends[at] PROVE Token(at, e) \in RunShapes(s, t)
    <2>1. PICK p \in s.prefixes : starts_with(t, at, p) /\ e \in Ends(t, at + Len(p))
                                    /\ RunFits(s, t, at + Len(p), e)
      BY <1>8 DEF RunEndsOf
    <2>2. <<at, p>> \in {x \in (DOMAIN t) \X s.prefixes : starts_with(t, x[1], x[2])}
      BY <2>1
    <2>3. PICK x \in {x \in (DOMAIN t) \X s.prefixes : starts_with(t, x[1], x[2])} : x = <<at, p>>
      BY <2>2
    <2>4. x[1] = at /\ x[2] = p
      BY <2>3
    <2> DEFINE of(y) == {Token(y[1], j) : j \in {j \in Ends(t, y[1] + Len(y[2])) :
                                                  RunFits(s, t, y[1] + Len(y[2]), j)}}
               X == {y \in (DOMAIN t) \X s.prefixes : starts_with(t, y[1], y[2])}
    <2>5. Token(at, e) \in of(x)
      <3>1. e \in {j \in Ends(t, x[1] + Len(x[2])) : RunFits(s, t, x[1] + Len(x[2]), j)}
        BY <2>1, <2>4
      <3> QED BY <2>4, <3>1
    <2>6. RunShapes(s, t) = UNION {of(y) : y \in X}
      BY DEF RunShapes, RunFits
    <2>7. x \in X
      OBVIOUS
    <2> HIDE DEF of, X
    <2> QED BY <2>5, <2>6, <2>7
  <1>9. ASSUME NEW shape \in RunShapes(s, t)
        PROVE  \E at \in DOMAIN t : \E e \in ends[at] : shape = Token(at, e)
    <2>1. PICK x \in (DOMAIN t) \X s.prefixes :
            /\ starts_with(t, x[1], x[2])
            /\ \E e \in Ends(t, x[1] + Len(x[2])) :
                 RunFits(s, t, x[1] + Len(x[2]), e) /\ shape = Token(x[1], e)
      BY <1>9 DEF RunShapes, RunFits
    <2>2. PICK e \in Ends(t, x[1] + Len(x[2])) :
            RunFits(s, t, x[1] + Len(x[2]), e) /\ shape = Token(x[1], e)
      BY <2>1
    <2>3. x[1] \in DOMAIN t /\ x[2] \in s.prefixes
      OBVIOUS
    <2>4. e \in ends[x[1]]
      BY <2>1, <2>2, <2>3 DEF RunEndsOf
    <2> QED BY <2>2, <2>3, <2>4
  <1> QED BY <1>2, <1>5, <1>6, <1>7, <1>8, <1>9 DEF TokenPass

---------------------------------------------------------------------------
(* The prefixes of the provider detectors. *)

LEMMA One ==
    ASSUME NEW a
    PROVE  Literal(<<a>>) /\ Len(<<a>>) = 1 /\ <<a>>[1] = a
  <1>1. <<a>> \in Seq({a})
    OBVIOUS
  <1> QED BY <1>1 DEF Literal

LEMMA Two ==
    ASSUME NEW a, NEW b
    PROVE  Literal(<<a, b>>) /\ Len(<<a, b>>) = 2 /\ <<a, b>>[1] = a /\ <<a, b>>[2] = b
  <1>1. <<a, b>> \in Seq({a, b})
    OBVIOUS
  <1> QED BY <1>1 DEF Literal

LEMMA Four ==
    ASSUME NEW a, NEW b, NEW c, NEW d
    PROVE  /\ Literal(<<a, b, c, d>>) /\ Len(<<a, b, c, d>>) = 4
           /\ <<a, b, c, d>>[1] = a /\ <<a, b, c, d>>[2] = b
           /\ <<a, b, c, d>>[3] = c /\ <<a, b, c, d>>[4] = d
  <1>1. <<a, b, c, d>> \in Seq({a, b, c, d})
    OBVIOUS
  <1> QED BY <1>1 DEF Literal

PrefixesApart(P) == /\ \A p \in P : Literal(p)
                    /\ \A p, q \in P : p # q => Apart(p, q)

LEMMA PrefixedPass ==
    ASSUME NEW P, PrefixesApart(P), NEW exact \in BOOLEAN, NEW n \in Nat \ {0}, NEW A, NEW B
    PROVE  RunPass(Prefixed(P, exact, n, A, B))
  BY DEF RunPass, Prefixed, PrefixesApart

\* Prefixes that differ in their first or in their third part.
LEMMA FirstOrThird ==
    ASSUME NEW p, NEW q, Len(p) \in Nat, Len(q) \in Nat,
           \/ Len(p) >= 1 /\ Len(q) >= 1 /\ p[1] # q[1]
           \/ Len(p) >= 3 /\ Len(q) >= 3 /\ p[3] # q[3]
    PROVE  Apart(p, q)
  BY DEF Apart

LEMMA OneApart ==
    ASSUME NEW p, Literal(p)
    PROVE  PrefixesApart({p})
  BY DEF PrefixesApart

LEMMA WithApart ==
    ASSUME NEW d, NEW S
    PROVE  PrefixesApart(With(d, S))
  <1>1. ASSUME NEW p \in With(d, S)
        PROVE  \E a \in S : p = <<a, d>> /\ Literal(p) /\ Len(p) = 2 /\ p[1] = a
    BY <1>1, Two DEF With
  <1>2. ASSUME NEW p \in With(d, S), NEW q \in With(d, S), p # q PROVE Apart(p, q)
    BY <1>1, <1>2, FirstOrThird
  <1> QED BY <1>1, <1>2 DEF PrefixesApart

LEMMA ThirdApart ==
    ASSUME NEW P, NEW a, NEW d, NEW e, \A p \in P : \E s : p = <<a, d, s, e>>
    PROVE  PrefixesApart(P)
  <1>1. ASSUME NEW p \in P
        PROVE  \E s : p = <<a, d, s, e>> /\ Literal(p) /\ Len(p) = 4 /\ p[3] = s
    BY <1>1, Four
  <1>2. ASSUME NEW p \in P, NEW q \in P, p # q PROVE Apart(p, q)
    BY <1>1, <1>2, FirstOrThird
  <1> QED BY <1>1, <1>2 DEF PrefixesApart

LEMMA FirstApart ==
    ASSUME NEW P, NEW c, NEW d, NEW e, \A p \in P : \E s : p = <<s, d, c, e>>
    PROVE  PrefixesApart(P)
  <1>1. ASSUME NEW p \in P
        PROVE  \E s : p = <<s, d, c, e>> /\ Literal(p) /\ Len(p) = 4 /\ p[1] = s
    BY <1>1, Four
  <1>2. ASSUME NEW p \in P, NEW q \in P, p # q PROVE Apart(p, q)
    BY <1>1, <1>2, FirstOrThird
  <1> QED BY <1>1, <1>2 DEF PrefixesApart

LEMMA StripeApart ==
    PrefixesApart({<<"sk", "_", m, "_">> : m \in {"test", "live", "org"}}
                    \cup {<<"rk", "_", m, "_">> : m \in {"test", "live"}} \cup {<<"whsec", "_">>})
  <1> DEFINE A == {<<"sk", "_", m, "_">> : m \in {"test", "live", "org"}}
             B == {<<"rk", "_", m, "_">> : m \in {"test", "live"}}
             C == {<<"whsec", "_">>}
  <1>1. PrefixesApart(A)
    BY ThirdApart
  <1>2. PrefixesApart(B)
    BY ThirdApart
  <1>3. PrefixesApart(C)
    BY Two, OneApart
  <1>4. ASSUME NEW p \in A PROVE Len(p) = 4 /\ p[1] = "sk"
    <2>1. PICK m : p = <<"sk", "_", m, "_">>
      OBVIOUS
    <2> HIDE DEF A, B, C
    <2> QED BY <2>1
  <1>5. ASSUME NEW p \in B PROVE Len(p) = 4 /\ p[1] = "rk"
    <2>1. PICK m : p = <<"rk", "_", m, "_">>
      OBVIOUS
    <2> HIDE DEF A, B, C
    <2> QED BY <2>1
  <1>6. ASSUME NEW p \in C PROVE Len(p) = 2 /\ p[1] = "whsec"
    <2>1. p = <<"whsec", "_">>
      OBVIOUS
    <2> HIDE DEF A, B, C
    <2> QED BY <2>1
  <1> HIDE DEF A, B, C
  <1>7. ASSUME NEW p \in A \cup B \cup C, NEW q \in A \cup B \cup C, p # q PROVE Apart(p, q)
    <2>1. CASE p[1] # q[1]
      BY <1>4, <1>5, <1>6, <2>1, FirstOrThird
    <2>2. CASE p[1] = q[1]
      <3>1. \/ p \in A /\ q \in A
            \/ p \in B /\ q \in B
            \/ p \in C /\ q \in C
        BY <1>4, <1>5, <1>6, <2>2
      <3> QED BY <1>1, <1>2, <1>3, <1>7, <3>1 DEF PrefixesApart
    <2> QED BY <2>1, <2>2
  <1>8. PrefixesApart(A \cup B \cup C)
    BY <1>1, <1>2, <1>3, <1>7 DEF PrefixesApart
  <1> QED BY <1>8 DEF A, B, C

LEMMA SlackApart ==
    PrefixesApart(With("-", {"xoxb", "xoxp", "xapp", "xwfp", "xoxe"})
                    \cup {<<"xoxe", ".", s, "-">> : s \in {"xoxb", "xoxp"}})
  <1> DEFINE A == With("-", {"xoxb", "xoxp", "xapp", "xwfp", "xoxe"})
             B == {<<"xoxe", ".", s, "-">> : s \in {"xoxb", "xoxp"}}
  <1>1. PrefixesApart(A)
    BY WithApart
  <1>2. PrefixesApart(B)
    BY ThirdApart
  <1>3. ASSUME NEW p \in A PROVE Len(p) = 2 /\ p[2] = "-"
    BY <1>3, Two DEF With
  <1>4. ASSUME NEW q \in B PROVE Len(q) = 4 /\ q[2] = "."
    BY <1>4, Four
  <1> HIDE DEF A, B
  <1>5. ASSUME NEW p \in A, NEW q \in B PROVE Apart(p, q) /\ Apart(q, p)
    <2>1. /\ 2 \in 1 .. Len(p) /\ 2 \in 1 .. Len(q) /\ 2 <= Len(p) /\ 2 <= Len(q)
          /\ p[2] # q[2]
      BY <1>3, <1>4
    <2> QED BY <2>1 DEF Apart
  <1>6. PrefixesApart(A \cup B)
    BY <1>1, <1>2, <1>5 DEF PrefixesApart
  <1> QED BY <1>6 DEF A, B

LEMMA LengthsAre ==
    /\ Lengths.aws \in Nat \ {0} /\ Lengths.github \in Nat \ {0} /\ Lengths.vault \in Nat \ {0}
    /\ Lengths.opaque \in Nat \ {0} /\ Lengths.pypi \in Nat \ {0} /\ Lengths.npm \in Nat \ {0}
    /\ Lengths.first \in Nat \ {0} /\ Lengths.second \in Nat \ {0} /\ Lengths.tail \in Nat \ {0}
    /\ Lengths.signature \in Nat \ {0} /\ Lengths.bearer \in Nat \ {0}
    /\ Lengths.base32 \in Nat \ {0} /\ Lengths.label \in Nat \ {0} /\ Lengths.query \in Nat \ {0}
    /\ Lengths.authorization \in Nat \ {0}
  BY LengthsAssumption DEF LengthNames

LEMMA OpaquePass ==
    ASSUME NEW P, PrefixesApart(P)
    PROVE  RunPass(Opaque(P))
  BY LengthsAre, PrefixedPass DEF Opaque

\* The passes of the provider detectors that look for a prefix and a run.
RunPasses ==
    {AwsAccessKeyDetector, GitHubClassic, GitHubInstallation, GitlabTokenDetector,
     AnthropicTokenDetector, ShopifyTokenDetector, VaultTokenDetector, STRIPE, SLACK, PYPI,
     HUGGING_FACE, DOCKER, CLOUDFLARE, DIGITALOCEAN, LINEAR, SUPABASE, VERCEL, NPM}

LEMMA RunPassesAre == \A s \in RunPasses : RunPass(s)
  <1>1. RunPass(AwsAccessKeyDetector)
    <2>1. PrefixesApart({<<"AKIA">>, <<"ASIA">>})
      <3>1. /\ Literal(<<"AKIA">>) /\ Len(<<"AKIA">>) = 1 /\ <<"AKIA">>[1] = "AKIA"
            /\ Literal(<<"ASIA">>) /\ Len(<<"ASIA">>) = 1 /\ <<"ASIA">>[1] = "ASIA"
        BY One
      <3>2. Apart(<<"AKIA">>, <<"ASIA">>) /\ Apart(<<"ASIA">>, <<"AKIA">>)
        BY <3>1, FirstOrThird
      <3> QED BY <3>1, <3>2 DEF PrefixesApart
    <2> QED BY <2>1, LengthsAre, PrefixedPass DEF AwsAccessKeyDetector
  <1>2. RunPass(GitHubClassic) /\ RunPass(GitHubInstallation)
    <2>1. PrefixesApart(With("_", {"gho", "ghp", "ghu", "ghr"})) /\ PrefixesApart(With("_", {"ghs"}))
      BY WithApart
    <2> QED BY <2>1, LengthsAre, PrefixedPass DEF GitHubClassic, GitHubInstallation
  <1>3. RunPass(GitlabTokenDetector)
    BY WithApart, OpaquePass DEF GitlabTokenDetector
  <1>4. RunPass(AnthropicTokenDetector)
    <2>1. <<"sk", "-", "ant", "-", "api03", "-">> \in Seq({"sk", "-", "ant", "api03"})
      OBVIOUS
    <2>2. Literal(<<"sk", "-", "ant", "-", "api03", "-">>)
      BY <2>1 DEF Literal
    <2> QED BY <2>2, OneApart, OpaquePass DEF AnthropicTokenDetector
  <1>5. RunPass(ShopifyTokenDetector)
    BY WithApart, OpaquePass DEF ShopifyTokenDetector
  <1>6. RunPass(VaultTokenDetector)
    <2>1. PrefixesApart(With(".", {"hvs", "hvb", "hvr"}))
      BY WithApart
    <2> QED BY <2>1, LengthsAre, PrefixedPass DEF VaultTokenDetector
  <1>7. RunPass(STRIPE)
    BY LengthsAre, StripeApart, PrefixedPass DEF STRIPE
  <1>8. RunPass(SLACK)
    BY SlackApart, OpaquePass DEF SLACK
  <1>9. RunPass(PYPI) /\ RunPass(NPM)
    <2>1. PrefixesApart({<<"pypi", "-">>}) /\ PrefixesApart({<<"npm", "_">>})
      BY OneApart, Two
    <2> QED BY <2>1, LengthsAre, PrefixedPass DEF PYPI, NPM
  <1>10. RunPass(HUGGING_FACE) /\ RunPass(CLOUDFLARE)
    <2>1. PrefixesApart({<<"hf", "_">>}) /\ PrefixesApart({<<"cfut", "_">>})
      BY OneApart, Two
    <2> QED BY <2>1, OpaquePass DEF HUGGING_FACE, CLOUDFLARE
  <1>11. RunPass(DOCKER) /\ RunPass(LINEAR)
    <2>1. PrefixesApart({<<"dckr", "_", s, "_">> : s \in {"pat", "oat"}})
      BY ThirdApart
    <2>2. PrefixesApart({<<"lin", "_", s, "_">> : s \in {"api", "oauth"}})
      BY ThirdApart
    <2> QED BY <2>1, <2>2, OpaquePass DEF DOCKER, LINEAR
  <1>12. RunPass(DIGITALOCEAN)
    <2>1. PrefixesApart({<<s, "_", "v1", "_">> : s \in {"dop", "doo", "dor"}})
      BY FirstApart
    <2> QED BY <2>1, OpaquePass DEF DIGITALOCEAN
  <1>13. RunPass(SUPABASE)
    BY Four, OneApart, OpaquePass DEF SUPABASE
  <1>14. RunPass(VERCEL)
    BY WithApart, OpaquePass DEF VERCEL
  <1> QED BY <1>1, <1>2, <1>3, <1>4, <1>5, <1>6, <1>7, <1>8, <1>9, <1>10, <1>11, <1>12, <1>13,
             <1>14 DEF RunPasses

LEMMA RunsAgree ==
    ASSUME NEW t \in Seq(STRING), NEW s \in RunPasses
    PROVE  Sensible(s, t) /\ Agrees(s, t)
  <1>1. RunPass(s)
    BY RunPassesAre
  <1>2. TokenPass(s, t, s.boundary, RunEndsOf(s, t))
    BY <1>1, RunTokens
  <1>3. PICK boundary : boundary = s.boundary
    OBVIOUS
  <1>4. PICK ends : ends = RunEndsOf(s, t)
    OBVIOUS
  <1> QED BY <1>2, <1>3, <1>4, TokensAgree

---------------------------------------------------------------------------
(* The other token passes: fine-grained GitHub tokens and OpenAI keys. *)

LEMMA WholeRunIs ==
    ASSUME NEW t \in Seq(STRING), NEW from \in 1 .. (Len(t) + 1), NEW S, NEW e
    PROVE  e \in Ends(t, from) /\ WholeRun(t, from, e, S) <=> e = run_end(t, from, S)
  <1>1. RunEndsAt(t, from, S, run_end(t, from, S))
    BY RunEnd
  <1>2. Len(t) \in Nat
    OBVIOUS
  <1>3. ASSUME e \in Ends(t, from), WholeRun(t, from, e, S) PROVE e = run_end(t, from, S)
    <2>1. RunEndsAt(t, from, S, e)
      BY <1>2, <1>3 DEF RunEndsAt, Ends
    <2> QED BY <1>1, <2>1, RunEndsOnce
  <1>4. ASSUME e = run_end(t, from, S) PROVE e \in Ends(t, from) /\ WholeRun(t, from, e, S)
    BY <1>1, <1>2, <1>4 DEF RunEndsAt, Ends
  <1> QED BY <1>3, <1>4

LEMMA RunEndRange ==
    ASSUME NEW t \in Seq(STRING), NEW from \in 1 .. (Len(t) + 1), NEW S
    PROVE  run_end(t, from, S) \in from .. (Len(t) + 1)
  BY RunEnd DEF RunEndsAt

LEMMA StartsTwo ==
    ASSUME NEW t \in Seq(STRING), NEW at \in Nat \ {0}, NEW a, NEW b
    PROVE  starts_with(t, at, <<a, b>>) <=> at + 1 <= Len(t) /\ t[at] = a /\ t[at + 1] = b
  <1>1. PICK p : p = <<a, b>>
    OBVIOUS
  <1>2. Literal(p) /\ Len(p) = 2 /\ p[1] = a /\ p[2] = b
    BY <1>1, Two
  <1>3. starts_with(t, at, p) <=>
          at + 2 <= Len(t) + 1 /\ \A k \in 1 .. 2 : t[at + k - 1] = p[k]
    <2>1. starts_with(t, at, p) <=>
            at + Len(p) <= Len(t) + 1 /\ SpelledAt(t, at, p)
      BY <1>2, StartsWith
    <2>2. Len(p) = 2
      BY <1>2
    <2> QED BY <2>1, <2>2 DEF SpelledAt
  <1>4. Len(t) \in Nat
    OBVIOUS
  <1>5. (\A k \in 1 .. 2 : t[at + k - 1] = p[k]) <=> t[at] = p[1] /\ t[at + 1] = p[2]
    <2>1. at + 1 - 1 = at /\ at + 2 - 1 = at + 1 /\ 1 .. 2 = {1, 2}
      OBVIOUS
    <2> QED BY <2>1
  <1> QED BY <1>1, <1>2, <1>3, <1>4, <1>5

LEMMA StartsFour ==
    ASSUME NEW t \in Seq(STRING), NEW at \in Nat \ {0}, NEW a, NEW b, NEW c, NEW d
    PROVE  starts_with(t, at, <<a, b, c, d>>) <=>
             at + 3 <= Len(t) /\ t[at] = a /\ t[at + 1] = b /\ t[at + 2] = c /\ t[at + 3] = d
  <1>1. PICK p : p = <<a, b, c, d>>
    OBVIOUS
  <1>2. Literal(p) /\ Len(p) = 4 /\ p[1] = a /\ p[2] = b /\ p[3] = c /\ p[4] = d
    BY <1>1, Four
  <1>3. starts_with(t, at, p) <=>
          at + 4 <= Len(t) + 1 /\ \A k \in 1 .. 4 : t[at + k - 1] = p[k]
    <2>1. starts_with(t, at, p) <=>
            at + Len(p) <= Len(t) + 1 /\ SpelledAt(t, at, p)
      BY <1>2, StartsWith
    <2>2. Len(p) = 4
      BY <1>2
    <2> QED BY <2>1, <2>2 DEF SpelledAt
  <1>4. Len(t) \in Nat
    OBVIOUS
  <1>5. (\A k \in 1 .. 4 : t[at + k - 1] = p[k]) <=>
          t[at] = p[1] /\ t[at + 1] = p[2] /\ t[at + 2] = p[3] /\ t[at + 3] = p[4]
    <2>1. /\ at + 1 - 1 = at /\ at + 2 - 1 = at + 1 /\ at + 3 - 1 = at + 2 /\ at + 4 - 1 = at + 3
          /\ 1 .. 4 = {1, 2, 3, 4}
      OBVIOUS
    <2> QED BY <2>1
  <1> QED BY <1>1, <1>2, <1>3, <1>4, <1>5

\* Where the token ends that begins at a position, of each kind.
FineGrainedEnds(t) ==
    [at \in DOMAIN t |-> IF Token(at, FineGrainedEnd(at)) \in FineGrainedShapes(t)
                           THEN {FineGrainedEnd(at)} ELSE {}]

Fine(t, i) == FineGrainedFits(t, i, i + 4, i + 5 + Lengths.first, FineGrainedEnd(i))

LEMMA FineGrainedShape ==
    ASSUME NEW t, NEW shape
    PROVE  shape \in FineGrainedShapes(t) <=>
             \E i \in DOMAIN t : Fine(t, i) /\ shape = Token(i, FineGrainedEnd(i))
  BY DEF FineGrainedShapes, Fine

LEMMA FineGrainedTokens ==
    ASSUME NEW t \in Seq(STRING), NEW s, s.kind = "fine_grained"
    PROVE  TokenPass(s, t, is_alnum_underscore, FineGrainedEnds(t))
  <1> DEFINE ends == FineGrainedEnds(t)
  <1>1. Len(t) \in Nat /\ DOMAIN t = 1 .. Len(t)
    OBVIOUS
  <1>2. Before(s) = is_alnum_underscore /\ Behind(s) = is_alnum_underscore
    BY DEF Before, Behind
  <1>3. Shapes(s, t) = FineGrainedShapes(t) /\ \A at : attempt(s, t, at) = scan_fine_grained(t, at)
    BY DEF Shapes, attempt
  <1>4. PICK n \in Nat \ {0}, m \in Nat \ {0} : n = Lengths.first /\ m = Lengths.second
    BY LengthsAre
  <1>5. ASSUME NEW at \in DOMAIN t
        PROVE  Token(at, FineGrainedEnd(at)) \in FineGrainedShapes(t) <=> Fine(t, at)
    <2>1. ASSUME NEW i, Token(at, FineGrainedEnd(at)) = Token(i, FineGrainedEnd(i)) PROVE i = at
      BY <2>1 DEF Token, Shape
    <2> QED BY <2>1, FineGrainedShape
  <1>6. ASSUME NEW at \in DOMAIN t
        PROVE  ends[at] = IF Fine(t, at) THEN {at + 5 + n + m} ELSE {}
    BY <1>4, <1>5 DEF FineGrainedEnds, FineGrainedEnd
  <1>7. ASSUME NEW at \in DOMAIN t
        PROVE  Fine(t, at) <=>
                 /\ starts_with(t, at, FINE_GRAINED_PREFIX)
                 /\ exact_run(t, at + 4, n)
                 /\ at + 4 + n <= Len(t) /\ t[at + 4 + n] = "_"
                 /\ exact_run(t, at + 4 + n + 1, m)
    <2>1. Len(FINE_GRAINED_PREFIX) = 4 /\ FINE_GRAINED_PREFIX = <<"github", "_", "pat", "_">>
      BY DEF FINE_GRAINED_PREFIX
    <2>2. starts_with(t, at, FINE_GRAINED_PREFIX) <=>
            at + 3 <= Len(t) /\ SubSeq(t, at, at + 3) = <<"github", "_", "pat", "_">>
      <3>1. at + 4 - 1 = at + 3
        BY <1>1
      <3> QED BY <2>1, <3>1 DEF starts_with
    <2>3. exact_run(t, at + 4, n) <=> at + 4 + n - 1 <= Len(t) /\ All(t, at + 4, at + 4 + n, is_alnum)
      BY <1>1 DEF exact_run, All
    <2>4. exact_run(t, at + 4 + n + 1, m) <=>
            at + 4 + n + 1 + m - 1 <= Len(t) /\ All(t, at + 4 + n + 1, at + 4 + n + 1 + m, is_alnum)
      BY <1>1 DEF exact_run, All
    <2>5. Fine(t, at) <=>
            /\ at + 4 + n + 1 + m <= Len(t) + 1
            /\ SubSeq(t, at, at + 3) = <<"github", "_", "pat", "_">>
            /\ All(t, at + 4, at + 4 + n, is_alnum)
            /\ t[at + 4 + n] = "_"
            /\ All(t, at + 4 + n + 1, at + 4 + n + 1 + m, is_alnum)
      <3>1. /\ at + 5 + n - 1 = at + 4 + n /\ at + 5 + n = at + 4 + n + 1
            /\ at + 5 + n + m = at + 4 + n + 1 + m /\ (at + 4 + n + 1) - 1 = at + 4 + n
        <4>1. at \in Nat /\ n \in Nat /\ m \in Nat
          BY <1>1
        <4> QED BY <4>1
      <3>2. Fine(t, at) <=> FineGrainedFits(t, at, at + 4, at + 4 + n + 1, at + 4 + n + 1 + m)
        BY <1>4, <3>1 DEF Fine, FineGrainedEnd
      <3>3. FineGrainedFits(t, at, at + 4, at + 4 + n + 1, at + 4 + n + 1 + m) <=>
              /\ at + 4 + n + 1 + m <= Len(t) + 1
              /\ SubSeq(t, at, at + 3) = <<"github", "_", "pat", "_">>
              /\ All(t, at + 4, (at + 4 + n + 1) - 1, is_alnum)
              /\ t[(at + 4 + n + 1) - 1] = "_"
              /\ All(t, at + 4 + n + 1, at + 4 + n + 1 + m, is_alnum)
        BY DEF FineGrainedFits
      <3> QED BY <3>1, <3>2, <3>3
    <2>6. Fine(t, at) => exact_run(t, at + 4, n) /\ exact_run(t, at + 4 + n + 1, m)
                                      /\ at + 4 + n <= Len(t) /\ at + 3 <= Len(t)
      <3>1. Fine(t, at) => at + 4 + n + 1 + m <= Len(t) + 1
        BY <2>5
      <3>2. at + 4 + n + 1 + m <= Len(t) + 1 =>
              /\ at + 4 + n - 1 <= Len(t) /\ at + 4 + n + 1 + m - 1 <= Len(t)
              /\ at + 4 + n <= Len(t) /\ at + 3 <= Len(t)
        BY <1>1
      <3> QED BY <2>3, <2>4, <2>5, <3>1, <3>2
    <2>7. exact_run(t, at + 4 + n + 1, m) => at + 4 + n + 1 + m <= Len(t) + 1
      BY <1>1, <2>4
    <2> QED BY <2>2, <2>3, <2>4, <2>5, <2>6, <2>7
  <1>8. ASSUME NEW at \in DOMAIN t
        PROVE  scan_fine_grained(t, at)
                 = IF Fine(t, at) THEN bounded(t, at, at + 5 + n + m, is_alnum_underscore)
                                             ELSE {}
    <2>1. Len(FINE_GRAINED_PREFIX) = 4
      BY DEF FINE_GRAINED_PREFIX
    <2>2. at + 4 + n + 1 + m = at + 5 + n + m
      BY <1>1
    <2> QED BY <1>4, <1>7, <2>1, <2>2 DEF scan_fine_grained
  <1>9. ASSUME NEW at \in DOMAIN t
        PROVE  /\ ends[at] \subseteq (at + 1) .. (Len(t) + 1)
               /\ \A e, f \in ends[at] : e = f
               /\ attempt(s, t, at) = UNION {bounded(t, at, e, is_alnum_underscore) : e \in ends[at]}
               /\ \A e \in ends[at] : Token(at, e) \in Shapes(s, t)
    <2>1. CASE Fine(t, at)
      <3>1. ends[at] = {at + 5 + n + m}
        BY <1>6, <2>1
      <3>2. at + 5 + n + m <= Len(t) + 1
        <4>1. exact_run(t, at + 4 + n + 1, m)
          BY <1>7, <2>1
        <4>2. at + 4 + n + 1 + m - 1 <= Len(t)
          BY <4>1 DEF exact_run
        <4> QED BY <1>1, <4>2
      <3>3. at + 5 + n + m \in (at + 1) .. (Len(t) + 1)
        BY <1>1, <3>2
      <3>4. Token(at, at + 5 + n + m) \in FineGrainedShapes(t)
        BY <1>4, <1>5, <2>1 DEF FineGrainedEnd
      <3> HIDE DEF ends
      <3> QED BY <1>3, <1>8, <2>1, <3>1, <3>3, <3>4
    <2>2. CASE ~Fine(t, at)
      <3>1. ends[at] = {}
        BY <1>6, <2>2
      <3> HIDE DEF ends
      <3> QED BY <1>3, <1>8, <2>2, <3>1
    <2> QED BY <2>1, <2>2
  <1>10. ASSUME NEW shape \in FineGrainedShapes(t)
         PROVE  \E at \in DOMAIN t : \E e \in ends[at] : shape = Token(at, e)
    <2>1. PICK i \in DOMAIN t : Fine(t, i) /\ shape = Token(i, FineGrainedEnd(i))
      BY FineGrainedShape
    <2>2. FineGrainedEnd(i) \in ends[i]
      BY <1>5, <2>1 DEF FineGrainedEnds
    <2> QED BY <2>1, <2>2
  <1> HIDE DEF ends
  <1>11. TokenPass(s, t, is_alnum_underscore, ends)
    BY <1>2, <1>3, <1>9, <1>10 DEF TokenPass
  <1> QED BY <1>11 DEF ends

OpenAIEnds(t) ==
    [at \in DOMAIN t |-> IF starts_with(t, at, <<"sk", "-">>) THEN branch_end(t, at + 2) ELSE {}]

OpenAIPrefixes == {<<"sk", "-">>, <<"sk", "-", "proj", "-">>, <<"sk", "-", "svcacct", "-">>}
OpenAIFits(t, i, p, j) ==
    /\ j - (i + Len(p)) >= Lengths.opaque
    /\ WholeRun(t, i + Len(p), j, is_alnum_dash)
    /\ Len(p) = 2 => ~\E r \in Reserved : starts_with(t, i + 2, r)

LEMMA OpenAIShape ==
    ASSUME NEW t, NEW shape
    PROVE  shape \in OpenAIShapes(t) <=>
             \E i \in DOMAIN t : \E p \in OpenAIPrefixes : \E j \in Ends(t, i + Len(p)) :
                starts_with(t, i, p) /\ OpenAIFits(t, i, p, j) /\ shape = Token(i, j)
  <1>3. OpenAIShapes(t) = UNION {{Token(y[1], k) : k \in {k \in Ends(t, y[1] + Len(y[2])) :
                                                  OpenAIFits(t, y[1], y[2], k)}} :
                                  y \in {y \in (DOMAIN t) \X OpenAIPrefixes : starts_with(t, y[1], y[2])}}
    BY DEF OpenAIShapes, OpenAIFits, OpenAIPrefixes
  <1>1. ASSUME NEW i \in DOMAIN t, NEW p \in OpenAIPrefixes, NEW j \in Ends(t, i + Len(p)),
               starts_with(t, i, p), OpenAIFits(t, i, p, j)
        PROVE  Token(i, j) \in OpenAIShapes(t)
    <2>1. <<i, p>> \in {y \in (DOMAIN t) \X OpenAIPrefixes : starts_with(t, y[1], y[2])}
      BY <1>1
    <2>2. PICK x \in {y \in (DOMAIN t) \X OpenAIPrefixes : starts_with(t, y[1], y[2])} : x = <<i, p>>
      BY <2>1
    <2>3. x[1] = i /\ x[2] = p
      BY <2>2
    <2>4. Token(i, j) \in {Token(x[1], k) : k \in {k \in Ends(t, x[1] + Len(x[2])) :
                                                    OpenAIFits(t, x[1], x[2], k)}}
      BY <1>1, <2>3
    <2> DEFINE of(y) == {Token(y[1], k) : k \in {k \in Ends(t, y[1] + Len(y[2])) : OpenAIFits(t, y[1], y[2], k)}}
               X == {y \in (DOMAIN t) \X OpenAIPrefixes : starts_with(t, y[1], y[2])}
    <2>5. OpenAIShapes(t) = UNION {of(y) : y \in X}
      BY <1>3
    <2>6. Token(i, j) \in of(x) /\ x \in X
      BY <2>4
    <2> HIDE DEF of, X
    <2> QED BY <2>5, <2>6
  <1>2. ASSUME shape \in OpenAIShapes(t)
        PROVE  \E i \in DOMAIN t : \E p \in OpenAIPrefixes : \E j \in Ends(t, i + Len(p)) :
                 starts_with(t, i, p) /\ OpenAIFits(t, i, p, j) /\ shape = Token(i, j)
    <2>1. PICK x \in (DOMAIN t) \X OpenAIPrefixes :
            /\ starts_with(t, x[1], x[2])
            /\ \E j \in Ends(t, x[1] + Len(x[2])) : OpenAIFits(t, x[1], x[2], j) /\ shape = Token(x[1], j)
      BY <1>2, <1>3
    <2>2. x[1] \in DOMAIN t /\ x[2] \in OpenAIPrefixes
      OBVIOUS
    <2> QED BY <2>1, <2>2
  <1> QED BY <1>1, <1>2

\* The three prefixes, by their parts.
LEMMA OpenAIStarts ==
    ASSUME NEW t \in Seq(STRING), NEW at \in DOMAIN t
    PROVE  /\ at + 2 \in Nat \ {0} /\ at \in Nat \ {0}
           /\ starts_with(t, at, <<"sk", "-">>) => at + 2 \in 1 .. (Len(t) + 1)
           /\ starts_with(t, at, <<"sk", "-", "proj", "-">>) <=>
                starts_with(t, at, <<"sk", "-">>) /\ starts_with(t, at + 2, <<"proj", "-">>)
           /\ starts_with(t, at, <<"sk", "-", "svcacct", "-">>) <=>
                starts_with(t, at, <<"sk", "-">>) /\ starts_with(t, at + 2, <<"svcacct", "-">>)
           /\ starts_with(t, at + 2, <<"proj", "-">>) \/ starts_with(t, at + 2, <<"svcacct", "-">>) =>
                at + 4 \in 1 .. (Len(t) + 1)
  <1>1. Len(t) \in Nat /\ at \in Nat \ {0} /\ at + 2 \in Nat \ {0} /\ at + 2 + 1 = at + 3
    OBVIOUS
  <1>2. PICK sk, dash, proj, svcacct :
          sk = "sk" /\ dash = "-" /\ proj = "proj" /\ svcacct = "svcacct"
    OBVIOUS
  <1>3. starts_with(t, at, <<sk, dash>>) <=> at + 1 <= Len(t) /\ t[at] = sk /\ t[at + 1] = dash
    BY <1>1, StartsTwo
  <1>4. starts_with(t, at + 2, <<proj, dash>>) <=>
          at + 2 + 1 <= Len(t) /\ t[at + 2] = proj /\ t[at + 2 + 1] = dash
    BY <1>1, StartsTwo
  <1>5. starts_with(t, at + 2, <<svcacct, dash>>) <=>
          at + 2 + 1 <= Len(t) /\ t[at + 2] = svcacct /\ t[at + 2 + 1] = dash
    BY <1>1, StartsTwo
  <1>6. starts_with(t, at, <<sk, dash, proj, dash>>) <=>
          at + 3 <= Len(t) /\ t[at] = sk /\ t[at + 1] = dash /\ t[at + 2] = proj /\ t[at + 3] = dash
    BY <1>1, StartsFour
  <1>7. starts_with(t, at, <<sk, dash, svcacct, dash>>) <=>
          at + 3 <= Len(t) /\ t[at] = sk /\ t[at + 1] = dash /\ t[at + 2] = svcacct /\ t[at + 3] = dash
    BY <1>1, StartsFour
  <1>8. /\ starts_with(t, at, <<sk, dash>>) => at + 2 \in 1 .. (Len(t) + 1)
        /\ starts_with(t, at + 2, <<proj, dash>>) \/ starts_with(t, at + 2, <<svcacct, dash>>) =>
             at + 4 \in 1 .. (Len(t) + 1)
    BY <1>1, <1>3, <1>4, <1>5
  <1>9. at + 3 <= Len(t) => at + 1 <= Len(t)
    BY <1>1
  <1>10. /\ starts_with(t, at, <<sk, dash, proj, dash>>) <=>
              starts_with(t, at, <<sk, dash>>) /\ starts_with(t, at + 2, <<proj, dash>>)
         /\ starts_with(t, at, <<sk, dash, svcacct, dash>>) <=>
              starts_with(t, at, <<sk, dash>>) /\ starts_with(t, at + 2, <<svcacct, dash>>)
    BY <1>1, <1>3, <1>4, <1>5, <1>6, <1>7, <1>9
  <1> QED BY <1>1, <1>2, <1>8, <1>10

\* Where the body begins: behind the infix, if there is one.
Infixed(t, at) == starts_with(t, at + 2, <<"proj", "-">>) \/ starts_with(t, at + 2, <<"svcacct", "-">>)
Body(t, at) == IF Infixed(t, at) THEN at + 4 ELSE at + 2
LEMMA BranchIs ==
    ASSUME NEW t, NEW at \in Nat
    PROVE  branch_end(t, at + 2) =
             IF \/ ~Infixed(t, at) /\ starts_with(t, at + 2, <<"ant", "-">>)
                \/ run_end(t, Body(t, at), is_alnum_dash) - Body(t, at) < Lengths.opaque
               THEN {} ELSE {Body(t, at) + (run_end(t, Body(t, at), is_alnum_dash) - Body(t, at))}
  <1> DEFINE long == {p \in LongInfixes : starts_with(t, at + 2, p)}
             from == IF long = {} THEN at + 2 ELSE at + 2 + Len(CHOOSE p \in long : TRUE)
  <1>1. long # {} <=> Infixed(t, at)
    BY DEF LongInfixes, Infixed
  <1>2. long # {} => Len(CHOOSE p \in long : TRUE) = 2
    <2>1. \A p \in LongInfixes : Len(p) = 2
      BY DEF LongInfixes
    <2> QED BY <2>1
  <1>3. from = Body(t, at)
    <2>1. at + 2 + 2 = at + 4
      OBVIOUS
    <2> HIDE DEF long
    <2> QED BY <1>1, <1>2, <2>1 DEF Body
  <1>4. branch_end(t, at + 2) =
          IF \/ long = {} /\ starts_with(t, at + 2, <<"ant", "-">>)
             \/ run_end(t, from, is_alnum_dash) - from < Lengths.opaque
            THEN {} ELSE {from + (run_end(t, from, is_alnum_dash) - from)}
    BY DEF branch_end
  <1> HIDE DEF long, from
  <1> QED BY <1>1, <1>3, <1>4

\* At a position the scan finds the body's run, if it is long enough and not Anthropic's.
OpenAIEnd(t, at) == run_end(t, Body(t, at), is_alnum_dash)
OpenAIFound(t, at) ==
    /\ starts_with(t, at, <<"sk", "-">>)
    /\ Infixed(t, at) \/ ~starts_with(t, at + 2, <<"ant", "-">>)
    /\ OpenAIEnd(t, at) - Body(t, at) >= Lengths.opaque

LEMMA OpenAIEndsAre ==
    ASSUME NEW t \in Seq(STRING), NEW at \in DOMAIN t
    PROVE  /\ OpenAIEnds(t)[at] = IF OpenAIFound(t, at) THEN {OpenAIEnd(t, at)} ELSE {}
           /\ OpenAIFound(t, at) => /\ Body(t, at) \in 1 .. (Len(t) + 1)
                                    /\ OpenAIEnd(t, at) \in (at + 1) .. (Len(t) + 1)
  <1>1. at \in Nat /\ Len(t) \in Nat /\ at + 2 \in Nat /\ at + 4 \in Nat
    OBVIOUS
  <1>2. starts_with(t, at, <<"sk", "-">>) => Body(t, at) \in 1 .. (Len(t) + 1) /\ Body(t, at) >= at + 2
    BY <1>1, OpenAIStarts DEF Body, Infixed
  <1>3. starts_with(t, at, <<"sk", "-">>) =>
          /\ OpenAIEnd(t, at) \in Body(t, at) .. (Len(t) + 1)
          /\ OpenAIEnd(t, at) \in (at + 1) .. (Len(t) + 1)
    <2>1. SUFFICES ASSUME starts_with(t, at, <<"sk", "-">>)
                   PROVE  /\ OpenAIEnd(t, at) \in Body(t, at) .. (Len(t) + 1)
                          /\ OpenAIEnd(t, at) \in (at + 1) .. (Len(t) + 1)
      OBVIOUS
    <2>2. OpenAIEnd(t, at) \in Body(t, at) .. (Len(t) + 1)
      BY <1>2, <2>1, RunEndRange DEF OpenAIEnd
    <2>3. Body(t, at) \in 1 .. (Len(t) + 1) /\ Body(t, at) >= at + 2
      BY <1>2, <2>1
    <2> QED BY <1>1, <2>2, <2>3
  <1>4. starts_with(t, at, <<"sk", "-">>) =>
          Body(t, at) + (OpenAIEnd(t, at) - Body(t, at)) = OpenAIEnd(t, at)
    BY <1>1, <1>2, <1>3
  <1>5. branch_end(t, at + 2) =
          IF \/ ~Infixed(t, at) /\ starts_with(t, at + 2, <<"ant", "-">>)
             \/ OpenAIEnd(t, at) - Body(t, at) < Lengths.opaque
            THEN {} ELSE {Body(t, at) + (OpenAIEnd(t, at) - Body(t, at))}
    BY <1>1, BranchIs DEF OpenAIEnd
  <1>6. OpenAIEnds(t)[at] = IF starts_with(t, at, <<"sk", "-">>) THEN branch_end(t, at + 2) ELSE {}
    BY DEF OpenAIEnds
  <1>7. starts_with(t, at, <<"sk", "-">>) =>
          (OpenAIEnd(t, at) - Body(t, at) < Lengths.opaque
             <=> ~(OpenAIEnd(t, at) - Body(t, at) >= Lengths.opaque))
    <2>1. SUFFICES ASSUME starts_with(t, at, <<"sk", "-">>)
                   PROVE  OpenAIEnd(t, at) - Body(t, at) < Lengths.opaque
                            <=> ~(OpenAIEnd(t, at) - Body(t, at) >= Lengths.opaque)
      OBVIOUS
    <2>2. PICK n \in Nat : n = Lengths.opaque
      BY LengthsAre
    <2>3. OpenAIEnd(t, at) - Body(t, at) \in Int
      BY <1>1, <1>2, <1>3, <2>1
    <2> QED BY <2>2, <2>3
  <1>8. OpenAIEnds(t)[at] = IF OpenAIFound(t, at) THEN {OpenAIEnd(t, at)} ELSE {}
    BY <1>4, <1>5, <1>6, <1>7 DEF OpenAIFound
  <1> QED BY <1>2, <1>3, <1>8 DEF OpenAIFound

LEMMA OpenAIPrefixLengths ==
    /\ Len(<<"sk", "-">>) = 2 /\ Len(<<"sk", "-", "proj", "-">>) = 4
    /\ Len(<<"sk", "-", "svcacct", "-">>) = 4
  OBVIOUS

LEMMA OpenAIFoundFits ==
    ASSUME NEW t \in Seq(STRING), NEW at \in DOMAIN t, OpenAIFound(t, at)
    PROVE  \E p \in OpenAIPrefixes : /\ OpenAIEnd(t, at) \in Ends(t, at + Len(p))
                                     /\ starts_with(t, at, p)
                                     /\ OpenAIFits(t, at, p, OpenAIEnd(t, at))
  <1>1. Body(t, at) \in 1 .. (Len(t) + 1)
    BY OpenAIEndsAre
  <1>2. OpenAIEnd(t, at) \in Ends(t, Body(t, at)) /\ WholeRun(t, Body(t, at), OpenAIEnd(t, at), is_alnum_dash)
    BY <1>1, WholeRunIs DEF OpenAIEnd
  <1>3. ASSUME NEW p \in OpenAIPrefixes, starts_with(t, at, p), at + Len(p) = Body(t, at),
               Len(p) = 2 => ~\E r \in Reserved : starts_with(t, at + 2, r)
        PROVE  /\ OpenAIEnd(t, at) \in Ends(t, at + Len(p))
               /\ OpenAIFits(t, at, p, OpenAIEnd(t, at))
    BY <1>2, <1>3 DEF OpenAIFits, OpenAIFound
  <1>4. CASE starts_with(t, at + 2, <<"proj", "-">>)
    <2>1. PICK p \in OpenAIPrefixes : p = <<"sk", "-", "proj", "-">>
      BY DEF OpenAIPrefixes
    <2>2. starts_with(t, at, p)
      BY <1>4, <2>1, OpenAIStarts DEF OpenAIFound
    <2>3. at + Len(p) = Body(t, at) /\ Len(p) # 2
      BY <1>4, <2>1, OpenAIPrefixLengths DEF Body, Infixed
    <2> QED BY <1>3, <2>2, <2>3
  <1>5. CASE starts_with(t, at + 2, <<"svcacct", "-">>)
    <2>1. PICK p \in OpenAIPrefixes : p = <<"sk", "-", "svcacct", "-">>
      BY DEF OpenAIPrefixes
    <2>2. starts_with(t, at, p)
      BY <1>5, <2>1, OpenAIStarts DEF OpenAIFound
    <2>3. at + Len(p) = Body(t, at) /\ Len(p) # 2
      BY <1>5, <2>1, OpenAIPrefixLengths DEF Body, Infixed
    <2> QED BY <1>3, <2>2, <2>3
  <1>6. CASE ~Infixed(t, at)
    <2>1. PICK p \in OpenAIPrefixes : p = <<"sk", "-">>
      BY DEF OpenAIPrefixes
    <2>2. starts_with(t, at, p)
      BY <2>1 DEF OpenAIFound
    <2>3. at + Len(p) = Body(t, at)
      BY <1>6, <2>1, OpenAIPrefixLengths DEF Body
    <2>4. ~\E r \in Reserved : starts_with(t, at + 2, r)
      BY <1>6 DEF Reserved, OpenAIFound, Infixed
    <2> QED BY <1>3, <2>2, <2>3, <2>4
  <1> QED BY <1>4, <1>5, <1>6 DEF Infixed

LEMMA OpenAIFitsFound ==
    ASSUME NEW t \in Seq(STRING), NEW at \in DOMAIN t, NEW p \in OpenAIPrefixes,
           NEW j \in Ends(t, at + Len(p)), starts_with(t, at, p), OpenAIFits(t, at, p, j)
    PROVE  OpenAIFound(t, at) /\ j = OpenAIEnd(t, at)
  <1>1. /\ starts_with(t, at, <<"sk", "-">>) /\ at + Len(p) = Body(t, at)
        /\ Infixed(t, at) \/ ~starts_with(t, at + 2, <<"ant", "-">>)
    <2>1. CASE p = <<"sk", "-">>
      <3>1. ~\E r \in Reserved : starts_with(t, at + 2, r)
        BY <2>1, OpenAIPrefixLengths DEF OpenAIFits
      <3>2. /\ ~starts_with(t, at + 2, <<"proj", "-">>) /\ ~starts_with(t, at + 2, <<"svcacct", "-">>)
            /\ ~starts_with(t, at + 2, <<"ant", "-">>)
        BY <3>1 DEF Reserved
      <3> QED BY <2>1, <3>2, OpenAIPrefixLengths DEF Body, Infixed
    <2>2. CASE p = <<"sk", "-", "proj", "-">>
      BY <2>2, OpenAIStarts, OpenAIPrefixLengths DEF Body, Infixed
    <2>3. CASE p = <<"sk", "-", "svcacct", "-">>
      BY <2>3, OpenAIStarts, OpenAIPrefixLengths DEF Body, Infixed
    <2> QED BY <2>1, <2>2, <2>3 DEF OpenAIPrefixes
  <1>2. Body(t, at) \in 1 .. (Len(t) + 1)
    BY <1>1, OpenAIStarts DEF Body, Infixed
  <1>3. j = OpenAIEnd(t, at)
    BY <1>1, <1>2, WholeRunIs DEF OpenAIFits, OpenAIEnd
  <1>4. OpenAIEnd(t, at) - Body(t, at) >= Lengths.opaque
    BY <1>1, <1>3 DEF OpenAIFits
  <1> QED BY <1>1, <1>3, <1>4 DEF OpenAIFound

LEMMA OpenAITokens ==
    ASSUME NEW t \in Seq(STRING), NEW s, s.kind = "openai"
    PROVE  TokenPass(s, t, is_alnum_dash, OpenAIEnds(t))
  <1> DEFINE ends == OpenAIEnds(t)
  <1>1. Before(s) = is_alnum_dash /\ Behind(s) = is_alnum_dash
    BY DEF Before, Behind
  <1>2. Shapes(s, t) = OpenAIShapes(t) /\ \A at : attempt(s, t, at) = scan_openai(t, at)
    BY DEF Shapes, attempt
  <1>3. ASSUME NEW at \in DOMAIN t
        PROVE  /\ ends[at] \subseteq (at + 1) .. (Len(t) + 1)
               /\ \A e, f \in ends[at] : e = f
               /\ scan_openai(t, at) = UNION {bounded(t, at, e, is_alnum_dash) : e \in ends[at]}
    <2>1. ends[at] \subseteq (at + 1) .. (Len(t) + 1) /\ \A e, f \in ends[at] : e = f
      <3>1. PICK e : e = OpenAIEnd(t, at)
        OBVIOUS
      <3>2. /\ ends[at] = IF OpenAIFound(t, at) THEN {e} ELSE {}
            /\ OpenAIFound(t, at) => e \in (at + 1) .. (Len(t) + 1)
        BY <3>1, OpenAIEndsAre
      <3> HIDE DEF ends
      <3> QED BY <3>2
    <2>2. CASE starts_with(t, at, <<"sk", "-">>)
      <3>1. ends[at] = branch_end(t, at + 2)
        BY <2>2 DEF OpenAIEnds
      <3> HIDE DEF ends
      <3> QED BY <2>1, <2>2, <3>1 DEF scan_openai
    <2>3. CASE ~starts_with(t, at, <<"sk", "-">>)
      <3>1. ends[at] = {}
        BY <2>3 DEF OpenAIEnds
      <3> HIDE DEF ends
      <3> QED BY <2>1, <2>3, <3>1 DEF scan_openai
    <2> QED BY <2>2, <2>3
  <1>4. ASSUME NEW at \in DOMAIN t, NEW e \in ends[at] PROVE Token(at, e) \in OpenAIShapes(t)
    <2>1. OpenAIFound(t, at) /\ e = OpenAIEnd(t, at)
      <3>1. ends[at] = IF OpenAIFound(t, at) THEN {OpenAIEnd(t, at)} ELSE {}
        BY OpenAIEndsAre
      <3> HIDE DEF ends
      <3> QED BY <1>4, <3>1
    <2>2. \E p \in OpenAIPrefixes : /\ e \in Ends(t, at + Len(p)) /\ starts_with(t, at, p)
                                    /\ OpenAIFits(t, at, p, e)
      BY <2>1, OpenAIFoundFits
    <2> QED BY <2>2, OpenAIShape
  <1>5. ASSUME NEW shape \in OpenAIShapes(t)
        PROVE  \E at \in DOMAIN t : \E e \in ends[at] : shape = Token(at, e)
    <2>1. PICK i \in DOMAIN t : \E p \in OpenAIPrefixes : \E j \in Ends(t, i + Len(p)) :
             starts_with(t, i, p) /\ OpenAIFits(t, i, p, j) /\ shape = Token(i, j)
      BY OpenAIShape
    <2>2. PICK p \in OpenAIPrefixes : \E j \in Ends(t, i + Len(p)) :
             starts_with(t, i, p) /\ OpenAIFits(t, i, p, j) /\ shape = Token(i, j)
      BY <2>1
    <2>3. PICK j \in Ends(t, i + Len(p)) :
             starts_with(t, i, p) /\ OpenAIFits(t, i, p, j) /\ shape = Token(i, j)
      BY <2>2
    <2>4. OpenAIFound(t, i) /\ j = OpenAIEnd(t, i)
      BY <2>3, OpenAIFitsFound
    <2>5. j \in ends[i]
      BY <2>4, OpenAIEndsAre
    <2> QED BY <2>3, <2>5
  <1> HIDE DEF ends
  <1>6. TokenPass(s, t, is_alnum_dash, ends)
    BY <1>1, <1>2, <1>3, <1>4, <1>5 DEF TokenPass
  <1> QED BY <1>6 DEF ends

---------------------------------------------------------------------------
(* JSON web tokens. *)

LEMMA JwtSymbols ==
    /\ "." \notin is_base64_url /\ "eyJ" \in is_base64_url
    /\ "." # "end of text" /\ "eyJ" # "end of text"
  BY DEF is_base64_url, is_alnum_dash, is_alnum_underscore, is_alnum, is_upper_alnum, Upper, Digit, Segments

\* A segment: eyJ, a tail of base64url, and the dot behind it.
Segment(t, i, dot) ==
    /\ i \in At(t, "eyJ") /\ dot \in At(t, ".") /\ i < dot
    /\ dot - (i + 1) >= Lengths.tail /\ All(t, i + 1, dot, is_base64_url)

LEMMA SegmentIs ==
    ASSUME NEW t \in Seq(STRING), NEW i \in Nat \ {0}, NEW dot
    PROVE  dot \in segment_end(t, i) <=> Segment(t, i, dot)
  <1>1. Len(t) \in Nat /\ DOMAIN t = 1 .. Len(t)
    OBVIOUS
  <1>2. PICK n \in Nat \ {0} : n = Lengths.tail
    BY LengthsAre
  <1>3. at_or_none(t, i) = "eyJ" <=> i \in At(t, "eyJ")
    BY JwtSymbols DEF at_or_none, At
  <1>4. at_or_none(t, dot) = "." <=> dot \in At(t, ".")
    BY JwtSymbols DEF at_or_none, At
  <1>5. dot \in segment_end(t, i) <=>
          /\ dot = run_end(t, i + 1, is_base64_url)
          /\ i \in At(t, "eyJ") /\ dot - (i + 1) >= n /\ dot \in At(t, ".")
    BY <1>2, <1>3, <1>4 DEF segment_end
  <1>6. ASSUME i \in At(t, "eyJ"), dot \in At(t, ".")
        PROVE  dot = run_end(t, i + 1, is_base64_url) <=> i < dot /\ All(t, i + 1, dot, is_base64_url)
    <2>1. i + 1 \in 1 .. (Len(t) + 1) /\ dot \in 1 .. Len(t) /\ t[dot] = "."
      BY <1>1, <1>6 DEF At
    <2>2. dot \in Ends(t, i + 1) /\ WholeRun(t, i + 1, dot, is_base64_url)
            <=> dot = run_end(t, i + 1, is_base64_url)
      BY <2>1, WholeRunIs
    <2>3. dot \in Ends(t, i + 1) <=> i < dot
      BY <1>1, <2>1 DEF Ends
    <2>4. WholeRun(t, i + 1, dot, is_base64_url) <=> All(t, i + 1, dot, is_base64_url)
      BY <2>1, JwtSymbols DEF WholeRun
    <2> QED BY <2>2, <2>3, <2>4
  <1> QED BY <1>2, <1>5, <1>6 DEF Segment

\* A token: two segments and a signature, whole.
Jwt(t, i, one, two, e) ==
    /\ Segment(t, i, one) /\ Segment(t, one + 1, two)
    /\ e \in Ends(t, two + 1) /\ e - (two + 1) >= Lengths.signature
    /\ WholeRun(t, two + 1, e, is_base64_url)

LEMMA JwtMatch ==
    ASSUME NEW t \in Seq(STRING), NEW i \in DOMAIN t, NEW e
    PROVE  e \in match_jwt_at(t, i) <=> \E one, two \in DOMAIN t : Jwt(t, i, one, two, e)
  <1>1. Len(t) \in Nat /\ DOMAIN t = 1 .. Len(t) /\ i \in Nat \ {0}
    OBVIOUS
  <1>2. ASSUME NEW one, NEW two, Segment(t, i, one), Segment(t, one + 1, two)
        PROVE  /\ one \in DOMAIN t /\ two \in DOMAIN t /\ two + 1 \in 1 .. (Len(t) + 1)
               /\ one \in segment_end(t, i) /\ two \in segment_end(t, one + 1)
    <2>1. one \in DOMAIN t /\ two \in DOMAIN t
      BY <1>2 DEF Segment, At
    <2>2. one + 1 \in Nat \ {0}
      BY <1>1, <2>1
    <2> QED BY <1>1, <1>2, <2>1, <2>2, SegmentIs
  <1>3. ASSUME NEW one \in segment_end(t, i), NEW two \in segment_end(t, one + 1)
        PROVE  Segment(t, i, one) /\ Segment(t, one + 1, two)
    <2>1. Segment(t, i, one)
      BY <1>1, <1>3, SegmentIs
    <2>2. one \in DOMAIN t
      BY <2>1 DEF Segment, At
    <2>3. one + 1 \in Nat \ {0}
      BY <1>1, <2>2
    <2> QED BY <1>3, <2>1, <2>3, SegmentIs
  <1>4. ASSUME NEW one \in DOMAIN t, NEW two \in DOMAIN t, Jwt(t, i, one, two, e)
        PROVE  e \in match_jwt_at(t, i)
    <2>1. /\ two + 1 \in 1 .. (Len(t) + 1)
          /\ one \in segment_end(t, i) /\ two \in segment_end(t, one + 1)
      BY <1>2, <1>4 DEF Jwt
    <2>2. e = run_end(t, two + 1, is_base64_url)
      BY <1>4, <2>1, WholeRunIs DEF Jwt
    <2>3. e \in 1 .. (Len(t) + 1)
      BY <1>1, <1>4, <2>1 DEF Jwt, Ends
    <2> QED BY <1>4, <2>1, <2>2, <2>3 DEF Jwt, match_jwt_at
  <1>5. ASSUME e \in match_jwt_at(t, i)
        PROVE  \E one, two \in DOMAIN t : Jwt(t, i, one, two, e)
    <2>1. PICK one \in segment_end(t, i) : \E two \in segment_end(t, one + 1) :
             /\ e = run_end(t, two + 1, is_base64_url) /\ e - (two + 1) >= Lengths.signature
      BY <1>5 DEF match_jwt_at
    <2>2. PICK two \in segment_end(t, one + 1) :
             /\ e = run_end(t, two + 1, is_base64_url) /\ e - (two + 1) >= Lengths.signature
      BY <2>1
    <2>3. Segment(t, i, one) /\ Segment(t, one + 1, two)
      BY <1>3
    <2>4. two + 1 \in 1 .. (Len(t) + 1) /\ one \in DOMAIN t /\ two \in DOMAIN t
      BY <1>2, <2>3
    <2>5. e \in Ends(t, two + 1) /\ WholeRun(t, two + 1, e, is_base64_url)
      BY <2>2, <2>4, WholeRunIs
    <2> QED BY <2>2, <2>3, <2>4, <2>5 DEF Jwt
  <1> QED BY <1>4, <1>5

LEMMA JwtOnce ==
    ASSUME NEW t \in Seq(STRING), NEW i \in DOMAIN t,
           NEW e \in match_jwt_at(t, i), NEW f \in match_jwt_at(t, i)
    PROVE  e = f /\ e \in (i + 1) .. (Len(t) + 1)
  <1>1. Len(t) \in Nat /\ DOMAIN t = 1 .. Len(t) /\ i \in Nat \ {0}
    OBVIOUS
  <1>2. PICK one \in DOMAIN t, two \in DOMAIN t : Jwt(t, i, one, two, e)
    BY JwtMatch
  <1>3. \A x, y \in segment_end(t, i) : x = y
    BY DEF segment_end
  <1>4. \A x, y \in segment_end(t, one + 1) : x = y
    BY DEF segment_end
  <1>5. PICK a \in segment_end(t, i) : \E b \in segment_end(t, a + 1) : e = run_end(t, b + 1, is_base64_url)
    BY DEF match_jwt_at
  <1>6. PICK c \in segment_end(t, i) : \E b \in segment_end(t, c + 1) : f = run_end(t, b + 1, is_base64_url)
    BY DEF match_jwt_at
  <1>7. a = one /\ c = one
    <2>1. one \in segment_end(t, i)
      BY <1>1, <1>2, SegmentIs DEF Jwt
    <2> QED BY <1>3, <2>1
  <1>8. e = f
    BY <1>4, <1>5, <1>6, <1>7
  <1>9. one > i /\ two > one + 1 /\ e \in (two + 1) .. (Len(t) + 1) /\ one \in Nat /\ two \in Nat
    BY <1>1, <1>2 DEF Jwt, Segment, Ends
  <1> QED BY <1>1, <1>8, <1>9

\* The grammar says the same, with the run of a segment counted from its eyJ.
JwtTriple(t, x) ==
    /\ x[1] < x[2] /\ x[2] + 1 < x[3] /\ t[x[2] + 1] = "eyJ"
    /\ x[2] - (x[1] + 1) >= Lengths.tail /\ All(t, x[1], x[2], is_base64_url)
    /\ x[3] - (x[2] + 2) >= Lengths.tail /\ All(t, x[2] + 1, x[3], is_base64_url)

LEMMA JwtTripleIs ==
    ASSUME NEW t \in Seq(STRING), NEW i \in DOMAIN t, NEW one \in DOMAIN t, NEW two \in DOMAIN t,
           NEW x, x = <<i, one, two>>
    PROVE  Segment(t, i, one) /\ Segment(t, one + 1, two) <=>
             x \in At(t, "eyJ") \X At(t, ".") \X At(t, ".") /\ JwtTriple(t, x)
  <1>1. Len(t) \in Nat /\ DOMAIN t = 1 .. Len(t) /\ i \in Nat \ {0} /\ one \in Nat /\ two \in Nat
    OBVIOUS
  <1>2. x[1] = i /\ x[2] = one /\ x[3] = two
    OBVIOUS
  <1>3. ASSUME NEW k \in DOMAIN t, NEW dot \in DOMAIN t, k \in At(t, "eyJ")
        PROVE  k < dot /\ All(t, k + 1, dot, is_base64_url) <=> k < dot /\ All(t, k, dot, is_base64_url)
    <2>1. t[k] \in is_base64_url
      BY <1>3, JwtSymbols DEF At
    <2>2. k \in Nat /\ dot \in Nat
      BY <1>1
    <2> QED BY <2>1, <2>2 DEF All
  <1>4. one + 1 < two => one + 1 \in DOMAIN t
    BY <1>1
  <1>5. one + 1 \in At(t, "eyJ") <=> one + 1 \in DOMAIN t /\ t[one + 1] = "eyJ"
    BY DEF At
  <1>6. two - (one + 1 + 1) = two - (one + 2)
    BY <1>1
  <1>7. x \in At(t, "eyJ") \X At(t, ".") \X At(t, ".") <=>
          i \in At(t, "eyJ") /\ one \in At(t, ".") /\ two \in At(t, ".")
    OBVIOUS
  <1>8. JwtTriple(t, x) <=>
          /\ i < one /\ one + 1 < two /\ t[one + 1] = "eyJ"
          /\ one - (i + 1) >= Lengths.tail /\ All(t, i, one, is_base64_url)
          /\ two - (one + 2) >= Lengths.tail /\ All(t, one + 1, two, is_base64_url)
    BY <1>2 DEF JwtTriple
  <1>9. Segment(t, i, one) <=>
          /\ i \in At(t, "eyJ") /\ one \in At(t, ".") /\ i < one
          /\ one - (i + 1) >= Lengths.tail /\ All(t, i, one, is_base64_url)
    BY <1>3 DEF Segment
  <1>10. Segment(t, one + 1, two) <=>
          /\ one + 1 \in At(t, "eyJ") /\ two \in At(t, ".") /\ one + 1 < two
          /\ two - (one + 2) >= Lengths.tail /\ All(t, one + 1, two, is_base64_url)
    <2>1. Segment(t, one + 1, two) <=>
            /\ one + 1 \in At(t, "eyJ") /\ two \in At(t, ".") /\ one + 1 < two
            /\ two - (one + 2) >= Lengths.tail /\ All(t, one + 1 + 1, two, is_base64_url)
      BY <1>6 DEF Segment
    <2> QED BY <1>3, <1>4, <2>1
  <1> QED BY <1>4, <1>5, <1>7, <1>8, <1>9, <1>10

LEMMA JwtShape ==
    ASSUME NEW t \in Seq(STRING), NEW shape
    PROVE  shape \in JwtShapes(t) <=>
             \E i \in DOMAIN t : \E e \in match_jwt_at(t, i) : shape = Token(i, e)
  <1> DEFINE of(x) == {Token(x[1], j) : j \in {j \in Ends(t, x[3] + 1) :
                                                 /\ j - (x[3] + 1) >= Lengths.signature
                                                 /\ WholeRun(t, x[3] + 1, j, is_base64_url)}}
             X == {x \in At(t, "eyJ") \X At(t, ".") \X At(t, ".") : JwtTriple(t, x)}
  <1>1. JwtShapes(t) = UNION {of(x) : x \in X}
    BY DEF JwtShapes, JwtTriple
  <1>2. ASSUME NEW i \in DOMAIN t, NEW e \in match_jwt_at(t, i)
        PROVE  Token(i, e) \in JwtShapes(t)
    <2>1. PICK one \in DOMAIN t, two \in DOMAIN t : Jwt(t, i, one, two, e)
      BY JwtMatch
    <2>2. PICK x : x = <<i, one, two>>
      OBVIOUS
    <2>3. x \in X
      BY <2>1, <2>2, JwtTripleIs DEF Jwt
    <2>4. x[1] = i /\ x[3] = two
      BY <2>2
    <2>5. Token(i, e) \in of(x)
      BY <2>1, <2>4 DEF Jwt
    <2> HIDE DEF of, X
    <2> QED BY <1>1, <2>3, <2>5
  <1>3. ASSUME shape \in JwtShapes(t)
        PROVE  \E i \in DOMAIN t : \E e \in match_jwt_at(t, i) : shape = Token(i, e)
    <2>1. PICK x \in X : shape \in of(x)
      <3> HIDE DEF of, X
      <3> QED BY <1>1, <1>3
    <2>2. PICK i, one, two : /\ i \in At(t, "eyJ") /\ one \in At(t, ".") /\ two \in At(t, ".")
                             /\ x = <<i, one, two>>
      BY <2>1
    <2>3. i \in DOMAIN t /\ one \in DOMAIN t /\ two \in DOMAIN t
      BY <2>2 DEF At
    <2>4. Segment(t, i, one) /\ Segment(t, one + 1, two)
      BY <2>1, <2>2, <2>3, JwtTripleIs
    <2>5. x[1] = i /\ x[3] = two
      BY <2>2
    <2>6. PICK e \in Ends(t, two + 1) : /\ shape = Token(i, e) /\ e - (two + 1) >= Lengths.signature
                                        /\ WholeRun(t, two + 1, e, is_base64_url)
      BY <2>1, <2>5
    <2>7. Jwt(t, i, one, two, e)
      BY <2>4, <2>6 DEF Jwt
    <2>8. e \in match_jwt_at(t, i)
      BY <2>3, <2>7, JwtMatch
    <2> QED BY <2>3, <2>6, <2>8
  <1> QED BY <1>2, <1>3

JwtEnds(t) == [at \in DOMAIN t |-> match_jwt_at(t, at)]

LEMMA JwtTokens ==
    ASSUME NEW t \in Seq(STRING), NEW s, s.kind = "jwt"
    PROVE  TokenPass(s, t, is_token_byte, JwtEnds(t))
  <1>1. Before(s) = is_token_byte /\ Behind(s) = is_token_byte
    BY DEF Before, Behind
  <1>2. Shapes(s, t) = JwtShapes(t) /\ \A at : attempt(s, t, at) = scan_jwt(t, at)
    BY DEF Shapes, attempt
  <1>3. \A at \in DOMAIN t : JwtEnds(t)[at] = match_jwt_at(t, at)
    BY DEF JwtEnds
  <1>4. ASSUME NEW at \in DOMAIN t
        PROVE  /\ match_jwt_at(t, at) \subseteq (at + 1) .. (Len(t) + 1)
               /\ \A e, f \in match_jwt_at(t, at) : e = f
               /\ attempt(s, t, at) = UNION {bounded(t, at, e, is_token_byte) : e \in match_jwt_at(t, at)}
               /\ \A e \in match_jwt_at(t, at) : Token(at, e) \in Shapes(s, t)
    <2>1. \A e, f \in match_jwt_at(t, at) : e = f /\ e \in (at + 1) .. (Len(t) + 1)
      BY JwtOnce
    <2>2. \A e \in match_jwt_at(t, at) : Token(at, e) \in Shapes(s, t)
      BY <1>2, JwtShape
    <2>3. attempt(s, t, at) = UNION {bounded(t, at, e, is_token_byte) : e \in match_jwt_at(t, at)}
      BY <1>2 DEF scan_jwt
    <2> QED BY <2>1, <2>2, <2>3
  <1>5. \A shape \in Shapes(s, t) : \E at \in DOMAIN t : \E e \in match_jwt_at(t, at) : shape = Token(at, e)
    BY <1>2, JwtShape
  <1>6. PICK ends : ends = JwtEnds(t)
    OBVIOUS
  <1>7. \A at \in DOMAIN t : ends[at] = match_jwt_at(t, at)
    BY <1>3, <1>6
  <1>8. TokenPass(s, t, is_token_byte, ends)
    BY <1>1, <1>4, <1>5, <1>7 DEF TokenPass
  <1> QED BY <1>6, <1>8

\* The passes whose matches are tokens: all but those of the bearer, otpauth, connection-string and
\* contextual detectors.
TokenPasses == RunPasses \cup {Kind("fine_grained"), Kind("openai"), Kind("jwt")}

LEMMA TokenPassesAgree ==
    ASSUME NEW t \in Seq(STRING), NEW s \in TokenPasses
    PROVE  Sensible(s, t) /\ Agrees(s, t)
  <1>1. CASE s \in RunPasses
    BY <1>1, RunsAgree
  <1>2. CASE s = Kind("fine_grained")
    <2>1. PICK ends : ends = FineGrainedEnds(t)
      OBVIOUS
    <2>2. PICK boundary : boundary = is_alnum_underscore
      OBVIOUS
    <2>3. s.kind = "fine_grained"
      BY <1>2 DEF Kind
    <2>4. TokenPass(s, t, boundary, ends)
      BY <2>1, <2>2, <2>3, FineGrainedTokens
    <2> QED BY <2>4, TokensAgree
  <1>3. CASE s = Kind("openai")
    <2>1. PICK ends : ends = OpenAIEnds(t)
      OBVIOUS
    <2>2. PICK boundary : boundary = is_alnum_dash
      OBVIOUS
    <2>3. s.kind = "openai"
      BY <1>3 DEF Kind
    <2>4. TokenPass(s, t, boundary, ends)
      BY <2>1, <2>2, <2>3, OpenAITokens
    <2> QED BY <2>4, TokensAgree
  <1>4. CASE s = Kind("jwt")
    <2>1. PICK ends : ends = JwtEnds(t)
      OBVIOUS
    <2>2. PICK boundary : boundary = is_token_byte
      OBVIOUS
    <2>3. s.kind = "jwt"
      BY <1>4 DEF Kind
    <2>4. TokenPass(s, t, boundary, ends)
      BY <2>1, <2>2, <2>3, JwtTokens
    <2> QED BY <2>4, TokensAgree
  <1> QED BY <1>1, <1>2, <1>3, <1>4 DEF TokenPasses

---------------------------------------------------------------------------
(* The attempts of the other passes move on, and report ranges of the text. *)

LEMMA GreatestOf ==
    ASSUME NEW n \in Nat, NEW S, S \subseteq 0 .. n, S # {}
    PROVE  Max(S) \in S /\ \A x \in S : x <= Max(S)
  <1> DEFINE D == {n - x : x \in S}
  <1>1. D \subseteq Nat /\ D # {}
    <2>1. \A x \in S : x \in Nat /\ x <= n
      OBVIOUS
    <2>2. \A x \in S : n - x \in Nat
      BY <2>1
    <2> QED BY <2>2
  <1>2. PICK d \in D : \A x \in D : d <= x
    <2> HIDE DEF D
    <2> QED BY <1>1, LeastElement
  <1>3. PICK m \in S : d = n - m
    BY <1>2
  <1>4. \A x \in S : x <= m
    <2>1. SUFFICES ASSUME NEW x \in S PROVE x <= m
      OBVIOUS
    <2>2. n - x \in D
      OBVIOUS
    <2>3. n - m <= n - x
      BY <1>2, <1>3, <2>2
    <2> QED BY <2>3
  <1>5. m \in S /\ \A x \in S : m >= x
    BY <1>4
  <1>6. Max(S) \in S /\ \A x \in S : Max(S) >= x
    BY <1>5 DEF Max
  <1> QED BY <1>6

\* A symbol read at or behind the end of the text is none of the text's.
LEMMA InText ==
    ASSUME NEW t, NEW i, NEW S, at_or_none(t, i) \in S, "end of text" \notin S
    PROVE  i \in DOMAIN t /\ t[i] \in S
  BY DEF at_or_none

LEMMA EndOfText ==
    /\ "end of text" \notin is_quote /\ "end of text" \notin is_name_start
    /\ "end of text" \notin {"=", ":"} /\ "end of text" \notin {"authorization"}
    /\ "end of text" \notin {":"} /\ "end of text" \notin {"basic", "token"}
    /\ "end of text" \notin {"="} /\ "end of text" \notin {"bearer"} /\ "end of text" \notin {"?"}
  <1>1. "end of text" \notin is_name_char
    <2>1. DOMAIN LowerCase = {"Key", "KEY", "API", "Token", "Auth"}
      BY DEF LowerCase
    <2>2. "end of text" \notin NameSegments
      BY <2>1 DEF NameSegments
    <2>3. "end of text" \notin is_alnum_dash_dot
      BY DEF is_alnum_dash_dot, is_alnum_dash, is_alnum_underscore, is_alnum, is_upper_alnum, Upper,
             Digit, Segments
    <2> QED BY <2>2, <2>3 DEF is_name_char
  <1> QED BY <1>1 DEF is_quote, is_name_start

LEMMA RangeIs ==
    ASSUME NEW t \in Seq(STRING), NEW a \in Nat, NEW b \in Nat, 1 <= a, a < b, b <= Len(t) + 1
    PROVE  ByteRange(a, b) \in Ranges(t)
  BY DEF ByteRange, Ranges

LEMMA FoundIs ==
    ASSUME NEW t, NEW r \in Ranges(t)
    PROVE  <<r>> \in Seq(Ranges(t)) /\ <<>> \in Seq(Ranges(t))
  OBVIOUS

---------------------------------------------------------------------------
(* Contextual assignments. *)

LEMMA SkipQuote ==
    ASSUME NEW t \in Seq(STRING), NEW i \in 1 .. (Len(t) + 1)
    PROVE  skip_quote(t, i) \in i .. (Len(t) + 1)
  <1>1. Len(t) \in Nat /\ DOMAIN t = 1 .. Len(t)
    OBVIOUS
  <1>2. at_or_none(t, i) \in is_quote => i \in DOMAIN t
    BY InText, EndOfText
  <1> QED BY <1>1, <1>2 DEF skip_quote

LEMMA PrefixEnds ==
    ASSUME NEW t \in Seq(STRING), NEW start \in 1 .. (Len(t) + 1),
           NEW prefix \in parse_name_and_operator(t, start)
    PROVE  prefix.end \in (start + 1) .. (Len(t) + 1)
  <1> DEFINE from == skip_quote(t, start)
             to == run_end(t, from, is_name_char)
             operator == run_end(t, skip_quote(t, to), is_js_whitespace)
  <1>1. Len(t) \in Nat /\ DOMAIN t = 1 .. Len(t)
    OBVIOUS
  <1>2. from \in start .. (Len(t) + 1)
    BY SkipQuote
  <1>3. to \in from .. (Len(t) + 1)
    <2>1. from \in 1 .. (Len(t) + 1)
      BY <1>1, <1>2
    <2> HIDE DEF from
    <2> QED BY <2>1, RunEndRange
  <1>4. skip_quote(t, to) \in to .. (Len(t) + 1)
    <2>1. to \in 1 .. (Len(t) + 1)
      BY <1>1, <1>2, <1>3
    <2> HIDE DEF to
    <2> QED BY <2>1, SkipQuote
  <1>5. operator \in skip_quote(t, to) .. (Len(t) + 1)
    <2>1. PICK k : k = skip_quote(t, to)
      OBVIOUS
    <2>2. k \in 1 .. (Len(t) + 1)
      <3> HIDE DEF from, to
      <3> QED BY <1>1, <1>2, <1>3, <1>4, <2>1
    <2>3. run_end(t, k, is_js_whitespace) \in k .. (Len(t) + 1)
      BY <2>2, RunEndRange
    <2> QED BY <2>1, <2>3
  <1>6. at_or_none(t, operator) \in {"=", ":"} /\ prefix.end = run_end(t, operator + 1, is_js_whitespace)
    BY DEF parse_name_and_operator
  <1> HIDE DEF operator
  <1>7. operator \in DOMAIN t
    BY <1>6, InText, EndOfText
  <1>8. prefix.end \in (operator + 1) .. (Len(t) + 1)
    BY <1>1, <1>6, <1>7, RunEndRange
  <1>9. operator \in Nat /\ operator >= start
    <2> HIDE DEF from, to
    <2>1. PICK k : k = skip_quote(t, to)
      OBVIOUS
    <2> QED BY <1>1, <1>2, <1>3, <1>4, <1>5, <2>1
  <1> QED BY <1>1, <1>8, <1>9

LEMMA AssignmentValues ==
    ASSUME NEW t \in Seq(STRING), NEW start \in 1 .. (Len(t) + 1), NEW v \in assignment_value(t, start),
           Len(SubSeq(t, v.start, v.end - 1)) \in MIN_CONTEXT_VALUE_LENGTH .. MAX_CONTEXT_VALUE_LENGTH
    PROVE  v \in Ranges(t)
  <1>1. Len(t) \in Nat /\ DOMAIN t = 1 .. Len(t) /\ MIN_CONTEXT_VALUE_LENGTH \in Nat \ {0}
    BY ContextAssumption
  <1>2. ASSUME at_or_none(t, start) \in is_quote, NEW w \in quoted_assignment_value(t, start)
        PROVE  \E close \in (start + 1) .. Len(t) : w = ByteRange(start + 1, close)
    <2>1. PICK quotes \in SUBSET ((start + 1) .. Len(t)) :
             quotes # {} /\ w = ByteRange(start + 1, Min(quotes))
      BY <1>2 DEF quoted_assignment_value
    <2>2. Min(quotes) \in quotes
      <3>1. PICK n \in Nat : n = Len(t)
        BY <1>1
      <3>2. quotes \subseteq 0 .. n
        BY <3>1
      <3> QED BY <2>1, <3>2, LeastOf
    <2> QED BY <2>1, <2>2
  <1>3. ASSUME NEW w \in unquoted_assignment_value(t, start)
        PROVE  \E end \in start .. (Len(t) + 1) : w = ByteRange(start, end)
    <2> DEFINE ends == {i \in start .. (Len(t) + 1) : at_boundary(t, i, is_value_boundary \cup is_quote)}
    <2>1. w = ByteRange(start, Min(ends))
      BY <1>3 DEF unquoted_assignment_value
    <2>2. Len(t) + 1 \in ends
      BY <1>1 DEF at_boundary
    <2>3. PICK n \in Nat : n = Len(t) + 1
      BY <1>1
    <2>4. ends \subseteq 0 .. n /\ ends \subseteq start .. (Len(t) + 1)
      BY <1>1, <2>3
    <2> HIDE DEF ends
    <2>5. Min(ends) \in ends
      BY <2>2, <2>4, LeastOf
    <2> QED BY <2>1, <2>4, <2>5
  <1>4. PICK a \in Nat, b \in Nat : v = ByteRange(a, b) /\ 1 <= a /\ b <= Len(t) + 1
    BY <1>1, <1>2, <1>3 DEF assignment_value
  <1>5. v.start = a /\ v.end = b
    BY <1>4 DEF ByteRange
  <1>6. a < b
    <2>1. SUFFICES ASSUME b <= a PROVE FALSE
      BY <1>4
    <2>2. SubSeq(t, a, b - 1) = <<>>
      BY <1>4, <2>1
    <2>3. Len(SubSeq(t, a, b - 1)) = 0
      <3>1. Len(<<>>) = 0
        OBVIOUS
      <3> QED BY ONLY <2>2, <3>1
    <2> QED BY <1>1, <1>5, <2>3
  <1> QED BY <1>4, <1>6, RangeIs

LEMMA AssignmentSensible ==
    ASSUME NEW t \in Seq(STRING), NEW s, s.kind = "assignment"
    PROVE  Sensible(s, t)
  <1>1. Len(t) \in Nat /\ DOMAIN t = 1 .. Len(t)
    OBVIOUS
  <1>2. SUFFICES ASSUME NEW at \in DOMAIN t, NEW m \in scan_assignment(t, at)
                 PROVE  m.resume \in (at + 1) .. (Len(t) + 1) /\ m.found \in Seq(Ranges(t))
    BY DEF Sensible, attempt
  <1>3. PICK prefix \in try_match_assignment_prefix(t, at) :
          \E secrets :
            /\ \A v \in secrets : /\ v \in assignment_value(t, prefix.end)
                                  /\ Len(SubSeq(t, v.start, v.end - 1))
                                        \in MIN_CONTEXT_VALUE_LENGTH .. MAX_CONTEXT_VALUE_LENGTH
            /\ m = Raw(prefix.end, IF secrets = {} THEN <<>> ELSE <<CHOOSE v \in secrets : TRUE>>)
    BY DEF scan_assignment, assignment_is_secret
  <1>4. PICK secrets :
            /\ \A v \in secrets : /\ v \in assignment_value(t, prefix.end)
                                  /\ Len(SubSeq(t, v.start, v.end - 1))
                                        \in MIN_CONTEXT_VALUE_LENGTH .. MAX_CONTEXT_VALUE_LENGTH
            /\ m = Raw(prefix.end, IF secrets = {} THEN <<>> ELSE <<CHOOSE v \in secrets : TRUE>>)
    BY <1>3
  <1>5. prefix \in parse_name_and_operator(t, at) \/ prefix \in parse_name_and_operator(t, at + 1)
    BY <1>3 DEF try_match_assignment_prefix
  <1>6. prefix.end \in (at + 1) .. (Len(t) + 1)
    <2>1. CASE prefix \in parse_name_and_operator(t, at)
      BY <1>1, <2>1, PrefixEnds
    <2>2. CASE prefix \in parse_name_and_operator(t, at + 1)
      <3>1. at + 1 \in 1 .. (Len(t) + 1)
        BY <1>1
      <3>2. prefix.end \in (at + 1 + 1) .. (Len(t) + 1)
        BY <2>2, <3>1, PrefixEnds
      <3> QED BY <1>1, <3>2
    <2> QED BY <1>5, <2>1, <2>2
  <1>7. \A v \in secrets : v \in Ranges(t)
    <2>1. prefix.end \in 1 .. (Len(t) + 1)
      BY <1>1, <1>6
    <2> QED BY <1>4, <2>1, AssignmentValues
  <1>8. m.resume = prefix.end /\ m.found = IF secrets = {} THEN <<>> ELSE <<CHOOSE v \in secrets : TRUE>>
    BY <1>4 DEF Raw
  <1>9. m.found \in Seq(Ranges(t))
    <2>1. CASE secrets = {}
      BY <1>8, <2>1
    <2>2. CASE secrets # {}
      <3>1. PICK v \in secrets : v = CHOOSE w \in secrets : TRUE
        BY <2>2
      <3> QED BY <1>7, <1>8, <2>2, <3>1, FoundIs
    <2> QED BY <2>1, <2>2
  <1> QED BY <1>6, <1>8, <1>9

---------------------------------------------------------------------------
(* Basic and Token authorization. *)

LEMMA AuthorizationParsed ==
    ASSUME NEW t \in Seq(STRING), NEW start \in 1 .. (Len(t) + 1),
           NEW m \in parse_authorization_from(t, start)
    PROVE  m.resume \in (start + 1) .. (Len(t) + 1) /\ m.found \in Seq(Ranges(t))
  <1>1. PICK keyword : keyword = run_end(t, start, Blank)
    OBVIOUS
  <1>2. PICK colon : colon = run_end(t, keyword + 1, Blank)
    OBVIOUS
  <1>3. PICK scheme : scheme = run_end(t, colon + 1, Blank)
    OBVIOUS
  <1>4. PICK from : from = run_end(t, scheme + 1, Blank)
    OBVIOUS
  <1>5. PICK end : end = run_end(t, from, is_authorization_value_byte)
    OBVIOUS
  <1>6. /\ at_or_none(t, keyword) = "authorization" /\ at_or_none(t, colon) = ":"
        /\ at_or_none(t, scheme) \in {"basic", "token"} /\ from > scheme + 1
        /\ end - from >= Lengths.authorization
        /\ m.resume = end /\ (m.found = <<>> \/ m.found = <<ByteRange(from, end)>>)
    BY <1>1, <1>2, <1>3, <1>4, <1>5 DEF parse_authorization_from, Raw
  <1>7. Len(t) \in Nat /\ DOMAIN t = 1 .. Len(t)
    OBVIOUS
  <1>8. keyword \in start .. Len(t)
    <2>1. keyword \in DOMAIN t
      BY <1>6, InText, EndOfText
    <2> QED BY <1>1, <1>7, <2>1, RunEndRange
  <1>9. colon \in (keyword + 1) .. Len(t)
    <2>1. colon \in DOMAIN t
      BY <1>6, InText, EndOfText
    <2>2. keyword + 1 \in 1 .. (Len(t) + 1)
      BY <1>7, <1>8
    <2> QED BY <1>2, <1>7, <2>1, <2>2, RunEndRange
  <1>10. scheme \in (colon + 1) .. Len(t)
    <2>1. scheme \in DOMAIN t
      BY <1>6, InText, EndOfText
    <2>2. colon + 1 \in 1 .. (Len(t) + 1)
      BY <1>7, <1>8, <1>9
    <2> QED BY <1>3, <1>7, <2>1, <2>2, RunEndRange
  <1>11. scheme \in Nat /\ scheme + 1 \in 1 .. (Len(t) + 1) /\ scheme >= start
    BY <1>7, <1>8, <1>9, <1>10
  <1>12. from \in (scheme + 1) .. (Len(t) + 1)
    BY <1>4, <1>11, RunEndRange
  <1>13. end \in from .. (Len(t) + 1)
    <2>1. from \in 1 .. (Len(t) + 1)
      BY <1>7, <1>11, <1>12
    <2> QED BY <1>5, <2>1, RunEndRange
  <1>14. PICK n \in Nat \ {0} : n = Lengths.authorization
    BY LengthsAre
  <1>15. from \in Nat /\ end \in Nat /\ 1 <= from /\ from < end /\ end <= Len(t) + 1 /\ end >= start + 1
    BY <1>6, <1>7, <1>11, <1>12, <1>13, <1>14
  <1>16. ByteRange(from, end) \in Ranges(t)
    BY <1>15, RangeIs
  <1>17. m.resume \in (start + 1) .. (Len(t) + 1)
    BY <1>6, <1>7, <1>15
  <1>18. m.found \in Seq(Ranges(t))
    <2>1. <<ByteRange(from, end)>> \in Seq(Ranges(t)) /\ <<>> \in Seq(Ranges(t))
      BY <1>16
    <2> QED BY <1>6, <2>1
  <1> QED BY <1>17, <1>18

LEMMA AuthorizationSensible ==
    ASSUME NEW t \in Seq(STRING), NEW s, s.kind = "authorization"
    PROVE  Sensible(s, t)
  <1>1. Len(t) \in Nat /\ DOMAIN t = 1 .. Len(t)
    OBVIOUS
  <1>2. SUFFICES ASSUME NEW at \in DOMAIN t, NEW m \in scan_authorization(t, at)
                 PROVE  m.resume \in (at + 1) .. (Len(t) + 1) /\ m.found \in Seq(Ranges(t))
    BY DEF Sensible, attempt
  <1>3. CASE m \in parse_authorization_from(t, at)
    BY <1>1, <1>3, AuthorizationParsed
  <1>4. CASE m \in parse_authorization_from(t, at + 1)
    <2>1. at + 1 \in 1 .. (Len(t) + 1)
      BY <1>1
    <2>2. m.resume \in (at + 1 + 1) .. (Len(t) + 1) /\ m.found \in Seq(Ranges(t))
      BY <1>4, <2>1, AuthorizationParsed
    <2> QED BY <1>1, <2>2
  <1> QED BY <1>3, <1>4 DEF scan_authorization

---------------------------------------------------------------------------
(* Connection strings. *)

LEMMA ScanBounded ==
    ASSUME NEW t \in Seq(STRING), NEW from \in 1 .. (Len(t) + 1), NEW bound, NEW stops,
           NEW e \in scan_bounded(t, from, bound, stops)
    PROVE  e \in from .. (Len(t) + 1)
  <1> DEFINE C == {i \in from .. (Len(t) + 1) : i > Len(t) \/ t[i] \in stops}
  <1>1. Len(t) + 1 \in C
    OBVIOUS
  <1>2. PICK n \in Nat : n = Len(t) + 1
    OBVIOUS
  <1>3. C \subseteq 0 .. n /\ C \subseteq from .. (Len(t) + 1)
    BY <1>2
  <1>4. e = Min(C)
    BY DEF scan_bounded
  <1> HIDE DEF C
  <1>5. Min(C) \in C
    BY <1>1, <1>3, LeastOf
  <1> QED BY <1>3, <1>4, <1>5

LEMMA SegmentBounds ==
    ASSUME NEW t \in Seq(STRING), NEW anchor \in DOMAIN t, NEW segment \in azure_segment_bounds(t, anchor)
    PROVE  segment.start \in 1 .. anchor /\ segment.end \in anchor .. (Len(t) + 1)
  <1> DEFINE C == {i \in 1 .. anchor : i = 1 \/ t[i - 1] \in is_azure_segment_terminator}
  <1>1. anchor \in Nat \ {0} /\ Len(t) \in Nat /\ anchor \in 1 .. (Len(t) + 1)
    OBVIOUS
  <1>2. 1 \in C /\ C \subseteq 0 .. anchor /\ C \subseteq 1 .. anchor
    BY <1>1
  <1>3. PICK end \in scan_bounded(t, anchor, MAX_AZURE_SEGMENT_LENGTH, is_azure_segment_terminator) :
          segment = ByteRange(Max(C), end)
    BY DEF azure_segment_bounds
  <1> HIDE DEF C
  <1>4. Max(C) \in C
    BY <1>1, <1>2, GreatestOf
  <1>5. end \in anchor .. (Len(t) + 1)
    BY <1>1, <1>3, ScanBounded
  <1> QED BY <1>2, <1>3, <1>4, <1>5 DEF ByteRange

LEMMA AzureFields ==
    ASSUME NEW t \in Seq(STRING), NEW segment, NEW f \in parse_azure_fields(t, segment),
           segment.start \in 1 .. (Len(t) + 1), segment.end \in segment.start .. (Len(t) + 1)
    PROVE  /\ f.value.start \in 1 .. (Len(t) + 2) /\ f.value.end \in 1 .. (Len(t) + 1)
           /\ f.value \in [start : Nat, end : Nat]
  <1>1. Len(t) \in Nat /\ segment.start \in Nat /\ segment.end \in Nat
    OBVIOUS
  <1> DEFINE starts == {segment.start} \cup {i + 1 : i \in {i \in segment.start .. (segment.end - 1) : t[i] = ";"}}
             ends(k) == {i \in k .. segment.end : i = segment.end \/ t[i] = ";"}
             equals(k) == {i \in k .. (Min(ends(k)) - 1) : t[i] = "="}
  <1>2. PICK k \in starts : /\ equals(k) # {}
                            /\ f = [at |-> k, key |-> SubSeq(t, k, Min(equals(k)) - 1),
                                    value |-> ByteRange(Min(equals(k)) + 1, Min(ends(k)))]
    BY DEF parse_azure_fields
  <1>3. k \in segment.start .. segment.end
    <2>1. k = segment.start \/ \E i \in segment.start .. (segment.end - 1) : k = i + 1
      OBVIOUS
    <2> HIDE DEF starts, ends, equals
    <2> QED BY <1>1, <2>1
  <1>4. PICK n \in Nat : n = segment.end
    BY <1>1
  <1>5. PICK E, Q : E = ends(k) /\ Q = equals(k)
    OBVIOUS
  <1>6. n \in E /\ E \subseteq 0 .. n /\ E \subseteq k .. n
    <2>1. k \in Nat /\ k <= n /\ n \in Nat
      <3> HIDE DEF starts, ends, equals
      <3> QED BY <1>1, <1>3, <1>4
    <2>2. E = {i \in k .. n : i = n \/ t[i] = ";"}
      <3>1. E = {i \in k .. segment.end : i = segment.end \/ t[i] = ";"}
        BY <1>5 DEF ends
      <3> QED BY <1>4, <3>1
    <2> HIDE DEF starts, ends, equals
    <2>3. n \in k .. n
      BY <2>1
    <2>4. n \in E
      BY <2>2, <2>3
    <2>5. E \subseteq k .. n
      BY <2>2
    <2>6. k .. n \subseteq 0 .. n
      BY <2>1
    <2> QED BY <2>4, <2>5, <2>6
  <1>7. Min(E) \in k .. n
    BY <1>6, LeastOf
  <1>8. Q \subseteq k .. (Min(E) - 1) /\ Q # {} /\ f.value = ByteRange(Min(Q) + 1, Min(E))
    BY <1>2, <1>5
  <1> HIDE DEF equals, ends, starts
  <1>9. Q \subseteq 0 .. n /\ Q \subseteq k .. n
    BY <1>1, <1>3, <1>4, <1>7, <1>8
  <1>10. Min(Q) \in k .. n
    BY <1>8, <1>9, LeastOf
  <1>11. PICK a, b : a = Min(Q) /\ b = Min(E)
    OBVIOUS
  <1>12. a \in Nat /\ b \in Nat /\ a + 1 \in 1 .. (Len(t) + 2) /\ b \in 1 .. (Len(t) + 1)
    BY <1>1, <1>3, <1>4, <1>7, <1>10, <1>11
  <1>13. f.value = [start |-> a + 1, end |-> b]
    BY <1>8, <1>11 DEF ByteRange
  <1> QED BY <1>12, <1>13

\* A value that has a length is a non-empty range.
LEMMA LongRange ==
    ASSUME NEW t \in Seq(STRING), NEW v \in [start : Nat, end : Nat], 1 <= v.start, v.end <= Len(t) + 1,
           NEW n \in Nat \ {0}, Len(SubSeq(t, v.start, v.end - 1)) >= n
    PROVE  v \in Ranges(t)
  <1>1. v.start < v.end
    <2>1. SUFFICES ASSUME v.end <= v.start PROVE FALSE
      OBVIOUS
    <2>2. SubSeq(t, v.start, v.end - 1) = <<>>
      BY <2>1
    <2>3. Len(<<>>) = 0
      OBVIOUS
    <2>4. PICK l : l = Len(SubSeq(t, v.start, v.end - 1))
      OBVIOUS
    <2>5. l = 0 /\ l >= n
      BY <2>2, <2>3, <2>4
    <2> QED BY <2>5
  <1> QED BY <1>1 DEF Ranges

LEMMA AzureKeys ==
    ASSUME NEW t \in Seq(STRING), NEW anchor \in DOMAIN t, NEW k \in azure_storage_candidate(t, anchor)
    PROVE  k \in Ranges(t)
  <1>1. PICK segment \in azure_segment_bounds(t, anchor) :
          \E f \in parse_azure_fields(t, segment) :
            k = f.value /\ is_valid_azure_account_key(SubSeq(t, f.value.start, f.value.end - 1))
    BY DEF azure_storage_candidate
  <1>2. PICK f \in parse_azure_fields(t, segment) :
            k = f.value /\ is_valid_azure_account_key(SubSeq(t, f.value.start, f.value.end - 1))
    BY <1>1
  <1>3. Len(t) \in Nat /\ anchor \in 1 .. Len(t)
    OBVIOUS
  <1>4. segment.start \in 1 .. anchor /\ segment.end \in anchor .. (Len(t) + 1)
    BY <1>1, SegmentBounds
  <1>5. segment.start \in 1 .. (Len(t) + 1) /\ segment.end \in segment.start .. (Len(t) + 1)
    BY <1>3, <1>4
  <1>6. /\ k.start \in 1 .. (Len(t) + 2) /\ k.end \in 1 .. (Len(t) + 1)
        /\ k \in [start : Nat, end : Nat]
    BY <1>2, <1>5, AzureFields
  <1>7. PICK n \in Nat \ {0} : n = MIN_AZURE_ACCOUNT_KEY_LENGTH
    BY BoundsAssumption
  <1>8. Len(SubSeq(t, k.start, k.end - 1)) >= n
    BY <1>2, <1>7 DEF is_valid_azure_account_key
  <1> QED BY <1>3, <1>6, <1>8, LongRange

LEMMA AzureSensible ==
    ASSUME NEW t \in Seq(STRING), NEW s, s.kind = "azure"
    PROVE  Sensible(s, t)
  <1>1. Len(t) \in Nat /\ DOMAIN t = 1 .. Len(t)
    OBVIOUS
  <1>2. SUFFICES ASSUME NEW at \in DOMAIN t, NEW m \in scan_azure(t, at)
                 PROVE  m.resume \in (at + 1) .. (Len(t) + 1) /\ m.found \in Seq(Ranges(t))
    BY DEF Sensible, attempt
  <1>3. m = Raw(at + 1, <<>>) \/ \E k \in azure_storage_candidate(t, at) : m = Raw(at + 1, <<k>>)
    BY DEF scan_azure
  <1>4. m.resume = at + 1
    BY <1>3 DEF Raw
  <1>5. m.found \in Seq(Ranges(t))
    <2>1. CASE m = Raw(at + 1, <<>>)
      BY <2>1 DEF Raw
    <2>2. ASSUME NEW k \in azure_storage_candidate(t, at), m = Raw(at + 1, <<k>>)
          PROVE  m.found \in Seq(Ranges(t))
      <3>1. <<k>> \in Seq(Ranges(t))
        BY AzureKeys
      <3>2. m.found = <<k>>
        BY <2>2 DEF Raw
      <3> QED BY <3>1, <3>2
    <2> QED BY <1>3, <2>1, <2>2
  <1> QED BY <1>1, <1>4, <1>5

LEMMA SchemeEnds ==
    ASSUME NEW t \in Seq(STRING), NEW at \in DOMAIN t, NEW found \in find_next_scheme(t, at)
    PROVE  found.end \in (at + 1) .. (Len(t) + 1)
  <1>1. PICK s \in SCHEMES : /\ starts_with(t, at, s \o <<":", "//">>)
                             /\ found = [scheme |-> s, end |-> at + Len(s) + 2]
    BY DEF find_next_scheme
  <1>2. at \in Nat \ {0} /\ Len(t) \in Nat
    OBVIOUS
  <1>3. Literal(s)
    <2>1. \A p \in SCHEMES : \E S : p \in Seq(S)
      <3>1. /\ <<"postgres", "ql">> \in Seq({"postgres", "ql"}) /\ <<"postgres">> \in Seq({"postgres"})
            /\ <<"mysql">> \in Seq({"mysql"}) /\ <<"mariadb">> \in Seq({"mariadb"})
            /\ <<"mongodb", "+", "srv">> \in Seq({"mongodb", "+", "srv"})
            /\ <<"mongodb">> \in Seq({"mongodb"}) /\ <<"redis">> \in Seq({"redis"})
            /\ <<"redis", "s">> \in Seq({"redis", "s"}) /\ <<"amqp">> \in Seq({"amqp"})
            /\ <<"amqp", "s">> \in Seq({"amqp", "s"})
        OBVIOUS
      <3> QED BY <3>1 DEF SCHEMES
    <2> QED BY <2>1 DEF Literal
  <1>4. PICK S : s \in Seq(S)
    BY <1>3 DEF Literal
  <1>5. PICK T : T = S \cup {":", "//"}
    OBVIOUS
  <1>6. s \in Seq(T) /\ <<":", "//">> \in Seq(T)
    BY <1>4, <1>5
  <1>7. PICK p : p = s \o <<":", "//">>
    OBVIOUS
  <1>8. p \in Seq(T) /\ Len(p) = Len(s) + 2 /\ Len(s) \in Nat
    BY <1>6, <1>7, ConcatProperties
  <1>9. at + Len(p) <= Len(t) + 1
    BY <1>1, <1>2, <1>7, <1>8, StartsWith DEF Literal
  <1> QED BY <1>1, <1>2, <1>8, <1>9

LEMMA AuthorityPassword ==
    ASSUME NEW authority \in Seq(STRING), NEW scheme, NEW a \in single_at(authority),
           NEW p \in PasswordOf(scheme, authority, a)
    PROVE  /\ p.start \in Nat /\ p.end \in Nat
           /\ 1 < p.start /\ p.start < p.end /\ p.end <= Len(authority)
  <1>1. Len(authority) \in Nat /\ a \in 1 .. Len(authority)
    BY DEF single_at, occurrences
  <1> DEFINE info == SubSeq(authority, 1, a - 1)
             colons == occurrences(info, ":")
  <1>2. /\ colons # {} /\ Min(colons) # Len(info)
        /\ p = ByteRange(Min(colons) + 1, a)
    BY DEF PasswordOf
  <1>3. info \in Seq(STRING) /\ Len(info) = a - 1
    BY <1>1, SubSeqProperties
  <1>4. colons \subseteq 1 .. (a - 1)
    <2> HIDE DEF info
    <2> QED BY <1>3 DEF occurrences
  <1>5. PICK n \in Nat : n = a - 1
    BY <1>1
  <1>6. colons \subseteq 0 .. n
    BY <1>4, <1>5
  <1> HIDE DEF colons, info
  <1>7. Min(colons) \in colons
    BY <1>2, <1>6, LeastOf
  <1>8. Min(colons) \in 1 .. (a - 1) /\ Min(colons) # a - 1
    BY <1>2, <1>3, <1>4, <1>7
  <1>9. p.start = Min(colons) + 1 /\ p.end = a
    BY <1>2 DEF ByteRange
  <1> QED BY <1>1, <1>8, <1>9

LEMMA AuthoritySensible ==
    ASSUME NEW t \in Seq(STRING), NEW s, s.kind = "authority"
    PROVE  Sensible(s, t)
  <1>1. Len(t) \in Nat /\ DOMAIN t = 1 .. Len(t)
    OBVIOUS
  <1>2. SUFFICES ASSUME NEW position \in DOMAIN t, NEW x \in scan_authority(t, position)
                 PROVE  x.resume \in (position + 1) .. (Len(t) + 1) /\ x.found \in Seq(Ranges(t))
    BY DEF Sensible, attempt
  <1> DEFINE passwords(f) ==
               UNION {UNION {PasswordOf(f.scheme, SubSeq(t, f.end, stop - 1), a) :
                               a \in single_at(SubSeq(t, f.end, stop - 1))} :
                      stop \in authority_end(t, f.end)}
             joined == position > 1 /\ t[position - 1] \in is_scheme_char
             matches(f) == IF joined \/ passwords(f) = {} THEN {Raw(f.end, <<>>)}
                           ELSE {Raw(f.end, <<ByteRange(f.end + p.start - 1, f.end + p.end - 1)>>) :
                                   p \in passwords(f)}
  <1>a. scan_authority(t, position) = UNION {matches(f) : f \in find_next_scheme(t, position)}
    BY DEF scan_authority
  <1>b. PICK f \in find_next_scheme(t, position) : x \in matches(f)
    <2> HIDE DEF matches
    <2> QED BY <1>a
  <1>c. \/ x = Raw(f.end, <<>>)
        \/ \E p \in passwords(f) : x = Raw(f.end, <<ByteRange(f.end + p.start - 1, f.end + p.end - 1)>>)
    <2> HIDE DEF passwords
    <2> QED BY <1>b
  <1>3.   \/ x = Raw(f.end, <<>>)
          \/ \E stop \in authority_end(t, f.end) : \E a \in single_at(SubSeq(t, f.end, stop - 1)) :
               \E p \in PasswordOf(f.scheme, SubSeq(t, f.end, stop - 1), a) :
                  x = Raw(f.end, <<ByteRange(f.end + p.start - 1, f.end + p.end - 1)>>)
    <2>1. SUFFICES ASSUME NEW p \in passwords(f),
                          x = Raw(f.end, <<ByteRange(f.end + p.start - 1, f.end + p.end - 1)>>)
                   PROVE  \E stop \in authority_end(t, f.end) : \E a \in single_at(SubSeq(t, f.end, stop - 1)) :
                            p \in PasswordOf(f.scheme, SubSeq(t, f.end, stop - 1), a)
      <3> HIDE DEF passwords
      <3> QED BY <1>c
    <2> DEFINE within(stop) == UNION {PasswordOf(f.scheme, SubSeq(t, f.end, stop - 1), a) :
                                       a \in single_at(SubSeq(t, f.end, stop - 1))}
    <2>2. passwords(f) = UNION {within(stop) : stop \in authority_end(t, f.end)}
      OBVIOUS
    <2>3. PICK stop \in authority_end(t, f.end) : p \in within(stop)
      <3> HIDE DEF within, passwords
      <3> QED BY <2>1, <2>2
    <2> HIDE DEF passwords
    <2>4. \E a \in single_at(SubSeq(t, f.end, stop - 1)) :
            p \in PasswordOf(f.scheme, SubSeq(t, f.end, stop - 1), a)
      BY <2>3
    <2> QED BY <2>4
  <1>4. f.end \in (position + 1) .. (Len(t) + 1)
    BY SchemeEnds
  <1>5. PICK m : m = f.end
    OBVIOUS
  <1>6. m \in Nat \ {0} /\ m \in 1 .. (Len(t) + 1)
    BY <1>1, <1>4, <1>5
  <1>7. CASE x = Raw(m, <<>>)
    BY <1>4, <1>5, <1>7 DEF Raw
  <1>8. ASSUME NEW stop \in authority_end(t, m), NEW a \in single_at(SubSeq(t, m, stop - 1)),
               NEW p \in PasswordOf(f.scheme, SubSeq(t, m, stop - 1), a),
               x = Raw(m, <<ByteRange(m + p.start - 1, m + p.end - 1)>>)
        PROVE  x.resume \in (position + 1) .. (Len(t) + 1) /\ x.found \in Seq(Ranges(t))
    <2>1. stop \in m .. (Len(t) + 1)
      BY <1>6, <1>8, ScanBounded DEF authority_end
    <2>2. PICK authority : authority = SubSeq(t, m, stop - 1)
      OBVIOUS
    <2>3. authority \in Seq(STRING) /\ Len(authority) = stop - m
      <3>1. m <= (stop - 1) + 1 /\ stop - 1 \in Int /\ stop - 1 <= Len(t)
        BY <1>1, <1>6, <2>1
      <3> QED BY <1>6, <2>1, <2>2, <3>1, SubSeqProperties
    <2>4. /\ p.start \in Nat /\ p.end \in Nat
          /\ 1 < p.start /\ p.start < p.end /\ p.end <= Len(authority)
      BY <1>8, <2>2, <2>3, AuthorityPassword
    <2>5. PICK b, e : b = m + p.start - 1 /\ e = m + p.end - 1
      OBVIOUS
    <2>6. b \in Nat /\ e \in Nat /\ 1 <= b /\ b < e /\ e <= Len(t) + 1
      <3>1. PICK q \in Nat, r \in Nat : q = p.start /\ r = p.end
        BY <2>4
      <3>2. 1 < q /\ q < r /\ r <= stop - m /\ stop \in Nat /\ stop <= Len(t) + 1
        BY <1>1, <1>6, <2>1, <2>3, <2>4, <3>1
      <3>3. b = m + q - 1 /\ e = m + r - 1
        BY <2>5, <3>1
      <3> QED BY <1>1, <1>6, <3>2, <3>3
    <2>7. <<ByteRange(b, e)>> \in Seq(Ranges(t))
      BY <2>6, RangeIs
    <2>8. x.resume = m /\ x.found = <<ByteRange(b, e)>>
      BY <1>8, <2>5 DEF Raw
    <2> QED BY <1>4, <1>5, <2>7, <2>8
  <1> QED BY <1>3, <1>5, <1>7, <1>8

---------------------------------------------------------------------------
(* Bearer tokens and one-time-password secrets. *)

\* The end of a keyword lies in the text, behind where it begins.
LEMMA SchemeEnd ==
    ASSUME NEW t \in Seq(STRING), NEW at \in DOMAIN t, NEW k \in match_scheme_at(t, at)
    PROVE  k \in (at + 1) .. (Len(t) + 1)
  <1> DEFINE colon == run_end(t, at + 1, is_js_whitespace)
             keyword == run_end(t, colon + 1, is_js_whitespace)
  <1>1. Len(t) \in Nat /\ DOMAIN t = 1 .. Len(t) /\ at \in 1 .. Len(t)
    OBVIOUS
  <1>2. CASE at_or_none(t, at) = "authorization"
    <2>1. at_or_none(t, colon) \in {":"} /\ at_or_none(t, keyword) \in {"bearer"} /\ k = keyword + 1
      BY <1>2 DEF match_scheme_at
    <2> HIDE DEF colon, keyword
    <2>2. colon \in DOMAIN t /\ keyword \in DOMAIN t
      BY <2>1, InText, EndOfText
    <2>3. colon \in (at + 1) .. (Len(t) + 1)
      BY <1>1, RunEndRange DEF colon
    <2>4. keyword \in (colon + 1) .. (Len(t) + 1)
      <3>1. colon + 1 \in 1 .. (Len(t) + 1)
        BY <1>1, <2>2
      <3> QED BY <3>1, RunEndRange DEF keyword
    <2> QED BY <1>1, <2>1, <2>2, <2>3, <2>4
  <1>3. CASE at_or_none(t, at) # "authorization"
    BY <1>1, <1>3 DEF match_scheme_at
  <1> QED BY <1>2, <1>3

LEMMA PaddingEnd ==
    ASSUME NEW t \in Seq(STRING), NEW at \in 1 .. (Len(t) + 1)
    PROVE  padding_end(t, at) \in at .. (Len(t) + 1)
  <1>1. Len(t) \in Nat /\ DOMAIN t = 1 .. Len(t)
    OBVIOUS
  <1>2. at_or_none(t, at) \in {"="} => at \in DOMAIN t
    BY InText, EndOfText
  <1>3. at_or_none(t, at + 1) \in {"="} => at + 1 \in DOMAIN t
    BY InText, EndOfText
  <1> QED BY <1>1, <1>2, <1>3 DEF padding_end

\* What scan_bearer reports behind a keyword that ends at k.
BearerFrom(t, k) == run_end(t, k, Blank)
BearerTo(t, k) == run_end(t, BearerFrom(t, k), is_token_char)
BearerEnd(t, k) == padding_end(t, BearerTo(t, k))
BearerBlocked(t, at) == at > 1 /\ t[at - 1] \in is_alnum_dash
BearerFits(t, k) == BearerFrom(t, k) # k /\ BearerTo(t, k) - BearerFrom(t, k) >= Lengths.bearer

LEMMA BearerIs ==
    ASSUME NEW t \in Seq(STRING), NEW at \in DOMAIN t, NEW m
    PROVE  m \in scan_bearer(t, at) <=>
             \E k \in match_scheme_at(t, at) :
                /\ BearerFits(t, k)
                /\ m = Raw(BearerEnd(t, k), IF BearerBlocked(t, at) THEN <<>>
                                            ELSE <<ByteRange(BearerFrom(t, k), BearerEnd(t, k))>>)
  <1> DEFINE raw(k) == Raw(BearerEnd(t, k), IF BearerBlocked(t, at) THEN <<>>
                                            ELSE <<ByteRange(BearerFrom(t, k), BearerEnd(t, k))>>)
             of(k) == IF \/ BearerFrom(t, k) = k
                         \/ BearerTo(t, k) - BearerFrom(t, k) < Lengths.bearer
                        THEN {} ELSE {raw(k)}
  <1>1. scan_bearer(t, at) = UNION {of(k) : k \in match_scheme_at(t, at)}
    BY DEF scan_bearer, BearerFrom, BearerTo, BearerEnd, BearerBlocked
  <1>2. m \in scan_bearer(t, at) <=> \E k \in match_scheme_at(t, at) : m \in of(k)
    <2> HIDE DEF of
    <2> QED BY <1>1
  <1>3. ASSUME NEW k \in match_scheme_at(t, at)
        PROVE  m \in of(k) <=> BearerFits(t, k) /\ m = raw(k)
    <2>1. k \in 1 .. (Len(t) + 1)
      <3>1. k \in (at + 1) .. (Len(t) + 1)
        BY SchemeEnd
      <3> QED BY <3>1
    <2>2. BearerFrom(t, k) \in k .. (Len(t) + 1)
      BY <2>1, RunEndRange DEF BearerFrom
    <2>3. BearerTo(t, k) \in BearerFrom(t, k) .. (Len(t) + 1)
      <3>1. BearerFrom(t, k) \in 1 .. (Len(t) + 1)
        BY <2>1, <2>2
      <3> QED BY <3>1, RunEndRange DEF BearerTo
    <2>4. BearerTo(t, k) - BearerFrom(t, k) \in Int /\ Lengths.bearer \in Int
      <3>1. Lengths.bearer \in Int
        BY LengthsAre
      <3> QED BY <2>1, <2>2, <2>3, <3>1
    <2> HIDE DEF raw
    <2> QED BY <2>4 DEF BearerFits
  <1> HIDE DEF of
  <1> QED BY <1>2, <1>3

LEMMA BearerPlaces ==
    ASSUME NEW t \in Seq(STRING), NEW at \in DOMAIN t, NEW k \in match_scheme_at(t, at)
    PROVE  /\ at \in Nat /\ k \in Nat /\ at < k
           /\ BearerFrom(t, k) \in Nat /\ k <= BearerFrom(t, k)
           /\ BearerTo(t, k) \in Nat /\ BearerFrom(t, k) <= BearerTo(t, k)
           /\ BearerEnd(t, k) \in Nat /\ BearerTo(t, k) <= BearerEnd(t, k)
           /\ BearerEnd(t, k) <= Len(t) + 1
  <1>1. k \in (at + 1) .. (Len(t) + 1) /\ at \in 1 .. Len(t) /\ Len(t) \in Nat
    BY SchemeEnd
  <1>2. PICK n \in Nat : n = Len(t)
    BY <1>1
  <1>3. BearerFrom(t, k) \in k .. (n + 1)
    BY <1>1, <1>2, RunEndRange DEF BearerFrom
  <1>4. BearerTo(t, k) \in BearerFrom(t, k) .. (n + 1)
    <2>1. BearerFrom(t, k) \in 1 .. (Len(t) + 1)
      BY <1>1, <1>2, <1>3
    <2> QED BY <1>2, <2>1, RunEndRange DEF BearerTo
  <1>5. BearerEnd(t, k) \in BearerTo(t, k) .. (n + 1)
    <2>1. BearerTo(t, k) \in 1 .. (Len(t) + 1)
      BY <1>1, <1>2, <1>3, <1>4
    <2> QED BY <1>2, <2>1, PaddingEnd DEF BearerEnd
  <1> QED BY <1>1, <1>2, <1>3, <1>4, <1>5

LEMMA BearerSensible ==
    ASSUME NEW t \in Seq(STRING), NEW s, s.kind = "bearer"
    PROVE  Sensible(s, t)
  <1>1. SUFFICES ASSUME NEW at \in DOMAIN t, NEW m \in scan_bearer(t, at)
                 PROVE  m.resume \in (at + 1) .. (Len(t) + 1) /\ m.found \in Seq(Ranges(t))
    BY DEF Sensible, attempt
  <1>2. PICK k \in match_scheme_at(t, at) :
           /\ BearerFits(t, k)
           /\ m = Raw(BearerEnd(t, k), IF BearerBlocked(t, at) THEN <<>>
                                       ELSE <<ByteRange(BearerFrom(t, k), BearerEnd(t, k))>>)
    BY BearerIs
  <1>3. PICK from, to, end : from = BearerFrom(t, k) /\ to = BearerTo(t, k) /\ end = BearerEnd(t, k)
    OBVIOUS
  <1>4. /\ at \in Nat /\ k \in Nat /\ at < k /\ from \in Nat /\ k <= from /\ to \in Nat /\ from <= to
        /\ end \in Nat /\ to <= end /\ end <= Len(t) + 1
    BY <1>3, BearerPlaces
  <1>5. Len(t) \in Nat /\ Lengths.bearer \in Nat \ {0} /\ at >= 1
    BY LengthsAre
  <1>6. from < to
    BY <1>2, <1>3, <1>4, <1>5 DEF BearerFits
  <1>7. ByteRange(from, end) \in Ranges(t)
    BY <1>4, <1>5, <1>6, RangeIs
  <1>8. m.resume = end /\ m.found \in {<<>>, <<ByteRange(from, end)>>}
    BY <1>2, <1>3 DEF Raw
  <1>9. m.found \in Seq(Ranges(t))
    BY <1>7, <1>8, FoundIs
  <1>10. end \in (at + 1) .. (Len(t) + 1)
    BY <1>4, <1>5
  <1> QED BY <1>8, <1>9, <1>10

---------------------------------------------------------------------------
(* One-time-password secrets. *)

\* A value of the URI at a position: behind its label l, in the query that ends at q.
OtpauthValue(t, at, l, q, v) ==
    /\ l \in scan_bounded(t, at + 2, Lengths.label, is_label_stop) /\ at_or_none(t, l) = "?"
    /\ q \in scan_bounded(t, l + 1, Lengths.query, is_query_stop)
    /\ v \in find_secret_value(t, l + 1, q)

LEMMA OtpauthIs ==
    ASSUME NEW t, NEW at, NEW m
    PROVE  m \in scan_otpauth(t, at) <=>
             /\ starts_with(t, at, PREFIX)
             /\ \/ /\ BearerBlocked(t, at) \/ ~\E l, q, v : OtpauthValue(t, at, l, q, v)
                   /\ m = Raw(at + 2, <<>>)
                \/ /\ ~BearerBlocked(t, at)
                   /\ \E l, q, v : OtpauthValue(t, at, l, q, v) /\ m = Raw(at + 2, base32_secret_range(t, v))
  <1> DEFINE labels == {l \in scan_bounded(t, at + 2, Lengths.label, is_label_stop) : at_or_none(t, l) = "?"}
             of(l) == UNION {find_secret_value(t, l + 1, query) :
                               query \in scan_bounded(t, l + 1, Lengths.query, is_query_stop)}
             values == UNION {of(l) : l \in labels}
  <1>1. \A v : v \in values <=> \E l, q : OtpauthValue(t, at, l, q, v)
    <2>1. \A v : v \in values <=> \E l \in labels : v \in of(l)
      <3> HIDE DEF of, labels
      <3> QED OBVIOUS
    <2>2. \A l, v : v \in of(l) <=> \E q \in scan_bounded(t, l + 1, Lengths.query, is_query_stop) :
                                     v \in find_secret_value(t, l + 1, q)
      OBVIOUS
    <2> HIDE DEF of, values
    <2> QED BY <2>1, <2>2 DEF OtpauthValue
  <1>2. scan_otpauth(t, at) = IF ~starts_with(t, at, PREFIX) THEN {}
                              ELSE IF BearerBlocked(t, at) \/ values = {} THEN {Raw(at + 2, <<>>)}
                              ELSE {Raw(at + 2, base32_secret_range(t, v)) : v \in values}
    BY DEF scan_otpauth, BearerBlocked
  <1> HIDE DEF values
  <1> QED BY <1>1, <1>2

\* The first of the keys, and the end of its value.
SecretKeys(t, from, to) ==
    {i \in from .. (to - 2) : t[i] = "secret" /\ t[i + 1] = "=" /\ (i = from \/ t[i - 1] = "&")}
ValueEnds(t, start, to) == {i \in start .. to : i = to \/ t[i] = "&"}

LEMMA SecretValueIs ==
    ASSUME NEW t \in Seq(STRING), NEW from \in Nat, NEW to \in Nat, NEW v
    PROVE  v \in find_secret_value(t, from, to) <=>
             \E k \in SecretKeys(t, from, to) : \E e \in ValueEnds(t, k + 2, to) :
                /\ \A o \in SecretKeys(t, from, to) : k <= o
                /\ \A o \in ValueEnds(t, k + 2, to) : e <= o
                /\ v = ByteRange(k + 2, e)
  <1>1. PICK K : K = SecretKeys(t, from, to)
    OBVIOUS
  <1>2. K \subseteq from .. (to - 2)
    BY <1>1 DEF SecretKeys
  <1>3. find_secret_value(t, from, to) =
          IF K = {} THEN {} ELSE {ByteRange(Min(K) + 2, Min(ValueEnds(t, Min(K) + 2, to)))}
    BY <1>1 DEF find_secret_value, SecretKeys, ValueEnds
  <1>4. CASE K = {}
    BY <1>1, <1>3, <1>4
  <1>5. CASE K # {}
    <2>1. K \subseteq 0 .. to
      BY <1>2
    <2>2. Min(K) \in K /\ \A o \in K : Min(K) <= o
      BY <1>5, <2>1, LeastOf
    <2>3. PICK k \in K : k = Min(K) /\ \A o \in K : k <= o
      BY <2>2
    <2>4. PICK E : E = ValueEnds(t, k + 2, to)
      OBVIOUS
    <2>5. k \in Nat /\ k + 2 <= to
      BY <1>2
    <2>6. E \subseteq 0 .. to /\ to \in E /\ E \subseteq Nat
      BY <2>4, <2>5 DEF ValueEnds
    <2>7. Min(E) \in E /\ \A o \in E : Min(E) <= o
      BY <2>6, LeastOf
    <2>8. v \in find_secret_value(t, from, to) <=> v = ByteRange(k + 2, Min(E))
      BY <1>3, <1>5, <2>3, <2>4
    <2>9. ASSUME NEW o \in K, \A p \in K : o <= p
          PROVE  o = k
      <3>1. o <= k /\ k <= o /\ o \in Nat
        BY <1>2, <2>3, <2>9
      <3> QED BY <2>5, <3>1
    <2>10. ASSUME NEW e \in E, \A o \in E : e <= o
           PROVE  e = Min(E)
      <3>1. PICK m : m = Min(E)
        OBVIOUS
      <3>2. m \in Nat /\ e \in Nat /\ e <= m /\ m <= e
        BY <2>6, <2>7, <2>10, <3>1
      <3> QED BY <3>1, <3>2
    <2>11. ASSUME v \in find_secret_value(t, from, to)
           PROVE  \E j \in K : \E e \in ValueEnds(t, j + 2, to) :
                    /\ \A o \in K : j <= o
                    /\ \A o \in ValueEnds(t, j + 2, to) : e <= o
                    /\ v = ByteRange(j + 2, e)
      BY <2>3, <2>4, <2>7, <2>8, <2>11
    <2>12. ASSUME NEW j \in K, NEW e \in ValueEnds(t, j + 2, to),
                  \A o \in K : j <= o, \A o \in ValueEnds(t, j + 2, to) : e <= o,
                  v = ByteRange(j + 2, e)
           PROVE  v \in find_secret_value(t, from, to)
      <3>1. j = k
        BY <2>9, <2>12
      <3>2. e = Min(E)
        BY <2>4, <2>10, <2>12, <3>1
      <3> QED BY <2>8, <2>12, <3>1, <3>2
    <2> QED BY <1>1, <2>11, <2>12
  <1> QED BY <1>4, <1>5

\* Where the parts of an URI lie.
LEMMA OtpauthPlaces ==
    ASSUME NEW t \in Seq(STRING), NEW at \in DOMAIN t, at + 2 <= Len(t) + 1,
           NEW l, NEW q, NEW v, OtpauthValue(t, at, l, q, v)
    PROVE  /\ l \in DOMAIN t /\ l \in Nat /\ at + 2 <= l /\ q \in Nat /\ l + 1 <= q /\ q <= Len(t) + 1
           /\ \E b \in Nat, e \in Nat : v = ByteRange(b, e) /\ l + 3 <= b /\ b <= e /\ e <= q
  <1>1. Len(t) \in Nat /\ at \in 1 .. Len(t) /\ DOMAIN t = 1 .. Len(t)
    OBVIOUS
  <1>2. l \in (at + 2) .. (Len(t) + 1)
    <2>1. at + 2 \in 1 .. (Len(t) + 1) /\ l \in scan_bounded(t, at + 2, Lengths.label, is_label_stop)
      BY <1>1 DEF OtpauthValue
    <2>2. PICK a : a = at + 2
      OBVIOUS
    <2> QED BY <2>1, <2>2, ScanBounded
  <1>3. l \in DOMAIN t
    <2>1. at_or_none(t, l) \in {"?"}
      BY DEF OtpauthValue
    <2> QED BY <2>1, InText, EndOfText
  <1>4. q \in (l + 1) .. (Len(t) + 1)
    <2>1. l + 1 \in 1 .. (Len(t) + 1) /\ q \in scan_bounded(t, l + 1, Lengths.query, is_query_stop)
      BY <1>1, <1>3 DEF OtpauthValue
    <2> QED BY <2>1, ScanBounded
  <1>5. l + 1 \in Nat /\ q \in Nat
    BY <1>1, <1>3, <1>4
  <1>6. v \in find_secret_value(t, l + 1, q)
    BY DEF OtpauthValue
  <1>7. PICK k \in SecretKeys(t, l + 1, q) : \E e \in ValueEnds(t, k + 2, q) : v = ByteRange(k + 2, e)
    BY <1>5, <1>6, SecretValueIs
  <1>8. PICK e \in ValueEnds(t, k + 2, q) : v = ByteRange(k + 2, e)
    BY <1>7
  <1>9. k \in (l + 1) .. (q - 2) /\ e \in (k + 2) .. q
    BY <1>7, <1>8 DEF SecretKeys, ValueEnds
  <1>10. k + 2 \in Nat /\ e \in Nat /\ l + 3 <= k + 2 /\ k + 2 <= e /\ e <= q
    <2>1. l \in Nat
      BY <1>1, <1>2
    <2> QED BY <1>5, <1>9, <2>1
  <1> QED BY <1>1, <1>2, <1>3, <1>4, <1>5, <1>8, <1>10

\* What is found in a value is the value, when it is base32 and padding up to its end.
LEMMA Base32Is ==
    ASSUME NEW t \in Seq(STRING), NEW b \in Nat, NEW e \in Nat, 1 <= b, b <= e, e <= Len(t) + 1
    PROVE  base32_secret_range(t, ByteRange(b, e)) =
             IF Base32(t, b, e) THEN <<ByteRange(b, e)>> ELSE <<>>
  <1>1. PICK n \in Nat : n = Len(t)
    OBVIOUS
  <1>2. PICK u : u = SubSeq(t, 1, e - 1)
    OBVIOUS
  <1>3. u \in Seq(STRING) /\ Len(u) = e - 1 /\ \A i \in 1 .. (e - 1) : u[i] = t[i]
    <2>1. 1 <= (e - 1) + 1 /\ e - 1 \in Int /\ e - 1 <= Len(t) /\ 1 \in 1 .. (Len(t) + 1)
      BY <1>1
    <2> QED BY <1>2, <2>1, SubSeqProperties
  <1>4. PICK core : core = run_end(u, b, is_base32_char)
    OBVIOUS
  <1>5. PICK stop : stop = run_end(u, core, {"="})
    OBVIOUS
  <1>6. RunEndsAt(u, b, is_base32_char, core)
    <2>1. b \in 1 .. (Len(u) + 1)
      BY <1>3
    <2> QED BY <1>3, <1>4, <2>1, RunEnd
  <1>7. core \in Nat /\ b <= core /\ core <= e
    BY <1>3, <1>6 DEF RunEndsAt
  <1>8. RunEndsAt(u, core, {"="}, stop)
    <2>1. core \in 1 .. (Len(u) + 1)
      BY <1>3, <1>7
    <2> QED BY <1>3, <1>5, <2>1, RunEnd
  <1>9. stop \in Nat /\ core <= stop /\ stop <= e
    BY <1>3, <1>8 DEF RunEndsAt
  <1>10. Lengths.base32 \in Nat \ {0}
    BY LengthsAre
  <1>11. base32_secret_range(t, ByteRange(b, e)) =
           IF stop # e \/ core - b < Lengths.base32 THEN <<>> ELSE <<ByteRange(b, stop)>>
    BY <1>2, <1>4, <1>5 DEF base32_secret_range, ByteRange
  <1>12. ASSUME stop = e, core - b >= Lengths.base32
         PROVE  Base32(t, b, e)
    <2>1. core \in b .. e
      BY <1>7
    <2>2. All(t, b, core, is_base32_char)
      <3>1. SUFFICES ASSUME NEW i \in b .. (core - 1) PROVE t[i] \in is_base32_char
        BY DEF All
      <3>2. i \in 1 .. (e - 1) /\ u[i] \in is_base32_char
        BY <1>6, <1>7 DEF RunEndsAt, WholeRun, All
      <3> QED BY <1>3, <3>2
    <2>3. All(t, core, e, {"="})
      <3>1. SUFFICES ASSUME NEW i \in core .. (e - 1) PROVE t[i] \in {"="}
        BY DEF All
      <3>2. i \in 1 .. (e - 1) /\ u[i] \in {"="}
        BY <1>7, <1>8, <1>12 DEF RunEndsAt, WholeRun, All
      <3> QED BY <1>3, <3>2
    <2> QED BY <1>12, <2>1, <2>2, <2>3 DEF Base32
  <1>13. ASSUME Base32(t, b, e)
         PROVE  stop = e /\ core - b >= Lengths.base32
    <2>1. PICK c \in b .. e : /\ c - b >= Lengths.base32
                              /\ All(t, b, c, is_base32_char) /\ All(t, c, e, {"="})
      BY <1>13 DEF Base32
    <2>2. "=" \notin is_base32_char
      BY DEF is_base32_char, Upper
    <2>3. c \in Nat /\ b <= c /\ c <= e
      BY <2>1
    <2>4. RunEndsAt(u, b, is_base32_char, c)
      <3>1. \A i \in b .. (c - 1) : u[i] \in is_base32_char
        <4>1. SUFFICES ASSUME NEW i \in b .. (c - 1) PROVE u[i] \in is_base32_char
          OBVIOUS
        <4>2. i \in 1 .. (e - 1) /\ t[i] \in is_base32_char
          BY <2>1, <2>3 DEF All
        <4> QED BY <1>3, <4>2
      <3>2. c < e => u[c] = "="
        <4>1. c < e => c \in 1 .. (e - 1) /\ t[c] \in {"="}
          BY <2>1, <2>3 DEF All
        <4> QED BY <1>3, <4>1
      <3>3. c > Len(u) \/ u[c] \notin is_base32_char
        BY <1>3, <2>2, <2>3, <3>2
      <3> QED BY <1>3, <2>3, <3>1, <3>3 DEF RunEndsAt, WholeRun, All
    <2>5. c = core
      BY <1>3, <1>6, <2>4, RunEndsOnce
    <2>6. RunEndsAt(u, core, {"="}, e)
      <3>1. \A i \in core .. (e - 1) : u[i] \in {"="}
        <4>1. SUFFICES ASSUME NEW i \in core .. (e - 1) PROVE u[i] \in {"="}
          OBVIOUS
        <4>2. i \in 1 .. (e - 1) /\ t[i] \in {"="}
          BY <2>1, <2>3, <2>5 DEF All
        <4> QED BY <1>3, <4>2
      <3> QED BY <1>3, <1>7, <3>1 DEF RunEndsAt, WholeRun, All
    <2>7. stop = e
      BY <1>3, <1>7, <1>8, <2>6, RunEndsOnce
    <2> QED BY <2>1, <2>5, <2>7
  <1> QED BY <1>7, <1>10, <1>11, <1>12, <1>13

LEMMA OtpauthSensible ==
    ASSUME NEW t \in Seq(STRING), NEW s, s.kind = "otpauth"
    PROVE  Sensible(s, t)
  <1>1. SUFFICES ASSUME NEW at \in DOMAIN t, NEW m \in scan_otpauth(t, at)
                 PROVE  m.resume \in (at + 1) .. (Len(t) + 1) /\ m.found \in Seq(Ranges(t))
    BY DEF Sensible, attempt
  <1>2. starts_with(t, at, PREFIX)
    BY OtpauthIs
  <1>3. at \in Nat \ {0} /\ at + 2 <= Len(t) + 1 /\ Len(t) \in Nat
    <2>1. at + 1 <= Len(t)
      BY <1>2, StartsTwo DEF PREFIX
    <2> QED BY <2>1
  <1>4. m.resume = at + 2
    BY OtpauthIs DEF Raw
  <1>5. \/ m.found = <<>>
        \/ \E l, q, v : OtpauthValue(t, at, l, q, v) /\ m.found = base32_secret_range(t, v)
    BY OtpauthIs DEF Raw
  <1>6. ASSUME NEW l, NEW q, NEW v, OtpauthValue(t, at, l, q, v), m.found = base32_secret_range(t, v)
        PROVE  m.found \in Seq(Ranges(t))
    <2>1. PICK b \in Nat, e \in Nat : v = ByteRange(b, e) /\ l + 3 <= b /\ b <= e /\ e <= q
      BY <1>3, <1>6, OtpauthPlaces
    <2>2. l \in Nat /\ q \in Nat /\ q <= Len(t) + 1
      BY <1>3, <1>6, OtpauthPlaces
    <2>3. 1 <= b /\ e <= Len(t) + 1
      BY <1>3, <2>1, <2>2
    <2>4. m.found = IF Base32(t, b, e) THEN <<ByteRange(b, e)>> ELSE <<>>
      BY <1>6, <2>1, <2>3, Base32Is
    <2>5. ASSUME Base32(t, b, e) PROVE ByteRange(b, e) \in Ranges(t)
      <3>1. b < e
        <4>1. PICK c \in b .. e : c - b >= Lengths.base32
          BY <2>5 DEF Base32
        <4>2. Lengths.base32 \in Nat \ {0}
          BY LengthsAre
        <4> QED BY <4>1, <4>2
      <3> QED BY <2>3, <3>1, RangeIs
    <2> QED BY <2>4, <2>5
  <1>7. m.found \in Seq(Ranges(t))
    <2>1. <<>> \in Seq(Ranges(t))
      OBVIOUS
    <2> QED BY <1>5, <1>6, <2>1
  <1>8. m.resume \in (at + 1) .. (Len(t) + 1)
    BY <1>3, <1>4
  <1> QED BY <1>7, <1>8

---------------------------------------------------------------------------
(* The values of an otpauth URI, in the grammar and in the scan. *)

\* What a bounded scan finds.
LEMMA ScanBoundedIs ==
    ASSUME NEW t \in Seq(STRING), NEW from \in 1 .. (Len(t) + 1), NEW bound, NEW stops, NEW e
    PROVE  e \in scan_bounded(t, from, bound, stops) <=>
             /\ e \in from .. (Len(t) + 1) /\ (e > Len(t) \/ t[e] \in stops)
             /\ \A k \in from .. (e - 1) : t[k] \notin stops
             /\ ~(e - from > bound)
  <1> DEFINE C == {i \in from .. (Len(t) + 1) : i > Len(t) \/ t[i] \in stops}
  <1>1. PICK n \in Nat : n = Len(t) + 1
    OBVIOUS
  <1>2. Len(t) + 1 \in C /\ C \subseteq 0 .. n /\ C \subseteq from .. n
    BY <1>1
  <1>3. scan_bounded(t, from, bound, stops) = IF Min(C) - from > bound THEN {} ELSE {Min(C)}
    BY DEF scan_bounded
  <1>4. Min(C) \in C /\ \A x \in C : Min(C) <= x
    <2> HIDE DEF C
    <2> QED BY <1>1, <1>2, LeastOf
  <1>5. PICK m : m = Min(C)
    OBVIOUS
  <1>6. m \in C /\ m \in from .. n /\ \A x \in C : m <= x
    BY <1>2, <1>4, <1>5
  <1>7. \A k \in from .. (m - 1) : t[k] \notin stops
    <2>1. SUFFICES ASSUME NEW k \in from .. (m - 1), t[k] \in stops PROVE FALSE
      OBVIOUS
    <2>2. k \in from .. (Len(t) + 1) /\ k < m
      BY <1>1, <1>6, <2>1
    <2>3. k \in C
      BY <2>1, <2>2
    <2> HIDE DEF C
    <2>4. m <= k
      BY <1>6, <2>3
    <2> QED BY <1>6, <2>2, <2>4
  <1>8. ASSUME e \in from .. (Len(t) + 1), e > Len(t) \/ t[e] \in stops,
               \A k \in from .. (e - 1) : t[k] \notin stops
        PROVE  e = m
    <2>1. e \in C
      BY <1>8
    <2>2. m <= e
      <3> HIDE DEF C
      <3> QED BY <1>6, <2>1
    <2>3. ~(m < e)
      <3>1. SUFFICES ASSUME m < e PROVE FALSE
        OBVIOUS
      <3>2. m \in from .. (e - 1) /\ m <= Len(t)
        BY <1>1, <1>6, <1>8, <3>1
      <3>3. t[m] \in stops
        BY <1>6, <3>2
      <3> QED BY <1>8, <3>2, <3>3
    <2> QED BY <1>1, <1>6, <1>8, <2>2, <2>3
  <1>9. m \in from .. (Len(t) + 1) /\ (m > Len(t) \/ t[m] \in stops)
    BY <1>6
  <1> HIDE DEF C
  <1> QED BY <1>3, <1>5, <1>7, <1>8, <1>9

\* The query mark.
LEMMA QueriesAre ==
    ASSUME NEW t \in Seq(STRING), NEW at \in DOMAIN t, at + 2 <= Len(t) + 1, NEW l
    PROVE  l \in Queries(t, at) <=>
             l \in scan_bounded(t, at + 2, Lengths.label, is_label_stop) /\ at_or_none(t, l) = "?"
  <1>1. at \in Nat \ {0} /\ Len(t) \in Nat /\ DOMAIN t = 1 .. Len(t) /\ at + 2 \in 1 .. (Len(t) + 1)
    OBVIOUS
  <1>2. PICK from \in 1 .. (Len(t) + 1) : from = at + 2
    BY <1>1
  <1>3. Lengths.label \in Nat
    BY LengthsAre
  <1>4. l \in scan_bounded(t, from, Lengths.label, is_label_stop) <=>
             /\ l \in from .. (Len(t) + 1) /\ (l > Len(t) \/ t[l] \in is_label_stop)
             /\ \A k \in from .. (l - 1) : t[k] \notin is_label_stop
             /\ ~(l - from > Lengths.label)
    BY ScanBoundedIs
  <1>5. "?" \in is_label_stop
    BY DEF is_label_stop
  <1>6. ASSUME l \in Queries(t, at)
        PROVE  l \in scan_bounded(t, at + 2, Lengths.label, is_label_stop) /\ at_or_none(t, l) = "?"
    <2>1. l \in DOMAIN t /\ t[l] = "?" /\ l - from <= Lengths.label /\ from <= l
          /\ \A k \in from .. (l - 1) : t[k] \notin is_label_stop
      BY <1>2, <1>6 DEF Queries, At
    <2>2. l \in from .. (Len(t) + 1) /\ l - from \in Int
      BY <1>1, <2>1
    <2>3. ~(l - from > Lengths.label)
      BY <1>3, <2>1, <2>2
    <2> QED BY <1>2, <1>4, <1>5, <2>1, <2>2, <2>3 DEF at_or_none
  <1>7. ASSUME l \in scan_bounded(t, from, Lengths.label, is_label_stop), at_or_none(t, l) = "?"
        PROVE  l \in Queries(t, at)
    <2>1. l \in DOMAIN t /\ t[l] = "?"
      <3>1. at_or_none(t, l) \in {"?"}
        BY <1>7
      <3>2. "end of text" \notin {"?"}
        OBVIOUS
      <3>3. l \in DOMAIN t /\ t[l] \in {"?"}
        BY <3>1, <3>2, InText
      <3> QED BY <3>3
    <2>2. from <= l /\ l - from <= Lengths.label
      BY <1>1, <1>3, <1>4, <1>7, <2>1
    <2> QED BY <1>2, <1>4, <1>7, <2>1, <2>2 DEF Queries, At
  <1> QED BY <1>2, <1>6, <1>7

\* The end of the query.
LEMMA StopIs ==
    ASSUME NEW t \in Seq(STRING), NEW l \in DOMAIN t, NEW q
    PROVE  q \in scan_bounded(t, l + 1, Lengths.query, is_query_stop) <=>
             q = QueryStop(t, l) /\ QueryStop(t, l) - (l + 1) <= Lengths.query
  <1>1. PICK S : S = Symbols(t) \ is_query_stop
    OBVIOUS
  <1>2. l \in 1 .. Len(t) /\ Len(t) \in Nat /\ DOMAIN t = 1 .. Len(t)
    OBVIOUS
  <1>3. PICK from \in 1 .. (Len(t) + 1) : from = l + 1
    BY <1>2
  <1>4. \A k \in 1 .. Len(t) : t[k] \in S <=> t[k] \notin is_query_stop
    BY <1>1, <1>2 DEF Symbols
  <1>5. \A e : RunEndsAt(t, from, S, e) <=>
                 /\ e \in from .. (Len(t) + 1) /\ (e > Len(t) \/ t[e] \in is_query_stop)
                 /\ \A k \in from .. (e - 1) : t[k] \notin is_query_stop
    <2>1. SUFFICES ASSUME NEW e
                   PROVE  RunEndsAt(t, from, S, e) <=>
                            /\ e \in from .. (Len(t) + 1) /\ (e > Len(t) \/ t[e] \in is_query_stop)
                            /\ \A k \in from .. (e - 1) : t[k] \notin is_query_stop
      OBVIOUS
    <2>2. CASE e \in from .. (Len(t) + 1)
      <3>1. \A k \in from .. (e - 1) : k \in 1 .. Len(t)
        BY <1>2, <2>2
      <3>2. e > Len(t) \/ e \in 1 .. Len(t)
        BY <1>2, <2>2
      <3>3. (e > Len(t) \/ t[e] \notin S) <=> (e > Len(t) \/ t[e] \in is_query_stop)
        BY <1>4, <3>2
      <3>4. (\A k \in from .. (e - 1) : t[k] \in S) <=> (\A k \in from .. (e - 1) : t[k] \notin is_query_stop)
        BY <1>4, <3>1
      <3>5. e \in Nat /\ from <= e /\ e <= Len(t) + 1
        BY <1>2, <2>2
      <3> QED BY <2>2, <3>3, <3>4, <3>5 DEF RunEndsAt, WholeRun, All
    <2>3. CASE e \notin from .. (Len(t) + 1)
      BY <1>2, <2>3 DEF RunEndsAt
    <2> QED BY <2>2, <2>3
  <1>6. PICK stop : RunEndsAt(t, from, S, stop)
    BY RunEnd
  <1>7. QueryStop(t, l) = stop
    <2>1. QueryStop(t, l) = CHOOSE e \in Ends(t, from) : WholeRun(t, from, e, S)
      BY <1>1, <1>3 DEF QueryStop
    <2>2. \A e : e \in Ends(t, from) /\ WholeRun(t, from, e, S) <=> RunEndsAt(t, from, S, e)
      BY <1>2 DEF Ends, RunEndsAt
    <2>3. \A e : RunEndsAt(t, from, S, e) <=> e = stop
      <3>1. from \in Nat
        OBVIOUS
      <3> QED BY <1>6, <3>1, RunEndsOnce
    <2>4. PICK e \in Ends(t, from) : WholeRun(t, from, e, S)
      BY <2>2, <2>3
    <2> QED BY <2>1, <2>2, <2>3, <2>4
  <1>8. q \in scan_bounded(t, from, Lengths.query, is_query_stop) <=>
             /\ q \in from .. (Len(t) + 1) /\ (q > Len(t) \/ t[q] \in is_query_stop)
             /\ \A k \in from .. (q - 1) : t[k] \notin is_query_stop
             /\ ~(q - from > Lengths.query)
    BY ScanBoundedIs
  <1>9. RunEndsAt(t, from, S, q) <=> q = stop
    BY <1>6, RunEndsOnce
  <1>10. ~(stop - from > Lengths.query) <=> stop - from <= Lengths.query
    <2>1. Lengths.query \in Nat
      BY LengthsAre
    <2>2. stop \in Nat
      BY <1>6 DEF RunEndsAt
    <2> QED BY <2>1, <2>2
  <1> QED BY <1>3, <1>5, <1>7, <1>8, <1>9, <1>10

\* The first secret of the query, and the end of its value.
LEMMA SecretsAre ==
    ASSUME NEW t \in Seq(STRING), NEW l \in DOMAIN t, t[l] = "?", NEW q \in Nat, q = QueryStop(t, l),
           l + 1 <= q, q <= Len(t) + 1
    PROVE  Secrets(t, l) = SecretKeys(t, l + 1, q)
  <1>1. Len(t) \in Nat /\ DOMAIN t = 1 .. Len(t) /\ l \in 1 .. Len(t)
    OBVIOUS
  <1>2. ASSUME NEW k \in Secrets(t, l) PROVE k \in SecretKeys(t, l + 1, q)
    <2>1. k \in 1 .. Len(t) /\ t[k] = "secret" /\ l < k /\ k + 1 < q /\ t[k + 1] = "="
          /\ t[k - 1] \in {"?", "&"} /\ (t[k - 1] = "?" => k = l + 1)
      BY <1>1 DEF Secrets, At
    <2>2. k \in (l + 1) .. (q - 2)
      BY <1>1, <2>1
    <2> QED BY <2>1, <2>2 DEF SecretKeys
  <1>3. ASSUME NEW k \in SecretKeys(t, l + 1, q) PROVE k \in Secrets(t, l)
    <2>1. k \in (l + 1) .. (q - 2) /\ t[k] = "secret" /\ t[k + 1] = "=" /\ (k = l + 1 \/ t[k - 1] = "&")
      BY DEF SecretKeys
    <2>2. k \in DOMAIN t /\ l < k /\ k + 1 < q
      BY <1>1, <2>1
    <2>3. k = l + 1 => t[k - 1] = "?"
      BY <1>1
    <2>4. t[k - 1] \in {"?", "&"} /\ (t[k - 1] = "?" => k = l + 1)
      BY <2>1, <2>3
    <2> QED BY <2>1, <2>2, <2>4 DEF Secrets, At
  <1> QED BY <1>2, <1>3

LEMMA ClosesIs ==
    ASSUME NEW t \in Seq(STRING), NEW l, NEW q \in Nat, q = QueryStop(t, l), NEW v \in Nat, NEW e \in Nat
    PROVE  ValueCloses(t, l, v, e) <=> e \in ValueEnds(t, v, q) /\ \A o \in ValueEnds(t, v, q) : e <= o
  <1>1. ASSUME ValueCloses(t, l, v, e), NEW o \in ValueEnds(t, v, q)
        PROVE  e <= o
    <2>1. o \in v .. q /\ (o = q \/ t[o] = "&")
      BY DEF ValueEnds
    <2>2. e <= q /\ ~\E x \in v .. (e - 1) : t[x] = "&"
      BY <1>1 DEF ValueCloses
    <2> QED BY <2>1, <2>2
  <1>2. ASSUME ValueCloses(t, l, v, e) PROVE e \in ValueEnds(t, v, q)
    BY <1>2 DEF ValueCloses, ValueEnds
  <1>3. ASSUME e \in ValueEnds(t, v, q), \A o \in ValueEnds(t, v, q) : e <= o
        PROVE  ValueCloses(t, l, v, e)
    <2>1. e \in v .. q /\ (e = q \/ t[e] = "&")
      BY <1>3 DEF ValueEnds
    <2>2. ASSUME NEW o \in v .. (e - 1), t[o] = "&" PROVE FALSE
      <3>1. o \in ValueEnds(t, v, q)
        BY <2>1, <2>2 DEF ValueEnds
      <3> QED BY <1>3, <2>1, <3>1
    <2> QED BY <2>1, <2>2 DEF ValueCloses
  <1> QED BY <1>1, <1>2, <1>3

\* One value of a query, with the key it belongs to.
QueryValue(t, l, k, e) ==
    /\ k \in Secrets(t, l) /\ \A o \in Secrets(t, l) : k <= o
    /\ e \in 1 .. (Len(t) + 1) /\ ValueCloses(t, l, k + 2, e)

LEMMA UriValueIs ==
    ASSUME NEW t, NEW at, NEW r
    PROVE  r \in UriValues(t, at) <=>
             \E l \in Queries(t, at) :
                /\ QueryStop(t, l) - (l + 1) <= Lengths.query
                /\ \E k, e : QueryValue(t, l, k, e) /\ Base32(t, k + 2, e) /\ r = ByteRange(k + 2, e)
  <1>1. \A l : r \in QueryValues(t, l) <=>
                 \E k, e : QueryValue(t, l, k, e) /\ Base32(t, k + 2, e) /\ r = ByteRange(k + 2, e)
    <2>1. SUFFICES ASSUME NEW l
                   PROVE  r \in QueryValues(t, l) <=>
                            \E k, e : QueryValue(t, l, k, e) /\ Base32(t, k + 2, e) /\ r = ByteRange(k + 2, e)
      OBVIOUS
    <2> DEFINE of(k) == {ByteRange(k + 2, e) : e \in {e \in 1 .. (Len(t) + 1) :
                           ValueCloses(t, l, k + 2, e) /\ Base32(t, k + 2, e)}}
               K == {k \in Secrets(t, l) : \A o \in Secrets(t, l) : k <= o}
    <2>2. QueryValues(t, l) = UNION {of(k) : k \in K}
      BY DEF QueryValues
    <2>3. r \in QueryValues(t, l) <=> \E k \in K : r \in of(k)
      <3> HIDE DEF of, K
      <3> QED BY <2>2
    <2>4. ASSUME NEW k
          PROVE  r \in of(k) <=> \E e \in 1 .. (Len(t) + 1) :
                   ValueCloses(t, l, k + 2, e) /\ Base32(t, k + 2, e) /\ r = ByteRange(k + 2, e)
      OBVIOUS
    <2> HIDE DEF of
    <2> QED BY <2>3, <2>4 DEF QueryValue
  <1> DEFINE Q == {l \in Queries(t, at) : QueryStop(t, l) - (l + 1) <= Lengths.query}
  <1>2. UriValues(t, at) = UNION {QueryValues(t, l) : l \in Q}
    BY DEF UriValues
  <1>3. r \in UriValues(t, at) <=> \E l \in Q : r \in QueryValues(t, l)
    <2> HIDE DEF Q
    <2> QED BY <1>2
  <1> QED BY <1>1, <1>3

\* The scan's values are those that a query has.
UriHas(t, at, l, v) ==
    /\ l \in Queries(t, at) /\ QueryStop(t, l) - (l + 1) <= Lengths.query
    /\ \E k, e : QueryValue(t, l, k, e) /\ v = ByteRange(k + 2, e)

LEMMA ScannedValue ==
    ASSUME NEW t \in Seq(STRING), NEW at \in DOMAIN t, at + 2 <= Len(t) + 1, NEW l, NEW v
    PROVE  (\E q : OtpauthValue(t, at, l, q, v)) <=> UriHas(t, at, l, v)
  <1>1. l \in Queries(t, at) <=>
             l \in scan_bounded(t, at + 2, Lengths.label, is_label_stop) /\ at_or_none(t, l) = "?"
    BY QueriesAre
  <1>2. ASSUME l \notin Queries(t, at) PROVE ~\E q : OtpauthValue(t, at, l, q, v)
    BY <1>1, <1>2 DEF OtpauthValue
  <1>3. CASE l \in Queries(t, at)
    <2>1. l \in DOMAIN t /\ t[l] = "?" /\ l \in Nat /\ Len(t) \in Nat /\ DOMAIN t = 1 .. Len(t)
      BY <1>3 DEF Queries, At
    <2>2. PICK q : q = QueryStop(t, l)
      OBVIOUS
    <2>3. (\E p : OtpauthValue(t, at, l, p, v)) <=>
            /\ q \in scan_bounded(t, l + 1, Lengths.query, is_query_stop)
            /\ v \in find_secret_value(t, l + 1, q)
      <3>1. \A p : p \in scan_bounded(t, l + 1, Lengths.query, is_query_stop) => p = q
        BY <2>1, <2>2, StopIs
      <3> QED BY <1>1, <1>3, <3>1 DEF OtpauthValue
    <2>4. q \in scan_bounded(t, l + 1, Lengths.query, is_query_stop) <=> q - (l + 1) <= Lengths.query
      BY <2>1, <2>2, StopIs
    <2>5. ASSUME q - (l + 1) <= Lengths.query
          PROVE  v \in find_secret_value(t, l + 1, q) <=>
                   \E k, e : QueryValue(t, l, k, e) /\ v = ByteRange(k + 2, e)
      <3>1. q \in (l + 1) .. (Len(t) + 1)
        <4>1. l + 1 \in 1 .. (Len(t) + 1) /\ q \in scan_bounded(t, l + 1, Lengths.query, is_query_stop)
          BY <2>1, <2>4, <2>5
        <4> QED BY <4>1, ScanBounded
      <3>2. q \in Nat /\ l + 1 \in Nat /\ l + 1 <= q /\ q <= Len(t) + 1
        BY <2>1, <3>1
      <3>3. PICK K : K = Secrets(t, l) /\ K = SecretKeys(t, l + 1, q)
        BY <2>1, <2>2, <3>2, SecretsAre
      <3>4. \A k \in K : k \in Nat /\ k + 2 \in Nat
        BY <3>2, <3>3 DEF SecretKeys
      <3>5. v \in find_secret_value(t, l + 1, q) <=>
              \E k \in K : \E e \in ValueEnds(t, k + 2, q) :
                /\ \A o \in K : k <= o
                /\ \A o \in ValueEnds(t, k + 2, q) : e <= o
                /\ v = ByteRange(k + 2, e)
        <4>1. PICK from \in Nat : from = l + 1
          BY <3>2
        <4>2. K = SecretKeys(t, from, q)
          BY <3>3, <4>1
        <4>3. v \in find_secret_value(t, from, q) <=>
                \E k \in SecretKeys(t, from, q) : \E e \in ValueEnds(t, k + 2, q) :
                  /\ \A o \in SecretKeys(t, from, q) : k <= o
                  /\ \A o \in ValueEnds(t, k + 2, q) : e <= o
                  /\ v = ByteRange(k + 2, e)
          BY <3>2, SecretValueIs
        <4> QED BY <4>1, <4>2, <4>3
      <3>6. ASSUME NEW k \in K, NEW e
            PROVE  e \in 1 .. (Len(t) + 1) /\ ValueCloses(t, l, k + 2, e) <=>
                     e \in ValueEnds(t, k + 2, q) /\ \A o \in ValueEnds(t, k + 2, q) : e <= o
        <4>1. k \in Nat /\ k + 2 \in Nat
          BY <3>4
        <4>2. e \in ValueEnds(t, k + 2, q) => e \in 1 .. (Len(t) + 1)
          BY <2>1, <3>2, <4>1 DEF ValueEnds
        <4>3. e \in 1 .. (Len(t) + 1) => e \in Nat
          OBVIOUS
        <4>4. PICK b \in Nat : b = k + 2
          BY <4>1
        <4>5. e \in Nat => (ValueCloses(t, l, b, e) <=>
                              e \in ValueEnds(t, b, q) /\ \A o \in ValueEnds(t, b, q) : e <= o)
          BY <2>2, <3>2, ClosesIs
        <4> QED BY <4>2, <4>3, <4>4, <4>5
      <3>7. ASSUME NEW k, NEW e
            PROVE  QueryValue(t, l, k, e) <=>
                     /\ k \in K /\ \A o \in K : k <= o
                     /\ e \in ValueEnds(t, k + 2, q) /\ \A o \in ValueEnds(t, k + 2, q) : e <= o
        BY <3>3, <3>6 DEF QueryValue
      <3> QED BY <3>5, <3>7
    <2> QED BY <1>3, <2>2, <2>3, <2>4, <2>5 DEF UriHas
  <1> QED BY <1>2, <1>3 DEF UriHas

\* There is at most one.
LEMMA OtpauthOnce ==
    ASSUME NEW t \in Seq(STRING), NEW at \in DOMAIN t, at + 2 <= Len(t) + 1,
           NEW l, NEW q, NEW v, OtpauthValue(t, at, l, q, v),
           NEW l2, NEW q2, NEW v2, OtpauthValue(t, at, l2, q2, v2)
    PROVE  v = v2
  <1>1. \A from, bound, stops : \A x, y \in scan_bounded(t, from, bound, stops) : x = y
    BY DEF scan_bounded
  <1>2. \A from, to : \A x, y \in find_secret_value(t, from, to) : x = y
    BY DEF find_secret_value
  <1>3. l = l2
    BY <1>1 DEF OtpauthValue
  <1>4. q = q2
    BY <1>1, <1>3 DEF OtpauthValue
  <1> QED BY <1>2, <1>3, <1>4 DEF OtpauthValue

\* What the grammar says of an URI is what the scan finds in it.
LEMMA UriFound ==
    ASSUME NEW t \in Seq(STRING), NEW at \in DOMAIN t, at + 2 <= Len(t) + 1, NEW r
    PROVE  r \in UriValues(t, at) <=>
             \E l, q, v : OtpauthValue(t, at, l, q, v) /\ r \in ToSet(base32_secret_range(t, v))
  <1>1. Len(t) \in Nat /\ at \in 1 .. Len(t)
    OBVIOUS
  <1>2. ASSUME NEW l, NEW q, NEW v, OtpauthValue(t, at, l, q, v),
               NEW k, NEW e, v = ByteRange(k + 2, e), k + 2 \in Nat, e \in Nat
        PROVE  ToSet(base32_secret_range(t, v)) = IF Base32(t, k + 2, e) THEN {ByteRange(k + 2, e)} ELSE {}
    <2>1. PICK b \in Nat, f \in Nat : v = ByteRange(b, f) /\ l + 3 <= b /\ b <= f /\ f <= q
      BY <1>2, OtpauthPlaces
    <2>2. l \in Nat /\ q \in Nat /\ q <= Len(t) + 1
      BY <1>2, OtpauthPlaces
    <2>3. b = k + 2 /\ f = e
      <3>1. v.start = b /\ v.end = f /\ v.start = k + 2 /\ v.end = e
        BY <1>2, <2>1 DEF ByteRange
      <3> QED BY <3>1
    <2>4. 1 <= b /\ b <= f /\ f <= Len(t) + 1
      BY <1>1, <2>1, <2>2
    <2>5. base32_secret_range(t, ByteRange(b, f)) = IF Base32(t, b, f) THEN <<ByteRange(b, f)>> ELSE <<>>
      BY <2>4, Base32Is
    <2> QED BY <2>1, <2>3, <2>5, OneFound
  <1>3. ASSUME NEW l \in Queries(t, at), NEW k, NEW e, QueryValue(t, l, k, e)
        PROVE  k + 2 \in Nat /\ e \in Nat
    <2>1. k \in DOMAIN t
      BY <1>3 DEF QueryValue, Secrets, At
    <2> QED BY <1>1, <1>3, <2>1 DEF QueryValue
  <1>4. ASSUME r \in UriValues(t, at)
        PROVE  \E l, q, v : OtpauthValue(t, at, l, q, v) /\ r \in ToSet(base32_secret_range(t, v))
    <2>1. PICK l \in Queries(t, at) :
             /\ QueryStop(t, l) - (l + 1) <= Lengths.query
             /\ \E k, e : QueryValue(t, l, k, e) /\ Base32(t, k + 2, e) /\ r = ByteRange(k + 2, e)
      BY <1>4, UriValueIs
    <2>2. PICK k, e : QueryValue(t, l, k, e) /\ Base32(t, k + 2, e) /\ r = ByteRange(k + 2, e)
      BY <2>1
    <2>3. \E q : OtpauthValue(t, at, l, q, r)
      <3>1. UriHas(t, at, l, r)
        BY <2>1, <2>2 DEF UriHas
      <3> QED BY <3>1, ScannedValue
    <2>4. PICK q : OtpauthValue(t, at, l, q, r)
      BY <2>3
    <2>5. k + 2 \in Nat /\ e \in Nat
      BY <1>3, <2>2
    <2>6. ToSet(base32_secret_range(t, r)) = {ByteRange(k + 2, e)}
      BY <1>2, <2>2, <2>4, <2>5
    <2> QED BY <2>2, <2>4, <2>6
  <1>5. ASSUME NEW l, NEW q, NEW v, OtpauthValue(t, at, l, q, v), r \in ToSet(base32_secret_range(t, v))
        PROVE  r \in UriValues(t, at)
    <2>1. /\ l \in Queries(t, at) /\ QueryStop(t, l) - (l + 1) <= Lengths.query
          /\ \E k, e : QueryValue(t, l, k, e) /\ v = ByteRange(k + 2, e)
      <3>1. \E p : OtpauthValue(t, at, l, p, v)
        BY <1>5
      <3>2. UriHas(t, at, l, v)
        BY <3>1, ScannedValue
      <3> QED BY <3>2 DEF UriHas
    <2>2. PICK k, e : QueryValue(t, l, k, e) /\ v = ByteRange(k + 2, e)
      BY <2>1
    <2>3. k + 2 \in Nat /\ e \in Nat
      BY <1>3, <2>1, <2>2
    <2>4. ToSet(base32_secret_range(t, v)) = IF Base32(t, k + 2, e) THEN {ByteRange(k + 2, e)} ELSE {}
      BY <1>2, <1>5, <2>2, <2>3
    <2>5. Base32(t, k + 2, e) /\ r = ByteRange(k + 2, e)
      BY <1>5, <2>4
    <2> QED BY <2>1, <2>2, <2>5, UriValueIs
  <1> QED BY <1>4, <1>5

LEMMA OtpauthAgrees ==
    ASSUME NEW t \in Seq(STRING), NEW s, s.kind = "otpauth"
    PROVE  Agrees(s, t)
  <1>1. Shapes(s, t) = OtpauthShapes(t) /\ Before(s) = is_alnum_dash /\ Behind(s) = {}
        /\ \A at : attempt(s, t, at) = scan_otpauth(t, at)
    BY DEF Shapes, Before, Behind, attempt
  <1>2. \A shape : shape \in OtpauthShapes(t) <=>
                     \E i \in DOMAIN t : starts_with(t, i, PREFIX) /\ shape = Shape(i, i + 2, UriValues(t, i))
    BY DEF OtpauthShapes
  <1>3. ASSUME NEW at \in DOMAIN t, starts_with(t, at, PREFIX)
        PROVE  at + 2 <= Len(t) + 1 /\ at \in Nat \ {0}
    <2>1. at + 1 <= Len(t) /\ at \in Nat \ {0} /\ Len(t) \in Nat
      BY <1>3, StartsTwo DEF PREFIX
    <2> QED BY <2>1
  <1>4. ASSUME NEW at \in DOMAIN t
        PROVE  StandsAlone(s, t, Shape(at, at + 2, UriValues(t, at))) <=> ~BearerBlocked(t, at)
    <2>1. at \in Nat \ {0}
      OBVIOUS
    <2> QED BY <1>1, <2>1 DEF StandsAlone, Shape, BearerBlocked
  <1>5. ASSUME NEW at \in DOMAIN t, NEW m \in scan_otpauth(t, at)
        PROVE  /\ \E longer \in OtpauthShapes(t) : longer.start = at /\ longer.end = m.resume
               /\ \A r \in ToSet(m.found) :
                     \E shape \in OtpauthShapes(t) : r \in shape.values /\ StandsAlone(s, t, shape)
    <2>1. starts_with(t, at, PREFIX) /\ m.resume = at + 2
      BY <1>5, OtpauthIs DEF Raw
    <2>2. PICK shape : shape = Shape(at, at + 2, UriValues(t, at))
      OBVIOUS
    <2>3. shape \in OtpauthShapes(t) /\ shape.start = at /\ shape.end = m.resume
          /\ shape.values = UriValues(t, at)
      BY <1>2, <2>1, <2>2 DEF Shape
    <2>4. ASSUME NEW r \in ToSet(m.found) PROVE r \in shape.values /\ StandsAlone(s, t, shape)
      <3>1. m.found # <<>>
        BY <2>4, OneFound
      <3>2. /\ ~BearerBlocked(t, at)
            /\ \E l, q, v : OtpauthValue(t, at, l, q, v) /\ m.found = base32_secret_range(t, v)
        BY <1>5, <3>1, OtpauthIs DEF Raw
      <3>3. r \in UriValues(t, at)
        BY <1>3, <2>1, <2>4, <3>2, UriFound
      <3> QED BY <1>4, <2>2, <2>3, <3>2, <3>3
    <2> QED BY <2>3, <2>4
  <1>6. ASSUME NEW at \in DOMAIN t, starts_with(t, at, PREFIX), ~BearerBlocked(t, at)
        PROVE  /\ scan_otpauth(t, at) # {}
               /\ \A m \in scan_otpauth(t, at) : UriValues(t, at) \subseteq ToSet(m.found)
    <2>1. CASE \E l, q, v : OtpauthValue(t, at, l, q, v)
      <3>1. PICK l, q, v : OtpauthValue(t, at, l, q, v)
        BY <2>1
      <3>2. \A l2, q2, v2 : OtpauthValue(t, at, l2, q2, v2) => v2 = v
        BY <1>3, <1>6, <3>1, OtpauthOnce
      <3>3. Raw(at + 2, base32_secret_range(t, v)) \in scan_otpauth(t, at)
        BY <1>6, <3>1, OtpauthIs
      <3>4. ASSUME NEW m \in scan_otpauth(t, at) PROVE m.found = base32_secret_range(t, v)
        BY <1>6, <3>1, <3>2, <3>4, OtpauthIs DEF Raw
      <3>5. \A r \in UriValues(t, at) : r \in ToSet(base32_secret_range(t, v))
        BY <1>3, <1>6, <3>2, UriFound
      <3> QED BY <3>3, <3>4, <3>5
    <2>2. CASE ~\E l, q, v : OtpauthValue(t, at, l, q, v)
      <3>1. Raw(at + 2, <<>>) \in scan_otpauth(t, at)
        BY <1>6, <2>2, OtpauthIs
      <3>2. UriValues(t, at) = {}
        BY <1>3, <1>6, <2>2, UriFound
      <3> QED BY <3>1, <3>2
    <2> QED BY <2>1, <2>2
  <1>7. ASSUME NEW shape \in OtpauthShapes(t)
        PROVE  /\ shape.start \in DOMAIN t
               /\ StandsAlone(s, t, shape) =>
                     /\ scan_otpauth(t, shape.start) # {}
                     /\ \A m \in scan_otpauth(t, shape.start) : shape.values \subseteq ToSet(m.found)
    <2>1. PICK i \in DOMAIN t : starts_with(t, i, PREFIX) /\ shape = Shape(i, i + 2, UriValues(t, i))
      BY <1>2
    <2>2. shape.start = i /\ shape.values = UriValues(t, i)
      BY <2>1 DEF Shape
    <2> QED BY <1>4, <1>6, <2>1, <2>2
  <1>8. ASSUME NEW at \in DOMAIN t, NEW m \in attempt(s, t, at)
        PROVE  /\ \E longer \in Shapes(s, t) : longer.start = at /\ longer.end = m.resume
               /\ \A r \in ToSet(m.found) :
                     \E shape \in Shapes(s, t) : r \in shape.values /\ StandsAlone(s, t, shape)
    BY <1>1, <1>5, <1>8
  <1>9. ASSUME NEW shape \in Shapes(s, t)
        PROVE  /\ shape.start \in DOMAIN t
               /\ StandsAlone(s, t, shape) =>
                     /\ attempt(s, t, shape.start) # {}
                     /\ \A m \in attempt(s, t, shape.start) : shape.values \subseteq ToSet(m.found)
    <2>1. shape \in OtpauthShapes(t) /\ attempt(s, t, shape.start) = scan_otpauth(t, shape.start)
      BY <1>1, <1>9
    <2> QED BY <1>7, <2>1
  <1> QED BY <1>8, <1>9 DEF Agrees

---------------------------------------------------------------------------
(* Bearer tokens, in the grammar and in the scan. *)

\* A keyword ends behind one bearer, whose heads it begins at one of.
LEMMA SchemeIs ==
    ASSUME NEW t \in Seq(STRING), NEW at \in DOMAIN t, NEW k
    PROVE  k \in match_scheme_at(t, at) <=>
             \E b \in At(t, "bearer") : at \in Heads(t, b) /\ k = b + 1
  <1> DEFINE colon == run_end(t, at + 1, is_js_whitespace)
             keyword == run_end(t, colon + 1, is_js_whitespace)
  <1>1. Len(t) \in Nat /\ DOMAIN t = 1 .. Len(t) /\ at \in 1 .. Len(t)
    OBVIOUS
  <1>2. at_or_none(t, at) = t[at] /\ "bearer" \notin is_js_whitespace /\ ":" \notin is_js_whitespace
    BY DEF at_or_none, is_js_whitespace, is_js_line_terminator, Blank, LineEnd
  <1>3. CASE t[at] = "bearer"
    <2>1. match_scheme_at(t, at) = {at + 1}
      BY <1>2, <1>3 DEF match_scheme_at
    <2>2. ASSUME NEW b \in At(t, "bearer") PROVE at \in Heads(t, b) <=> at = b
      BY <1>3 DEF Heads, At
    <2>3. at \in At(t, "bearer")
      BY <1>3 DEF At
    <2> QED BY <2>1, <2>2, <2>3
  <1>4. CASE t[at] = "authorization"
    <2>1. k \in match_scheme_at(t, at) <=>
            at_or_none(t, colon) = ":" /\ at_or_none(t, keyword) = "bearer" /\ k = keyword + 1
      BY <1>2, <1>4 DEF match_scheme_at
    <2>2. RunEndsAt(t, at + 1, is_js_whitespace, colon)
      BY <1>1, RunEnd
    <2>3. colon \in DOMAIN t => RunEndsAt(t, colon + 1, is_js_whitespace, keyword)
      <3>1. colon \in DOMAIN t => colon + 1 \in 1 .. Len(t) + 1
        BY <1>1
      <3> HIDE DEF colon
      <3> QED BY <3>1, RunEnd
    <2> HIDE DEF colon, keyword
    <2>4. ASSUME at_or_none(t, colon) = ":", at_or_none(t, keyword) = "bearer"
          PROVE  keyword \in At(t, "bearer") /\ at \in Heads(t, keyword)
      <3>1. at_or_none(t, colon) \in {":"} /\ at_or_none(t, keyword) \in {"bearer"}
        BY <2>4
      <3>2. colon \in DOMAIN t /\ t[colon] = ":" /\ keyword \in DOMAIN t /\ t[keyword] = "bearer"
        <4>1. colon \in DOMAIN t /\ t[colon] \in {":"}
          BY <3>1, InText, EndOfText
        <4>2. keyword \in DOMAIN t /\ t[keyword] \in {"bearer"}
          BY <3>1, InText, EndOfText
        <4> QED BY <4>1, <4>2
      <3>3. /\ at < colon /\ All(t, at + 1, colon, is_js_whitespace)
            /\ colon < keyword /\ All(t, colon + 1, keyword, is_js_whitespace)
        BY <1>1, <2>2, <2>3, <3>2 DEF RunEndsAt, WholeRun
      <3> QED BY <1>4, <3>2, <3>3 DEF Heads, At
    <2>5. ASSUME NEW b \in At(t, "bearer"), at \in Heads(t, b)
          PROVE  at_or_none(t, colon) = ":" /\ at_or_none(t, keyword) = "bearer" /\ b = keyword
      <3>1. b \in 1 .. Len(t) /\ t[b] = "bearer" /\ at # b
        BY <1>1, <1>4 DEF At
      <3>2. PICK c \in At(t, ":") : /\ at < c /\ c < b
                                    /\ All(t, at + 1, c, is_js_whitespace) /\ All(t, c + 1, b, is_js_whitespace)
        BY <2>5, <3>1 DEF Heads
      <3>3. c \in 1 .. Len(t) /\ t[c] = ":"
        BY <1>1 DEF At
      <3>4. RunEndsAt(t, at + 1, is_js_whitespace, c)
        BY <1>1, <1>2, <3>2, <3>3 DEF RunEndsAt, WholeRun
      <3>5. c = colon
        <4>1. PICK i \in Nat : i = at + 1
          BY <1>1
        <4> QED BY <2>2, <3>4, <4>1, RunEndsOnce
      <3>6. RunEndsAt(t, c + 1, is_js_whitespace, b)
        BY <1>1, <1>2, <3>1, <3>2, <3>3 DEF RunEndsAt, WholeRun
      <3>7. b = keyword
        <4>1. PICK i \in Nat : i = c + 1
          BY <3>3
        <4>2. RunEndsAt(t, c + 1, is_js_whitespace, keyword)
          BY <1>1, <2>3, <3>3, <3>5
        <4> QED BY <3>6, <4>1, <4>2, RunEndsOnce
      <3> QED BY <1>1, <3>1, <3>3, <3>5, <3>7 DEF at_or_none
    <2> QED BY <2>1, <2>4, <2>5
  <1>5. CASE t[at] \notin {"bearer", "authorization"}
    <2>1. match_scheme_at(t, at) = {}
      BY <1>2, <1>5 DEF match_scheme_at
    <2>2. ASSUME NEW b \in At(t, "bearer") PROVE at \notin Heads(t, b)
      BY <1>5 DEF Heads, At
    <2> QED BY <2>1, <2>2
  <1> QED BY <1>3, <1>4, <1>5

LEMMA SchemeOnce ==
    ASSUME NEW t, NEW at, NEW k \in match_scheme_at(t, at), NEW j \in match_scheme_at(t, at)
    PROVE  k = j
  BY DEF match_scheme_at

LEMMA PaddingIs ==
    ASSUME NEW t \in Seq(STRING), NEW to \in 1 .. (Len(t) + 1)
    PROVE  Paddings(t, to) = {padding_end(t, to)}
  <1>1. Len(t) \in Nat /\ DOMAIN t = 1 .. Len(t) /\ to \in Nat
    OBVIOUS
  <1>2. at_or_none(t, to) = "=" <=> to <= Len(t) /\ t[to] = "="
    BY <1>1 DEF at_or_none
  <1>3. at_or_none(t, to + 1) = "=" <=> to + 1 <= Len(t) /\ t[to + 1] = "="
    BY <1>1 DEF at_or_none
  <1>4. ASSUME NEW e
        PROVE  e \in Paddings(t, to) <=>
                 \/ e = to /\ at_or_none(t, to) # "="
                 \/ e = to + 1 /\ at_or_none(t, to) = "=" /\ at_or_none(t, to + 1) # "="
                 \/ e = to + 2 /\ at_or_none(t, to) = "=" /\ at_or_none(t, to + 1) = "="
    <2>1. e \in to .. (to + 2) <=> e = to \/ e = to + 1 \/ e = to + 2
      BY <1>1
    <2>2. All(t, to, to, {"="})
      BY <1>1 DEF All
    <2>3. All(t, to, to + 1, {"="}) <=> t[to] = "="
      BY <1>1 DEF All
    <2>4. All(t, to, to + 2, {"="}) <=> t[to] = "=" /\ t[to + 1] = "="
      <3>1. \A i : i \in to .. ((to + 2) - 1) <=> i = to \/ i = to + 1
        BY <1>1
      <3> QED BY <3>1 DEF All
    <2>5. CASE e = to
      BY <1>1, <2>1, <2>2, <2>5 DEF Paddings
    <2>6. CASE e = to + 1
      <3>1. e \in Paddings(t, to) <=> /\ to + 1 <= Len(t) + 1 /\ t[to] = "="
                                      /\ at_or_none(t, to + 1) # "="
        BY <1>1, <2>1, <2>3, <2>6 DEF Paddings
      <3> QED BY <1>1, <1>2, <2>6, <3>1
    <2>7. CASE e = to + 2
      <3>1. e \in Paddings(t, to) <=> to + 2 <= Len(t) + 1 /\ t[to] = "=" /\ t[to + 1] = "="
        BY <1>1, <2>1, <2>4, <2>7 DEF Paddings
      <3> QED BY <1>1, <1>2, <1>3, <2>7, <3>1
    <2>8. CASE ~(e = to \/ e = to + 1 \/ e = to + 2)
      BY <2>1, <2>8 DEF Paddings
    <2> QED BY <2>5, <2>6, <2>7, <2>8
  <1>5. ASSUME NEW e PROVE e \in Paddings(t, to) <=> e = padding_end(t, to)
    BY <1>4 DEF padding_end
  <1> QED BY <1>5

\* The shape behind a keyword from at to k.
BearerShape(t, at, k) == Shape(at, BearerEnd(t, k), {ByteRange(BearerFrom(t, k), BearerEnd(t, k))})

LEMMA BearerTokenIs ==
    ASSUME NEW t \in Seq(STRING), NEW b \in DOMAIN t, NEW from \in DOMAIN t, NEW to \in 1 .. (Len(t) + 1)
    PROVE  BearerToken(t, b, from, to) <=>
             BearerFits(t, b + 1) /\ from = BearerFrom(t, b + 1) /\ to = BearerTo(t, b + 1)
  <1>1. Len(t) \in Nat /\ DOMAIN t = 1 .. Len(t) /\ b \in 1 .. Len(t) /\ Lengths.bearer \in Nat \ {0}
    <2>1. Lengths.bearer \in Nat \ {0}
      BY LengthsAre
    <2> QED BY <2>1
  <1>2. PICK k \in 1 .. Len(t) + 1 : k = b + 1
    BY <1>1
  <1>3. RunEndsAt(t, k, Blank, BearerFrom(t, k))
    BY RunEnd DEF BearerFrom
  <1>4. PICK f : f = BearerFrom(t, k)
    OBVIOUS
  <1>5. f \in 1 .. Len(t) + 1 /\ f \in Nat /\ k <= f
    BY <1>3, <1>4 DEF RunEndsAt
  <1>6. RunEndsAt(t, f, is_token_char, BearerTo(t, k))
    BY <1>4, <1>5, RunEnd DEF BearerTo
  <1>7. PICK g : g = BearerTo(t, k)
    OBVIOUS
  <1>8. g \in Nat /\ f <= g /\ g <= Len(t) + 1
    BY <1>6, <1>7 DEF RunEndsAt
  <1>9. ASSUME BearerToken(t, b, from, to)
        PROVE  BearerFits(t, k) /\ from = f /\ to = g
    <2>1. /\ k < from /\ WholeRun(t, k, from, Blank)
          /\ to - from >= Lengths.bearer /\ WholeRun(t, from, to, is_token_char)
      BY <1>2, <1>9 DEF BearerToken
    <2>2. from = f
      <3>1. RunEndsAt(t, k, Blank, from)
        BY <1>1, <1>2, <2>1 DEF RunEndsAt
      <3> QED BY <1>2, <1>3, <1>4, <3>1, RunEndsOnce
    <2>3. to = g
      <3>1. RunEndsAt(t, f, is_token_char, to)
        BY <1>1, <2>1, <2>2 DEF RunEndsAt
      <3> QED BY <1>5, <1>6, <1>7, <3>1, RunEndsOnce
    <2> QED BY <1>2, <1>4, <1>7, <2>1, <2>2, <2>3 DEF BearerFits
  <1>10. ASSUME BearerFits(t, k), from = f, to = g
         PROVE  BearerToken(t, b, from, to)
    <2>1. f # k /\ g - f >= Lengths.bearer
      BY <1>4, <1>7, <1>10 DEF BearerFits
    <2>2. k < f
      BY <1>2, <1>5, <2>1
    <2>3. WholeRun(t, k, f, Blank) /\ WholeRun(t, f, g, is_token_char)
      BY <1>3, <1>4, <1>6, <1>7 DEF RunEndsAt
    <2> QED BY <1>2, <1>10, <2>1, <2>2, <2>3 DEF BearerToken
  <1> QED BY <1>2, <1>4, <1>7, <1>9, <1>10

LEMMA BearerShapeIs ==
    ASSUME NEW t \in Seq(STRING), NEW shape
    PROVE  shape \in BearerShapes(t) <=>
             \E at \in DOMAIN t : \E k \in match_scheme_at(t, at) :
                BearerFits(t, k) /\ shape = BearerShape(t, at, k)
  <1> DEFINE of(x, s) == {Shape(s, e, {ByteRange(x[2], e)}) : e \in Paddings(t, x[3])}
             all(x) == UNION {of(x, s) : s \in Heads(t, x[1])}
             X == {x \in At(t, "bearer") \X (DOMAIN t) \X (1 .. (Len(t) + 1)) :
                     BearerToken(t, x[1], x[2], x[3])}
  <1>1. BearerShapes(t) = UNION {all(x) : x \in X}
    BY DEF BearerShapes
  <1>2. Len(t) \in Nat /\ DOMAIN t = 1 .. Len(t)
    OBVIOUS
  <1>3. ASSUME shape \in BearerShapes(t)
        PROVE  \E at \in DOMAIN t : \E k \in match_scheme_at(t, at) :
                  BearerFits(t, k) /\ shape = BearerShape(t, at, k)
    <2>1. PICK x \in X : shape \in all(x)
      <3> HIDE DEF all, X
      <3> QED BY <1>1, <1>3
    <2>2. PICK s \in Heads(t, x[1]) : shape \in of(x, s)
      <3> HIDE DEF of, X
      <3> QED BY <2>1
    <2>3. PICK b \in At(t, "bearer"), from \in DOMAIN t, to \in 1 .. (Len(t) + 1) : x = <<b, from, to>>
      BY <2>1
    <2>4. x[1] = b /\ x[2] = from /\ x[3] = to
      BY <2>3
    <2>5. BearerToken(t, b, from, to)
      BY <2>1, <2>4
    <2>6. b \in DOMAIN t /\ s \in DOMAIN t
      <3>1. s \in Heads(t, b)
        BY <2>2, <2>4
      <3> QED BY <3>1 DEF At, Heads
    <2>7. BearerFits(t, b + 1) /\ from = BearerFrom(t, b + 1) /\ to = BearerTo(t, b + 1)
      BY <2>5, <2>6, BearerTokenIs
    <2>8. b + 1 \in match_scheme_at(t, s)
      BY <2>2, <2>4, <2>6, SchemeIs
    <2>9. PICK e \in Paddings(t, to) : shape = Shape(s, e, {ByteRange(from, e)})
      BY <2>2, <2>4
    <2>10. e = BearerEnd(t, b + 1)
      <3>1. e = padding_end(t, to)
        BY <2>9, PaddingIs
      <3> QED BY <2>7, <3>1 DEF BearerEnd
    <2>11. shape = BearerShape(t, s, b + 1)
      BY <2>7, <2>9, <2>10 DEF BearerShape
    <2> QED BY <2>6, <2>7, <2>8, <2>11
  <1>4. ASSUME NEW at \in DOMAIN t, NEW k \in match_scheme_at(t, at), BearerFits(t, k),
               shape = BearerShape(t, at, k)
        PROVE  shape \in BearerShapes(t)
    <2>1. PICK b \in At(t, "bearer") : at \in Heads(t, b) /\ k = b + 1
      BY SchemeIs
    <2>2. PICK from, to, end : from = BearerFrom(t, k) /\ to = BearerTo(t, k) /\ end = BearerEnd(t, k)
      OBVIOUS
    <2>3. /\ at \in Nat /\ k \in Nat /\ at < k /\ from \in Nat /\ k <= from /\ to \in Nat /\ from <= to
          /\ end \in Nat /\ to <= end /\ end <= Len(t) + 1
      BY <2>2, BearerPlaces
    <2>4. from # k /\ to - from >= Lengths.bearer /\ Lengths.bearer \in Nat \ {0}
      <3>1. Lengths.bearer \in Nat \ {0}
        BY LengthsAre
      <3> QED BY <1>4, <2>2, <3>1 DEF BearerFits
    <2>5. from \in DOMAIN t /\ to \in 1 .. (Len(t) + 1)
      BY <1>2, <2>3, <2>4
    <2>6. b \in DOMAIN t
      BY DEF At
    <2>7. BearerToken(t, b, from, to)
      BY <1>4, <2>1, <2>2, <2>5, <2>6, BearerTokenIs
    <2>8. PICK x : x = <<b, from, to>>
      OBVIOUS
    <2>9. x[1] = b /\ x[2] = from /\ x[3] = to /\ x \in X
      BY <2>5, <2>7, <2>8
    <2>10. end \in Paddings(t, to)
      BY <2>2, <2>5, PaddingIs DEF BearerEnd
    <2>11. shape = Shape(at, end, {ByteRange(from, end)})
      BY <1>4, <2>2 DEF BearerShape
    <2>12. shape \in of(x, at)
      BY <2>9, <2>10, <2>11
    <2>13. shape \in all(x)
      <3>1. at \in Heads(t, x[1])
        BY <2>1, <2>9
      <3> HIDE DEF of
      <3> QED BY <2>12, <3>1
    <2> HIDE DEF all, X
    <2> QED BY <1>1, <2>9, <2>13
  <1> HIDE DEF of, all, X
  <1> QED BY <1>3, <1>4

LEMMA BearerAgrees ==
    ASSUME NEW t \in Seq(STRING), NEW s, s.kind = "bearer"
    PROVE  Agrees(s, t)
  <1>1. Shapes(s, t) = BearerShapes(t) /\ Before(s) = is_alnum_dash /\ Behind(s) = {}
        /\ \A at : attempt(s, t, at) = scan_bearer(t, at)
    BY DEF Shapes, Before, Behind, attempt
  <1>2. ASSUME NEW at \in DOMAIN t, NEW k
        PROVE  StandsAlone(s, t, BearerShape(t, at, k)) <=> ~BearerBlocked(t, at)
    <2>1. at \in Nat \ {0}
      OBVIOUS
    <2> QED BY <1>1, <2>1 DEF StandsAlone, BearerShape, Shape, BearerBlocked
  <1>3. ASSUME NEW at \in DOMAIN t, NEW m \in attempt(s, t, at)
        PROVE  /\ \E longer \in Shapes(s, t) : longer.start = at /\ longer.end = m.resume
               /\ \A r \in ToSet(m.found) :
                     \E shape \in Shapes(s, t) : r \in shape.values /\ StandsAlone(s, t, shape)
    <2>1. m \in scan_bearer(t, at)
      BY <1>1, <1>3
    <2>2. PICK k \in match_scheme_at(t, at) :
             /\ BearerFits(t, k)
             /\ m = Raw(BearerEnd(t, k), IF BearerBlocked(t, at) THEN <<>>
                                         ELSE <<ByteRange(BearerFrom(t, k), BearerEnd(t, k))>>)
      BY <2>1, BearerIs
    <2>3. PICK shape : shape = BearerShape(t, at, k)
      OBVIOUS
    <2>4. shape \in Shapes(s, t)
      BY <1>1, <2>2, <2>3, BearerShapeIs
    <2>5. shape.start = at /\ shape.end = m.resume
          /\ shape.values = {ByteRange(BearerFrom(t, k), BearerEnd(t, k))}
      BY <2>2, <2>3 DEF BearerShape, Shape, Raw
    <2>6. ASSUME NEW r \in ToSet(m.found) PROVE r \in shape.values /\ StandsAlone(s, t, shape)
      <3>1. m.found = IF BearerBlocked(t, at) THEN <<>>
                      ELSE <<ByteRange(BearerFrom(t, k), BearerEnd(t, k))>>
        BY <2>2 DEF Raw
      <3>2. ~BearerBlocked(t, at)
        BY <2>6, <3>1, OneFound
      <3>3. r = ByteRange(BearerFrom(t, k), BearerEnd(t, k))
        BY <2>6, <3>1, <3>2, OneFound
      <3> QED BY <1>2, <2>3, <2>5, <3>2, <3>3
    <2> QED BY <2>4, <2>5, <2>6
  <1>4. ASSUME NEW shape \in Shapes(s, t)
        PROVE  /\ shape.start \in DOMAIN t
               /\ StandsAlone(s, t, shape) =>
                     /\ attempt(s, t, shape.start) # {}
                     /\ \A m \in attempt(s, t, shape.start) : shape.values \subseteq ToSet(m.found)
    <2>1. shape \in BearerShapes(t)
      BY <1>1, <1>4
    <2>2. PICK at \in DOMAIN t : \E k \in match_scheme_at(t, at) :
                BearerFits(t, k) /\ shape = BearerShape(t, at, k)
      BY <2>1, BearerShapeIs
    <2>3. PICK k \in match_scheme_at(t, at) : BearerFits(t, k) /\ shape = BearerShape(t, at, k)
      BY <2>2
    <2>4. shape.start = at /\ shape.values = {ByteRange(BearerFrom(t, k), BearerEnd(t, k))}
      BY <2>3 DEF BearerShape, Shape
    <2>5. attempt(s, t, at) = scan_bearer(t, at)
      BY <1>1
    <2>6. attempt(s, t, at) # {}
      <3>1. PICK m : m = Raw(BearerEnd(t, k), IF BearerBlocked(t, at) THEN <<>>
                                              ELSE <<ByteRange(BearerFrom(t, k), BearerEnd(t, k))>>)
        OBVIOUS
      <3>2. m \in scan_bearer(t, at)
        BY <2>3, <3>1, BearerIs
      <3> QED BY <2>5, <3>2
    <2>7. ASSUME StandsAlone(s, t, shape), NEW m \in attempt(s, t, at)
          PROVE  shape.values \subseteq ToSet(m.found)
      <3>1. ~BearerBlocked(t, at)
        BY <1>2, <2>3, <2>7
      <3>2. m \in scan_bearer(t, at)
        BY <2>5, <2>7
      <3>3. PICK j \in match_scheme_at(t, at) :
               m = Raw(BearerEnd(t, j), IF BearerBlocked(t, at) THEN <<>>
                                        ELSE <<ByteRange(BearerFrom(t, j), BearerEnd(t, j))>>)
        BY <3>2, BearerIs
      <3>4. j = k
        BY SchemeOnce
      <3>5. m.found = <<ByteRange(BearerFrom(t, k), BearerEnd(t, k))>>
        BY <3>1, <3>3, <3>4 DEF Raw
      <3> QED BY <2>4, <3>5, OneFound
    <2> QED BY <2>4, <2>6, <2>7
  <1> QED BY <1>3, <1>4 DEF Agrees

---------------------------------------------------------------------------
(* The detectors. *)

\* The passes that agree with their grammar, and the others.
AgreedPasses == TokenPasses \cup {Kind("bearer"), Kind("otpauth")}
OtherPasses == {Kind("authority"), Kind("azure"), Kind("assignment"), Kind("authorization")}

\* The detectors that have none of the others.
AgreedDetectors == DOMAIN Passes \ {"connection_string", "generic_token"}

LEMMA PassesAre ==
    ASSUME NEW d \in DOMAIN Passes, NEW p \in DOMAIN Passes[d]
    PROVE  /\ Passes[d][p] \in AgreedPasses \cup OtherPasses
           /\ d \in AgreedDetectors => Passes[d][p] \in AgreedPasses
  <1>1. DOMAIN Passes = {"aws", "github", "gitlab", "openai", "anthropic", "shopify", "vault", "stripe",
                         "slack", "pypi", "huggingface", "docker", "cloudflare", "digitalocean", "linear",
                         "supabase", "vercel", "npm", "jwt", "bearer", "connection_string", "otpauth",
                         "generic_token"}
    BY DEF Passes
  <1>2. d \in {"aws", "gitlab", "anthropic", "shopify", "vault", "stripe", "slack", "pypi", "huggingface",
               "docker", "cloudflare", "digitalocean", "linear", "supabase", "vercel", "npm"}
        => Passes[d][p] \in RunPasses
    BY DEF Passes, RunPasses
  <1>3. d = "github" => Passes[d][p] \in RunPasses \cup {Kind("fine_grained")}
    BY DEF Passes, RunPasses
  <1>4. d \in {"openai", "jwt"} => Passes[d][p] \in {Kind("openai"), Kind("jwt")}
    BY DEF Passes
  <1>5. d \in {"bearer", "otpauth"} => Passes[d][p] \in {Kind("bearer"), Kind("otpauth")}
    BY DEF Passes
  <1>6. d \in {"connection_string", "generic_token"} => Passes[d][p] \in OtherPasses
    BY DEF Passes, OtherPasses
  <1> QED BY <1>1, <1>2, <1>3, <1>4, <1>5, <1>6 DEF AgreedPasses, TokenPasses, AgreedDetectors

LEMMA PassesAgree ==
    ASSUME NEW t \in Seq(STRING), NEW s \in AgreedPasses
    PROVE  Sensible(s, t) /\ Agrees(s, t)
  <1>1. CASE s \in TokenPasses
    BY <1>1, TokenPassesAgree
  <1>2. CASE s = Kind("bearer")
    <2>1. s.kind = "bearer"
      BY <1>2 DEF Kind
    <2> QED BY <2>1, BearerSensible, BearerAgrees
  <1>3. CASE s = Kind("otpauth")
    <2>1. s.kind = "otpauth"
      BY <1>3 DEF Kind
    <2> QED BY <2>1, OtpauthSensible, OtpauthAgrees
  <1> QED BY <1>1, <1>2, <1>3 DEF AgreedPasses

LEMMA OthersSensible ==
    ASSUME NEW t \in Seq(STRING), NEW s \in OtherPasses
    PROVE  Sensible(s, t)
  <1>1. s.kind \in {"authority", "azure", "assignment", "authorization"}
    BY DEF OtherPasses, Kind
  <1>2. CASE s.kind = "authority"
    BY <1>2, AuthoritySensible
  <1>3. CASE s.kind = "azure"
    BY <1>3, AzureSensible
  <1>4. CASE s.kind = "assignment"
    BY <1>4, AssignmentSensible
  <1>5. CASE s.kind = "authorization"
    BY <1>5, AuthorizationSensible
  <1> QED BY <1>1, <1>2, <1>3, <1>4, <1>5

LEMMA AllSensible ==
    ASSUME LoopTyped
    PROVE  /\ \A p \in DOMAIN Passes[detector] : Sensible(Passes[detector][p], text)
           /\ Sensible(Scan, text)
  <1>1. ASSUME NEW p \in DOMAIN Passes[detector] PROVE Sensible(Passes[detector][p], text)
    <2>1. detector \in DOMAIN Passes /\ text \in Seq(STRING)
      BY DEF LoopTyped
    <2>2. PICK s : s = Passes[detector][p]
      OBVIOUS
    <2>3. s \in AgreedPasses \cup OtherPasses
      BY <2>1, <2>2, PassesAre
    <2>4. Sensible(s, text)
      BY <2>1, <2>3, PassesAgree, OthersSensible
    <2> QED BY <2>2, <2>4
  <1> QED BY <1>1 DEF LoopTyped, Scan

LEMMA AllAgree ==
    ASSUME LoopTyped, detector \in AgreedDetectors
    PROVE  DetectorAgrees
  <1>1. ASSUME NEW p \in DOMAIN Passes[detector] PROVE Agrees(Passes[detector][p], text)
    <2>1. detector \in DOMAIN Passes /\ text \in Seq(STRING)
      BY DEF LoopTyped
    <2>2. PICK s : s = Passes[detector][p]
      OBVIOUS
    <2>3. s \in AgreedPasses
      BY <2>1, <2>2, PassesAre
    <2>4. Agrees(s, text)
      BY <2>1, <2>3, PassesAgree
    <2> QED BY <2>2, <2>4
  <1> QED BY <1>1 DEF DetectorAgrees

LEMMA TypedAlways == DetectSpec => []LoopTyped
  <1>1. DetectInit => LoopTyped
    BY InitTyped
  <1>2. LoopTyped /\ [DetectNext]_detect_vars => LoopTyped'
    BY AllSensible, NextTyped
  <1> QED BY <1>1, <1>2, PTL DEF DetectSpec

\* DetectTypeCorrect: whatever detector runs on whatever text, the cursor stays in the text or right
\* behind it, and every range reported is a non-empty part of the text (Detector::detect of every
\* built-in detector, by the ranges its attempts report).
THEOREM DetectTypeCorrect == DetectSpec => []DetectTypeOK
  BY TypedAlways, TypedIsTypeOK, PTL

\* Advances: each step of each detector brings it nearer the end of its last pass, on every text, so
\* that the scan of a text of n symbols is over after a number of steps that n bounds.
THEOREM Advances == DetectSpec => AlwaysAdvances
  <1>1. LoopTyped /\ [DetectNext]_detect_vars => [pass' > pass \/ cursor' > cursor]_detect_vars
    BY AllSensible, NextMoves
  <1> QED BY <1>1, TypedAlways, PTL DEF DetectSpec, AlwaysAdvances

LEMMA GrammarAlways ==
    DetectSpec => [](LoopTyped /\ (detector \in AgreedDetectors => GrammarInv))
  <1> DEFINE Inv == LoopTyped /\ (detector \in AgreedDetectors => GrammarInv)
  <1>1. DetectInit => Inv
    BY InitTyped, AllAgree, InitGrammar
  <1>2. Inv /\ [DetectNext]_detect_vars => Inv'
    <2>1. SUFFICES ASSUME Inv, [DetectNext]_detect_vars PROVE Inv'
      OBVIOUS
    <2>2. LoopTyped'
      BY <2>1, AllSensible, NextTyped
    <2>3. detector' = detector
      BY <2>1 DEF DetectNext, Advance, Match, NextPass, detect_vars
    <2>4. ASSUME detector \in AgreedDetectors PROVE GrammarInv'
      <3>1. DetectorAgrees /\ \A p \in DOMAIN Passes[detector] : Sensible(Passes[detector][p], text)
        BY <2>1, <2>4, AllSensible, AllAgree
      <3>2. GrammarInv
        BY <2>1, <2>4
      <3> QED BY <2>1, <3>1, <3>2, NextGrammar
    <2>5. (detector \in AgreedDetectors)' => detector \in AgreedDetectors
      BY <2>3 DEF AgreedDetectors, Passes
    <2> QED BY <2>2, <2>4, <2>5
  <1> QED BY <1>1, <1>2, PTL DEF DetectSpec

\* ReportsCredentials: what a detector returns are credentials of its grammar that stand alone, on
\* every text, with every limit: 21 of the 23 detectors (their loops, boundary checks and lengths).
THEOREM ReportsCredentials ==
    DetectSpec => [](detector \in AgreedDetectors => CandidatesAreCredentials)
  <1>1. LoopTyped /\ (detector \in AgreedDetectors => GrammarInv) =>
          (detector \in AgreedDetectors => CandidatesAreCredentials)
    BY AllAgree, GrammarFollows
  <1> QED BY <1>1, GrammarAlways, PTL

\* MissesNone: and they report every credential of the text that stands alone and begins outside
\* every longer shape before it.
THEOREM MissesNone ==
    DetectSpec => [](detector \in AgreedDetectors => NoCredentialMissed)
  <1>1. LoopTyped /\ (detector \in AgreedDetectors => GrammarInv) =>
          (detector \in AgreedDetectors => NoCredentialMissed)
    BY AllAgree, GrammarFollows
  <1> QED BY <1>1, GrammarAlways, PTL

---------------------------------------------------------------------------
(* The inductive invariant. *)

\* What was found lies in the text, and is credited to the detector registered at its place.
Ranked ==
    \A c \in ranked :
        /\ c.start < c.end /\ c.end <= input_len
        /\ c.detector_order \in 1 .. Len(registry) /\ c.detector = registry[c.detector_order]

\* How far the call has come.
Progress ==
    /\ phase = "Collect" => ranked = {} /\ detected = <<>>
    /\ phase = "Resolve" => detected = <<>>
    /\ phase = "Number" => pending \subseteq accepted
    /\ phase = "Policy" => pending = {}
    /\ phase \in {"Collect", "Resolve", "Number"} => findings = <<>>

\* The accept loop goes down the ranking.
Ahead ==
    phase = "Resolve" =>
        \A a \in accepted, c \in pending : a # c /\ priority(a, c)

\* f is what a finding says of the candidate c.
Describes(f, c) ==
    f.type = c.type /\ f.detector = c.detector /\ f.start = c.start /\ f.end = c.end

\* The numbering goes up the text and leaves none of the accepted out.
Numbering ==
    /\ InTextOrder(detected)
    /\ phase = "Number" =>
          \A k \in 1 .. Len(detected), c \in pending : detected[k].end <= c.start
    /\ phase \in {"Number", "Policy"} =>
          \A c \in accepted \ pending : \E k \in 1 .. Len(detected) : 
              Describes(detected[k], c)

\* The policy adds its action to what was detected and changes nothing else.
SameFinding(f, d) ==
    f.id = d.id /\ f.type = d.type /\ f.detector = d.detector /\ f.start = d.start /\ f.end = d.end
Ruled ==
    /\ Len(findings) <= Len(detected)
    /\ \A k \in 1 .. Len(findings) : SameFinding(findings[k], detected[k])

IInv ==
    /\ TypeOK /\ Ranked /\ Progress /\ AcceptedDisjoint /\ DroppedForBetter
    /\ Ahead /\ Numbering /\ Ruled

---------------------------------------------------------------------------
\* A nonempty set of spans that start at or below n has one that starts last.
LEMMA LastStart ==
    ASSUME NEW n \in Nat, NEW S, S # {},
           \A s \in S : s.start \in Nat /\ s.start <= n
    PROVE  \E m \in S : \A s \in S : s.start <= m.start
  <1> DEFINE LT == {p \in Nat \X Nat : p[1] < p[2]}
             T == {n - s.start : s \in S}
  <1>1. IsWellFoundedOn(LT, Nat)
    BY NatLessThanWellFounded DEF OpToRel
  <1>2. T \subseteq Nat /\ T # {}
    OBVIOUS
  <1>3. PICK x \in T : \A y \in T : ~(<<y, x>> \in LT)
    <2> HIDE DEF LT, T
    <2> QED BY <1>1, <1>2, WFMin
  <1>4. PICK m \in S : x = n - m.start
    BY <1>3
  <1>5. ASSUME NEW s \in S PROVE s.start <= m.start
    <2>1. n - s.start \in Nat /\ n - m.start \in Nat
      OBVIOUS
    <2>2. ~(n - s.start < n - m.start)
      BY <1>3, <1>4, <2>1
    <2> QED BY <2>2
  <1> QED BY <1>5

\* One neighbour is enough: a candidate that is not blocked overlaps nothing accepted.
LEMMA NotBlocked ==
    ASSUME TypeOK, Ranked, AcceptedDisjoint, NEW c \in ranked, ~blocked(c)
    PROVE  \A a \in accepted : ~overlaps(a, c) /\ ~overlaps(c, a)
  <1> SUFFICES ASSUME NEW a \in accepted, overlaps(a, c)
               PROVE  FALSE
    BY DEF overlaps
  <1> DEFINE below == {b \in accepted : b.start < c.end}
  <1>1. c.end \in Nat /\ c.start \in Nat
    BY DEF TypeOK, RankedType
  <1>2. \A b \in accepted : b.start \in Nat /\ b.end \in Nat /\ b.start < b.end
    BY DEF TypeOK, RankedType, Ranked
  <1>3. a \in below /\ \A b \in below : b.start \in Nat /\ b.start <= c.end
    BY <1>1, <1>2 DEF overlaps
  <1>4. PICK nearest \in below : \A b \in below : b.start <= nearest.start
    <2> HIDE DEF below
    <2> QED BY <1>1, <1>3, LastStart
  <1>5. nearest.end <= c.start
    BY <1>1, <1>2, <1>4 DEF blocked
  <1>6. a # nearest
    BY <1>5, <1>1, <1>2 DEF overlaps
  <1>7. ~overlaps(a, nearest) /\ a.start <= nearest.start
    BY <1>3, <1>4, <1>6 DEF AcceptedDisjoint
  <1>8. nearest \in accepted /\ nearest.start < nearest.end /\ a.end > c.start
    BY <1>2, <1>4 DEF overlaps
  <1> QED BY <1>1, <1>2, <1>5, <1>7, <1>8 DEF overlaps

LEMMA RankedCandidateType ==
    ASSUME TypeOK, AllValid, Len(per_detector) = Len(registry)
    PROVE  /\ Collected \subseteq RankedType
           /\ \A c \in Collected :
                /\ c.start < c.end /\ c.end <= input_len
                /\ c.detector_order \in 1 .. Len(registry)
                /\ c.detector = registry[c.detector_order]
  <1> SUFFICES ASSUME NEW d \in 1 .. Len(per_detector), NEW k \in 1 .. Len(per_detector[d])
               PROVE  LET c == RankedCandidate(d, k)
                      IN  /\ c \in RankedType
                          /\ c.start < c.end /\ c.end <= input_len
                          /\ c.detector_order \in 1 .. Len(registry)
                          /\ c.detector = registry[c.detector_order]
    BY DEF Collected
  <1>1. per_detector[d] \in Seq(Candidate)
    BY DEF TypeOK
  <1>2. per_detector[d][k] \in Candidate /\ k \in Nat /\ d \in Nat
    BY <1>1
  <1>3. registry[d] \in Identifier
    BY DEF TypeOK
  <1>4. valid_candidate(per_detector[d][k], registry[d])
    BY DEF AllValid
  <1> QED BY <1>2, <1>3, <1>4 DEF RankedCandidate, RankedType, Candidate, valid_candidate

---------------------------------------------------------------------------
(* One lemma per action, or per group of actions that change the same state. *)

LEMMA InitHolds == Init => IInv
  <1> SUFFICES ASSUME Init PROVE IInv
    OBVIOUS
  <1>1. TypeOK
    BY DEF Init, TypeOK
  <1> QED BY <1>1 DEF Init, IInv, Ranked, Progress, AcceptedDisjoint, DroppedForBetter, Ahead,
                      Numbering, InTextOrder, Ruled

\* Between scans the registry may grow; what is credited to its detectors stays so.
LEMMA RegisterPreserves ==
    ASSUME IInv, NEW id \in Id, Register(id) \/ RegisterRefused(id)
    PROVE  IInv'
  <1> USE DEF IInv
  <1>1. /\ registry \in Seq(Identifier) /\ registry' \in Seq(Identifier)
        /\ Len(registry) <= Len(registry')
        /\ \A k \in 1 .. Len(registry) : registry'[k] = registry[k]
    <2>1. registry \in Seq(Identifier)
      BY DEF TypeOK
    <2>2. CASE Register(id)
      <3>1. registry' = Append(registry, id) /\ id \in Identifier
        BY <2>2 DEF Register
      <3> QED BY <2>1, <3>1
    <2>3. CASE RegisterRefused(id)
      BY <2>1, <2>3 DEF RegisterRefused
    <2> QED BY <2>2, <2>3
  <1>2. UNCHANGED <<phase, input_len, per_detector, resolution, detected, findings>>
    BY DEF Register, RegisterRefused
  <1>3. TypeOK'
    BY <1>1, <1>2 DEF TypeOK, resolution
  <1>4. Ranked'
    BY <1>1, <1>2 DEF Ranked, resolution
  <1> QED BY <1>2, <1>3, <1>4 DEF Progress, AcceptedDisjoint, DroppedForBetter, Ahead,
               Numbering, InTextOrder, Ruled, resolution

\* A call starts, and an error ends it, with nothing found.
LEMMA NothingFoundPreserves ==
    ASSUME IInv, nothing_found, input_len' \in Nat, UNCHANGED registry,
           phase' \in {"Idle", "Collect"}
    PROVE  IInv'
  <1> USE DEF IInv, nothing_found
  <1>1. TypeOK'
    BY DEF TypeOK
  <1> QED BY <1>1 DEF Ranked, Progress, AcceptedDisjoint, DroppedForBetter, Ahead,
               Numbering, InTextOrder, Ruled

LEMMA FailPreserves ==
    ASSUME IInv, DetectorFails \/ ValidateFails \/ PolicyFails
    PROVE  IInv'
  <1>1. nothing_found /\ UNCHANGED <<registry, input_len>> /\ phase' = "Idle"
    BY DEF DetectorFails, ValidateFails, PolicyFails, fail
  <1>2. input_len' \in Nat
    BY <1>1 DEF IInv, TypeOK
  <1> QED BY <1>1, <1>2, NothingFoundPreserves

LEMMA BeginScanPreserves ==
    ASSUME IInv, NEW n \in InputLengths, BeginScan(n)
    PROVE  IInv'
  <1>1. nothing_found /\ UNCHANGED registry /\ phase' \in {"Idle", "Collect"}
    BY DEF BeginScan
  <1>2. input_len' \in Nat
    BY DetectorWorld DEF BeginScan
  <1> QED BY <1>1, <1>2, NothingFoundPreserves

LEMMA CollectPreserves ==
    ASSUME IInv, NEW emitted \in Emissions, Collect(emitted)
    PROVE  IInv'
  <1> USE DEF IInv
  <1>1. per_detector' \in Seq(Seq(Candidate))
    BY DetectorWorld DEF Collect, TypeOK
  <1>2. UNCHANGED <<registry, phase, input_len, resolution, detected, findings>>
    BY DEF Collect
  <1>3. TypeOK'
    BY <1>1, <1>2 DEF TypeOK, resolution
  <1> QED BY <1>2, <1>3 DEF Ranked, Progress, AcceptedDisjoint, DroppedForBetter, Ahead,
               Numbering, InTextOrder, Ruled, resolution

LEMMA ValidatePreserves ==
    ASSUME IInv, Validate
    PROVE  IInv'
  <1> USE DEF IInv
  <1>1. /\ ranked' = Collected /\ pending' = Collected /\ phase' = "Resolve"
        /\ UNCHANGED <<registry, input_len, per_detector, accepted, detected, findings>>
    BY DEF Validate
  <1>2. ranked = {} /\ accepted = {} /\ detected = <<>> /\ findings = <<>>
    BY DEF Validate, Progress, TypeOK
  <1>3. /\ Collected \subseteq RankedType
        /\ \A c \in Collected :
                /\ c.start < c.end /\ c.end <= input_len
                /\ c.detector_order \in 1 .. Len(registry)
                /\ c.detector = registry[c.detector_order]
    BY RankedCandidateType DEF Validate
  <1>4. TypeOK'
    BY <1>1, <1>2, <1>3 DEF TypeOK
  <1>5. Ranked'
    BY <1>1, <1>3 DEF Ranked
  <1> QED BY <1>1, <1>2, <1>4, <1>5 DEF Progress, AcceptedDisjoint, DroppedForBetter, Ahead,
               Numbering, InTextOrder, Ruled

LEMMA TryAcceptPreserves ==
    ASSUME IInv, NEW c \in pending, TryAccept(c)
    PROVE  IInv'
  <1> USE DEF IInv
  <1>1. /\ phase = "Resolve" /\ pending' = pending \ {c}
        /\ UNCHANGED <<registry, phase, input_len, per_detector, ranked, detected, findings>>
        /\ \A d \in pending \ {c} : priority(c, d)
    BY DEF TryAccept
  <1>2. c \in ranked /\ accepted \subseteq ranked
    BY DEF TypeOK
  <1>3. /\ accepted' = accepted \/ accepted' = accepted \cup {c}
        /\ blocked(c) => accepted' = accepted
        /\ ~blocked(c) => c \in accepted'
    BY DEF TryAccept
  <1>4. TypeOK'
    BY <1>1, <1>2, <1>3 DEF TypeOK
  <1>5. Ranked' /\ Progress' /\ Ruled'
    BY <1>1 DEF Ranked, Progress, Ruled
  <1>6. AcceptedDisjoint'
    <2>1. CASE blocked(c)
      BY <2>1, <1>3 DEF AcceptedDisjoint
    <2>2. CASE ~blocked(c)
      <3>1. \A a \in accepted : ~overlaps(a, c) /\ ~overlaps(c, a)
        BY <2>2, <1>2, NotBlocked
      <3> QED BY <3>1, <1>3 DEF AcceptedDisjoint
    <2> QED BY <2>1, <2>2
  <1>7. Ahead'
    BY <1>1, <1>3 DEF Ahead
  <1>8. DroppedForBetter'
    <2> SUFFICES ASSUME NEW d \in ranked \ accepted', d \notin pending'
                 PROVE  \E a \in accepted' : overlaps(a, d) /\ priority(a, d)
      BY <1>1 DEF DroppedForBetter
    <2>1. CASE d = c
      <3>1. blocked(c)
        BY <2>1, <1>3
      <3>2. PICK a \in accepted : a.start < c.end /\ a.end > c.start
        BY <3>1 DEF blocked
      <3>3. overlaps(a, c) /\ priority(a, c)
        <4>1. a.end \in Nat /\ c.start \in Nat
          BY <1>2 DEF TypeOK, RankedType
        <4> QED BY <3>2, <1>1, <4>1 DEF overlaps, Ahead
      <3> QED BY <2>1, <3>3, <1>3
    <2>2. CASE d # c
      BY <2>2, <1>1, <1>3 DEF DroppedForBetter
    <2> QED BY <2>1, <2>2
  <1>9. Numbering'
    BY <1>1 DEF Numbering, InTextOrder, Progress
  <1> QED BY <1>4, <1>5, <1>6, <1>7, <1>8, <1>9

LEMMA SortAcceptedPreserves ==
    ASSUME IInv, SortAccepted
    PROVE  IInv'
  <1> USE DEF IInv
  <1>1. /\ phase = "Resolve" /\ pending = {} /\ phase' = "Number" /\ pending' = accepted
        /\ UNCHANGED <<registry, input_len, per_detector, ranked, accepted, detected, findings>>
    BY DEF SortAccepted
  <1>2. detected = <<>> /\ findings = <<>>
    BY <1>1 DEF Progress
  <1>3. TypeOK'
    BY <1>1 DEF TypeOK
  <1>4. DroppedForBetter'
    BY <1>1 DEF DroppedForBetter
  <1> QED BY <1>1, <1>2, <1>3, <1>4 DEF Ranked, Progress, AcceptedDisjoint, Ahead, Numbering,
               InTextOrder, Ruled

LEMMA NumberPreserves ==
    ASSUME IInv, NEW c \in pending, Number(c)
    PROVE  IInv'
  <1> USE DEF IInv
  <1> DEFINE f == [id |-> Len(detected) + 1, type |-> c.type, detector |-> c.detector,
                   confidence |-> c.confidence, start |-> c.start, end |-> c.end]
             n == Len(detected)
  <1>1. /\ phase = "Number" /\ pending' = pending \ {c} /\ detected' = Append(detected, f)
        /\ UNCHANGED <<registry, phase, input_len, per_detector, ranked, accepted, findings>>
        /\ \A d \in pending : c.start <= d.start
    BY DEF Number
  <1>2. c \in accepted /\ c \in ranked /\ c \in RankedType /\ findings = <<>>
    BY <1>1 DEF Progress, TypeOK
  <1>3. detected \in Seq(DetectedType) /\ n \in Nat
    BY DEF TypeOK
  <1>4. f \in DetectedType
    BY <1>2, <1>3 DEF DetectedType, RankedType
  <1>5. /\ detected' \in Seq(DetectedType) /\ Len(detected') = n + 1
        /\ \A k \in 1 .. n : detected'[k] = detected[k]
        /\ detected'[n + 1] = f
    <2> HIDE DEF f
    <2> QED BY <1>1, <1>3, <1>4
  <1>6. TypeOK'
    BY <1>1, <1>5 DEF TypeOK
  <1>7. InTextOrder(detected)'
    <2> SUFFICES ASSUME NEW k \in 1 .. (n + 1)
                 PROVE  /\ detected'[k].id = k
                        /\ detected'[k].start < detected'[k].end
                        /\ detected'[k].end <= input_len
                        /\ k > 1 => detected'[k - 1].end <= detected'[k].start
      BY <1>1, <1>5 DEF InTextOrder
    <2>1. CASE k = n + 1
      <3>1. f.id = n + 1 /\ f.start < f.end /\ f.end <= input_len
        BY <1>2 DEF Ranked
      <3>2. k > 1 => detected'[k - 1] = detected[n] /\ n \in 1 .. n
        BY <2>1, <1>3, <1>5
      <3>3. k > 1 => detected[n].end <= c.start
        BY <3>2, <1>1 DEF Numbering
      <3> QED BY <2>1, <3>1, <3>2, <3>3, <1>5
    <2>2. CASE k \in 1 .. n
      <3>1. detected'[k] = detected[k] /\ (k > 1 => detected'[k - 1] = detected[k - 1])
        BY <2>2, <1>3, <1>5
      <3> QED BY <2>2, <3>1 DEF Numbering, InTextOrder
    <2> QED BY <2>1, <2>2, <1>3
  <1>8. ASSUME NEW k \in 1 .. (n + 1), NEW d \in pending'
        PROVE  detected'[k].end <= d.start
    <2>1. d \in pending /\ d # c /\ c.start <= d.start /\ d \in accepted /\ d \in RankedType
      BY <1>1 DEF Progress, TypeOK
    <2>2. CASE k = n + 1
      <3>1. ~overlaps(c, d)
        BY <2>1, <1>2 DEF AcceptedDisjoint
      <3>2. c.start < c.end /\ d.start < d.end
        BY <2>1, <1>2 DEF Ranked, TypeOK
      <3>3. c.start \in Nat /\ c.end \in Nat /\ d.start \in Nat /\ d.end \in Nat
        BY <2>1, <1>2 DEF RankedType
      <3>4. c.end <= d.start
        BY <2>1, <3>1, <3>2, <3>3 DEF overlaps
      <3> QED BY <2>2, <3>4, <1>5
    <2>3. CASE k \in 1 .. n
      BY <2>1, <2>3, <1>1, <1>5 DEF Numbering
    <2> QED BY <2>2, <2>3, <1>3
  <1>9. ASSUME NEW d \in accepted \ pending'
        PROVE  \E k \in 1 .. (n + 1) : Describes(detected'[k], d)
    <2>1. CASE d = c
      <3>1. Describes(detected'[n + 1], c) /\ n + 1 \in 1 .. (n + 1)
        BY <1>3, <1>5 DEF Describes
      <3> QED BY <2>1, <3>1
    <2>2. CASE d # c
      <3>1. PICK k \in 1 .. n : Describes(detected[k], d)
        BY <2>2, <1>1 DEF Numbering
      <3> QED BY <3>1, <1>3, <1>5
    <2> QED BY <2>1, <2>2
  <1>10. Numbering'
    BY <1>1, <1>5, <1>7, <1>8, <1>9 DEF Numbering
  <1>11. DroppedForBetter'
    BY <1>1, <1>2 DEF DroppedForBetter
  <1>12. Ruled'
    BY <1>1, <1>2, <1>3, <1>5 DEF Ruled
  <1>13. Progress'
    BY <1>1 DEF Progress
  <1> QED BY <1>1, <1>6, <1>10, <1>11, <1>12, <1>13 DEF Ranked, AcceptedDisjoint, Ahead

LEMMA EvaluatePreserves ==
    ASSUME IInv, NEW action \in Actions, Evaluate(action)
    PROVE  IInv'
  <1> USE DEF IInv
  <1> DEFINE n == Len(findings)
             d == detected[n + 1]
             f == [id |-> d.id, type |-> d.type, detector |-> d.detector,
                   confidence |-> d.confidence, action |-> action,
                   start |-> d.start, end |-> d.end]
  <1>1. /\ phase = "Policy" /\ n < Len(detected) /\ findings' = Append(findings, f)
        /\ UNCHANGED <<registry, phase, input_len, per_detector, resolution, detected>>
    BY DEF Evaluate
  <1>2. findings \in Seq(FindingType) /\ detected \in Seq(DetectedType) /\ n \in Nat
    BY DEF TypeOK
  <1>3. n + 1 \in 1 .. Len(detected) /\ d \in DetectedType
    BY <1>1, <1>2
  <1>4. f \in FindingType /\ SameFinding(f, d)
    BY <1>3 DEF FindingType, DetectedType, SameFinding
  <1>5. /\ findings' \in Seq(FindingType) /\ Len(findings') = n + 1
        /\ \A k \in 1 .. n : findings'[k] = findings[k]
        /\ findings'[n + 1] = f
    <2> HIDE DEF f
    <2> QED BY <1>1, <1>2, <1>4
  <1>6. TypeOK'
    BY <1>1, <1>5 DEF TypeOK, resolution
  <1>7. Ruled'
    <2>1. \A k \in 1 .. (n + 1) : k \in 1 .. n \/ k = n + 1
      BY <1>2
    <2> HIDE DEF f, d
    <2>2. \A k \in 1 .. (n + 1) : SameFinding(findings'[k], detected[k])
      BY <1>4, <1>5, <2>1 DEF Ruled, d
    <2>3. n + 1 <= Len(detected)
      BY <1>3
    <2> QED BY <1>1, <1>5, <2>2, <2>3 DEF Ruled
  <1> QED BY <1>1, <1>6, <1>7 DEF Ranked, Progress, AcceptedDisjoint, DroppedForBetter, Ahead,
               Numbering, InTextOrder, resolution

\* The steps that only move on to the next loop or return.
LEMMA TurnPreserves ==
    ASSUME IInv, PolicyDecides \/ ReturnFindings
    PROVE  IInv'
  <1> USE DEF IInv
  <1>1. /\ UNCHANGED <<registry, input_len, per_detector, resolution, detected, findings>>
        /\ \/ phase = "Number" /\ phase' = "Policy" /\ pending = {}
           \/ phase = "Policy" /\ phase' = "Idle"
    BY DEF PolicyDecides, ReturnFindings
  <1>2. TypeOK'
    BY <1>1 DEF TypeOK, resolution
  <1> QED BY <1>1, <1>2 DEF Ranked, Progress, AcceptedDisjoint, DroppedForBetter, Ahead,
               Numbering, InTextOrder, Ruled, resolution

LEMMA NextPreserves ==
    ASSUME IInv, [Next]_vars
    PROVE  IInv'
  <1>1. CASE Next
    BY <1>1, RegisterPreserves, BeginScanPreserves, CollectPreserves, FailPreserves,
       ValidatePreserves, TryAcceptPreserves, NumberPreserves, SortAcceptedPreserves,
       TurnPreserves, EvaluatePreserves DEF Next
  <1>2. CASE UNCHANGED vars
    BY <1>2 DEF IInv, TypeOK, Ranked, Progress, AcceptedDisjoint, DroppedForBetter, Ahead,
                Numbering, InTextOrder, Ruled, vars, resolution
  <1> QED BY <1>1, <1>2

THEOREM Invariance == Spec => []IInv
  <1>1. IInv /\ [Next]_vars => IInv'
    BY NextPreserves
  <1> QED BY InitHolds, <1>1, PTL DEF Spec

---------------------------------------------------------------------------
(* One bad candidate fails a scan. *)

\* Every candidate of the scan, whichever detector emitted it, may be reported.
AllPublishable ==
    \A d \in 1 .. Len(per_detector) : \A k \in 1 .. Len(per_detector[d]) :
        Publishable(per_detector[d][k], registry[d])

\* What validation leaves behind, from the step that validates to the end of the scan and on to
\* the next one, while the registry may grow.
Validated ==
    /\ Len(per_detector) <= Len(registry)
    /\ phase \in {"Resolve", "Number", "Policy"} \/ detected # <<>> => AllPublishable
    /\ \A c \in ranked : Publishable(c, c.detector)
    /\ \A k \in 1 .. Len(detected) : Publishable(detected[k], detected[k].detector)

\* The code's check is that a candidate may be reported.
LEMMA ValidIsPublishable ==
    ASSUME NEW c, NEW id \in Identifier
    PROVE  valid_candidate(c, id) <=> Publishable(c, id)
  BY DEF valid_candidate, Publishable

\* Only what a candidate and a finding have in common decides whether it may be reported.
LEMMA PublishableAlike ==
    ASSUME NEW c, NEW f, f.type = c.type, f.start = c.start, f.end = c.end, NEW id,
           Publishable(c, id)
    PROVE  Publishable(f, id)
  BY DEF Publishable

\* What the registry gains does not change whose candidates those of the scan are.
LEMMA RegisterValidated ==
    ASSUME IInv, Validated, NEW id \in Id, Register(id) \/ RegisterRefused(id)
    PROVE  Validated'
  <1>1. registry \in Seq(Identifier) /\ per_detector \in Seq(Seq(Candidate))
    BY DEF IInv, TypeOK
  <1>2. UNCHANGED <<phase, input_len, per_detector, ranked, detected>>
    BY DEF Register, RegisterRefused, resolution
  <1>3. /\ Len(registry) <= Len(registry')
        /\ \A k \in 1 .. Len(registry) : registry'[k] = registry[k]
    <2>1. CASE Register(id)
      <3>1. registry' = Append(registry, id) /\ id \in Identifier
        BY <2>1 DEF Register
      <3> QED BY <1>1, <3>1
    <2>2. CASE RegisterRefused(id)
      BY <1>1, <2>2 DEF RegisterRefused
    <2> QED BY <2>1, <2>2
  <1>4. /\ Len(registry') \in Nat /\ Len(registry) \in Nat /\ Len(per_detector) \in Nat
        /\ Len(per_detector) <= Len(registry)
    <2>1. registry' \in Seq(Identifier)
      BY <1>1 DEF Register, RegisterRefused
    <2> QED BY <1>1, <2>1 DEF Validated
  <1>5. ASSUME NEW c, NEW i PROVE Publishable(c, i)' <=> Publishable(c, i)
    BY <1>2 DEF Publishable
  <1>6. AllPublishable => AllPublishable'
    <2> SUFFICES ASSUME AllPublishable, NEW d \in 1 .. Len(per_detector),
                        NEW k \in 1 .. Len(per_detector[d])
                 PROVE  Publishable(per_detector[d][k], registry[d])'
      BY <1>2 DEF AllPublishable
    <2>1. d \in 1 .. Len(registry) /\ registry'[d] = registry[d]
      BY <1>3, <1>4
    <2>2. Publishable(per_detector[d][k], registry[d])
      BY DEF AllPublishable
    <2> QED BY <1>2, <2>1, <2>2 DEF Publishable
  <1> QED BY <1>2, <1>3, <1>4, <1>6 DEF Validated, Publishable

\* A call starts, and an error ends it, with nothing validated.
LEMMA NothingValidated ==
    ASSUME IInv, nothing_found, UNCHANGED registry, phase' \in {"Idle", "Collect"}
    PROVE  Validated'
  <1>1. Len(registry) \in Nat
    BY DEF IInv, TypeOK
  <1> QED BY <1>1 DEF nothing_found, Validated

LEMMA CollectValidated ==
    ASSUME IInv, Validated, NEW emitted \in Emissions, Collect(emitted)
    PROVE  Validated'
  <1>1. /\ phase = "Collect" /\ Len(per_detector) < Len(registry)
        /\ per_detector' = Append(per_detector, emitted)
        /\ UNCHANGED <<registry, phase, ranked, detected>>
    BY DEF Collect, resolution
  <1>2. ranked = {} /\ detected = <<>>
    BY <1>1 DEF IInv, Progress
  <1>3. Len(per_detector') = Len(per_detector) + 1 /\ Len(per_detector) \in Nat /\ Len(registry) \in Nat
    BY <1>1 DEF IInv, TypeOK
  <1>4. Len(per_detector') <= Len(registry')
    BY <1>1, <1>3
  <1> QED BY <1>1, <1>2, <1>4 DEF Validated

\* The candidates that are ranked are those that were emitted, under the id of their detector.
LEMMA ValidateValidated ==
    ASSUME IInv, Validated, Validate
    PROVE  Validated'
  <1>1. /\ phase = "Collect" /\ Len(per_detector) = Len(registry) /\ AllValid
        /\ ranked' = Collected
        /\ UNCHANGED <<registry, input_len, per_detector, detected>>
    BY DEF Validate
  <1>2. detected = <<>>
    BY <1>1 DEF IInv, Progress
  <1>3. registry \in Seq(Identifier) /\ Len(registry) \in Nat
    BY DEF IInv, TypeOK
  <1>4. \A d \in 1 .. Len(per_detector) : registry[d] \in Identifier
    BY <1>1, <1>3
  <1>5. AllPublishable
    BY <1>1, <1>4, ValidIsPublishable DEF AllValid, AllPublishable
  <1>6. ASSUME NEW c \in Collected PROVE Publishable(c, c.detector)
    <2>0. PICK d \in 1 .. Len(per_detector) :
              \E k \in 1 .. Len(per_detector[d]) : c = RankedCandidate(d, k)
      BY DEF Collected
    <2>1. PICK k \in 1 .. Len(per_detector[d]) : c = RankedCandidate(d, k)
      BY <2>0
    <2>2. /\ c.type = per_detector[d][k].type /\ c.detector = registry[d]
          /\ c.start = per_detector[d][k].start /\ c.end = per_detector[d][k].end
      BY <2>1 DEF RankedCandidate
    <2>3. Publishable(per_detector[d][k], registry[d])
      BY <1>5 DEF AllPublishable
    <2> QED BY <2>2, <2>3, PublishableAlike
  <1>7. AllPublishable'
    BY <1>1, <1>5 DEF AllPublishable, Publishable
  <1>8. \A c \in ranked' : Publishable(c, c.detector)'
    BY <1>1, <1>6 DEF Publishable
  <1> QED BY <1>1, <1>2, <1>3, <1>7, <1>8 DEF Validated

LEMMA NumberValidated ==
    ASSUME IInv, Validated, NEW c \in pending, Number(c)
    PROVE  Validated'
  <1> DEFINE n == Len(detected)
             f == [id |-> n + 1, type |-> c.type, detector |-> c.detector,
                   confidence |-> c.confidence, start |-> c.start, end |-> c.end]
  <1>1. /\ phase = "Number" /\ detected' = Append(detected, f)
        /\ UNCHANGED <<registry, phase, input_len, per_detector, ranked>>
    BY DEF Number
  <1>2. c \in ranked /\ detected \in Seq(DetectedType) /\ c \in RankedType
    BY DEF IInv, TypeOK
  <1>3. Publishable(f, f.detector)
    <2>1. f.type = c.type /\ f.start = c.start /\ f.end = c.end /\ f.detector = c.detector
      OBVIOUS
    <2>2. Publishable(c, c.detector)
      BY <1>2 DEF Validated
    <2> HIDE DEF f
    <2> QED BY <2>1, <2>2, PublishableAlike
  <1>4. n \in Nat /\ f \in DetectedType
    BY <1>2 DEF DetectedType, RankedType
  <1>5. ASSUME NEW k \in 1 .. Len(detected') PROVE Publishable(detected'[k], detected'[k].detector)
    <2> HIDE DEF f
    <2>1. \/ k = n + 1 /\ detected'[k] = f
          \/ k \in 1 .. n /\ detected'[k] = detected[k]
      BY <1>1, <1>2, <1>4
    <2> QED BY <1>3, <2>1 DEF Validated
  <1>6. AllPublishable /\ Len(per_detector) <= Len(registry)
    BY <1>1 DEF Validated
  <1>7. AllPublishable'
    BY <1>1, <1>6 DEF AllPublishable, Publishable
  <1>8. \A k \in 1 .. Len(detected') : Publishable(detected[k], detected[k].detector)'
    BY <1>1, <1>5 DEF Publishable
  <1>9. \A d \in ranked' : Publishable(d, d.detector)'
    BY <1>1 DEF Validated, Publishable
  <1> QED BY <1>1, <1>6, <1>7, <1>8, <1>9 DEF Validated

\* The steps that leave the candidates and what is made of them alone.
LEMMA OtherValidated ==
    ASSUME IInv, Validated, UNCHANGED <<registry, input_len, per_detector, ranked, detected>>,
           phase' \in {"Resolve", "Number", "Policy"} => phase \in {"Resolve", "Number", "Policy"}
    PROVE  Validated'
  <1>1. AllPublishable => AllPublishable'
    BY DEF AllPublishable, Publishable
  <1> QED BY <1>1 DEF Validated, Publishable

LEMMA NextValidated ==
    ASSUME IInv, Validated, [Next]_vars
    PROVE  Validated'
  <1>1. CASE \E id \in Id : Register(id) \/ RegisterRefused(id)
    BY <1>1, RegisterValidated
  <1>2. CASE \/ \E n \in InputLengths : BeginScan(n)
             \/ DetectorFails \/ ValidateFails \/ PolicyFails
    <2>1. nothing_found /\ UNCHANGED registry /\ phase' \in {"Idle", "Collect"}
      BY <1>2 DEF BeginScan, DetectorFails, ValidateFails, PolicyFails, fail
    <2> QED BY <2>1, NothingValidated
  <1>3. CASE \E emitted \in Emissions : Collect(emitted)
    BY <1>3, CollectValidated
  <1>4. CASE Validate
    BY <1>4, ValidateValidated
  <1>5. CASE \E c \in pending : Number(c)
    BY <1>5, NumberValidated
  <1>6. CASE \/ \E c \in pending : TryAccept(c)
             \/ SortAccepted \/ PolicyDecides \/ ReturnFindings
             \/ \E action \in Actions : Evaluate(action)
    <2>1. /\ UNCHANGED <<registry, input_len, per_detector, ranked, detected>>
          /\ phase \in {"Resolve", "Number", "Policy"}
      BY <1>6 DEF TryAccept, SortAccepted, PolicyDecides, ReturnFindings, Evaluate, resolution
    <2> QED BY <2>1, OtherValidated
  <1>7. CASE UNCHANGED vars
    BY <1>7, OtherValidated DEF vars, resolution
  <1> QED BY <1>1, <1>2, <1>3, <1>4, <1>5, <1>6, <1>7 DEF Next

---------------------------------------------------------------------------
(* The results. *)

\* The pipeline keeps its types.
THEOREM TypeCorrect == Spec => []TypeOK
  BY Invariance, PTL DEF IInv

\* The accept loop keeps no two spans that share a byte.
THEOREM Disjointness == Spec => []AcceptedDisjoint
  BY Invariance, PTL DEF IInv

\* A candidate is dropped only for a better one that overlaps it.
THEOREM Precedence == Spec => []DroppedForBetter
  BY Invariance, PTL DEF IInv

\* The findings are numbered in text order and do not overlap.
THEOREM TextOrder == Spec => []FindingsInTextOrder
  <1>1. IInv => FindingsInTextOrder
    <2> SUFFICES ASSUME IInv, NEW k \in 1 .. Len(findings)
                 PROVE  /\ findings[k].id = k
                        /\ findings[k].start < findings[k].end /\ findings[k].end <= input_len
                        /\ k > 1 => findings[k - 1].end <= findings[k].start
      BY DEF FindingsInTextOrder, InTextOrder
    <2>1. Len(findings) \in Nat /\ Len(detected) \in Nat /\ Len(findings) <= Len(detected)
      BY DEF IInv, TypeOK, Ruled
    <2>2. k \in 1 .. Len(detected) /\ SameFinding(findings[k], detected[k])
      BY <2>1 DEF IInv, Ruled
    <2>3. k > 1 => k - 1 \in 1 .. Len(findings) /\ SameFinding(findings[k - 1], detected[k - 1])
      BY <2>1 DEF IInv, Ruled
    <2> QED BY <2>2, <2>3 DEF IInv, Numbering, InTextOrder, SameFinding
  <1> QED BY <1>1, Invariance, PTL

\* A scan reports exactly the candidates no reported one overlaps and goes before.
THEOREM Kernel == Spec => []FindingsAreTheKernel
  <1>1. IInv => FindingsAreTheKernel
    <2> SUFFICES ASSUME IInv, phase = "Policy", Len(findings) = Len(detected), NEW c \in ranked
                 PROVE  Reported(c) \/ \E a \in ranked :
                                Reported(a) /\ priority(a, c) /\ overlaps(a, c)
      BY DEF FindingsAreTheKernel
    <2>1. pending = {} /\ accepted \subseteq ranked
      BY DEF IInv, Progress, TypeOK
    <2>2. ASSUME NEW a \in accepted PROVE Reported(a)
      <3>1. PICK k \in 1 .. Len(detected) : Describes(detected[k], a)
        BY <2>1 DEF IInv, Numbering
      <3>2. SameFinding(findings[k], detected[k])
        BY DEF IInv, Ruled
      <3>3. a.detector = registry[a.detector_order]
        BY <2>1 DEF IInv, Ranked
      <3> QED BY <3>1, <3>2, <3>3 DEF Reported, Describes, SameFinding
    <2>3. CASE c \in accepted
      BY <2>2, <2>3
    <2>4. CASE c \notin accepted
      <3>1. PICK a \in accepted : overlaps(a, c) /\ priority(a, c)
        BY <2>1, <2>4 DEF IInv, DroppedForBetter
      <3> QED BY <3>1, <2>1, <2>2
    <2> QED BY <2>3, <2>4
  <1> QED BY <1>1, Invariance, PTL

\* OneBadCandidateFailsAll: a scan that reports anything had only sound candidates, whatever the
\* detectors emit, and no public field of a finding reads like the text it stands for.
THEOREM NothingOfABadScan == Spec => []OneBadCandidateFailsAll
  <1>1. Init => Validated
    <2> SUFFICES ASSUME Init PROVE Validated
      OBVIOUS
    <2> QED BY DEF Init, Validated
  <1>2. IInv /\ Validated /\ [Next]_vars => Validated'
    BY NextValidated
  <1>3. IInv /\ Validated => OneBadCandidateFailsAll
    <2> SUFFICES ASSUME IInv, Validated, findings # <<>>
                 PROVE  /\ \A k \in 1 .. Len(findings) : 
                                Publishable(findings[k], findings[k].detector)
                        /\ AllPublishable
      BY DEF OneBadCandidateFailsAll, AllPublishable
    <2>1. findings \in Seq(FindingType) /\ detected \in Seq(DetectedType)
      BY DEF IInv, TypeOK
    <2>2. Len(findings) <= Len(detected) /\ Len(findings) \in Nat \ {0} /\ Len(detected) \in Nat
      BY <2>1 DEF IInv, Ruled
    <2>3. detected # <<>>
      BY <2>2
    <2>4. ASSUME NEW k \in 1 .. Len(findings)
          PROVE  Publishable(findings[k], findings[k].detector)
      <3>1. k \in 1 .. Len(detected) /\ SameFinding(findings[k], detected[k])
        BY <2>2 DEF IInv, Ruled
      <3>2. Publishable(detected[k], detected[k].detector)
        BY <3>1 DEF Validated
      <3> QED BY <3>1, <3>2, PublishableAlike DEF SameFinding
    <2> QED BY <2>3, <2>4 DEF Validated
  <1> QED BY <1>1, <1>2, <1>3, Invariance, PTL DEF Spec
=============================================================================
