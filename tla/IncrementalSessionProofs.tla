---------------------- MODULE IncrementalSessionProofs ----------------------
(***************************************************************************)
(* Safety of the incremental session, for every alphabet, every set of     *)
(* chunks, all limits `IncrementalLimits::new` accepts and every detector  *)
(* pipeline that keeps DetectContract.                                     *)
(***************************************************************************)
EXTENDS IncrementalSession, SequenceLemmas, FiniteSetTheorems

---------------------------------------------------------------------------
(* The inductive invariant. *)

\* Between two calls nothing of a call is left.
Idle == ~calling => rest = <<>> /\ emitted = <<>> /\ unit_findings = <<>>

\* A session that is over runs no call and retains nothing.
Over == state # "Accepting" => ~calling /\ retained = <<>>

\* Where the text a session took in is, and how many findings it has counted.
Accounting ==
    /\ Len(source) <= max_input_bytes
    /\ state = "Accepting" =>
          /\ finalized_bytes + Len(retained) + Len(rest) = Len(source)
          /\ Len(text) + Len(emitted) = finalized_bytes
          /\ Len(findings) + Len(unit_findings) = finding_count
    /\ state = "Finalized" => Len(text) = Len(source)

\* The findings of the call in progress follow those already returned.
PendingInOrder ==
    state = "Accepting" => InOrder(findings \o unit_findings, finalized_bytes)

IInv ==
    /\ TypeOK /\ Idle /\ Over /\ Accounting
    /\ RetainedBounded /\ ReportedInOrder /\ PendingInOrder

\* Findings of the text from..to, in order and disjoint, numbered on from `counted`.
Follows(fs, counted, from, to) ==
    \A k \in 1 .. Len(fs) :
        /\ fs[k].id = counted + k
        /\ from <= fs[k].start /\ fs[k].start < fs[k].end /\ fs[k].end <= to
        /\ k > 1 => fs[k - 1].end <= fs[k].start

---------------------------------------------------------------------------
(* The limits. *)

\* Valid limits leave room in the buffer for either construct and the lookaround.
LEMMA LimitFacts ==
    /\ max_input_bytes \in Nat \ {0} /\ max_buffered_bytes \in Nat \ {0}
    /\ max_token_bytes \in Nat \ {0} /\ max_multiline_bytes \in Nat \ {0}
    /\ LOOKAROUND_BYTES \in Nat \ {0}
    /\ max_token_bytes <= max_input_bytes /\ max_multiline_bytes <= max_input_bytes
    /\ max_token_bytes + LOOKAROUND_BYTES <= max_buffered_bytes
    /\ max_multiline_bytes + LOOKAROUND_BYTES <= max_buffered_bytes
  BY ValidLimits DEF valid_limits, minimum_buffered_bytes

---------------------------------------------------------------------------
(* The pipeline's operators. *)

LEMMA SeqOfFunction ==
    ASSUME NEW S, NEW n \in Nat, NEW f \in [1 .. n -> S]
    PROVE  f \in Seq(S) /\ Len(f) = n
  OBVIOUS

\* What detection reports on a text the session may hold.
LEMMA ScanProperties ==
    ASSUME NEW u \in Seq(Lexeme), Len(u) <= max_input_bytes,
           NEW offset \in Nat, NEW counted \in Nat
    PROVE  LET fs == scan(Detect(u), offset, counted)
           IN  fs \in Seq(Finding) /\ Follows(fs, counted, offset, offset + Len(u))
  <1> DEFINE d == Detect(u)
             fs == scan(d, offset, counted)
  <1>1. Len(u) \in 0 .. max_input_bytes /\ u \in [1 .. Len(u) -> Lexeme]
    BY LenProperties, LimitFacts
  <1>2. d \in Seq(DetectedFinding) /\ ordered_and_disjoint(d, 0, Len(u))
    BY <1>1, DetectContract
  <1> HIDE DEF d
  <1>3. Len(d) \in Nat
    BY <1>2, LenProperties
  <1>4. \A k \in 1 .. Len(d) : d[k] \in DetectedFinding
    BY <1>2, ElementOfSeq
  <1>5. \A k \in 1 .. Len(d) : default_action(d[k]) \in {"Block", "Redact", "Warn"}
    BY DEF default_action
  <1>6. fs \in [1 .. Len(d) -> Finding]
    <2>1. ASSUME NEW k \in 1 .. Len(d)
          PROVE  [id |-> counted + k, type |-> d[k].type, action |-> default_action(d[k]),
                  start |-> offset + d[k].start, end |-> offset + d[k].end] \in Finding
      <3>1. counted + k \in Nat
        BY <1>3
      <3>2. d[k].type \in FindingType /\ d[k].start \in Nat /\ d[k].end \in Nat
        <4>1. d[k] \in DetectedFinding
          BY <1>4
        <4> QED BY <4>1, Zenon DEF DetectedFinding
      <3>3. offset + d[k].start \in Nat /\ offset + d[k].end \in Nat
        BY <3>2
      <3>4. default_action(d[k]) \in {"Block", "Redact", "Warn"}
        BY <1>5
      <3> QED BY <3>1, <3>2, <3>3, <3>4, Zenon DEF Finding
    <2> QED BY <2>1, Zenon DEF scan
  <1>7. fs \in Seq(Finding) /\ Len(fs) = Len(d)
    <2> HIDE DEF fs
    <2> QED BY <1>3, <1>6, SeqOfFunction
  <1>8. \A k \in 1 .. Len(d) :
            fs[k].id = counted + k /\ fs[k].start = offset + d[k].start
              /\ fs[k].end = offset + d[k].end
    BY DEF scan
  <1>9. \A k \in 1 .. Len(d) : d[k].start \in Nat /\ d[k].end \in Nat
    BY <1>4 DEF DetectedFinding
  <1>10. ASSUME NEW k \in 1 .. Len(d)
         PROVE  /\ offset <= fs[k].start
                /\ fs[k].start < fs[k].end
                /\ fs[k].end <= offset + Len(u)
                /\ k > 1 => fs[k - 1].end <= fs[k].start
    <2>1. /\ d[k].start < d[k].end /\ d[k].end <= Len(u)
          /\ k > 1 => d[k - 1].end <= d[k].start
      BY <1>2 DEF ordered_and_disjoint
    <2>2. /\ d[k].start \in Nat /\ d[k].end \in Nat
          /\ fs[k].start = offset + d[k].start /\ fs[k].end = offset + d[k].end
      BY <1>8, <1>9
    <2>3. k > 1 => d[k - 1].end \in Nat /\ fs[k - 1].end = offset + d[k - 1].end
      <3>1. k > 1 => k - 1 \in 1 .. Len(d)
        BY <1>3
      <3> QED BY <3>1, <1>8, <1>9
    <2> HIDE DEF fs
    <2> QED BY <2>1, <2>2, <2>3, <1>1
  <1>11. Follows(fs, counted, offset, offset + Len(u))
    <2> HIDE DEF fs
    <2> QED BY <1>7, <1>8, <1>10 DEF Follows
  <1> HIDE DEF fs
  <1> QED BY <1>7, <1>11 DEF fs, d

LEMMA ConcatFindings ==
    ASSUME NEW a \in Seq(Finding), NEW b \in Seq(Finding), NEW c \in Seq(Finding)
    PROVE  (a \o b) \o c = a \o (b \o c)
  BY ConcatAssociative

LEMMA FindingFields ==
    ASSUME NEW fs \in Seq(Finding), NEW k \in 1 .. Len(fs)
    PROVE  fs[k].start \in Nat /\ fs[k].end \in Nat
  <1>1. fs[k] \in Finding
    BY ElementOfSeq
  <1> QED BY <1>1, Zenon DEF Finding

LEMMA PlaceholderIndexType ==
    ASSUME NEW fs, NEW k \in Nat
    PROVE  PlaceholderIndex(fs, k) \in Nat
  <1> DEFINE T == {j \in 1 .. k : replaces_text(fs[j].action)}
  <1>1. IsFiniteSet(1 .. k)
    BY FS_Interval
  <1>2. IsFiniteSet(T)
    <2>1. T \in SUBSET (1 .. k)
      OBVIOUS
    <2> QED BY <1>1, <2>1, FS_Subset
  <1>3. Cardinality(T) \in Nat
    BY <1>2, FS_CardinalityType
  <1> QED BY <1>3 DEF PlaceholderIndex

\* Redaction keeps the length: one unit of output stands for each byte.
LEMMA RedactType ==
    ASSUME NEW u \in Seq(Lexeme), NEW fs \in Seq(Finding), NEW offset, NEW numbered \in Nat
    PROVE  redact(u, fs, offset, numbered) \in Seq(OutputUnit)
             /\ Len(redact(u, fs, offset, numbered)) = Len(u)
  <1> DEFINE out(i) == LET covering == Covering(fs, offset, i)
                       IN  IF covering = {} THEN Plain(u[i])
                           ELSE Placeholder(numbered +
                                  PlaceholderIndex(fs, CHOOSE k \in covering : TRUE))
  <1>1. Len(u) \in Nat /\ \A i \in 1 .. Len(u) : u[i] \in AllLexemes
    BY LenProperties, ElementOfSeq, TextChunks
  <1>2. ASSUME NEW i \in 1 .. Len(u)
        PROVE  out(i) \in OutputUnit
    <2>1. CASE Covering(fs, offset, i) = {}
      BY <1>1, <2>1 DEF Plain, OutputUnit
    <2>2. CASE Covering(fs, offset, i) # {}
      <3> DEFINE k == CHOOSE k \in Covering(fs, offset, i) : TRUE
      <3>1. k \in Covering(fs, offset, i)
        BY <2>2
      <3>2. k \in Nat
        BY <3>1, LenProperties DEF Covering
      <3>3. PlaceholderIndex(fs, k) \in Nat
        BY <3>2, PlaceholderIndexType
      <3> HIDE DEF k
      <3>4. Placeholder(numbered + PlaceholderIndex(fs, k)) \in OutputUnit
        BY <3>3 DEF Placeholder, OutputUnit
      <3> QED BY <2>2, <3>4 DEF k
    <2> QED BY <2>1, <2>2
  <1>3. redact(u, fs, offset, numbered) = [i \in 1 .. Len(u) |-> out(i)]
    BY DEF redact
  <1> HIDE DEF out
  <1>4. [i \in 1 .. Len(u) |-> out(i)] \in [1 .. Len(u) -> OutputUnit]
    BY <1>2
  <1> QED BY <1>1, <1>3, <1>4, SeqOfFunction

\* Findings in order up to n, followed by findings in order from n on.
LEMMA InOrderConcat ==
    ASSUME NEW fs \in Seq(Finding), NEW gs \in Seq(Finding), NEW n \in Nat, NEW m \in Nat,
           n <= m, InOrder(fs, n),
           Follows(gs, Len(fs), n, m)
    PROVE  InOrder(fs \o gs, m)
  <1> DEFINE hs == fs \o gs
  <1>1. /\ Len(fs) \in Nat /\ Len(gs) \in Nat /\ Len(hs) = Len(fs) + Len(gs)
        /\ \A i \in 1 .. Len(fs) + Len(gs) :
              hs[i] = IF i <= Len(fs) THEN fs[i] ELSE gs[i - Len(fs)]
    BY ConcatProperties, LenProperties
  <1>2. \A k \in 1 .. Len(fs) : fs[k].start \in Nat /\ fs[k].end \in Nat
    BY FindingFields
  <1>3. \A k \in 1 .. Len(gs) : gs[k].start \in Nat /\ gs[k].end \in Nat
    BY FindingFields
  <1> HIDE DEF hs
  <1>4. ASSUME NEW k \in 1 .. Len(hs)
        PROVE  /\ hs[k].id = k
               /\ hs[k].start < hs[k].end /\ hs[k].end <= m
               /\ k > 1 => hs[k - 1].end <= hs[k].start
    <2>1. CASE k <= Len(fs)
      <3>1. hs[k] = fs[k] /\ k \in 1 .. Len(fs)
        BY <1>1, <2>1
      <3>2. k > 1 => hs[k - 1] = fs[k - 1]
        BY <1>1, <2>1
      <3> QED BY <3>1, <3>2, <1>1, <1>2 DEF InOrder
    <2>2. CASE k > Len(fs) /\ (k = Len(fs) + 1)
      <3>1. hs[k] = gs[1] /\ 1 \in 1 .. Len(gs)
        <4>1. k \in 1 .. Len(fs) + Len(gs) /\ k - Len(fs) = 1
          BY <1>1, <2>2
        <4> QED BY <4>1, <1>1, <2>2
      <3>2. k > 1 => hs[k - 1] = fs[k - 1] /\ k - 1 \in 1 .. Len(fs)
        BY <1>1, <2>2
      <3>3. k > 1 => fs[k - 1].end <= n
        BY <3>2 DEF InOrder
      <3> QED BY <2>2, <3>1, <3>2, <3>3, <1>1, <1>2, <1>3 DEF Follows
    <2>3. CASE k > Len(fs) + 1
      <3>1. /\ hs[k] = gs[k - Len(fs)] /\ k - Len(fs) \in 1 .. Len(gs)
            /\ hs[k - 1] = gs[(k - Len(fs)) - 1]
        BY <1>1, <2>3
      <3> QED BY <2>3, <3>1, <1>1 DEF Follows
    <2> QED BY <2>1, <2>2, <2>3, <1>1
  <1> QED BY <1>4 DEF InOrder, hs

---------------------------------------------------------------------------
(* What the operations do to the invariant. *)

\* The piece moves from the chunk to the retained text.
LEMMA PieceProperties ==
    ASSUME IInv, NEW n \in 1 .. Len(rest), IsPiece(n)
    PROVE  /\ state = "Accepting"
           /\ Unit(n) \in Seq(Lexeme) /\ Len(Unit(n)) = Len(retained) + n
           /\ SubSeq(rest, n + 1, Len(rest)) \in Seq(Lexeme)
           /\ Len(SubSeq(rest, n + 1, Len(rest))) = Len(rest) - n
           /\ Len(Unit(n)) <= max_input_bytes
  <1>1. state = "Accepting"
    BY DEF IInv, Over, IsPiece
  <1>2. rest \in Seq(Lexeme) /\ retained \in Seq(Lexeme)
    BY DEF IInv, TypeOK
  <1>3. Len(rest) \in Nat /\ Len(retained) \in Nat /\ \A i \in 1 .. Len(rest) : rest[i] \in Lexeme
    BY <1>2, ElementOfSeq, LenProperties
  <1>4. Piece(n) \in Seq(Lexeme) /\ Len(Piece(n)) = n
    <2>1. \A i \in 1 .. n : rest[i] \in Lexeme
      BY <1>3
    <2> QED BY <1>3, <2>1, SubSeqProperties DEF Piece
  <1>5. Unit(n) \in Seq(Lexeme) /\ Len(Unit(n)) = Len(retained) + n
    BY <1>2, <1>4, ConcatProperties DEF Unit
  <1>6. /\ SubSeq(rest, n + 1, Len(rest)) \in Seq(Lexeme)
        /\ Len(SubSeq(rest, n + 1, Len(rest))) = Len(rest) - n
    <2>1. n + 1 \in Int /\ Len(rest) \in Int /\ \A i \in (n + 1) .. Len(rest) : rest[i] \in Lexeme
      BY <1>3
    <2>2. /\ SubSeq(rest, n + 1, Len(rest)) \in Seq(Lexeme)
          /\ Len(SubSeq(rest, n + 1, Len(rest))) =
                IF n + 1 <= Len(rest) THEN Len(rest) - (n + 1) + 1 ELSE 0
      BY <2>1, SubSeqProperties
    <2> QED BY <2>2, <1>3
  <1>7. Len(Unit(n)) <= max_input_bytes
    <2>1. /\ finalized_bytes + Len(retained) + Len(rest) = Len(source)
          /\ Len(source) <= max_input_bytes /\ finalized_bytes \in Nat
      BY <1>1 DEF IInv, Accounting, TypeOK
    <2>2. Len(source) \in Nat
      BY LenProperties DEF IInv, TypeOK
    <2> QED BY <1>3, <1>5, <2>1, <2>2, LimitFacts
  <1> QED BY <1>1, <1>5, <1>6, <1>7

\* A unit that is processed yields text of its own length, and findings that follow all the
\* findings before it.
LEMMA UnitProperties ==
    ASSUME IInv, state = "Accepting", NEW u \in Seq(Lexeme), Len(u) <= max_input_bytes
    PROVE  /\ FindingsOf(u) \in Seq(Finding)
           /\ TextOf(u) \in Seq(OutputUnit) /\ Len(TextOf(u)) = Len(u)
           /\ Replaced(FindingsOf(u)) \in Nat
           /\ InOrder((findings \o unit_findings) \o FindingsOf(u), finalized_bytes + Len(u))
  <1>1. /\ finalized_bytes \in Nat /\ finding_count \in Nat /\ placeholder_count \in Nat
        /\ findings \in Seq(Finding) /\ unit_findings \in Seq(Finding)
    BY DEF IInv, TypeOK
  <1>2. /\ FindingsOf(u) \in Seq(Finding)
        /\ Follows(FindingsOf(u), finding_count, finalized_bytes, finalized_bytes + Len(u))
    BY <1>1, ScanProperties DEF FindingsOf
  <1>3. TextOf(u) \in Seq(OutputUnit) /\ Len(TextOf(u)) = Len(u)
    BY <1>1, <1>2, RedactType DEF TextOf
  <1>4. Replaced(FindingsOf(u)) \in Nat
    BY <1>2, LenProperties, PlaceholderIndexType DEF Replaced
  <1>5. /\ findings \o unit_findings \in Seq(Finding)
        /\ Len(findings \o unit_findings) = finding_count
    <2>1. Len(findings) + Len(unit_findings) = finding_count
      BY DEF IInv, Accounting
    <2> QED BY <1>1, <2>1, ConcatProperties
  <1>6. InOrder(findings \o unit_findings, finalized_bytes)
    BY DEF IInv, PendingInOrder
  <1>7. InOrder((findings \o unit_findings) \o FindingsOf(u), finalized_bytes + Len(u))
    <2> DEFINE fs == findings \o unit_findings
               gs == FindingsOf(u)
               m == finalized_bytes + Len(u)
    <2>1. Len(u) \in Nat
      BY LenProperties
    <2>2. m \in Nat /\ finalized_bytes <= m
      BY <1>1, <2>1
    <2>3. Follows(gs, Len(fs), finalized_bytes, m)
      BY <1>2, <1>5
    <2>4. fs \in Seq(Finding) /\ gs \in Seq(Finding) /\ InOrder(fs, finalized_bytes)
      BY <1>2, <1>5, <1>6
    <2>5. finalized_bytes \in Nat
      BY <1>1
    <2> HIDE DEF fs, gs, m
    <2>6. InOrder(fs \o gs, m)
      BY <2>2, <2>3, <2>4, <2>5, InOrderConcat
    <2> QED BY <2>6 DEF fs, gs, m
  <1> QED BY <1>2, <1>3, <1>4, <1>7

\* A failure discards what the session held and hands back nothing.
LEMMA FailurePreserves ==
    ASSUME IInv, NEW code \in (LimitErrors \cup UnitErrors) \ {"BufferLimitExceeded"},
           fail_with(code), UNCHANGED <<total_input_bytes, received, source>>,
           finalized_bytes' \in Nat, finding_count' \in Nat, placeholder_count' \in Nat
    PROVE  IInv'
  <1> USE DEF fail_with, discard_retained, leave_call, received
  <1>1. TypeOK'
    <2>1. <<>> \in Seq(Lexeme) /\ <<>> \in Seq(OutputUnit) /\ <<>> \in Seq(Finding)
      BY EmptySeq
    <2> QED BY <2>1 DEF IInv, TypeOK, SessionState
  <1>2. Idle' /\ Over' /\ Accounting' /\ PendingInOrder'
    BY DEF IInv, Idle, Over, Accounting, PendingInOrder
  <1>3. RetainedBounded'
    <2>1. Len(retained') = 0
      BY EmptySeq
    <2>2. error' # "BufferLimitExceeded"
      OBVIOUS
    <2> QED BY <2>1, <2>2, LimitFacts DEF RetainedBounded
  <1>4. ReportedInOrder'
    BY DEF IInv, ReportedInOrder, InOrder
  <1> QED BY <1>1, <1>2, <1>3, <1>4 DEF IInv

\* A unit that fails its policy or its placeholders ends the session.
LEMMA UnitFailurePreserves ==
    ASSUME IInv, state = "Accepting", NEW u \in Seq(Lexeme), Len(u) <= max_input_bytes,
           process_unit_fails(u), UNCHANGED <<total_input_bytes, received, source>>
    PROVE  IInv'
  <1>1. PICK code \in UnitErrors :
            /\ IF code = "PolicyFailure"
                 THEN \E k \in 1 .. Len(FindingsOf(u)) : finding_count' = finding_count + k - 1
                 ELSE /\ Replaced(FindingsOf(u)) > 0
                      /\ finding_count' = finding_count + Len(FindingsOf(u))
            /\ fail_with(code)
            /\ UNCHANGED <<finalized_bytes, placeholder_count>>
    BY DEF process_unit_fails
  <1>2. finding_count \in Nat /\ finalized_bytes \in Nat /\ placeholder_count \in Nat
    BY DEF IInv, TypeOK
  <1>3. Len(FindingsOf(u)) \in Nat
    BY UnitProperties, LenProperties
  <1>4. finding_count' \in Nat
    BY <1>1, <1>2, <1>3
  <1>5. code \in (LimitErrors \cup UnitErrors) \ {"BufferLimitExceeded"}
    BY DEF LimitErrors, UnitErrors
  <1> QED BY <1>1, <1>2, <1>4, <1>5, FailurePreserves

LEMMA InitEstablishes == Init => IInv
  <1> SUFFICES ASSUME Init PROVE IInv
    OBVIOUS
  <1>1. /\ <<>> \in Seq(Lexeme) /\ <<>> \in Seq(OutputUnit) /\ <<>> \in Seq(Finding)
        /\ Len(<<>>) = 0
    BY EmptySeq
  <1>2. TypeOK
    BY <1>1 DEF Init, TypeOK, SessionState
  <1>3. Idle /\ Over /\ Accounting
    BY <1>1, LimitFacts DEF Init, Idle, Over, Accounting
  <1>4. RetainedBounded
    BY <1>1, LimitFacts DEF Init, RetainedBounded
  <1>5. ReportedInOrder /\ PendingInOrder
    <2>1. <<>> \o <<>> = <<>>
      BY <1>1, ConcatEmptySeq
    <2> QED BY <1>1, <2>1 DEF Init, ReportedInOrder, PendingInOrder, InOrder
  <1> QED BY <1>2, <1>3, <1>4, <1>5 DEF IInv

LEMMA AppendRefusedPreserves ==
    ASSUME IInv, NEW chunk \in Chunks, AppendRefused(chunk)
    PROVE  IInv'
  <1>1. "InputLimitExceeded" \in (LimitErrors \cup UnitErrors) \ {"BufferLimitExceeded"}
    BY DEF LimitErrors
  <1>2. finalized_bytes' \in Nat /\ finding_count' \in Nat /\ placeholder_count' \in Nat
    BY DEF IInv, TypeOK, AppendRefused, counters
  <1> QED BY <1>1, <1>2, FailurePreserves DEF AppendRefused

LEMMA BeginAppendPreserves ==
    ASSUME IInv, NEW chunk \in Chunks, BeginAppend(chunk)
    PROVE  IInv'
  <1>1. chunk \in Seq(Lexeme) /\ Len(chunk) \in Nat
    BY TextChunks, LenProperties
  <1>2. /\ source \in Seq(Lexeme) /\ Len(source) \in Nat /\ total_input_bytes = Len(source)
        /\ Len(retained) \in Nat /\ finalized_bytes \in Nat
    BY LenProperties DEF IInv, TypeOK
  <1>3. /\ state = "Accepting" /\ ~calling /\ calling' = TRUE /\ rest' = chunk
        /\ total_input_bytes' = total_input_bytes + Len(chunk)
        /\ total_input_bytes' <= max_input_bytes
        /\ UNCHANGED <<state, retained, multiline_open, multiline_detected, finalized_bytes,
                       finding_count, placeholder_count, emitted, unit_findings, text, findings,
                       error>>
    BY DEF BeginAppend, require_accepting, counters, buffer, received
  <1>4. source' \in Seq(Lexeme) /\ Len(source') = Len(source) + Len(chunk)
    BY <1>1, <1>2, ConcatProperties DEF BeginAppend
  <1>5. TypeOK'
    BY <1>1, <1>2, <1>3, <1>4 DEF IInv, TypeOK
  <1>6. Idle' /\ Over'
    BY <1>3 DEF Idle, Over
  <1>7. Accounting'
    <2>1. Len(rest) = 0
      BY <1>3, EmptySeq DEF IInv, Idle
    <2>2. /\ finalized_bytes + Len(retained) + Len(rest) = Len(source)
          /\ Len(text) + Len(emitted) = finalized_bytes
          /\ Len(findings) + Len(unit_findings) = finding_count
      BY <1>3 DEF IInv, Accounting
    <2>3. Len(rest') = Len(chunk) /\ Len(retained') = Len(retained)
      BY <1>3
    <2>4. finalized_bytes' + Len(retained') + Len(rest') = Len(source')
      BY <1>1, <1>2, <1>3, <1>4, <2>1, <2>2, <2>3
    <2>5. Len(source') <= max_input_bytes
      BY <1>2, <1>3, <1>4
    <2>6. /\ Len(text') + Len(emitted') = finalized_bytes'
          /\ Len(findings') + Len(unit_findings') = finding_count'
      BY <1>3, <2>2
    <2> QED BY <1>3, <2>4, <2>5, <2>6 DEF Accounting
  <1>8. RetainedBounded' /\ ReportedInOrder' /\ PendingInOrder'
    BY <1>3 DEF IInv, RetainedBounded, ReportedInOrder, PendingInOrder, InOrder
  <1> QED BY <1>5, <1>6, <1>7, <1>8 DEF IInv

\* The buffer limit leaves room for the longest construct and its terminator.
LEMMA AppendReachesLimitPreserves ==
    ASSUME IInv, NEW n \in 1 .. Len(rest), AppendReachesLimit(n)
    PROVE  IInv'
  <1>1. Len(Unit(n)) \in Nat
    BY PieceProperties, LenProperties DEF AppendReachesLimit
  <1>2. construct_limit(MultilineDetected(n)) \in Nat
          /\ construct_limit(MultilineDetected(n)) + 1 <= max_buffered_bytes
    BY LimitFacts DEF construct_limit
  <1>3. LimitReached(n) \in (LimitErrors \cup UnitErrors) \ {"BufferLimitExceeded"}
    BY <1>1, <1>2, LimitFacts DEF AppendReachesLimit, LimitReached, limit_reached, LimitErrors
  <1>4. finalized_bytes' \in Nat /\ finding_count' \in Nat /\ placeholder_count' \in Nat
    BY DEF IInv, TypeOK, AppendReachesLimit, counters
  <1> QED BY <1>3, <1>4, FailurePreserves DEF AppendReachesLimit

LEMMA AppendRetainsPreserves ==
    ASSUME IInv, NEW n \in 1 .. Len(rest), AppendRetains(n)
    PROVE  IInv'
  <1>1. /\ state = "Accepting"
        /\ retained' \in Seq(Lexeme) /\ Len(retained') = Len(retained) + n
        /\ rest' \in Seq(Lexeme) /\ Len(rest') = Len(rest) - n
    BY PieceProperties DEF AppendRetains
  <1>2. Len(retained) \in Nat /\ Len(rest) \in Nat /\ finalized_bytes \in Nat
    BY LenProperties DEF IInv, TypeOK
  <1>3. calling /\ UNCHANGED <<state, total_input_bytes, finalized_bytes, finding_count,
                             placeholder_count, calling, emitted, unit_findings, text,
                             findings, source, error>>
    BY DEF AppendRetains, IsPiece, counters, received
  <1>4. TypeOK'
    <2>1. multiline_detected' \in BOOLEAN /\ multiline_open' \in BOOLEAN
      BY DEF AppendRetains, MultilineDetected
    <2> QED BY <1>1, <1>3, <2>1 DEF IInv, TypeOK
  <1>5. Idle' /\ Over'
    BY <1>1, <1>3 DEF IInv, Idle, Over
  <1>6. Accounting'
    <2>1. /\ Len(source) <= max_input_bytes
          /\ finalized_bytes + Len(retained) + Len(rest) = Len(source)
          /\ Len(text) + Len(emitted) = finalized_bytes
          /\ Len(findings) + Len(unit_findings) = finding_count
      BY <1>1 DEF IInv, Accounting
    <2>2. finalized_bytes' + Len(retained') + Len(rest') = Len(source')
      <3>1. Len(source') = Len(source) /\ finalized_bytes' = finalized_bytes
        BY <1>3
      <3>2. Len(retained') = Len(retained) + n /\ Len(rest') = Len(rest) - n
        BY <1>1
      <3>3. /\ Len(retained) \in Nat /\ Len(rest) \in Nat /\ finalized_bytes \in Nat
            /\ n \in Nat
        BY <1>2
      <3> QED BY <2>1, <3>1, <3>2, <3>3
    <2> QED BY <1>1, <1>3, <2>1, <2>2 DEF Accounting
  <1>7. RetainedBounded'
    <2>1. Len(retained') <= construct_limit(multiline_detected') + 1
      <3>1. Len(retained') \in Nat /\ construct_limit(MultilineDetected(n)) \in Nat
        BY <1>1, LenProperties, LimitFacts DEF construct_limit
      <3>2. retained' = Unit(n) /\ multiline_detected' = MultilineDetected(n)
        BY DEF AppendRetains
      <3>3. limit_reached(Len(retained'), ClosesLine(n), MultilineDetected(n)) = "None"
        BY <3>2 DEF AppendRetains, LimitReached
      <3>4. ~(Len(retained') - 1 > construct_limit(MultilineDetected(n)))
        BY <3>1, <3>3 DEF limit_reached
      <3> QED BY <3>1, <3>2, <3>4
    <2>2. error' # "BufferLimitExceeded"
      BY <1>3 DEF IInv, RetainedBounded
    <2> QED BY <2>1, <2>2 DEF RetainedBounded, construct_limit
  <1>8. ReportedInOrder' /\ PendingInOrder'
    BY <1>3 DEF IInv, ReportedInOrder, PendingInOrder, InOrder
  <1> QED BY <1>4, <1>5, <1>6, <1>7, <1>8 DEF IInv

LEMMA AppendClosesUnitPreserves ==
    ASSUME IInv, NEW n \in 1 .. Len(rest), AppendClosesUnit(n)
    PROVE  IInv'
  <1> DEFINE u == Unit(n)
             fs == FindingsOf(u)
  <1>1. /\ state = "Accepting" /\ u \in Seq(Lexeme) /\ Len(u) <= max_input_bytes
        /\ Len(u) = Len(retained) + n
        /\ rest' \in Seq(Lexeme) /\ Len(rest') = Len(rest) - n
    BY PieceProperties DEF AppendClosesUnit
  <1>2. Len(retained) \in Nat /\ Len(rest) \in Nat /\ Len(u) \in Nat
    BY <1>1, LenProperties DEF IInv, TypeOK
  <1>3. /\ finalized_bytes \in Nat /\ finding_count \in Nat /\ placeholder_count \in Nat
        /\ emitted \in Seq(OutputUnit) /\ text \in Seq(OutputUnit)
        /\ findings \in Seq(Finding) /\ unit_findings \in Seq(Finding)
    BY DEF IInv, TypeOK
  <1>4. /\ fs \in Seq(Finding)
        /\ TextOf(u) \in Seq(OutputUnit) /\ Len(TextOf(u)) = Len(u)
        /\ Replaced(fs) \in Nat
        /\ InOrder((findings \o unit_findings) \o fs, finalized_bytes + Len(u))
    BY <1>1, UnitProperties
  <1>5. /\ finding_count' = finding_count + Len(fs)
        /\ placeholder_count' = placeholder_count + Replaced(fs)
        /\ finalized_bytes' = finalized_bytes + Len(u)
        /\ retained' = <<>> /\ multiline_open' = FALSE /\ multiline_detected' = FALSE
        /\ calling
        /\ UNCHANGED <<state, total_input_bytes, calling, text, findings, source, error>>
    BY DEF AppendClosesUnit, process_unit, discard_retained, received, IsPiece
  <1>6. emitted' = emitted \o TextOf(u) /\ unit_findings' = unit_findings \o fs
    BY DEF AppendClosesUnit
  <1> HIDE DEF u, fs
  <1>7. /\ retained' \in Seq(Lexeme) /\ Len(retained') = 0
        /\ emitted' \in Seq(OutputUnit) /\ Len(emitted') = Len(emitted) + Len(u)
        /\ unit_findings' \in Seq(Finding)
        /\ Len(unit_findings') = Len(unit_findings) + Len(fs)
    BY <1>3, <1>4, <1>5, <1>6, EmptySeq, ConcatProperties
  <1>8. /\ Len(fs) \in Nat /\ Len(emitted) \in Nat /\ Len(text) \in Nat
        /\ Len(findings) \in Nat /\ Len(unit_findings) \in Nat
    BY <1>3, <1>4, LenProperties
  <1>9. TypeOK'
    <2>1. finding_count' \in Nat /\ placeholder_count' \in Nat /\ finalized_bytes' \in Nat
      BY <1>2, <1>3, <1>4, <1>5, <1>8
    <2> QED BY <1>1, <1>5, <1>7, <2>1 DEF IInv, TypeOK
  <1>10. Idle' /\ Over'
    BY <1>1, <1>5 DEF Idle, Over
  <1>11. Accounting'
    <2>1. /\ Len(source) <= max_input_bytes
          /\ finalized_bytes + Len(retained) + Len(rest) = Len(source)
          /\ Len(text) + Len(emitted) = finalized_bytes
          /\ Len(findings) + Len(unit_findings) = finding_count
      BY <1>1 DEF IInv, Accounting
    <2>2. finalized_bytes' + Len(retained') + Len(rest') = Len(source')
      <3>1. Len(source') = Len(source) /\ finalized_bytes' = finalized_bytes + Len(u)
        BY <1>5
      <3>2. /\ Len(u) = Len(retained) + n /\ Len(rest') = Len(rest) - n
            /\ Len(retained') = 0
        BY <1>1, <1>7
      <3>3. /\ Len(retained) \in Nat /\ Len(rest) \in Nat /\ finalized_bytes \in Nat
            /\ n \in Nat
        BY <1>2, <1>3
      <3> QED BY <2>1, <3>1, <3>2, <3>3
    <2>3. Len(text') + Len(emitted') = finalized_bytes'
      <3>1. Len(text') = Len(text) /\ finalized_bytes' = finalized_bytes + Len(u)
        BY <1>5
      <3>2. Len(emitted') = Len(emitted) + Len(u)
        BY <1>7
      <3>3. Len(text) \in Nat /\ Len(emitted) \in Nat /\ Len(u) \in Nat
        BY <1>2, <1>8
      <3> QED BY <2>1, <3>1, <3>2, <3>3
    <2>4. Len(findings') + Len(unit_findings') = finding_count'
      <3>1. Len(findings') = Len(findings) /\ finding_count' = finding_count + Len(fs)
        BY <1>5
      <3>2. Len(unit_findings') = Len(unit_findings) + Len(fs)
        BY <1>7
      <3>3. Len(findings) \in Nat /\ Len(unit_findings) \in Nat /\ Len(fs) \in Nat
        BY <1>8
      <3> QED BY <2>1, <3>1, <3>2, <3>3
    <2> QED BY <1>1, <1>5, <2>1, <2>2, <2>3, <2>4 DEF Accounting
  <1>12. RetainedBounded'
    BY <1>5, <1>7, LimitFacts DEF IInv, RetainedBounded
  <1>13. ReportedInOrder'
    BY <1>5 DEF IInv, ReportedInOrder, InOrder
  <1>14. PendingInOrder'
    <2>1. (findings \o unit_findings) \o fs = findings \o (unit_findings \o fs)
      <3>1. findings \in Seq(Finding) /\ unit_findings \in Seq(Finding) /\ fs \in Seq(Finding)
        BY <1>3, <1>4
      <3> QED BY <3>1, ConcatFindings
    <2>2. findings' \o unit_findings' = findings \o (unit_findings \o fs)
      BY <1>5, <1>6
    <2> QED BY <1>4, <1>5, <2>1, <2>2 DEF PendingInOrder
  <1> QED BY <1>9, <1>10, <1>11, <1>12, <1>13, <1>14 DEF IInv

LEMMA AppendFailsUnitPreserves ==
    ASSUME IInv, NEW n \in 1 .. Len(rest), AppendFailsUnit(n)
    PROVE  IInv'
  BY PieceProperties, UnitFailurePreserves DEF AppendFailsUnit

LEMMA ReturnAppendPreserves ==
    ASSUME IInv, ReturnAppend
    PROVE  IInv'
  <1> USE DEF ReturnAppend, leave_call, counters, buffer
  <1>1. state = "Accepting"
    BY DEF IInv, Over
  <1>2. /\ emitted \in Seq(OutputUnit) /\ text \in Seq(OutputUnit)
        /\ findings \in Seq(Finding) /\ unit_findings \in Seq(Finding)
        /\ source \in Seq(Lexeme) /\ retained \in Seq(Lexeme)
        /\ finalized_bytes \in Nat
    BY DEF IInv, TypeOK
  <1>3. /\ text' \in Seq(OutputUnit) /\ Len(text') = Len(text) + Len(emitted)
        /\ findings' \in Seq(Finding) /\ Len(findings') = Len(findings) + Len(unit_findings)
    BY <1>2, ConcatProperties
  <1>4. /\ <<>> \in Seq(Lexeme) /\ <<>> \in Seq(OutputUnit) /\ <<>> \in Seq(Finding)
        /\ Len(<<>>) = 0
    BY EmptySeq
  <1>5. /\ Len(emitted) \in Nat /\ Len(text) \in Nat /\ Len(findings) \in Nat
        /\ Len(unit_findings) \in Nat /\ Len(source) \in Nat /\ Len(retained) \in Nat
    BY <1>2, LenProperties
  <1>6. TypeOK'
    BY <1>3, <1>4 DEF IInv, TypeOK
  <1>7. Idle' /\ Over'
    BY <1>1 DEF Idle, Over
  <1>8. Accounting'
    BY <1>1, <1>2, <1>3, <1>4, <1>5 DEF IInv, Accounting
  <1>9. RetainedBounded'
    BY DEF IInv, RetainedBounded
  <1>10. InOrder(findings', finalized_bytes) /\ Len(text') = finalized_bytes
    BY <1>1, <1>3 DEF IInv, PendingInOrder, Accounting
  <1>11. ReportedInOrder'
    BY <1>10 DEF ReportedInOrder, InOrder
  <1>12. PendingInOrder'
    <2>1. findings' \o <<>> = findings'
      BY <1>3, ConcatEmptySeq
    <2> QED BY <1>10, <2>1 DEF PendingInOrder, InOrder
  <1> QED BY <1>6, <1>7, <1>8, <1>9, <1>11, <1>12 DEF IInv

LEMMA FinalizePreserves ==
    ASSUME IInv, Finalize
    PROVE  IInv'
  <1> DEFINE fs == FindingsOf(retained)
  <1>1. /\ state = "Accepting" /\ ~calling /\ state' = "Finalized" /\ error' = "None"
        /\ retained' = <<>> /\ multiline_open' = FALSE /\ multiline_detected' = FALSE
        /\ finding_count' = finding_count + Len(fs)
        /\ placeholder_count' = placeholder_count + Replaced(fs)
        /\ finalized_bytes' = finalized_bytes + Len(retained)
        /\ UNCHANGED <<total_input_bytes, calling, rest, emitted, unit_findings, source>>
    BY DEF Finalize, require_accepting, process_unit, discard_retained, frame
  <1>2. text' = text \o TextOf(retained) /\ findings' = findings \o fs
    BY DEF Finalize
  <1>3. /\ retained \in Seq(Lexeme) /\ text \in Seq(OutputUnit) /\ findings \in Seq(Finding)
        /\ finalized_bytes \in Nat /\ finding_count \in Nat /\ placeholder_count \in Nat
    BY DEF IInv, TypeOK
  <1>4. /\ Len(retained) \in Nat /\ Len(text) \in Nat /\ Len(source) \in Nat
    BY <1>3, LenProperties DEF IInv, TypeOK
  <1>5. rest = <<>> /\ emitted = <<>> /\ unit_findings = <<>> /\ Len(<<>>) = 0
    BY <1>1, EmptySeq DEF IInv, Idle
  <1>6. /\ finalized_bytes + Len(retained) = Len(source) /\ Len(text) = finalized_bytes
        /\ Len(source) <= max_input_bytes
    <2>1. /\ finalized_bytes + Len(retained) + Len(rest) = Len(source)
          /\ Len(text) + Len(emitted) = finalized_bytes /\ Len(source) <= max_input_bytes
      BY <1>1 DEF IInv, Accounting
    <2>2. Len(rest) = 0 /\ Len(emitted) = 0
      BY <1>5
    <2> QED BY <1>3, <1>4, <2>1, <2>2
  <1>7. /\ fs \in Seq(Finding) /\ Replaced(fs) \in Nat
        /\ TextOf(retained) \in Seq(OutputUnit) /\ Len(TextOf(retained)) = Len(retained)
        /\ InOrder((findings \o unit_findings) \o fs, finalized_bytes + Len(retained))
    <2>1. Len(retained) <= max_input_bytes
      BY <1>3, <1>4, <1>6, LimitFacts
    <2> QED BY <1>1, <1>3, <2>1, UnitProperties
  <1> HIDE DEF fs
  <1>8. /\ text' \in Seq(OutputUnit) /\ Len(text') = Len(text) + Len(retained)
        /\ findings' \in Seq(Finding) /\ Len(fs) \in Nat
    <2>1. text' \in Seq(OutputUnit) /\ Len(text') = Len(text) + Len(TextOf(retained))
      BY <1>2, <1>3, <1>7, ConcatProperties
    <2>2. findings' \in Seq(Finding)
      BY <1>2, <1>3, <1>7, ConcatProperties
    <2>3. Len(fs) \in Nat
      BY <1>7, LenProperties
    <2> QED BY <1>7, <2>1, <2>2, <2>3
  <1>9. Len(text') = Len(source)
    BY <1>3, <1>4, <1>6, <1>8
  <1>10. TypeOK'
    <2>1. finding_count' \in Nat /\ placeholder_count' \in Nat /\ finalized_bytes' \in Nat
      BY <1>1, <1>3, <1>4, <1>7, <1>8
    <2>2. retained' \in Seq(Lexeme)
      BY <1>1, EmptySeq
    <2> QED BY <1>1, <1>8, <2>1, <2>2 DEF IInv, TypeOK, SessionState
  <1>11. Idle' /\ Over' /\ Accounting' /\ PendingInOrder'
    BY <1>1, <1>5, <1>6, <1>9 DEF Idle, Over, Accounting, PendingInOrder
  <1>12. RetainedBounded'
    BY <1>1, <1>5, LimitFacts DEF RetainedBounded
  <1>13. ReportedInOrder'
    <2>1. findings \o unit_findings = findings
      BY <1>3, <1>5, ConcatEmptySeq
    <2>2. InOrder(findings', finalized_bytes + Len(retained))
      BY <1>2, <1>7, <2>1
    <2>3. Len(text') = finalized_bytes + Len(retained)
      BY <1>6, <1>9
    <2> QED BY <2>2, <2>3 DEF ReportedInOrder, InOrder
  <1> QED BY <1>10, <1>11, <1>12, <1>13 DEF IInv

LEMMA FinalizeFailsPreserves ==
    ASSUME IInv, FinalizeFails
    PROVE  IInv'
  <1>1. state = "Accepting" /\ ~calling
    BY DEF FinalizeFails, require_accepting
  <1>2. retained \in Seq(Lexeme) /\ Len(retained) <= max_input_bytes
    <2>1. /\ retained \in Seq(Lexeme) /\ finalized_bytes \in Nat
          /\ Len(retained) \in Nat /\ Len(source) \in Nat
      BY LenProperties DEF IInv, TypeOK
    <2>2. Len(rest) = 0
      BY <1>1, EmptySeq DEF IInv, Idle
    <2>3. finalized_bytes + Len(retained) + Len(rest) = Len(source) /\ Len(source) <= max_input_bytes
      BY <1>1 DEF IInv, Accounting
    <2>4. Len(retained) <= max_input_bytes
      BY <2>1, <2>2, <2>3, LimitFacts
    <2> QED BY <2>1, <2>4
  <1>3. process_unit_fails(retained) /\ UNCHANGED <<total_input_bytes, received, source>>
    BY DEF FinalizeFails
  <1> QED BY <1>1, <1>2, <1>3, UnitFailurePreserves

LEMMA AbortPreserves ==
    ASSUME IInv, Abort
    PROVE  IInv'
  <1> USE DEF Abort, require_accepting, discard_retained, counters, frame, received
  <1>1. TypeOK'
    <2>1. <<>> \in Seq(Lexeme)
      BY EmptySeq
    <2> QED BY <2>1 DEF IInv, TypeOK, SessionState
  <1>2. Idle' /\ Over' /\ Accounting' /\ PendingInOrder'
    BY DEF IInv, Idle, Over, Accounting, PendingInOrder
  <1>3. RetainedBounded'
    <2>1. Len(retained') = 0
      BY EmptySeq
    <2> QED BY <2>1, LimitFacts DEF RetainedBounded
  <1>4. ReportedInOrder'
    BY DEF IInv, ReportedInOrder, InOrder
  <1> QED BY <1>1, <1>2, <1>3, <1>4 DEF IInv

LEMMA RefusedCallPreserves ==
    ASSUME IInv, RefusedCall
    PROVE  IInv'
  <1> USE DEF RefusedCall, counters, buffer, frame, received
  <1>1. TypeOK'
    BY DEF IInv, TypeOK
  <1>2. Idle' /\ Over' /\ Accounting' /\ PendingInOrder'
    BY DEF IInv, Idle, Over, Accounting, PendingInOrder
  <1>3. RetainedBounded' /\ ReportedInOrder'
    BY DEF IInv, RetainedBounded, ReportedInOrder, InOrder
  <1> QED BY <1>1, <1>2, <1>3 DEF IInv

LEMMA StutterPreserves ==
    ASSUME IInv, UNCHANGED vars
    PROVE  IInv'
  <1> USE DEF vars, counters, buffer, frame, received
  <1>1. TypeOK' /\ Idle' /\ Over' /\ Accounting' /\ PendingInOrder'
    BY DEF IInv, TypeOK, Idle, Over, Accounting, PendingInOrder
  <1>2. RetainedBounded' /\ ReportedInOrder'
    BY DEF IInv, RetainedBounded, ReportedInOrder, InOrder
  <1> QED BY <1>1, <1>2 DEF IInv

LEMMA NextPreserves == IInv /\ [Next]_vars => IInv'
  <1> SUFFICES ASSUME IInv, [Next]_vars PROVE IInv'
    OBVIOUS
  <1>1. ASSUME NEW chunk \in Chunks, AppendRefused(chunk) PROVE IInv'
    BY <1>1, AppendRefusedPreserves
  <1>2. ASSUME NEW chunk \in Chunks, BeginAppend(chunk) PROVE IInv'
    BY <1>2, BeginAppendPreserves
  <1>3. ASSUME NEW n \in 1 .. Len(rest), AppendReachesLimit(n) PROVE IInv'
    BY <1>3, AppendReachesLimitPreserves
  <1>4. ASSUME NEW n \in 1 .. Len(rest), AppendRetains(n) PROVE IInv'
    BY <1>4, AppendRetainsPreserves
  <1>5. ASSUME NEW n \in 1 .. Len(rest), AppendClosesUnit(n) PROVE IInv'
    BY <1>5, AppendClosesUnitPreserves
  <1>6. ASSUME NEW n \in 1 .. Len(rest), AppendFailsUnit(n) PROVE IInv'
    BY <1>6, AppendFailsUnitPreserves
  <1>7. CASE ReturnAppend
    BY <1>7, ReturnAppendPreserves
  <1>8. CASE Finalize
    BY <1>8, FinalizePreserves
  <1>9. CASE FinalizeFails
    BY <1>9, FinalizeFailsPreserves
  <1>10. CASE Abort
    BY <1>10, AbortPreserves
  <1>11. CASE RefusedCall
    BY <1>11, RefusedCallPreserves
  <1>12. CASE UNCHANGED vars
    BY <1>12, StutterPreserves
  <1> QED BY <1>1, <1>2, <1>3, <1>4, <1>5, <1>6, <1>7, <1>8, <1>9, <1>10, <1>11, <1>12 DEF Next

---------------------------------------------------------------------------
(* The theorems. *)

LEMMA Invariance == Spec => []IInv
  <1>1. Init => IInv
    BY InitEstablishes
  <1>2. IInv /\ [Next]_vars => IInv'
    BY NextPreserves
  <1> QED BY <1>1, <1>2, PTL DEF Spec

\* Every field of the session, and all it hands back, has its type: the counters never go below
\* zero, and total_input_bytes counts exactly the text accepted (incremental.rs, append).
THEOREM TypeCorrect == Spec => []TypeOK
  <1>1. IInv => TypeOK
    BY DEF IInv
  <1> QED BY <1>1, Invariance, PTL

\* The retained plaintext stays within the limit of its construct and one terminator, and the
\* buffer limit is never the one that ends a session (append_retained).
THEOREM RetentionBound == Spec => []RetainedBounded
  <1>1. IInv => RetainedBounded
    BY DEF IInv
  <1> QED BY <1>1, Invariance, PTL

\* The findings returned over a session's calls are numbered 1, 2, 3, ..., disjoint, ordered, and
\* inside the text returned (process_unit, append, finalize).
THEOREM FindingsInOrder == Spec => []ReportedInOrder
  <1>1. IInv => ReportedInOrder
    BY DEF IInv
  <1> QED BY <1>1, Invariance, PTL

---------------------------------------------------------------------------
(* The session implements the contract on plaintext: every step moves text *)
(* between the places the contract counts, or leaves them alone.           *)

Held == Len(retained) + Len(rest) + Len(emitted)

\* A step that changes nothing the contract sees.
LEMMA Unseen ==
    ASSUME state' = state, total_input_bytes' = total_input_bytes,
           Len(text') = Len(text), Held' = Held
    PROVE  UNCHANGED Contract!contract
  BY DEF Contract!contract, Held

\* A failure drops all that is held.
LEMMA FailureDrops ==
    ASSUME state = "Accepting", NEW code, fail_with(code),
           UNCHANGED <<total_input_bytes, received, source>>
    PROVE  Contract!Drop
  <1>1. /\ retained' = <<>> /\ rest' = <<>> /\ emitted' = <<>> /\ state' = "Failed"
        /\ total_input_bytes' = total_input_bytes /\ text' = text
    BY DEF fail_with, discard_retained, leave_call, received
  <1>2. Len(retained') + Len(rest') + Len(emitted') = 0
    BY <1>1, EmptySeq
  <1> QED BY <1>1, <1>2 DEF Contract!Drop

LEMMA HeldType ==
    ASSUME IInv
    PROVE  /\ Len(retained) \in Nat /\ Len(rest) \in Nat /\ Len(emitted) \in Nat
           /\ Len(text) \in Nat /\ Len(source) \in Nat /\ total_input_bytes = Len(source)
           /\ finalized_bytes \in Nat
  BY LenProperties DEF IInv, TypeOK

LEMMA StepRefines ==
    ASSUME IInv, IInv', [Next]_vars
    PROVE  [Contract!ContractNext]_(Contract!contract)
  <1> USE HeldType
  <1>1. ASSUME NEW chunk \in Chunks, AppendRefused(chunk)
        PROVE  Contract!Drop
    BY <1>1, FailureDrops DEF AppendRefused, require_accepting
  <1>2. ASSUME NEW chunk \in Chunks, BeginAppend(chunk)
        PROVE  Contract!Take \/ UNCHANGED Contract!contract
    <2>1. /\ state = "Accepting" /\ ~calling /\ state' = state /\ rest' = chunk
          /\ total_input_bytes' = total_input_bytes + Len(chunk)
          /\ retained' = retained /\ emitted' = emitted /\ text' = text
      BY <1>2 DEF BeginAppend, require_accepting, buffer, received
    <2>2. Len(chunk) \in Nat /\ Len(rest) = 0
      BY <2>1, TextChunks, LenProperties, EmptySeq DEF IInv, Idle
    <2>3. Len(retained') + Len(rest') + Len(emitted') = Held + Len(chunk) /\ Held \in Nat
      BY <2>1, <2>2 DEF Held
    <2>4. CASE Len(chunk) = 0
      <3>1. Held' = Held /\ total_input_bytes' = total_input_bytes
        BY <2>1, <2>3, <2>4 DEF Held
      <3> QED BY <2>1, <3>1, Unseen
    <2>5. CASE Len(chunk) > 0
      BY <2>1, <2>2, <2>3, <2>5 DEF Contract!Take, Held
    <2> QED BY <2>2, <2>4, <2>5
  <1>3. ASSUME NEW n \in 1 .. Len(rest), AppendReachesLimit(n)
        PROVE  Contract!Drop
    BY <1>3, PieceProperties, FailureDrops DEF AppendReachesLimit
  <1>4. ASSUME NEW n \in 1 .. Len(rest), AppendRetains(n)
        PROVE  UNCHANGED Contract!contract
    <2>1. Len(retained') = Len(retained) + n /\ Len(rest') = Len(rest) - n
      BY <1>4, PieceProperties DEF AppendRetains
    <2>2. state' = state /\ total_input_bytes' = total_input_bytes /\ emitted' = emitted /\ text' = text
      BY <1>4 DEF AppendRetains, received
    <2>3. Held' = Held
      BY <2>1, <2>2 DEF Held
    <2> QED BY <2>2, <2>3, Unseen
  <1>5. ASSUME NEW n \in 1 .. Len(rest), AppendClosesUnit(n)
        PROVE  UNCHANGED Contract!contract
    <2>1. /\ state' = state /\ total_input_bytes' = total_input_bytes /\ text' = text
          /\ source' = source
      BY <1>5 DEF AppendClosesUnit, received
    <2>2. state = "Accepting"
      BY <1>5, PieceProperties DEF AppendClosesUnit
    <2>3. /\ finalized_bytes + Len(retained) + Len(rest) = Len(source)
          /\ Len(text) + Len(emitted) = finalized_bytes
      BY <2>2 DEF IInv, Accounting
    <2>4. /\ finalized_bytes' + Len(retained') + Len(rest') = Len(source')
          /\ Len(text') + Len(emitted') = finalized_bytes'
      BY <2>1, <2>2 DEF IInv, Accounting
    <2>5. /\ Len(retained') \in Nat /\ Len(rest') \in Nat /\ Len(emitted') \in Nat
          /\ finalized_bytes' \in Nat
      BY LenProperties DEF IInv, TypeOK
    <2>6. Len(source') = Len(source) /\ Len(text') = Len(text)
      BY <2>1
    <2>7. Len(retained') + Len(rest') + Len(emitted') = Len(retained) + Len(rest) + Len(emitted)
      <3>1. /\ Len(retained) \in Nat /\ Len(rest) \in Nat /\ Len(emitted) \in Nat
            /\ Len(text) \in Nat /\ Len(source) \in Nat /\ finalized_bytes \in Nat
        BY HeldType
      <3>2. Len(retained) + Len(rest) + Len(emitted) = Len(source) - Len(text)
        BY <2>3, <3>1
      <3>3. Len(retained') + Len(rest') + Len(emitted') = Len(source) - Len(text)
        BY <2>4, <2>5, <2>6, <3>1
      <3> QED BY <3>2, <3>3
    <2>8. Held' = Held
      BY <2>7 DEF Held
    <2> QED BY <2>1, <2>6, <2>8, Unseen
  <1>6. ASSUME NEW n \in 1 .. Len(rest), AppendFailsUnit(n)
        PROVE  Contract!Drop
    BY <1>6, PieceProperties, FailureDrops DEF AppendFailsUnit, process_unit_fails
  <1>7. ASSUME ReturnAppend
        PROVE  Contract!Settle \/ UNCHANGED Contract!contract
    <2>1. /\ state = "Accepting" /\ state' = state /\ total_input_bytes' = total_input_bytes
          /\ retained' = retained /\ rest' = <<>> /\ emitted' = <<>> /\ rest = <<>>
      BY <1>7 DEF ReturnAppend, leave_call, buffer, IInv, Over
    <2>2. Len(text') = Len(text) + Len(emitted)
      BY <1>7, ConcatProperties DEF ReturnAppend, IInv, TypeOK
    <2>3. Len(rest') = 0 /\ Len(emitted') = 0 /\ Len(rest) = 0 /\ Len(retained') = Len(retained)
      BY <2>1, EmptySeq
    <2>4. CASE Len(emitted) = 0
      <3>1. Held' = Held /\ Len(text') = Len(text)
        BY <2>2, <2>3, <2>4 DEF Held
      <3> QED BY <2>1, <3>1, Unseen
    <2>5. CASE Len(emitted) > 0
      BY <2>1, <2>2, <2>3, <2>5 DEF Contract!Settle
    <2> QED BY <2>4, <2>5
  <1>8. ASSUME Finalize
        PROVE  Contract!Conclude
    <2>1. /\ state = "Accepting" /\ state' = "Finalized" /\ source' = source
          /\ total_input_bytes' = total_input_bytes
          /\ retained' = <<>> /\ ~calling /\ rest' = rest /\ emitted' = emitted
      BY <1>8 DEF Finalize, require_accepting, process_unit, discard_retained, frame
    <2>2. Len(text') = Len(source')
      BY <2>1 DEF IInv, Accounting
    <2>3. Len(retained') = 0 /\ Len(rest') = 0 /\ Len(emitted') = 0
      BY <2>1, EmptySeq DEF IInv, Idle
    <2>4. Len(text') = total_input_bytes
      BY <2>1, <2>2
    <2>5. Len(retained') + Len(rest') + Len(emitted') = 0
      BY <2>3
    <2> QED BY <2>1, <2>4, <2>5 DEF Contract!Conclude
  <1>9. ASSUME FinalizeFails
        PROVE  Contract!Drop
    BY <1>9, FailureDrops DEF FinalizeFails, process_unit_fails, require_accepting
  <1>10. ASSUME Abort
         PROVE  Contract!Drop
    <2>1. /\ state = "Accepting" /\ ~calling /\ state' = "Aborted" /\ retained' = <<>>
          /\ rest' = rest /\ emitted' = emitted /\ text' = text
          /\ total_input_bytes' = total_input_bytes
      BY <1>10 DEF Abort, require_accepting, discard_retained, frame, received
    <2>2. Len(retained') = 0 /\ Len(rest') = 0 /\ Len(emitted') = 0
      BY <2>1, EmptySeq DEF IInv, Idle
    <2>3. Len(retained') + Len(rest') + Len(emitted') = 0
      BY <2>2
    <2> QED BY <2>1, <2>3 DEF Contract!Drop
  <1>11. ASSUME RefusedCall \/ UNCHANGED vars
         PROVE  UNCHANGED Contract!contract
    BY <1>11 DEF RefusedCall, vars, buffer, frame, received, Contract!contract
  <1> QED
    BY <1>1, <1>2, <1>3, <1>4, <1>5, <1>6, <1>7, <1>8, <1>9, <1>10, <1>11
       DEF Next, Contract!ContractNext

\* A session never loses text, never hands a byte back twice, holds nothing once it is over, and
\* ends well only with everything it took handed back (append, finalize, abort, fail_with).
THEOREM ContractImplemented == Spec => ImplementsContract
  <1>1. Init => Contract!ContractInit
    <2>1. Len(<<>>) = 0
      BY EmptySeq
    <2> QED BY <2>1 DEF Init, Contract!ContractInit
  <1>2. IInv /\ IInv' /\ [Next]_vars => [Contract!ContractNext]_(Contract!contract)
    BY StepRefines
  <1> QED BY <1>1, <1>2, Invariance, PTL DEF Spec, ImplementsContract, Contract!ContractSpec

---------------------------------------------------------------------------
(* Detections, moved to where their text begins. *)

LEMMA MovedProperties ==
    ASSUME NEW ds \in Seq(DetectedFinding), NEW n \in Nat
    PROVE  /\ Len(ds) \in Nat
           /\ Moved(ds, n) \in Seq(DetectedFinding) /\ Len(Moved(ds, n)) = Len(ds)
           /\ \A k \in 1 .. Len(ds) :
                /\ ds[k] \in DetectedFinding
                /\ Moved(ds, n)[k] = [ds[k] EXCEPT !.start = @ + n, !.end = @ + n]
  <1>1. Len(ds) \in Nat /\ \A k \in 1 .. Len(ds) : ds[k] \in DetectedFinding
    BY LenProperties, ElementOfSeq
  <1>2. ASSUME NEW d \in DetectedFinding
        PROVE  [d EXCEPT !.start = @ + n, !.end = @ + n] \in DetectedFinding
    <2>1. d.start \in Nat /\ d.end \in Nat
      BY DEF DetectedFinding
    <2>2. d.start + n \in Nat /\ d.end + n \in Nat
      BY <2>1
    <2> QED BY <2>2 DEF DetectedFinding
  <1>3. Moved(ds, n) \in [1 .. Len(ds) -> DetectedFinding]
    BY <1>1, <1>2 DEF Moved
  <1> QED BY <1>1, <1>3, SeqOfFunction DEF Moved

\* The fields of a detection that was moved.
LEMMA MovedFields ==
    ASSUME NEW d \in DetectedFinding, NEW n \in Nat
    PROVE  LET e == [d EXCEPT !.start = @ + n, !.end = @ + n]
           IN  /\ e \in DetectedFinding
               /\ e.type = d.type /\ e.specificity = d.specificity /\ e.confidence = d.confidence
               /\ e.start = d.start + n /\ e.end = d.end + n
               /\ d.start \in Nat /\ d.end \in Nat
               /\ default_action(e) = default_action(d)
  <1>1. d.start \in Nat /\ d.end \in Nat
    BY DEF DetectedFinding
  <1>2. d.start + n \in Nat /\ d.end + n \in Nat
    BY <1>1
  <1> QED BY <1>1, <1>2 DEF DetectedFinding, default_action

LEMMA MovedConcat ==
    ASSUME NEW a \in Seq(DetectedFinding), NEW b \in Seq(DetectedFinding), NEW n \in Nat
    PROVE  Moved(a \o b, n) = Moved(a, n) \o Moved(b, n)
  <1> DEFINE c == a \o b
             ma == Moved(a, n)
             mb == Moved(b, n)
             s == Moved(c, n)
             t == ma \o mb
             move(d) == [d EXCEPT !.start = @ + n, !.end = @ + n]
  <1>1. /\ c \in Seq(DetectedFinding) /\ Len(c) = Len(a) + Len(b)
        /\ \A i \in 1 .. Len(a) + Len(b) :
              c[i] = IF i <= Len(a) THEN a[i] ELSE b[i - Len(a)]
    BY ConcatProperties
  <1>2. /\ Len(a) \in Nat /\ Len(b) \in Nat
        /\ ma \in Seq(DetectedFinding) /\ Len(ma) = Len(a)
        /\ mb \in Seq(DetectedFinding) /\ Len(mb) = Len(b)
        /\ \A k \in 1 .. Len(a) : ma[k] = move(a[k])
        /\ \A k \in 1 .. Len(b) : mb[k] = move(b[k])
    BY MovedProperties
  <1> HIDE DEF c, ma, mb
  <1>3. /\ s \in Seq(DetectedFinding) /\ Len(s) = Len(a) + Len(b)
        /\ \A k \in 1 .. Len(a) + Len(b) : s[k] = move(c[k])
    <2>1. c \in Seq(DetectedFinding)
      BY <1>1
    <2>2. /\ s \in Seq(DetectedFinding) /\ Len(s) = Len(c)
          /\ \A k \in 1 .. Len(c) : s[k] = move(c[k])
      BY <2>1, MovedProperties
    <2> QED BY <1>1, <2>2
  <1>4. /\ t \in Seq(DetectedFinding) /\ Len(t) = Len(a) + Len(b)
        /\ \A i \in 1 .. Len(a) + Len(b) :
              t[i] = IF i <= Len(a) THEN ma[i] ELSE mb[i - Len(a)]
    <2>1. ma \in Seq(DetectedFinding) /\ mb \in Seq(DetectedFinding)
      BY <1>2
    <2>2. /\ t \in Seq(DetectedFinding) /\ Len(t) = Len(ma) + Len(mb)
          /\ \A i \in 1 .. Len(ma) + Len(mb) :
                t[i] = IF i <= Len(ma) THEN ma[i] ELSE mb[i - Len(ma)]
      BY <2>1, ConcatProperties
    <2> QED BY <1>2, <2>2
  <1> HIDE DEF s, t, move
  <1>5. ASSUME NEW i \in 1 .. Len(s)
        PROVE  s[i] = t[i]
    <2>1. i \in 1 .. Len(a) + Len(b)
      BY <1>3
    <2>2. CASE i <= Len(a)
      <3>1. i \in 1 .. Len(a)
        BY <1>2, <2>1, <2>2
      <3> QED BY <1>1, <1>2, <1>3, <1>4, <2>1, <2>2, <3>1
    <2>3. CASE ~(i <= Len(a))
      <3>1. i - Len(a) \in 1 .. Len(b)
        BY <1>2, <2>1, <2>3
      <3> QED BY <1>1, <1>2, <1>3, <1>4, <2>1, <2>3, <3>1
    <2> QED BY <2>2, <2>3
  <1>6. s = t
    BY <1>3, <1>4, <1>5, SeqEqual
  <1> QED BY <1>6 DEF s, t, c, ma, mb

LEMMA MovedTwice ==
    ASSUME NEW a \in Seq(DetectedFinding), NEW m \in Nat, NEW n \in Nat
    PROVE  Moved(Moved(a, m), n) = Moved(a, m + n)
  <1> DEFINE c == Moved(a, m)
             s == Moved(c, n)
             t == Moved(a, m + n)
  <1>1. m + n \in Nat
    OBVIOUS
  <1>2. /\ Len(a) \in Nat /\ c \in Seq(DetectedFinding) /\ Len(c) = Len(a)
        /\ \A k \in 1 .. Len(a) : /\ a[k] \in DetectedFinding
                                  /\ c[k] = [a[k] EXCEPT !.start = @ + m, !.end = @ + m]
    BY MovedProperties
  <1> HIDE DEF c
  <1>3. /\ s \in Seq(DetectedFinding) /\ Len(s) = Len(a)
        /\ \A k \in 1 .. Len(a) :
              s[k] = [c[k] EXCEPT !.start = @ + n, !.end = @ + n]
    <2>1. c \in Seq(DetectedFinding) /\ Len(c) = Len(a)
      BY <1>2
    <2>2. /\ s \in Seq(DetectedFinding) /\ Len(s) = Len(c)
          /\ \A k \in 1 .. Len(c) :
                s[k] = [c[k] EXCEPT !.start = @ + n, !.end = @ + n]
      BY <2>1, MovedProperties
    <2> QED BY <2>1, <2>2
  <1>4. /\ t \in Seq(DetectedFinding) /\ Len(t) = Len(a)
        /\ \A k \in 1 .. Len(a) : t[k] = [a[k] EXCEPT !.start = @ + (m + n), !.end = @ + (m + n)]
    BY <1>1, MovedProperties
  <1> HIDE DEF s, t
  <1>5. ASSUME NEW d \in DetectedFinding
        PROVE  LET e == [d EXCEPT !.start = @ + m, !.end = @ + m]
               IN  [e EXCEPT !.start = @ + n, !.end = @ + n]
                     = [d EXCEPT !.start = @ + (m + n), !.end = @ + (m + n)]
    <2>1. d.start \in Nat /\ d.end \in Nat
      BY DEF DetectedFinding
    <2>2. /\ (d.start + m) + n = d.start + (m + n)
          /\ (d.end + m) + n = d.end + (m + n)
      BY <2>1
    <2> QED BY <2>2 DEF DetectedFinding
  <1>6. \A k \in 1 .. Len(s) : s[k] = t[k]
    BY <1>2, <1>3, <1>4, <1>5
  <1>7. s = t
    BY <1>3, <1>4, <1>6, SeqEqual
  <1> QED BY <1>7 DEF s, t, c

LEMMA MovedByNothing ==
    ASSUME NEW a \in Seq(DetectedFinding)
    PROVE  Moved(a, 0) = a
  <1>1. /\ Len(a) \in Nat /\ Moved(a, 0) \in Seq(DetectedFinding) /\ Len(Moved(a, 0)) = Len(a)
        /\ \A k \in 1 .. Len(a) : /\ a[k] \in DetectedFinding
                                  /\ Moved(a, 0)[k] = [a[k] EXCEPT !.start = @ + 0, !.end = @ + 0]
    BY MovedProperties
  <1>2. ASSUME NEW d \in DetectedFinding
        PROVE  [d EXCEPT !.start = @ + 0, !.end = @ + 0] = d
    <2>1. d.start + 0 = d.start /\ d.end + 0 = d.end
      BY DEF DetectedFinding
    <2> QED BY <2>1 DEF DetectedFinding
  <1> QED BY <1>1, <1>2, SeqEqual

---------------------------------------------------------------------------
(* One scan of a text, or one of each of its parts. *)

LEMMA ScanFields ==
    ASSUME NEW ds \in Seq(DetectedFinding), NEW offset \in Nat, NEW counted \in Nat
    PROVE  LET fs == scan(ds, offset, counted)
           IN  /\ Len(ds) \in Nat /\ fs \in Seq(Finding) /\ Len(fs) = Len(ds)
               /\ \A k \in 1 .. Len(ds) :
                    /\ ds[k] \in DetectedFinding
                    /\ fs[k] = [id |-> counted + k, type |-> ds[k].type,
                                action |-> default_action(ds[k]),
                                start |-> offset + ds[k].start, end |-> offset + ds[k].end]
  <1> DEFINE fs == scan(ds, offset, counted)
             found(k) == [id |-> counted + k, type |-> ds[k].type,
                          action |-> default_action(ds[k]),
                          start |-> offset + ds[k].start, end |-> offset + ds[k].end]
  <1>1. Len(ds) \in Nat /\ \A k \in 1 .. Len(ds) : ds[k] \in DetectedFinding
    BY LenProperties, ElementOfSeq
  <1>2. ASSUME NEW k \in 1 .. Len(ds)
        PROVE  found(k) \in Finding
    <2>1. counted + k \in Nat
      BY <1>1
    <2>2. ds[k].type \in FindingType /\ ds[k].start \in Nat /\ ds[k].end \in Nat
      <3>1. ds[k] \in DetectedFinding
        BY <1>1
      <3> QED BY <3>1, Zenon DEF DetectedFinding
    <2>3. offset + ds[k].start \in Nat /\ offset + ds[k].end \in Nat
      BY <2>2
    <2>4. default_action(ds[k]) \in {"Block", "Redact", "Warn"}
      BY DEF default_action
    <2> QED BY <2>1, <2>2, <2>3, <2>4, Zenon DEF Finding
  <1>3. fs = [k \in 1 .. Len(ds) |-> found(k)]
    BY DEF scan
  <1> HIDE DEF found
  <1>4. [k \in 1 .. Len(ds) |-> found(k)] \in [1 .. Len(ds) -> Finding]
    BY <1>2
  <1>5. fs \in [1 .. Len(ds) -> Finding] /\ \A k \in 1 .. Len(ds) : fs[k] = found(k)
    BY <1>3, <1>4
  <1> HIDE DEF fs
  <1>6. fs \in Seq(Finding) /\ Len(fs) = Len(ds)
    BY <1>1, <1>5, SeqOfFunction
  <1> QED BY <1>1, <1>5, <1>6 DEF fs, found

\* The findings of a text are those of its beginning, then those of what follows it, numbered on.
LEMMA ScanSplits ==
    ASSUME NEW a \in Seq(DetectedFinding), NEW b \in Seq(DetectedFinding), NEW n \in Nat
    PROVE  scan(a \o Moved(b, n), 0, 0) = scan(a, 0, 0) \o scan(b, n, Len(a))
  <1> DEFINE mb == Moved(b, n)
             c == a \o mb
             sa == scan(a, 0, 0)
             sb == scan(b, n, Len(a))
             s == scan(c, 0, 0)
             t == sa \o sb
  <1>0. Len(a) \in Nat /\ Len(b) \in Nat
    BY LenProperties
  <1>1. /\ mb \in Seq(DetectedFinding) /\ Len(mb) = Len(b)
        /\ \A k \in 1 .. Len(b) : /\ b[k] \in DetectedFinding
                                  /\ mb[k] = [b[k] EXCEPT !.start = @ + n, !.end = @ + n]
    BY MovedProperties
  <1>2. /\ sa \in Seq(Finding) /\ Len(sa) = Len(a)
        /\ \A k \in 1 .. Len(a) :
              /\ a[k] \in DetectedFinding
              /\ sa[k] = [id |-> 0 + k, type |-> a[k].type, action |-> default_action(a[k]),
                          start |-> 0 + a[k].start, end |-> 0 + a[k].end]
    BY ScanFields
  <1>3. /\ sb \in Seq(Finding) /\ Len(sb) = Len(b)
        /\ \A k \in 1 .. Len(b) :
              sb[k] = [id |-> Len(a) + k, type |-> b[k].type, action |-> default_action(b[k]),
                       start |-> n + b[k].start, end |-> n + b[k].end]
    BY <1>0, ScanFields
  <1> HIDE DEF mb, sa, sb
  <1>9. /\ mb \in Seq(DetectedFinding) /\ Len(mb) = Len(b)
        /\ sa \in Seq(Finding) /\ Len(sa) = Len(a)
        /\ sb \in Seq(Finding) /\ Len(sb) = Len(b)
    BY <1>1, <1>2, <1>3
  <1>4. /\ c \in Seq(DetectedFinding) /\ Len(c) = Len(a) + Len(b)
        /\ \A i \in 1 .. Len(a) + Len(b) :
              c[i] = IF i <= Len(a) THEN a[i] ELSE mb[i - Len(a)]
    <2>1. /\ c \in Seq(DetectedFinding) /\ Len(c) = Len(a) + Len(mb)
          /\ \A i \in 1 .. Len(a) + Len(mb) :
                c[i] = IF i <= Len(a) THEN a[i] ELSE mb[i - Len(a)]
      BY <1>9, ConcatProperties
    <2> QED BY <1>9, <2>1
  <1>5. /\ t \in Seq(Finding) /\ Len(t) = Len(a) + Len(b)
        /\ \A i \in 1 .. Len(a) + Len(b) :
              t[i] = IF i <= Len(a) THEN sa[i] ELSE sb[i - Len(a)]
    <2>1. /\ t \in Seq(Finding) /\ Len(t) = Len(sa) + Len(sb)
          /\ \A i \in 1 .. Len(sa) + Len(sb) :
                t[i] = IF i <= Len(sa) THEN sa[i] ELSE sb[i - Len(sa)]
      BY <1>9, ConcatProperties
    <2> QED BY <1>9, <2>1
  <1> HIDE DEF c, t
  <1>6. /\ s \in Seq(Finding) /\ Len(s) = Len(a) + Len(b)
        /\ \A k \in 1 .. Len(a) + Len(b) :
              s[k] = [id |-> 0 + k, type |-> c[k].type, action |-> default_action(c[k]),
                      start |-> 0 + c[k].start, end |-> 0 + c[k].end]
    <2>1. c \in Seq(DetectedFinding)
      BY <1>4
    <2>2. /\ s \in Seq(Finding) /\ Len(s) = Len(c)
          /\ \A k \in 1 .. Len(c) :
                s[k] = [id |-> 0 + k, type |-> c[k].type, action |-> default_action(c[k]),
                        start |-> 0 + c[k].start, end |-> 0 + c[k].end]
      BY <2>1, ScanFields
    <2> QED BY <1>4, <2>2
  <1> HIDE DEF s
  <1>7. ASSUME NEW i \in 1 .. Len(a) + Len(b)
        PROVE  s[i] = t[i]
    <2>1. CASE i <= Len(a)
      <3>1. i \in 1 .. Len(a)
        BY <1>0, <2>1
      <3>2. c[i] = a[i] /\ t[i] = sa[i]
        BY <1>4, <1>5, <2>1
      <3>3. s[i] = [id |-> 0 + i, type |-> a[i].type, action |-> default_action(a[i]),
                    start |-> 0 + a[i].start, end |-> 0 + a[i].end]
        BY <1>6, <3>2
      <3> QED BY <1>2, <3>1, <3>2, <3>3
    <2>2. CASE ~(i <= Len(a))
      <3> DEFINE k == i - Len(a)
      <3>1. k \in 1 .. Len(b) /\ Len(a) + k = 0 + i
        BY <1>0, <2>2
      <3>2. c[i] = mb[k] /\ t[i] = sb[k]
        BY <1>4, <1>5, <2>2
      <3> HIDE DEF k
      <3>3. b[k] \in DetectedFinding
        BY <1>1, <3>1
      <3>4. mb[k] = [b[k] EXCEPT !.start = @ + n, !.end = @ + n]
        BY <1>1, <3>1
      <3>5. PICK d \in DetectedFinding : d = b[k]
        BY <3>3
      <3>6. /\ mb[k].type = b[k].type /\ mb[k].start = b[k].start + n
            /\ mb[k].end = b[k].end + n /\ default_action(mb[k]) = default_action(b[k])
            /\ b[k].start \in Nat /\ b[k].end \in Nat
        <4>1. mb[k] = [d EXCEPT !.start = @ + n, !.end = @ + n]
          BY <3>4, <3>5
        <4>2. PICK e : e = [d EXCEPT !.start = @ + n, !.end = @ + n]
          OBVIOUS
        <4>3. /\ e.type = d.type /\ e.start = d.start + n /\ e.end = d.end + n
              /\ d.start \in Nat /\ d.end \in Nat /\ default_action(e) = default_action(d)
          BY <4>2, MovedFields
        <4>4. mb[k] = e
          BY <4>1, <4>2
        <4> QED BY <3>5, <4>3, <4>4
      <3>7. s[i] = [id |-> 0 + i, type |-> mb[k].type, action |-> default_action(mb[k]),
                    start |-> 0 + mb[k].start, end |-> 0 + mb[k].end]
        BY <1>6, <3>2
      <3>8. sb[k] = [id |-> Len(a) + k, type |-> b[k].type, action |-> default_action(b[k]),
                     start |-> n + b[k].start, end |-> n + b[k].end]
        BY <1>3, <3>1
      <3>9. 0 + mb[k].start = n + b[k].start /\ 0 + mb[k].end = n + b[k].end
        BY <3>6
      <3> QED BY <3>1, <3>2, <3>6, <3>7, <3>8, <3>9
    <2> QED BY <2>1, <2>2
  <1>8. s = t
    BY <1>5, <1>6, <1>7, SeqEqual
  <1> QED BY <1>8 DEF s, t, c, mb, sa, sb

---------------------------------------------------------------------------
(* Placeholders are numbered on from one part of a text to the next. *)

LEMMA NoPlaceholders ==
    ASSUME NEW fs
    PROVE  PlaceholderIndex(fs, 0) = 0
  <1>1. {j \in 1 .. 0 : replaces_text(fs[j].action)} = {}
    OBVIOUS
  <1> QED BY <1>1, FS_EmptySet DEF PlaceholderIndex

LEMMA NextPlaceholder ==
    ASSUME NEW fs, NEW k \in Nat
    PROVE  PlaceholderIndex(fs, k + 1)
             = PlaceholderIndex(fs, k) + IF replaces_text(fs[k + 1].action) THEN 1 ELSE 0
  <1> DEFINE S == {j \in 1 .. k : replaces_text(fs[j].action)}
             T == {j \in 1 .. k + 1 : replaces_text(fs[j].action)}
  <1>1. IsFiniteSet(S)
    <2>1. S \in SUBSET (1 .. k) /\ IsFiniteSet(1 .. k)
      BY FS_Interval
    <2> QED BY <2>1, FS_Subset
  <1>2. k + 1 \notin S
    OBVIOUS
  <1>3. CASE replaces_text(fs[k + 1].action)
    <2>1. T = S \cup {k + 1}
      BY <1>3
    <2> HIDE DEF S, T
    <2>2. Cardinality(T) = Cardinality(S) + 1
      BY <1>1, <1>2, <2>1, FS_AddElement
    <2> QED BY <1>3, <2>2 DEF S, T, PlaceholderIndex
  <1>4. CASE ~replaces_text(fs[k + 1].action)
    <2>1. T = S
      BY <1>4
    <2>2. Cardinality(S) \in Nat
      BY <1>1, FS_CardinalityType
    <2> HIDE DEF S, T
    <2>3. Cardinality(T) = Cardinality(S) + 0
      BY <2>1, <2>2
    <2> QED BY <1>4, <2>3 DEF S, T, PlaceholderIndex
  <1> QED BY <1>3, <1>4

\* The n findings of fs after a have the actions of those of gs after b.
ActAlike(fs, a, gs, b, n) == \A k \in 1 .. n : fs[a + k].action = gs[b + k].action
CountAlike(fs, a, gs, b, n) ==
    \A k \in 0 .. n : PlaceholderIndex(fs, a + k) - PlaceholderIndex(fs, a)
                         = PlaceholderIndex(gs, b + k) - PlaceholderIndex(gs, b)

LEMMA PlaceholdersAlike ==
    ASSUME NEW fs, NEW gs, NEW a \in Nat, NEW b \in Nat, NEW n \in Nat,
           ActAlike(fs, a, gs, b, n)
    PROVE  CountAlike(fs, a, gs, b, n)
  <1> USE DEF ActAlike, CountAlike
  <1> DEFINE f(k) == PlaceholderIndex(fs, k)
             g(k) == PlaceholderIndex(gs, k)
             Wrong == {k \in 0 .. n : f(a + k) - f(a) # g(b + k) - g(b)}
  <1>1. \A k \in Nat : f(k) \in Nat /\ g(k) \in Nat
    BY PlaceholderIndexType
  <1>2. SUFFICES ASSUME Wrong # {} PROVE FALSE
    OBVIOUS
  <1>3. PICK k \in Wrong : \A m \in Wrong : k <= m
    <2>1. Wrong \subseteq Nat
      OBVIOUS
    <2> HIDE DEF Wrong
    <2> QED BY <1>2, <2>1, LeastElement
  <1>4. k # 0
    <2>1. a + 0 = a /\ b + 0 = b
      OBVIOUS
    <2>2. f(a) - f(a) = g(b) - g(b)
      BY <1>1
    <2> QED BY <2>1, <2>2
  <1>5. k - 1 \in 0 .. n /\ k \in 1 .. n /\ k - 1 \notin Wrong
    BY <1>3, <1>4
  <1>6. f(a + (k - 1)) - f(a) = g(b + (k - 1)) - g(b)
    BY <1>5
  <1>7. /\ f(a + (k - 1) + 1) = f(a + (k - 1)) + IF replaces_text(fs[a + (k - 1) + 1].action) THEN 1 ELSE 0
        /\ g(b + (k - 1) + 1) = g(b + (k - 1)) + IF replaces_text(gs[b + (k - 1) + 1].action) THEN 1 ELSE 0
    <2>1. a + (k - 1) \in Nat /\ b + (k - 1) \in Nat
      BY <1>5
    <2> QED BY <2>1, NextPlaceholder
  <1>8. a + (k - 1) + 1 = a + k /\ b + (k - 1) + 1 = b + k
    BY <1>5
  <1>9. replaces_text(fs[a + k].action) <=> replaces_text(gs[b + k].action)
    BY <1>5
  <1>10. /\ f(a + k) \in Nat /\ f(a) \in Nat /\ g(b + k) \in Nat /\ g(b) \in Nat
         /\ f(a + (k - 1)) \in Nat /\ g(b + (k - 1)) \in Nat
    BY <1>1, <1>5
  <1> HIDE DEF f, g
  <1>11. f(a + k) - f(a) = g(b + k) - g(b)
    <2>1. PICK s \in {0, 1} : f(a + k) = f(a + (k - 1)) + s /\ g(b + k) = g(b + (k - 1)) + s
      BY <1>7, <1>8, <1>9
    <2> QED BY <1>6, <1>10, <2>1
  <1> QED BY <1>3, <1>11

LEMMA PlaceholdersSplit ==
    ASSUME NEW fs \in Seq(Finding), NEW gs \in Seq(Finding)
    PROVE  /\ \A k \in 0 .. Len(fs) : PlaceholderIndex(fs \o gs, k) = PlaceholderIndex(fs, k)
           /\ \A k \in 0 .. Len(gs) : PlaceholderIndex(fs \o gs, Len(fs) + k)
                                        = Replaced(fs) + PlaceholderIndex(gs, k)
  <1> DEFINE hs == fs \o gs
  <1>1. /\ Len(fs) \in Nat /\ Len(gs) \in Nat
        /\ \A i \in 1 .. Len(fs) + Len(gs) :
              hs[i] = IF i <= Len(fs) THEN fs[i] ELSE gs[i - Len(fs)]
    BY ConcatProperties, LenProperties
  <1> HIDE DEF hs
  <1>2. \A k \in Nat : PlaceholderIndex(fs, k) \in Nat /\ PlaceholderIndex(gs, k) \in Nat
                         /\ PlaceholderIndex(hs, k) \in Nat
    BY PlaceholderIndexType
  <1>3. PlaceholderIndex(fs, 0) = 0 /\ PlaceholderIndex(gs, 0) = 0 /\ PlaceholderIndex(hs, 0) = 0
    BY NoPlaceholders
  <1>4. ASSUME NEW k \in 0 .. Len(fs)
        PROVE  PlaceholderIndex(hs, k) = PlaceholderIndex(fs, k)
    <2>1. \A j \in 1 .. Len(fs) : hs[0 + j] = fs[0 + j]
      BY <1>1
    <2>2. PlaceholderIndex(hs, 0 + k) - PlaceholderIndex(hs, 0)
            = PlaceholderIndex(fs, 0 + k) - PlaceholderIndex(fs, 0)
      <3>1. 0 \in Nat /\ Len(fs) \in Nat
        BY <1>1
      <3>2. ActAlike(hs, 0, fs, 0, Len(fs))
        BY <2>1 DEF ActAlike
      <3>3. CountAlike(hs, 0, fs, 0, Len(fs))
        BY <3>1, <3>2, PlaceholdersAlike
      <3> QED BY <3>3 DEF CountAlike
    <2>3. 0 + k = k /\ k \in Nat
      OBVIOUS
    <2> QED BY <1>2, <1>3, <2>2, <2>3
  <1>5. PlaceholderIndex(hs, Len(fs)) = Replaced(fs)
    BY <1>1, <1>4 DEF Replaced
  <1>6. ASSUME NEW k \in 0 .. Len(gs)
        PROVE  PlaceholderIndex(hs, Len(fs) + k) = Replaced(fs) + PlaceholderIndex(gs, k)
    <2>1. \A j \in 1 .. Len(gs) : hs[Len(fs) + j] = gs[0 + j]
      <3> TAKE j \in 1 .. Len(gs)
      <3>1. Len(fs) + j \in 1 .. Len(fs) + Len(gs) /\ ~(Len(fs) + j <= Len(fs))
            /\ Len(fs) + j - Len(fs) = 0 + j
        BY <1>1
      <3> QED BY <1>1, <3>1
    <2>2. PlaceholderIndex(hs, Len(fs) + k) - PlaceholderIndex(hs, Len(fs))
            = PlaceholderIndex(gs, 0 + k) - PlaceholderIndex(gs, 0)
      <3>1. 0 \in Nat /\ Len(fs) \in Nat /\ Len(gs) \in Nat
        BY <1>1
      <3>2. ActAlike(hs, Len(fs), gs, 0, Len(gs))
        BY <2>1 DEF ActAlike
      <3>3. CountAlike(hs, Len(fs), gs, 0, Len(gs))
        BY <3>1, <3>2, PlaceholdersAlike
      <3> QED BY <3>3 DEF CountAlike
    <2>3. 0 + k = k /\ k \in Nat /\ Len(fs) + k \in Nat
      BY <1>1
    <2>4. /\ PlaceholderIndex(hs, Len(fs) + k) \in Nat /\ PlaceholderIndex(hs, Len(fs)) \in Nat
          /\ PlaceholderIndex(gs, k) \in Nat
      BY <1>1, <1>2, <2>3
    <2> QED BY <1>3, <1>5, <2>2, <2>3, <2>4
  <1> QED BY <1>4, <1>6 DEF hs

---------------------------------------------------------------------------
(* Redaction of a text, or of each of its parts. *)

\* Each finding ends before any later one starts.
Apart(fs) == \A k, l \in 1 .. Len(fs) : k < l => fs[k].end <= fs[l].start

LEMMA FollowsApart ==
    ASSUME NEW fs \in Seq(Finding), NEW counted, NEW from \in Nat, NEW to \in Nat,
           Follows(fs, counted, from, to)
    PROVE  Apart(fs)
  <1>1. Len(fs) \in Nat /\ \A k \in 1 .. Len(fs) : fs[k].start \in Nat /\ fs[k].end \in Nat
    BY LenProperties, FindingFields
  <1>2. SUFFICES ASSUME NEW k \in 1 .. Len(fs)
                 PROVE  \A l \in 1 .. Len(fs) : k < l => fs[k].end <= fs[l].start
    BY DEF Apart
  <1> DEFINE Wrong == {l \in 1 .. Len(fs) : k < l /\ ~(fs[k].end <= fs[l].start)}
  <1>3. SUFFICES ASSUME Wrong # {} PROVE FALSE
    OBVIOUS
  <1>4. PICK l \in Wrong : \A m \in Wrong : l <= m
    <2>1. Wrong \subseteq Nat
      OBVIOUS
    <2> HIDE DEF Wrong
    <2> QED BY <1>3, <2>1, LeastElement
  <1>5. l \in 1 .. Len(fs) /\ k < l /\ l - 1 \in 1 .. Len(fs) /\ l > 1
    BY <1>1, <1>4
  <1>6. fs[l - 1].start < fs[l - 1].end /\ fs[l - 1].end <= fs[l].start
    BY <1>5 DEF Follows
  <1>7. CASE k = l - 1
    BY <1>4, <1>6, <1>7
  <1>8. CASE k # l - 1
    <2>1. k < l - 1 /\ l - 1 \notin Wrong
      BY <1>1, <1>4, <1>5, <1>8
    <2>2. fs[k].end <= fs[l - 1].start
      BY <1>5, <2>1
    <2>3. ~(fs[k].end <= fs[l].start)
      BY <1>4
    <2> QED BY <1>1, <1>5, <1>6, <2>2, <2>3
  <1> QED BY <1>7, <1>8

\* At most one finding replaces a byte.
LEMMA CoveredOnce ==
    ASSUME NEW fs \in Seq(Finding), Apart(fs), NEW offset \in Nat, NEW i \in Nat,
           NEW k \in Covering(fs, offset, i), NEW l \in Covering(fs, offset, i)
    PROVE  k = l
  <1>1. /\ k \in 1 .. Len(fs) /\ fs[k].start - offset < i /\ i <= fs[k].end - offset
        /\ l \in 1 .. Len(fs) /\ fs[l].start - offset < i /\ i <= fs[l].end - offset
    BY DEF Covering
  <1>2. /\ Len(fs) \in Nat /\ fs[k].start \in Nat /\ fs[k].end \in Nat
        /\ fs[l].start \in Nat /\ fs[l].end \in Nat
    BY <1>1, LenProperties, FindingFields
  <1>3. ~(k < l)
    BY <1>1, <1>2 DEF Apart
  <1>4. ~(l < k)
    BY <1>1, <1>2 DEF Apart
  <1> QED BY <1>1, <1>2, <1>3, <1>4

\* Findings fs of a text of m bytes, then findings gs of what follows: a byte of the text is
\* covered as by fs alone, a later byte as by gs alone.
LEMMA CoveringSplits ==
    ASSUME NEW fs \in Seq(Finding), NEW gs \in Seq(Finding), NEW m \in Nat, NEW to \in Nat,
           Follows(fs, 0, 0, m), Follows(gs, Len(fs), m, to)
    PROVE  /\ \A i \in 1 .. m : Covering(fs \o gs, 0, i) = Covering(fs, 0, i)
           /\ \A i \in Nat \ {0} :
                 Covering(fs \o gs, 0, m + i) = {Len(fs) + k : k \in Covering(gs, m, i)}
  <1> DEFINE hs == fs \o gs
             a == Len(fs)
             b == Len(gs)
  <1>1. a \in Nat /\ b \in Nat
    BY LenProperties
  <1>2. /\ Len(hs) = a + b
        /\ \A i \in 1 .. a + b : hs[i] = IF i <= a THEN fs[i] ELSE gs[i - a]
    BY ConcatProperties
  <1>3. \A k \in 1 .. a : /\ fs[k].start \in Nat /\ fs[k].end \in Nat
                          /\ fs[k].start < fs[k].end /\ fs[k].end <= m
    BY FindingFields DEF Follows
  <1>4. \A k \in 1 .. b : /\ gs[k].start \in Nat /\ gs[k].end \in Nat
                          /\ m <= gs[k].start /\ gs[k].start < gs[k].end
    BY FindingFields DEF Follows
  <1>5. \A i : Covering(fs, 0, i) = {k \in 1 .. a : /\ replaces_text(fs[k].action)
                                                    /\ fs[k].start - 0 < i
                                                    /\ i <= fs[k].end - 0}
    BY DEF Covering
  <1>6. \A i : Covering(gs, m, i) = {k \in 1 .. b : /\ replaces_text(gs[k].action)
                                                    /\ gs[k].start - m < i
                                                    /\ i <= gs[k].end - m}
    BY DEF Covering
  <1>7. \A i : Covering(hs, 0, i) = {k \in 1 .. a + b : /\ replaces_text(hs[k].action)
                                                        /\ hs[k].start - 0 < i
                                                        /\ i <= hs[k].end - 0}
    BY <1>2 DEF Covering
  <1>8. \A k \in 1 .. a : k \in 1 .. a + b /\ hs[k] = fs[k]
    BY <1>1, <1>2
  <1>9. \A k \in 1 .. b : a + k \in 1 .. a + b /\ hs[a + k] = gs[k]
    <2> TAKE k \in 1 .. b
    <2>1. a + k \in 1 .. a + b /\ ~(a + k <= a) /\ (a + k) - a = k
      BY <1>1
    <2> QED BY <1>2, <2>1
  <1>10. \A k \in 1 .. a + b : k \in 1 .. a \/ \E j \in 1 .. b : k = a + j
    <2> TAKE k \in 1 .. a + b
    <2>1. CASE k <= a
      BY <1>1, <2>1
    <2>2. CASE ~(k <= a)
      <3>1. k - a \in 1 .. b /\ k = a + (k - a)
        BY <1>1, <2>2
      <3> QED BY <3>1
    <2> QED BY <2>1, <2>2
  <1> HIDE DEF hs, a, b
  <1>11. ASSUME NEW i \in 1 .. m
         PROVE  Covering(hs, 0, i) = Covering(fs, 0, i)
    <2>1. ASSUME NEW k \in Covering(hs, 0, i) PROVE k \in Covering(fs, 0, i)
      <3>1. /\ k \in 1 .. a + b /\ replaces_text(hs[k].action)
            /\ hs[k].start - 0 < i /\ i <= hs[k].end - 0
        BY <1>7
      <3>2. ASSUME NEW j \in 1 .. b, k = a + j PROVE FALSE
        <4>1. hs[k].start = gs[j].start
          BY <1>9, <3>2
        <4> QED BY <1>4, <3>1, <4>1
      <3>3. k \in 1 .. a
        BY <1>10, <3>1, <3>2
      <3> QED BY <1>5, <1>8, <3>1, <3>3
    <2>2. ASSUME NEW k \in Covering(fs, 0, i) PROVE k \in Covering(hs, 0, i)
      <3>1. /\ k \in 1 .. a /\ replaces_text(fs[k].action)
            /\ fs[k].start - 0 < i /\ i <= fs[k].end - 0
        BY <1>5
      <3> QED BY <1>7, <1>8, <3>1
    <2> QED BY <2>1, <2>2
  <1>12. ASSUME NEW i \in Nat \ {0}
         PROVE  Covering(hs, 0, m + i) = {a + k : k \in Covering(gs, m, i)}
    <2>1. ASSUME NEW k \in Covering(hs, 0, m + i)
          PROVE  k \in {a + j : j \in Covering(gs, m, i)}
      <3>1. /\ k \in 1 .. a + b /\ replaces_text(hs[k].action)
            /\ hs[k].start - 0 < m + i /\ m + i <= hs[k].end - 0
        BY <1>7
      <3>2. k \notin 1 .. a
        <4> SUFFICES ASSUME k \in 1 .. a PROVE FALSE
          OBVIOUS
        <4>1. hs[k].end = fs[k].end
          BY <1>8
        <4> QED BY <1>3, <3>1, <4>1
      <3>3. PICK j \in 1 .. b : k = a + j
        BY <1>10, <3>1, <3>2
      <3>4. hs[k] = gs[j] /\ gs[j].start \in Nat /\ gs[j].end \in Nat
        BY <1>4, <1>9, <3>3
      <3>5. gs[j].start - m < i /\ i <= gs[j].end - m
        BY <3>1, <3>4
      <3>6. j \in Covering(gs, m, i)
        BY <1>6, <3>1, <3>4, <3>5
      <3> QED BY <3>3, <3>6
    <2>2. ASSUME NEW j \in Covering(gs, m, i)
          PROVE  a + j \in Covering(hs, 0, m + i)
      <3>1. /\ j \in 1 .. b /\ replaces_text(gs[j].action)
            /\ gs[j].start - m < i /\ i <= gs[j].end - m
        BY <1>6
      <3>2. /\ a + j \in 1 .. a + b /\ hs[a + j] = gs[j]
            /\ gs[j].start \in Nat /\ gs[j].end \in Nat
        BY <1>4, <1>9, <3>1
      <3>3. gs[j].start - 0 < m + i /\ m + i <= gs[j].end - 0
        BY <3>1, <3>2
      <3> QED BY <1>7, <3>1, <3>2, <3>3
    <2> QED BY <2>1, <2>2
  <1> QED BY <1>11, <1>12 DEF hs, a

LEMMA RedactSplits ==
    ASSUME NEW p \in Seq(Lexeme), NEW u \in Seq(Lexeme), NEW fs \in Seq(Finding),
           NEW gs \in Seq(Finding), NEW to \in Nat,
           Follows(fs, 0, 0, Len(p)), Follows(gs, Len(fs), Len(p), to)
    PROVE  redact(p \o u, fs \o gs, 0, 0) = redact(p, fs, 0, 0) \o redact(u, gs, Len(p), Replaced(fs))
  <1> DEFINE m == Len(p)
             n == Len(u)
             w == p \o u
             hs == fs \o gs
             r == Replaced(fs)
             s == redact(w, hs, 0, 0)
             s1 == redact(p, fs, 0, 0)
             s2 == redact(u, gs, m, r)
             t == s1 \o s2
  <1>1. m \in Nat /\ n \in Nat /\ Len(fs) \in Nat /\ Len(gs) \in Nat
    BY LenProperties
  <1>2. r \in Nat
    BY <1>1, PlaceholderIndexType DEF Replaced
  <1>3. /\ w \in Seq(Lexeme) /\ Len(w) = m + n
        /\ \A i \in 1 .. m + n : w[i] = IF i <= m THEN p[i] ELSE u[i - m]
    BY ConcatProperties
  <1>4. hs \in Seq(Finding) /\ Len(hs) = Len(fs) + Len(gs)
    BY ConcatProperties
  <1>5. /\ \A i \in 1 .. m : Covering(hs, 0, i) = Covering(fs, 0, i)
        /\ \A i \in Nat \ {0} :
              Covering(hs, 0, m + i) = {Len(fs) + k : k \in Covering(gs, m, i)}
    BY <1>1, CoveringSplits
  <1>6. /\ \A k \in 0 .. Len(fs) : PlaceholderIndex(hs, k) = PlaceholderIndex(fs, k)
        /\ \A k \in 0 .. Len(gs) :
              PlaceholderIndex(hs, Len(fs) + k) = r + PlaceholderIndex(gs, k)
    BY PlaceholdersSplit
  <1>7. Apart(gs)
    BY <1>1, FollowsApart
  <1>8. s1 \in Seq(OutputUnit) /\ Len(s1) = m
    BY RedactType
  <1>9. s2 \in Seq(OutputUnit) /\ Len(s2) = n
    BY <1>2, RedactType
  <1> HIDE DEF w, hs, r
  <1>10. s \in Seq(OutputUnit) /\ Len(s) = m + n
    <2>1. s \in Seq(OutputUnit) /\ Len(s) = Len(w)
      BY <1>3, <1>4, RedactType
    <2> QED BY <1>3, <2>1
  <1>11. \A i \in 1 .. m + n :
            s[i] = IF Covering(hs, 0, i) = {} THEN Plain(w[i])
                   ELSE Placeholder(0 + PlaceholderIndex(hs, CHOOSE k \in Covering(hs, 0, i) : TRUE))
    BY <1>3 DEF redact
  <1>12. \A i \in 1 .. m :
            s1[i] = IF Covering(fs, 0, i) = {} THEN Plain(p[i])
                    ELSE Placeholder(0 + PlaceholderIndex(fs, CHOOSE k \in Covering(fs, 0, i) : TRUE))
    BY DEF redact
  <1>13. \A i \in 1 .. n :
            s2[i] = IF Covering(gs, m, i) = {} THEN Plain(u[i])
                    ELSE Placeholder(r + PlaceholderIndex(gs, CHOOSE k \in Covering(gs, m, i) : TRUE))
    BY DEF redact
  <1> HIDE DEF s, s1, s2
  <1>14. /\ t \in Seq(OutputUnit) /\ Len(t) = m + n
         /\ \A i \in 1 .. m + n : t[i] = IF i <= m THEN s1[i] ELSE s2[i - m]
    <2>1. /\ t \in Seq(OutputUnit) /\ Len(t) = Len(s1) + Len(s2)
          /\ \A i \in 1 .. Len(s1) + Len(s2) : t[i] = IF i <= Len(s1) THEN s1[i] ELSE s2[i - Len(s1)]
      BY <1>8, <1>9, ConcatProperties
    <2> QED BY <1>8, <1>9, <2>1
  <1> HIDE DEF t
  <1>15. ASSUME NEW i \in 1 .. m + n
         PROVE  s[i] = t[i]
    <2>1. CASE i <= m
      <3>1. i \in 1 .. m
        BY <1>1, <2>1
      <3>2. w[i] = p[i] /\ t[i] = s1[i] /\ Covering(hs, 0, i) = Covering(fs, 0, i)
        BY <1>3, <1>5, <1>14, <2>1, <3>1
      <3>3. CASE Covering(fs, 0, i) = {}
        BY <1>11, <1>12, <3>1, <3>2, <3>3
      <3>4. CASE Covering(fs, 0, i) # {}
        <4> DEFINE k == CHOOSE k \in Covering(fs, 0, i) : TRUE
        <4>1. k \in Covering(fs, 0, i)
          BY <3>4
        <4>2. k \in 0 .. Len(fs)
          BY <1>1, <4>1 DEF Covering
        <4>3. s[i] = Placeholder(0 + PlaceholderIndex(hs, k))
          BY <1>11, <3>2, <3>4
        <4>4. s1[i] = Placeholder(0 + PlaceholderIndex(fs, k))
          BY <1>12, <3>1, <3>4
        <4> HIDE DEF k
        <4> QED BY <1>6, <3>2, <4>2, <4>3, <4>4
      <3> QED BY <3>3, <3>4
    <2>2. CASE ~(i <= m)
      <3> DEFINE j == i - m
      <3>1. j \in 1 .. n /\ j \in Nat \ {0} /\ m + j = i
        BY <1>1, <2>2
      <3>2. w[i] = u[j] /\ t[i] = s2[j]
        BY <1>3, <1>14, <2>2
      <3> HIDE DEF j
      <3>3. Covering(hs, 0, i) = {Len(fs) + k : k \in Covering(gs, m, j)}
        BY <1>5, <3>1
      <3>4. CASE Covering(gs, m, j) = {}
        <4>1. Covering(hs, 0, i) = {}
          BY <3>3, <3>4
        <4> QED BY <1>11, <1>13, <3>1, <3>2, <3>4, <4>1
      <3>5. CASE Covering(gs, m, j) # {}
        <4> DEFINE k == CHOOSE k \in Covering(gs, m, j) : TRUE
                   l == CHOOSE l \in Covering(hs, 0, i) : TRUE
        <4>1. k \in Covering(gs, m, j)
          BY <3>5
        <4>2. Covering(hs, 0, i) # {}
          BY <3>3, <3>5
        <4>3. l \in Covering(hs, 0, i)
          BY <4>2
        <4>4. s[i] = Placeholder(0 + PlaceholderIndex(hs, l))
          BY <1>11, <4>2
        <4>5. s2[j] = Placeholder(r + PlaceholderIndex(gs, k))
          BY <1>13, <3>1, <3>5
        <4> HIDE DEF k, l
        <4>6. PICK e \in Covering(gs, m, j) : l = Len(fs) + e
          BY <3>3, <4>3
        <4>7. e = k
          BY <1>1, <1>7, <3>1, <4>1, CoveredOnce
        <4>8. k \in 0 .. Len(gs)
          BY <1>1, <4>1 DEF Covering
        <4>9. PlaceholderIndex(hs, l) = r + PlaceholderIndex(gs, k)
          BY <1>6, <4>6, <4>7, <4>8
        <4>10. PlaceholderIndex(gs, k) \in Nat
          BY <4>8, PlaceholderIndexType
        <4>11. 0 + PlaceholderIndex(hs, l) = r + PlaceholderIndex(gs, k)
          BY <1>2, <4>9, <4>10
        <4> QED BY <3>2, <4>4, <4>5, <4>11
      <3> QED BY <3>4, <3>5
    <2> QED BY <2>1, <2>2
  <1>16. s = t
    BY <1>10, <1>14, <1>15, SeqEqual
  <1> QED BY <1>16 DEF s, t, s1, s2, w, hs, r

---------------------------------------------------------------------------
(* The delimiter parser over a text and over its parts. *)

Labels == {"A", "B"}
Span == [start : Nat, end : Nat, body_start : Nat, footer_start : Nat, malformed : BOOLEAN]
Parser == [stack : Seq(Labels), has_begin : BOOLEAN, malformed : BOOLEAN,
           outer_start : Nat, body_start : Nat, completed : Seq(Span)]

\* The parser after position i of u, when it was in s before.
Fed(s, u, i) ==
    IF u[i] \notin Begin \cup End THEN s ELSE process_delimiter(s, Delimiter(u, i))

\* f gives the parser after each position of u, started in s.
Feeds(f, s, u) == f = [i \in 0 .. Len(u) |-> IF i = 0 THEN s ELSE Fed(f[i - 1], u, i)]

LEMMA FeedsExists ==
    ASSUME NEW s, NEW u, Len(u) \in Nat
    PROVE  \E f : Feeds(f, s, u)
  <1> DEFINE Upto(f, n) == f = [i \in 0 .. n |-> IF i = 0 THEN s ELSE Fed(f[i - 1], u, i)]
             Without == {n \in 0 .. Len(u) : ~\E f : Upto(f, n)}
  <1>1. Upto([i \in 0 .. 0 |-> s], 0)
    OBVIOUS
  <1>2. ASSUME NEW n \in 1 .. Len(u), NEW f, Upto(f, n - 1)
        PROVE  \E g : Upto(g, n)
    <2> DEFINE g == [i \in 0 .. n |-> IF i < n THEN f[i] ELSE Fed(f[n - 1], u, n)]
    <2>1. ASSUME NEW i \in 0 .. n
          PROVE  g[i] = IF i = 0 THEN s ELSE Fed(g[i - 1], u, i)
      <3>1. CASE i < n
        <4>1. i \in 0 .. n - 1
          BY <3>1
        <4>2. f[i] = IF i = 0 THEN s ELSE Fed(f[i - 1], u, i)
          BY <1>2, <4>1
        <4>3. i # 0 => g[i - 1] = f[i - 1]
          BY <3>1
        <4>4. g[i] = f[i]
          BY <3>1
        <4> QED BY <4>2, <4>3, <4>4
      <3>2. CASE i = n
        <4>1. g[i - 1] = f[n - 1]
          BY <3>2
        <4>2. g[i] = Fed(f[n - 1], u, n)
          BY <3>2
        <4> QED BY <3>2, <4>1, <4>2
      <3> QED BY <3>1, <3>2
    <2>2. g = [i \in 0 .. n |-> g[i]]
      OBVIOUS
    <2> HIDE DEF g
    <2>3. g = [i \in 0 .. n |-> IF i = 0 THEN s ELSE Fed(g[i - 1], u, i)]
      BY <2>1, <2>2
    <2> QED BY <2>3
  <1> HIDE DEF Upto
  <1>3. SUFFICES ASSUME Without # {} PROVE FALSE
    <2>1. Without = {} => \E f : Upto(f, Len(u))
      OBVIOUS
    <2> QED BY <2>1 DEF Feeds, Upto
  <1>4. PICK n \in Without : \A m \in Without : n <= m
    <2>1. Without \subseteq Nat
      OBVIOUS
    <2> HIDE DEF Without
    <2> QED BY <1>3, <2>1, LeastElement
  <1>5. n \in 1 .. Len(u) /\ n - 1 \notin Without /\ n - 1 \in 0 .. Len(u)
    BY <1>1, <1>4
  <1>6. PICK f : Upto(f, n - 1)
    BY <1>5
  <1> QED BY <1>2, <1>4, <1>5, <1>6

LEMMA FeedsAt ==
    ASSUME NEW s, NEW u, Len(u) \in Nat, NEW f, Feeds(f, s, u)
    PROVE  f[0] = s /\ \A i \in 1 .. Len(u) : f[i] = Fed(f[i - 1], u, i)
  BY DEF Feeds

LEMMA FeedsUnique ==
    ASSUME NEW s, NEW u, Len(u) \in Nat, NEW f, NEW g, Feeds(f, s, u), Feeds(g, s, u)
    PROVE  f[Len(u)] = g[Len(u)]
  <1> DEFINE Differ == {k \in 0 .. Len(u) : g[k] # f[k]}
  <1>1. SUFFICES ASSUME Differ # {} PROVE FALSE
    OBVIOUS
  <1>2. PICK k \in Differ : \A m \in Differ : k <= m
    <2>1. Differ \subseteq Nat
      OBVIOUS
    <2> HIDE DEF Differ
    <2> QED BY <1>1, <2>1, LeastElement
  <1>3. f[0] = s /\ \A i \in 1 .. Len(u) : f[i] = Fed(f[i - 1], u, i)
    BY FeedsAt
  <1>4. g[0] = s /\ \A i \in 1 .. Len(u) : g[i] = Fed(g[i - 1], u, i)
    BY FeedsAt
  <1>5. k # 0 => f[k - 1] = g[k - 1]
    BY <1>2
  <1> QED BY <1>2, <1>3, <1>4, <1>5

LEMMA ScanDelimitersIs ==
    ASSUME NEW s, NEW u, Len(u) \in Nat, NEW f, Feeds(f, s, u)
    PROVE  scan_delimiters(s, u) = f[Len(u)]
  <1> DEFINE g == CHOOSE h : Feeds(h, s, u)
  <1>1. Feeds(g, s, u)
    OBVIOUS
  <1>2. scan_delimiters(s, u) = g[Len(u)]
    BY DEF scan_delimiters, Feeds, Fed
  <1> HIDE DEF g
  <1> QED BY <1>1, <1>2, FeedsUnique

Delims == [kind : {"Begin", "End"}, label : Labels, start : Nat, end : Nat]

\* What a delimiter does to each field of the parser.
StackAfter(labels, kind, label) ==
    IF kind = "Begin" THEN Append(labels, label)
    ELSE IF Len(labels) > 0 /\ labels[Len(labels)] = label
           THEN SubSeq(labels, 1, Len(labels) - 1)
    ELSE labels
Opens(labels, kind) == kind = "Begin" /\ Len(labels) = 0
Closes(labels, kind, label) == kind = "End" /\ Len(labels) = 1 /\ labels[1] = label
MalformedAfter(labels, kind, label, malformed) ==
    IF kind = "Begin" THEN malformed \/ Len(labels) > 0
    ELSE ~Closes(labels, kind, label)
           /\ (malformed \/ (Len(labels) > 0 /\ labels[Len(labels)] # label))
SpanOf(s, d) == [start |-> s.outer_start, end |-> d.end, body_start |-> s.body_start,
                 footer_start |-> d.start, malformed |-> s.malformed]

\* r is the parser s after the delimiter d.
Processed(r, s, d) ==
    /\ r \in Parser
    /\ r.stack = StackAfter(s.stack, d.kind, d.label)
    /\ r.has_begin = (s.has_begin \/ d.kind = "Begin")
    /\ r.malformed = MalformedAfter(s.stack, d.kind, d.label, s.malformed)
    /\ r.outer_start = IF Opens(s.stack, d.kind) THEN d.start ELSE s.outer_start
    /\ r.body_start = IF Opens(s.stack, d.kind) THEN d.end + 1 ELSE s.body_start
    /\ r.completed = IF Closes(s.stack, d.kind, d.label)
                       THEN Append(s.completed, SpanOf(s, d)) ELSE s.completed

LEMMA ProcessIs ==
    ASSUME NEW s \in Parser, NEW d \in Delims
    PROVE  Processed(process_delimiter(s, d), s, d)
  <1> SUFFICES ASSUME NEW r, r = process_delimiter(s, d) PROVE Processed(r, s, d)
    OBVIOUS
  <1> DEFINE depth == Len(s.stack)
  <1> USE DEF Processed
  <1>1. /\ s.stack \in Seq(Labels) /\ depth \in Nat /\ s.has_begin \in BOOLEAN
        /\ s.malformed \in BOOLEAN /\ s.outer_start \in Nat /\ s.body_start \in Nat
        /\ s.completed \in Seq(Span)
    BY LenProperties DEF Parser
  <1>2. d.kind \in {"Begin", "End"} /\ d.label \in Labels /\ d.start \in Nat /\ d.end \in Nat
    BY DEF Delims
  <1>3. <<>> \in Seq(Labels) /\ <<d.label>> \in Seq(Labels) /\ Append(s.stack, d.label) \in Seq(Labels)
    BY <1>1, <1>2
  <1>4. depth > 0 => SubSeq(s.stack, 1, depth - 1) \in Seq(Labels)
    <2>1. \A i \in 1 .. depth - 1 : s.stack[i] \in Labels
      BY <1>1, ElementOfSeq
    <2>2. 1 \in Int /\ depth - 1 \in Int
      BY <1>1
    <2> QED BY <2>1, <2>2, SubSeqProperties
  <1> DEFINE span == SpanOf(s, d)
             more == Append(s.completed, span)
             popped == SubSeq(s.stack, 1, depth - 1)
             pushed == Append(s.stack, d.label)
  <1>5. more \in Seq(Span)
    <2>1. span \in Span
      BY <1>1, <1>2 DEF Span, SpanOf
    <2> HIDE DEF span
    <2> QED BY <1>1, <2>1
  <1>6. CASE d.kind = "Begin" /\ depth = 0
    <2>1. r = [s EXCEPT !.stack = <<d.label>>, !.has_begin = TRUE,
                        !.outer_start = d.start, !.body_start = d.end + 1]
      BY <1>6 DEF process_delimiter
    <2>2. d.end + 1 \in Nat
      BY <1>2
    <2>3. /\ r \in Parser /\ r.stack = <<d.label>> /\ r.has_begin = TRUE
          /\ r.malformed = s.malformed /\ r.outer_start = d.start /\ r.body_start = d.end + 1
          /\ r.completed = s.completed
      BY <1>2, <1>3, <2>1, <2>2 DEF Parser
    <2>4. s.stack = <<>> /\ <<d.label>> = Append(<<>>, d.label)
      BY <1>1, <1>6, EmptySeq
    <2>5. /\ StackAfter(s.stack, d.kind, d.label) = <<d.label>>
          /\ Opens(s.stack, d.kind) /\ ~Closes(s.stack, d.kind, d.label)
      BY <1>6, <2>4 DEF StackAfter, Opens, Closes
    <2>6. MalformedAfter(s.stack, d.kind, d.label, s.malformed) = s.malformed
      BY <1>1, <1>6 DEF MalformedAfter
    <2> QED BY <1>6, <2>3, <2>5, <2>6
  <1>7. CASE d.kind = "Begin" /\ depth > 0
    <2>1. r = [s EXCEPT !.stack = pushed, !.has_begin = TRUE, !.malformed = TRUE]
      <3>1. r = [s EXCEPT !.stack = Append(@, d.label), !.has_begin = TRUE, !.malformed = TRUE]
        BY <1>7 DEF process_delimiter
      <3> QED BY <3>1
    <2>2. pushed \in Seq(Labels)
      BY <1>3
    <2> HIDE DEF pushed
    <2>3. /\ r \in Parser /\ r.stack = pushed /\ r.has_begin = TRUE
          /\ r.malformed = TRUE /\ r.outer_start = s.outer_start /\ r.body_start = s.body_start
          /\ r.completed = s.completed
      BY <2>1, <2>2 DEF Parser
    <2>4. /\ StackAfter(s.stack, d.kind, d.label) = pushed
          /\ ~Opens(s.stack, d.kind) /\ ~Closes(s.stack, d.kind, d.label)
      BY <1>7 DEF StackAfter, Opens, Closes, pushed
    <2>5. MalformedAfter(s.stack, d.kind, d.label, s.malformed) = TRUE
      BY <1>7 DEF MalformedAfter
    <2> QED BY <1>7, <2>3, <2>4, <2>5
  <1>8. CASE d.kind = "End" /\ depth > 0 /\ s.stack[depth] # d.label
    <2>1. r = [s EXCEPT !.malformed = TRUE]
      BY <1>8 DEF process_delimiter
    <2>2. /\ r \in Parser /\ r.stack = s.stack /\ r.has_begin = s.has_begin
          /\ r.malformed = TRUE /\ r.outer_start = s.outer_start /\ r.body_start = s.body_start
          /\ r.completed = s.completed
      BY <2>1 DEF Parser
    <2> QED BY <1>1, <1>8, <2>2 DEF StackAfter, Opens, Closes, MalformedAfter
  <1>9. CASE d.kind = "End" /\ depth > 1 /\ s.stack[depth] = d.label
    <2>1. r = [s EXCEPT !.stack = popped]
      <3>1. r = [s EXCEPT !.stack = SubSeq(@, 1, depth - 1)]
        BY <1>9 DEF process_delimiter
      <3> QED BY <3>1
    <2>2. popped \in Seq(Labels)
      BY <1>1, <1>4, <1>9
    <2> HIDE DEF popped
    <2>3. /\ r \in Parser /\ r.stack = popped /\ r.has_begin = s.has_begin
          /\ r.malformed = s.malformed /\ r.outer_start = s.outer_start
          /\ r.body_start = s.body_start /\ r.completed = s.completed
      BY <2>1, <2>2 DEF Parser
    <2>4. StackAfter(s.stack, d.kind, d.label) = popped
      BY <1>1, <1>9 DEF StackAfter, popped
    <2>5. ~Opens(s.stack, d.kind) /\ ~Closes(s.stack, d.kind, d.label)
      BY <1>1, <1>9 DEF Opens, Closes
    <2>6. MalformedAfter(s.stack, d.kind, d.label, s.malformed) = s.malformed
      BY <1>1, <1>9, <2>5 DEF MalformedAfter
    <2> QED BY <1>1, <1>9, <2>3, <2>4, <2>5, <2>6
  <1>10. CASE d.kind = "End" /\ depth = 1 /\ s.stack[depth] = d.label
    <2>1. r = [s EXCEPT !.stack = <<>>, !.malformed = FALSE, !.completed = more]
      <3>1. r = [s EXCEPT !.stack = <<>>, !.malformed = FALSE, !.completed = Append(@, span)]
        BY <1>10 DEF process_delimiter, SpanOf
      <3> HIDE DEF span
      <3> QED BY <3>1
    <2> HIDE DEF more
    <2>2. /\ r \in Parser /\ r.stack = <<>> /\ r.has_begin = s.has_begin
          /\ r.malformed = FALSE /\ r.outer_start = s.outer_start /\ r.body_start = s.body_start
          /\ r.completed = more
      BY <1>3, <1>5, <2>1 DEF Parser
    <2>3. StackAfter(s.stack, d.kind, d.label) = <<>>
      <3>1. SubSeq(s.stack, 1, depth - 1) = <<>>
        BY <1>10, SubSeqEmpty
      <3> QED BY <1>1, <1>10, <3>1 DEF StackAfter
    <2>4. Closes(s.stack, d.kind, d.label) /\ ~Opens(s.stack, d.kind)
      BY <1>10 DEF Closes, Opens
    <2>5. MalformedAfter(s.stack, d.kind, d.label, s.malformed) = FALSE
      BY <1>10, <2>4 DEF MalformedAfter
    <2> QED BY <1>1, <1>10, <2>2, <2>3, <2>4, <2>5 DEF more, span
  <1>11. CASE d.kind = "End" /\ depth = 0
    <2>1. r = s
      BY <1>11 DEF process_delimiter
    <2> QED BY <1>1, <1>11, <2>1 DEF StackAfter, Opens, Closes, MalformedAfter
  <1>12. \/ depth = 0 \/ depth = 1 \/ depth > 1
    <2> HIDE DEF depth
    <2> QED BY <1>1
  <1> HIDE DEF depth, Processed
  <1> QED BY <1>1, <1>2, <1>6, <1>7, <1>8, <1>9, <1>10, <1>11, <1>12

LEMMA DelimiterType ==
    ASSUME NEW u, NEW i \in Nat, u[i] \in Begin \cup End
    PROVE  /\ Delimiter(u, i) \in Delims
           /\ Delimiter(u, i).start = i /\ Delimiter(u, i).end = i
  <1>1. LabelOf[u[i]] \in Labels
    BY DEF LabelOf, Begin, End, Labels
  <1> QED BY <1>1 DEF Delimiter, Delims

\* One delimiter keeps the parser a parser.
LEMMA ParserType ==
    ASSUME NEW s \in Parser, NEW u, NEW i \in Nat
    PROVE  Fed(s, u, i) \in Parser
  BY DelimiterType, ProcessIs DEF Fed, Processed

LEMMA FeedsType ==
    ASSUME NEW s \in Parser, NEW u \in Seq(Lexeme), NEW f, Feeds(f, s, u)
    PROVE  \A i \in 0 .. Len(u) : f[i] \in Parser
  <1> DEFINE Wrong == {i \in 0 .. Len(u) : f[i] \notin Parser}
  <1>1. Len(u) \in Nat
    BY LenProperties
  <1>2. f[0] = s /\ \A i \in 1 .. Len(u) : f[i] = Fed(f[i - 1], u, i)
    BY <1>1, FeedsAt
  <1>3. SUFFICES ASSUME Wrong # {} PROVE FALSE
    OBVIOUS
  <1>4. PICK k \in Wrong : \A m \in Wrong : k <= m
    <2>1. Wrong \subseteq Nat
      OBVIOUS
    <2> HIDE DEF Wrong
    <2> QED BY <1>3, <2>1, LeastElement
  <1>5. k \in 1 .. Len(u) /\ f[k - 1] \in Parser
    BY <1>1, <1>2, <1>4
  <1>6. f[k] \in Parser
    BY <1>2, <1>5, ParserType
  <1> QED BY <1>4, <1>6

\* A parser over a longer text agrees with one over its beginning.
LEMMA FeedsPrefix ==
    ASSUME NEW s, NEW u \in Seq(Lexeme), NEW v \in Seq(Lexeme),
           NEW f, NEW g, Feeds(f, s, u), Feeds(g, s, u \o v)
    PROVE  \A i \in 0 .. Len(u) : g[i] = f[i]
  <1> DEFINE w == u \o v
             Wrong == {i \in 0 .. Len(u) : g[i] # f[i]}
  <1>1. /\ Len(u) \in Nat /\ Len(v) \in Nat
        /\ Len(w) = Len(u) + Len(v) /\ \A i \in 1 .. Len(u) : w[i] = u[i]
    BY ConcatProperties, LenProperties
  <1>2. f[0] = s /\ \A i \in 1 .. Len(u) : f[i] = Fed(f[i - 1], u, i)
    BY <1>1, FeedsAt
  <1>3. g[0] = s /\ \A i \in 1 .. Len(w) : g[i] = Fed(g[i - 1], w, i)
    <2> HIDE DEF w
    <2>1. Len(w) \in Nat /\ Feeds(g, s, w)
      BY <1>1 DEF w
    <2> QED BY <2>1, FeedsAt
  <1>4. \A x : \A i \in 1 .. Len(u) : Fed(x, w, i) = Fed(x, u, i)
    <2> HIDE DEF w
    <2> QED BY <1>1 DEF Fed, Delimiter
  <1> HIDE DEF w
  <1>5. SUFFICES ASSUME Wrong # {} PROVE FALSE
    OBVIOUS
  <1>6. PICK k \in Wrong : \A m \in Wrong : k <= m
    <2>1. Wrong \subseteq Nat
      OBVIOUS
    <2> HIDE DEF Wrong
    <2> QED BY <1>5, <2>1, LeastElement
  <1>7. k \in 1 .. Len(u) /\ k \in 1 .. Len(w) /\ g[k - 1] = f[k - 1]
    BY <1>1, <1>2, <1>3, <1>6
  <1> QED BY <1>2, <1>3, <1>4, <1>6, <1>7

\* The stack and the memory of a begin depend on nothing else a parser holds, nor on where a
\* delimiter is.
SameView(s, t) == s.stack = t.stack /\ s.has_begin = t.has_begin

LEMMA ViewStep ==
    ASSUME NEW s \in Parser, NEW t \in Parser, SameView(s, t),
           NEW u, NEW v, NEW i \in Nat, NEW j \in Nat, u[i] = v[j]
    PROVE  SameView(Fed(s, u, i), Fed(t, v, j))
  <1>1. CASE u[i] \notin Begin \cup End
    BY <1>1 DEF Fed
  <1>2. CASE u[i] \in Begin \cup End
    <2> DEFINE d == Delimiter(u, i)
               e == Delimiter(v, j)
    <2>1. d \in Delims /\ e \in Delims
      BY <1>2, DelimiterType
    <2>2. d.kind = e.kind /\ d.label = e.label
      BY DEF Delimiter
    <2> HIDE DEF d, e
    <2>3. /\ process_delimiter(s, d).stack = StackAfter(s.stack, d.kind, d.label)
          /\ process_delimiter(s, d).has_begin = (s.has_begin \/ d.kind = "Begin")
      BY <2>1, ProcessIs DEF Processed
    <2>4. /\ process_delimiter(t, e).stack = StackAfter(t.stack, e.kind, e.label)
          /\ process_delimiter(t, e).has_begin = (t.has_begin \/ e.kind = "Begin")
      BY <2>1, ProcessIs DEF Processed
    <2>5. SameView(process_delimiter(s, d), process_delimiter(t, e))
      BY <2>2, <2>3, <2>4 DEF SameView
    <2> QED BY <1>2, <2>5 DEF Fed, d, e
  <1> QED BY <1>1, <1>2

Resumed(t) == [ParserState EXCEPT !.stack = t.stack, !.has_begin = t.has_begin]
View(s) == [stack |-> s.stack, has_begin |-> s.has_begin]
Tracker == [stack : Seq(Labels), has_begin : BOOLEAN]

LEMMA ResumedType ==
    ASSUME NEW t \in Tracker
    PROVE  Resumed(t) \in Parser /\ SameView(Resumed(t), t)
  <1>1. <<>> \in Seq(Span) /\ 1 \in Nat
    OBVIOUS
  <1>2. t.stack \in Seq(Labels) /\ t.has_begin \in BOOLEAN
    BY DEF Tracker
  <1>3. PICK s \in Parser : s = ParserState
    <2>1. <<>> \in Seq(Labels)
      OBVIOUS
    <2> QED BY <1>1, <2>1 DEF Parser, ParserState
  <1> DEFINE r == [s EXCEPT !.stack = t.stack, !.has_begin = t.has_begin]
  <1>4. r \in Parser /\ r.stack = t.stack /\ r.has_begin = t.has_begin
    BY <1>2 DEF Parser
  <1>5. Resumed(t) = r
    BY <1>3 DEF Resumed
  <1> HIDE DEF r
  <1>6. Resumed(t) \in Parser /\ Resumed(t).stack = t.stack /\ Resumed(t).has_begin = t.has_begin
    BY <1>4, <1>5
  <1> QED BY <1>6 DEF SameView

LEMMA TrackerAppendIs ==
    ASSUME NEW t \in Tracker, NEW u \in Seq(Lexeme), NEW f, Feeds(f, Resumed(t), u)
    PROVE  tracker_append(t, u) = View(f[Len(u)]) /\ tracker_append(t, u) \in Tracker
  <1>1. Len(u) \in Nat /\ Len(u) \in 0 .. Len(u)
    BY LenProperties
  <1>2. scan_delimiters(Resumed(t), u) = f[Len(u)]
    BY <1>1, ScanDelimitersIs
  <1>3. tracker_append(t, u) = View(f[Len(u)])
    BY <1>2 DEF tracker_append, Resumed, View
  <1>4. f[Len(u)] \in Parser
    BY <1>1, ResumedType, FeedsType
  <1>5. View(f[Len(u)]) \in Tracker
    BY <1>4 DEF View, Parser, Tracker
  <1> QED BY <1>3, <1>5

\* Appending a text to the tracker is appending its parts.
LEMMA TrackerAppendSplits ==
    ASSUME NEW t \in Tracker, NEW u \in Seq(Lexeme), NEW v \in Seq(Lexeme)
    PROVE  /\ tracker_append(t, u) \in Tracker
           /\ tracker_append(tracker_append(t, u), v) = tracker_append(t, u \o v)
  <1> DEFINE w == u \o v
             m == Len(u)
             n == Len(v)
             s == Resumed(t)
  <1>1. m \in Nat /\ n \in Nat
    BY LenProperties
  <1>2. /\ w \in Seq(Lexeme) /\ Len(w) = m + n
        /\ \A i \in 1 .. m + n : w[i] = IF i <= m THEN u[i] ELSE v[i - m]
    BY ConcatProperties
  <1>3. s \in Parser /\ SameView(s, t)
    BY ResumedType
  <1> HIDE DEF s
  <1>4. PICK f : Feeds(f, s, u)
    BY <1>1, FeedsExists
  <1>5. PICK g : Feeds(g, s, w)
    <2> HIDE DEF w
    <2>1. Len(w) \in Nat
      BY <1>1, <1>2
    <2> QED BY <2>1, FeedsExists
  <1>6. \A i \in 0 .. m : g[i] = f[i]
    BY <1>4, <1>5, FeedsPrefix
  <1> DEFINE x == tracker_append(t, u)
  <1>7. x = View(f[m]) /\ x \in Tracker
    BY <1>4, TrackerAppendIs DEF s
  <1> HIDE DEF x
  <1>8. Resumed(x) \in Parser /\ SameView(Resumed(x), x)
    BY <1>7, ResumedType
  <1>9. PICK h : Feeds(h, Resumed(x), v)
    BY <1>1, FeedsExists
  <1>10. /\ h[0] = Resumed(x) /\ \A i \in 1 .. n : h[i] = Fed(h[i - 1], v, i)
         /\ \A i \in 0 .. n : h[i] \in Parser
    <2> DEFINE r == Resumed(x)
    <2>1. r \in Parser /\ Feeds(h, r, v)
      BY <1>8, <1>9
    <2> HIDE DEF r
    <2>2. h[0] = r /\ \A i \in 1 .. n : h[i] = Fed(h[i - 1], v, i)
      BY <1>1, <2>1, FeedsAt
    <2>3. \A i \in 0 .. n : h[i] \in Parser
      BY <2>1, FeedsType
    <2> QED BY <2>2, <2>3 DEF r
  <1> HIDE DEF w
  <1>11. /\ \A i \in 1 .. m + n : g[i] = Fed(g[i - 1], w, i)
         /\ \A i \in 0 .. m + n : g[i] \in Parser
    <2>1. Len(w) \in Nat
      BY <1>1, <1>2
    <2>2. \A i \in 1 .. Len(w) : g[i] = Fed(g[i - 1], w, i)
      BY <1>5, <2>1, FeedsAt
    <2>3. \A i \in 0 .. Len(w) : g[i] \in Parser
      BY <1>2, <1>3, <1>5, FeedsType
    <2> QED BY <1>2, <2>2, <2>3
  <1> DEFINE Wrong == {i \in 0 .. n : ~SameView(g[m + i], h[i])}
  <1>12. Wrong = {}
    <2>1. SUFFICES ASSUME Wrong # {} PROVE FALSE
      OBVIOUS
    <2>2. PICK k \in Wrong : \A i \in Wrong : k <= i
      <3>1. Wrong \subseteq Nat
        OBVIOUS
      <3> HIDE DEF Wrong
      <3> QED BY <2>1, <3>1, LeastElement
    <2>3. SameView(g[m + 0], h[0])
      <3>1. g[m + 0] = f[m] /\ h[0] = Resumed(x)
        BY <1>1, <1>6, <1>10
      <3>2. SameView(x, f[m])
        BY <1>7 DEF SameView, View
      <3> QED BY <1>8, <3>1, <3>2 DEF SameView
    <2>4. k \in 1 .. n /\ k - 1 \in 0 .. n /\ k - 1 \notin Wrong
      BY <1>1, <2>2, <2>3
    <2>5. SameView(g[m + (k - 1)], h[k - 1])
      BY <2>4
    <2>6. /\ m + k \in 1 .. m + n /\ m + (k - 1) \in 0 .. m + n /\ (m + k) - 1 = m + (k - 1)
          /\ ~(m + k <= m) /\ (m + k) - m = k
      BY <1>1, <2>4
    <2>7. w[m + k] = v[k]
      BY <1>2, <2>6
    <2>8. g[m + (k - 1)] \in Parser /\ h[k - 1] \in Parser
      BY <1>10, <1>11, <2>4, <2>6
    <2>9. SameView(Fed(g[m + (k - 1)], w, m + k), Fed(h[k - 1], v, k))
      <3>1. m + k \in Nat /\ k \in Nat
        BY <1>1, <2>4
      <3>2. PICK i \in Nat : \E a, b : a = g[m + (k - 1)] /\ b = h[k - 1] /\ i = m + k
        BY <3>1
      <3>3. PICK a, b : a = g[m + (k - 1)] /\ b = h[k - 1] /\ i = m + k
        BY <3>2
      <3>4. SameView(a, b) /\ w[i] = v[k] /\ a \in Parser /\ b \in Parser
        BY <2>5, <2>7, <2>8, <3>3
      <3>5. SameView(Fed(a, w, i), Fed(b, v, k))
        BY <3>1, <3>4, ViewStep
      <3> QED BY <3>3, <3>5
    <2>10. SameView(g[m + k], h[k])
      BY <1>10, <1>11, <2>4, <2>6, <2>9
    <2> QED BY <2>2, <2>10
  <1>13. SameView(g[m + n], h[n])
    <2>1. n \in 0 .. n
      BY <1>1
    <2> QED BY <1>12, <2>1
  <1>14. tracker_append(x, v) = View(h[n])
    BY <1>7, <1>9, TrackerAppendIs
  <1>15. tracker_append(t, w) = View(g[m + n])
    BY <1>2, <1>5, TrackerAppendIs DEF s
  <1>16. View(g[m + n]) = View(h[n])
    BY <1>13 DEF View, SameView
  <1> QED BY <1>7, <1>14, <1>15, <1>16 DEF x, w

LEMMA TrackerAppendNothing ==
    /\ TrackerInit \in Tracker
    /\ tracker_append(TrackerInit, <<>>) = TrackerInit
  <1>1. TrackerInit \in Tracker
    BY DEF TrackerInit, Tracker
  <1>2. <<>> \in Seq(Lexeme) /\ Len(<<>>) = 0
    BY EmptySeq
  <1> DEFINE e == <<>>
  <1> HIDE DEF e
  <1>3. PICK f : Feeds(f, Resumed(TrackerInit), e)
    BY <1>2, FeedsExists DEF e
  <1>4. f[0] = Resumed(TrackerInit)
    BY <1>2, <1>3, FeedsAt DEF e
  <1>5. tracker_append(TrackerInit, e) = View(f[0])
    BY <1>1, <1>2, <1>3, TrackerAppendIs DEF e
  <1>6. View(f[0]) = TrackerInit
    BY <1>1, <1>4, ResumedType DEF View, SameView, TrackerInit
  <1> QED BY <1>1, <1>5, <1>6 DEF e

---------------------------------------------------------------------------
(* What detection settles. *)

Whole(u) == scan(Detect(u), 0, 0)
Masked(u) == redact(u, Whole(u), 0, 0)

\* Whatever follows p, detection finds in p what it finds in p alone, and in what follows what it
\* finds there alone.
Settles(p) ==
    \A v \in Seq(Lexeme) : Len(p) + Len(v) <= max_input_bytes =>
        Detect(p \o v) = Detect(p) \o Moved(Detect(v), Len(p))

LEMMA DetectType ==
    ASSUME NEW u \in Seq(Lexeme), Len(u) <= max_input_bytes
    PROVE  /\ Detect(u) \in Seq(DetectedFinding) /\ Len(Detect(u)) \in Nat
           /\ Whole(u) \in Seq(Finding) /\ Len(Whole(u)) = Len(Detect(u))
           /\ Follows(Whole(u), 0, 0, Len(u))
  <1>1. Len(u) \in 0 .. max_input_bytes /\ u \in [1 .. Len(u) -> Lexeme]
    BY LenProperties, LimitFacts
  <1>2. Detect(u) \in Seq(DetectedFinding)
    BY <1>1, DetectContract
  <1>3. Len(Detect(u)) \in Nat
    BY <1>2, LenProperties
  <1>4. Whole(u) \in Seq(Finding) /\ Len(Whole(u)) = Len(Detect(u))
    <2> DEFINE ds == Detect(u)
    <2>1. ds \in Seq(DetectedFinding) /\ 0 \in Nat
      BY <1>2
    <2> HIDE DEF ds
    <2>2. scan(ds, 0, 0) \in Seq(Finding) /\ Len(scan(ds, 0, 0)) = Len(ds)
      BY <2>1, ScanFields
    <2> QED BY <2>2 DEF ds, Whole
  <1>5. Follows(Whole(u), 0, 0, Len(u))
    <2>1. Follows(scan(Detect(u), 0, 0), 0, 0, 0 + Len(u))
      BY ScanProperties
    <2>2. 0 + Len(u) = Len(u)
      BY <1>1
    <2> QED BY <2>1, <2>2 DEF Whole
  <1> QED BY <1>2, <1>3, <1>4, <1>5

LEMMA ClosedUnitSettles ==
    ASSUME DetectSettles, NEW u \in Seq(Lexeme), ClosedUnit(u), NEW v \in Seq(Lexeme),
           Len(u) + Len(v) <= max_input_bytes
    PROVE  Detect(u \o v) = Detect(u) \o Moved(Detect(v), Len(u))
  <1>1. /\ Len(u) \in 0 .. max_input_bytes /\ u \in [1 .. Len(u) -> Lexeme]
        /\ Len(v) \in 0 .. (max_input_bytes - Len(u)) /\ v \in [1 .. Len(v) -> Lexeme]
    BY LenProperties, LimitFacts
  <1> QED BY <1>1 DEF DetectSettles, SettlesAt

LEMMA SettlesNothing == Settles(<<>>)
  <1> DEFINE e == <<>>
  <1>1. e \in Seq(Lexeme) /\ Len(e) = 0 /\ e \in [1 .. 0 -> Lexeme] /\ 0 \in 0 .. max_input_bytes
    BY EmptySeq, LimitFacts
  <1>2. Detect(e) \in Seq(DetectedFinding) /\ ordered_and_disjoint(Detect(e), 0, 0)
    BY <1>1, DetectContract
  <1>3. Len(Detect(e)) = 0
    <2>1. SUFFICES ASSUME Len(Detect(e)) # 0 PROVE FALSE
      OBVIOUS
    <2>2. Len(Detect(e)) \in Nat
      BY <1>2, LenProperties
    <2>3. 1 \in 1 .. Len(Detect(e))
      BY <2>1, <2>2
    <2>4. Detect(e)[1] \in DetectedFinding
      BY <1>2, <2>3, ElementOfSeq
    <2>5. Detect(e)[1].start \in Nat /\ Detect(e)[1].end \in Nat
      BY <2>4 DEF DetectedFinding
    <2>6. Detect(e)[1].start < Detect(e)[1].end /\ Detect(e)[1].end <= 0
      BY <1>2, <2>3 DEF ordered_and_disjoint
    <2> QED BY <2>5, <2>6
  <1>4. Detect(e) = <<>>
    BY <1>2, <1>3, EmptySeq
  <1> HIDE DEF e
  <1>5. ASSUME NEW v \in Seq(Lexeme), Len(e) + Len(v) <= max_input_bytes
        PROVE  Detect(e \o v) = Detect(e) \o Moved(Detect(v), Len(e))
    <2>1. e \o v = v
      BY ConcatEmptySeq DEF e
    <2>2. Detect(v) \in Seq(DetectedFinding)
      <3>1. Len(v) <= max_input_bytes
        BY <1>1, <1>5, LenProperties
      <3> QED BY <3>1, DetectType
    <2>3. Moved(Detect(v), 0) = Detect(v)
      <3> DEFINE ds == Detect(v)
      <3> HIDE DEF ds
      <3>1. Moved(ds, 0) = ds
        BY <2>2, MovedByNothing DEF ds
      <3> QED BY <3>1 DEF ds
    <2>4. <<>> \o Detect(v) = Detect(v)
      BY <2>2, ConcatEmptySeq
    <2> QED BY <1>1, <1>4, <2>1, <2>3, <2>4
  <1> QED BY <1>5 DEF Settles, e

LEMMA ConcatDetections ==
    ASSUME NEW a \in Seq(DetectedFinding), NEW b \in Seq(DetectedFinding),
           NEW c \in Seq(DetectedFinding)
    PROVE  (a \o b) \o c = a \o (b \o c)
  BY ConcatAssociative

LEMMA SettlesMore ==
    ASSUME DetectSettles, NEW p \in Seq(Lexeme), NEW u \in Seq(Lexeme),
           Len(p) + Len(u) <= max_input_bytes, Settles(p), ClosedUnit(u)
    PROVE  Settles(p \o u)
  <1> DEFINE w == p \o u
             m == Len(p)
             k == Len(u)
  <1>1. /\ m \in Nat /\ k \in Nat /\ w \in Seq(Lexeme) /\ Len(w) = m + k /\ m + k \in Nat
    BY ConcatProperties, LenProperties
  <1> SUFFICES ASSUME NEW v \in Seq(Lexeme), Len(w) + Len(v) <= max_input_bytes
               PROVE  Detect(w \o v) = Detect(w) \o Moved(Detect(v), Len(w))
    BY DEF Settles
  <1>2. Len(v) \in Nat /\ u \o v \in Seq(Lexeme) /\ Len(u \o v) = k + Len(v)
    BY ConcatProperties, LenProperties
  <1>3. w \o v = p \o (u \o v)
    BY ConcatAssociative
  <1>4. Detect(p \o (u \o v)) = Detect(p) \o Moved(Detect(u \o v), m)
    <2> DEFINE x == u \o v
    <2>1. x \in Seq(Lexeme) /\ m + Len(x) <= max_input_bytes
      BY <1>1, <1>2, LimitFacts
    <2> HIDE DEF x
    <2>2. Detect(p \o x) = Detect(p) \o Moved(Detect(x), m)
      BY <2>1 DEF Settles
    <2> QED BY <2>2 DEF x
  <1>5. Detect(u \o v) = Detect(u) \o Moved(Detect(v), k)
    <2>1. k + Len(v) <= max_input_bytes
      BY <1>1, <1>2, LimitFacts
    <2> QED BY <2>1, ClosedUnitSettles
  <1>6. Detect(w) = Detect(p) \o Moved(Detect(u), m)
    BY DEF Settles
  <1> DEFINE a == Detect(p)
             b == Detect(u)
             c == Detect(v)
             mb == Moved(b, m)
             kc == Moved(c, k)
             mkc == Moved(kc, m)
  <1>7. a \in Seq(DetectedFinding) /\ b \in Seq(DetectedFinding) /\ c \in Seq(DetectedFinding)
    <2>1. Len(p) <= max_input_bytes /\ Len(u) <= max_input_bytes /\ Len(v) <= max_input_bytes
      BY <1>1, <1>2, LimitFacts
    <2> QED BY <2>1, DetectType
  <1> HIDE DEF a, b, c
  <1>8. mb \in Seq(DetectedFinding)
    BY <1>1, <1>7, MovedProperties
  <1>9. kc \in Seq(DetectedFinding)
    BY <1>1, <1>7, MovedProperties
  <1>10. mkc = Moved(c, m + k)
    <2>1. mkc = Moved(c, k + m)
      BY <1>1, <1>7, MovedTwice
    <2>2. k + m = m + k
      BY <1>1
    <2> QED BY <2>1, <2>2
  <1> HIDE DEF kc
  <1>11. Moved(b \o kc, m) = mb \o mkc
    BY <1>1, <1>7, <1>9, MovedConcat
  <1>12. mkc \in Seq(DetectedFinding)
    BY <1>1, <1>9, MovedProperties
  <1> HIDE DEF mb, mkc
  <1>13. a \o (mb \o mkc) = (a \o mb) \o mkc
    BY <1>7, <1>8, <1>12, ConcatDetections
  <1>14. Detect(w \o v) = a \o Moved(b \o kc, m)
    BY <1>3, <1>4, <1>5 DEF a, b, c, kc
  <1>15. Detect(w) = a \o mb
    BY <1>6 DEF a, b, mb
  <1> QED BY <1>1, <1>10, <1>11, <1>13, <1>14, <1>15 DEF c

\* The findings and the sanitized text of a settled text and of what follows are those of the
\* settled text, followed by those the pipeline yields for the rest alone, numbered on.
LEMMA WholeSplits ==
    ASSUME NEW p \in Seq(Lexeme), NEW u \in Seq(Lexeme), Len(p) + Len(u) <= max_input_bytes,
           Settles(p)
    PROVE  LET fs == Whole(p)
               gs == scan(Detect(u), Len(p), Len(fs))
           IN  /\ gs \in Seq(Finding) /\ Follows(gs, Len(fs), Len(p), Len(p) + Len(u))
               /\ Whole(p \o u) = fs \o gs
               /\ Masked(p \o u) = Masked(p) \o redact(u, gs, Len(p), Replaced(fs))
               /\ Replaced(fs \o gs) = Replaced(fs) + Replaced(gs)
  <1> DEFINE fs == Whole(p)
             gs == scan(Detect(u), Len(p), Len(fs))
             a == Detect(p)
             b == Detect(u)
             m == Len(p)
  <1>1. m \in Nat /\ Len(u) \in Nat /\ m <= max_input_bytes /\ Len(u) <= max_input_bytes
        /\ m + Len(u) \in Nat
    BY LenProperties, LimitFacts
  <1>2. /\ a \in Seq(DetectedFinding) /\ Len(a) \in Nat
        /\ fs \in Seq(Finding) /\ Len(fs) = Len(a) /\ Follows(fs, 0, 0, m)
    BY <1>1, DetectType
  <1>3. b \in Seq(DetectedFinding)
    BY <1>1, DetectType
  <1>4. gs \in Seq(Finding) /\ Follows(gs, Len(fs), m, m + Len(u))
    <2> DEFINE c == Len(fs)
    <2>1. c \in Nat
      BY <1>2
    <2> HIDE DEF c
    <2>2. /\ scan(Detect(u), m, c) \in Seq(Finding)
          /\ Follows(scan(Detect(u), m, c), c, m, m + Len(u))
      BY <1>1, <2>1, ScanProperties
    <2> QED BY <2>2 DEF c
  <1>5. Whole(p \o u) = fs \o gs
    <2>1. Detect(p \o u) = a \o Moved(b, m)
      BY DEF Settles
    <2> DEFINE x == a
               y == b
    <2>2. scan(a \o Moved(b, m), 0, 0) = scan(a, 0, 0) \o scan(b, m, Len(a))
      <3> HIDE DEF a, b
      <3> QED BY <1>1, <1>2, <1>3, ScanSplits
    <2>3. scan(b, m, Len(a)) = gs
      BY <1>2
    <2> QED BY <2>1, <2>2, <2>3 DEF Whole
  <1> HIDE DEF fs, gs
  <1>6. Masked(p \o u) = Masked(p) \o redact(u, gs, m, Replaced(fs))
    <2>1. redact(p \o u, fs \o gs, 0, 0) = redact(p, fs, 0, 0) \o redact(u, gs, m, Replaced(fs))
      <3> DEFINE to == m + Len(u)
      <3>1. to \in Nat /\ Follows(gs, Len(fs), m, to)
        BY <1>1, <1>4
      <3> HIDE DEF to
      <3> QED BY <1>2, <1>4, <3>1, RedactSplits
    <2> QED BY <1>5, <2>1 DEF Masked, fs
  <1>7. Replaced(fs \o gs) = Replaced(fs) + Replaced(gs)
    <2>0. fs \in Seq(Finding) /\ gs \in Seq(Finding)
      BY <1>2, <1>4
    <2>4. Len(gs) \in Nat /\ Len(gs) \in 0 .. Len(gs)
      BY <2>0, LenProperties
    <2>1. Len(fs \o gs) = Len(fs) + Len(gs)
      BY <2>0, ConcatProperties
    <2>2. \A k \in 0 .. Len(gs) : PlaceholderIndex(fs \o gs, Len(fs) + k)
                                   = Replaced(fs) + PlaceholderIndex(gs, k)
      BY <1>2, <1>4, PlaceholdersSplit
    <2>3. PlaceholderIndex(fs \o gs, Len(fs) + Len(gs)) = Replaced(fs) + PlaceholderIndex(gs, Len(gs))
      BY <2>2, <2>4
    <2> QED BY <2>1, <2>3 DEF Replaced
  <1> QED BY <1>4, <1>5, <1>6, <1>7 DEF fs, gs

---------------------------------------------------------------------------
(* What a session has returned is what the pipeline yields for the text it settled. *)

\* The tracker has been fed what is retained.
TrackerFed == tracker = tracker_append(TrackerInit, retained)

\* The text taken in is p, settled and ready for the caller, then what is retained and the rest of
\* the chunk; the counters stand where p ends.
Kept(p) ==
    /\ p \in Seq(Lexeme) /\ source = p \o (retained \o rest) /\ Settles(p)
    /\ finalized_bytes = Len(p)
    /\ finding_count = Len(Whole(p)) /\ placeholder_count = Replaced(Whole(p))
    /\ text \o emitted = Masked(p) /\ findings \o unit_findings = Whole(p)

\* The caller holds what the pipeline yields for p, and q is not returned yet.
Returned(p, q) ==
    /\ p \in Seq(Lexeme) /\ q \in Seq(Lexeme) /\ source = p \o q
    /\ text = Masked(p) /\ findings = Whole(p)
    /\ state # "Finalized" => Settles(p)
    /\ state = "Finalized" => q = <<>>

SettledInv ==
    /\ IInv /\ TrackerFed
    /\ state = "Accepting" => \E p : Kept(p)
    /\ \E p, q : Returned(p, q)

LEMMA ConcatLexemes ==
    ASSUME NEW a \in Seq(Lexeme), NEW b \in Seq(Lexeme), NEW c \in Seq(Lexeme)
    PROVE  (a \o b) \o c = a \o (b \o c)
  BY ConcatAssociative

LEMMA ConcatOutput ==
    ASSUME NEW a \in Seq(OutputUnit), NEW b \in Seq(OutputUnit), NEW c \in Seq(OutputUnit)
    PROVE  (a \o b) \o c = a \o (b \o c)
  BY ConcatAssociative

\* A sequence is its first n elements and the rest.
LEMMA SplitAt ==
    ASSUME NEW s \in Seq(Lexeme), NEW n \in 0 .. Len(s)
    PROVE  /\ SubSeq(s, 1, n) \in Seq(Lexeme) /\ Len(SubSeq(s, 1, n)) = n
           /\ \A i \in 1 .. n : SubSeq(s, 1, n)[i] = s[i]
           /\ SubSeq(s, n + 1, Len(s)) \in Seq(Lexeme)
           /\ Len(SubSeq(s, n + 1, Len(s))) = Len(s) - n
           /\ \A i \in 1 .. Len(s) - n : SubSeq(s, n + 1, Len(s))[i] = s[n + i]
           /\ SubSeq(s, 1, n) \o SubSeq(s, n + 1, Len(s)) = s
  <1> DEFINE a == SubSeq(s, 1, n)
             b == SubSeq(s, n + 1, Len(s))
             t == a \o b
  <1>1. Len(s) \in Nat /\ \A i \in 1 .. Len(s) : s[i] \in Lexeme
    BY LenProperties, ElementOfSeq
  <1>2. a \in Seq(Lexeme) /\ Len(a) = n /\ \A i \in 1 .. n : a[i] = s[i]
    <2>1. 1 \in Int /\ n \in Int /\ \A i \in 1 .. n : s[i] \in Lexeme
      BY <1>1
    <2>2. /\ a \in Seq(Lexeme) /\ Len(a) = IF 1 <= n THEN n - 1 + 1 ELSE 0
          /\ \A i \in 1 .. n - 1 + 1 : a[i] = s[1 + i - 1]
      BY <2>1, SubSeqProperties
    <2>3. \A i \in 1 .. n : 1 + i - 1 = i /\ i \in 1 .. n - 1 + 1
      OBVIOUS
    <2> HIDE DEF a
    <2> QED BY <2>2, <2>3
  <1>3. b \in Seq(Lexeme) /\ Len(b) = Len(s) - n /\ \A i \in 1 .. Len(s) - n : b[i] = s[n + i]
    <2> DEFINE m == n + 1
               l == Len(s)
    <2>1. m \in Int /\ l \in Int /\ \A i \in m .. l : s[i] \in Lexeme
      BY <1>1
    <2> HIDE DEF m, l
    <2>2. /\ SubSeq(s, m, l) \in Seq(Lexeme)
          /\ Len(SubSeq(s, m, l)) = IF m <= l THEN l - m + 1 ELSE 0
          /\ \A i \in 1 .. l - m + 1 : SubSeq(s, m, l)[i] = s[m + i - 1]
      BY <2>1, SubSeqProperties
    <2>3. \A i \in 1 .. l - n : m + i - 1 = n + i /\ i \in 1 .. l - m + 1
      BY <1>1 DEF m, l
    <2>4. (IF m <= l THEN l - m + 1 ELSE 0) = l - n
      BY <1>1 DEF m, l
    <2>5. b = SubSeq(s, m, l)
      BY DEF m, l
    <2> HIDE DEF b
    <2> QED BY <2>2, <2>3, <2>4, <2>5 DEF l
  <1> HIDE DEF a, b
  <1>4. /\ t \in Seq(Lexeme) /\ Len(t) = n + (Len(s) - n)
        /\ \A i \in 1 .. n + (Len(s) - n) : t[i] = IF i <= n THEN a[i] ELSE b[i - n]
    <2>1. /\ t \in Seq(Lexeme) /\ Len(t) = Len(a) + Len(b)
          /\ \A i \in 1 .. Len(a) + Len(b) : t[i] = IF i <= Len(a) THEN a[i] ELSE b[i - Len(a)]
      BY <1>2, <1>3, ConcatProperties
    <2> QED BY <1>2, <1>3, <2>1
  <1> HIDE DEF t
  <1>5. ASSUME NEW i \in 1 .. Len(t) PROVE t[i] = s[i]
    <2>1. i \in 1 .. n + (Len(s) - n) /\ i \in 1 .. Len(s)
      BY <1>1, <1>4
    <2>2. CASE i <= n
      BY <1>2, <1>4, <2>1, <2>2
    <2>3. CASE ~(i <= n)
      <3>1. i - n \in 1 .. Len(s) - n /\ n + (i - n) = i
        BY <1>1, <2>1, <2>3
      <3> QED BY <1>3, <1>4, <2>1, <2>3, <3>1
    <2> QED BY <2>2, <2>3
  <1>6. t = s
    <2>1. Len(t) = Len(s)
      BY <1>1, <1>4
    <2> QED BY <1>4, <1>5, <2>1, SeqEqual
  <1> QED BY <1>2, <1>3, <1>6 DEF a, b, t

LEMMA NothingWhole ==
    /\ Whole(<<>>) = <<>> /\ Masked(<<>>) = <<>> /\ Replaced(Whole(<<>>)) = 0
    /\ Len(Whole(<<>>)) = 0
  <1> DEFINE e == <<>>
             ds == Detect(e)
  <1>1. e \in Seq(Lexeme) /\ Len(e) = 0 /\ Len(e) <= max_input_bytes
    BY EmptySeq, LimitFacts
  <1>2. Whole(e) \in Seq(Finding) /\ Len(Whole(e)) \in Nat /\ Follows(Whole(e), 0, 0, 0)
    BY <1>1, DetectType, LenProperties
  <1>3. Len(Whole(e)) = 0
    <2> DEFINE fs == Whole(e)
    <2>1. fs \in Seq(Finding) /\ Len(fs) \in Nat /\ Follows(fs, 0, 0, 0)
      BY <1>2
    <2> HIDE DEF fs
    <2>2. SUFFICES ASSUME Len(fs) # 0 PROVE FALSE
      BY DEF fs
    <2>3. 1 \in 1 .. Len(fs)
      BY <2>1, <2>2
    <2>4. /\ fs[1].start \in Nat /\ fs[1].end \in Nat
          /\ fs[1].start < fs[1].end /\ fs[1].end <= 0
      BY <2>1, <2>3, FindingFields DEF Follows
    <2> QED BY <2>4
  <1>4. Whole(e) = <<>>
    BY <1>2, <1>3, EmptySeq
  <1>5. Masked(e) \in Seq(OutputUnit) /\ Len(Masked(e)) = 0
    <2> DEFINE fs == Whole(e)
    <2>1. fs \in Seq(Finding) /\ 0 \in Nat
      BY <1>2
    <2> HIDE DEF fs, e
    <2>2. redact(e, fs, 0, 0) \in Seq(OutputUnit) /\ Len(redact(e, fs, 0, 0)) = Len(e)
      BY <1>1, <2>1, RedactType
    <2> QED BY <1>1, <2>2 DEF fs, Masked
  <1>6. Masked(e) = <<>>
    BY <1>5, EmptySeq
  <1>7. Replaced(Whole(e)) = 0
    BY <1>3, NoPlaceholders DEF Replaced
  <1> QED BY <1>3, <1>4, <1>6, <1>7

LEMMA InitSettled == Init => SettledInv
  <1> SUFFICES ASSUME Init PROVE SettledInv
    OBVIOUS
  <1>1. <<>> \in Seq(Lexeme) /\ <<>> \o <<>> = <<>> /\ Len(<<>>) = 0
    BY EmptySeq, ConcatEmptySeq
  <1>2. IInv
    BY InitEstablishes
  <1>3. TrackerFed
    BY TrackerAppendNothing DEF Init, TrackerFed
  <1>4. Kept(<<>>)
    BY <1>1, NothingWhole, SettlesNothing DEF Init, Kept
  <1>5. Returned(<<>>, <<>>)
    BY <1>1, NothingWhole, SettlesNothing DEF Init, Returned
  <1> QED BY <1>2, <1>3, <1>4, <1>5 DEF SettledInv

\* A failure and an abort leave what was returned as it was.
LEMMA OverSettled ==
    ASSUME SettledInv, state = "Accepting", state' \in {"Failed", "Aborted"}, discard_retained,
           UNCHANGED <<text, findings, source>>, IInv'
    PROVE  SettledInv'
  <1>1. TrackerFed'
    BY TrackerAppendNothing DEF discard_retained, TrackerFed
  <1>2. PICK p, q : Returned(p, q)
    BY DEF SettledInv
  <1>3. Returned(p, q)'
    <2>1. /\ p \in Seq(Lexeme) /\ q \in Seq(Lexeme) /\ source = p \o q
          /\ text = Masked(p) /\ findings = Whole(p) /\ Settles(p)
      BY <1>2 DEF Returned
    <2>2. source' = p \o q /\ text' = Masked(p) /\ findings' = Whole(p)
      BY <2>1
    <2> QED BY <2>1, <2>2 DEF Returned
  <1> QED BY <1>1, <1>3 DEF SettledInv

LEMMA BeginSettled ==
    ASSUME SettledInv, NEW chunk \in Chunks, BeginAppend(chunk)
    PROVE  SettledInv'
  <1>1. IInv'
    BY BeginAppendPreserves DEF SettledInv
  <1>2. /\ state = "Accepting" /\ ~calling /\ rest' = chunk /\ source' = source \o chunk
        /\ UNCHANGED <<state, retained, tracker, finalized_bytes, finding_count,
                       placeholder_count, emitted, unit_findings, text, findings>>
    BY DEF BeginAppend, require_accepting, counters, buffer, received
  <1>3. chunk \in Seq(Lexeme) /\ retained \in Seq(Lexeme) /\ rest = <<>>
    BY <1>2, TextChunks DEF SettledInv, IInv, TypeOK, Idle
  <1>4. TrackerFed'
    BY <1>2 DEF SettledInv, TrackerFed
  <1>5. PICK p : Kept(p)
    BY <1>2 DEF SettledInv
  <1>6. Kept(p)'
    <2>1. p \in Seq(Lexeme) /\ source = p \o retained
      <3>1. retained \o rest = retained
        BY <1>3, ConcatEmptySeq
      <3> QED BY <1>5, <3>1 DEF Kept
    <2>2. source' = p \o (retained \o chunk)
      <3>1. source' = (p \o retained) \o chunk
        BY <1>2, <2>1
      <3> QED BY <1>3, <2>1, <3>1, ConcatLexemes
    <2>3. source' = p \o (retained' \o rest')
      BY <1>2, <2>2
    <2> QED BY <1>2, <1>5, <2>3 DEF Kept
  <1>7. PICK r, q : Returned(r, q)
    BY DEF SettledInv
  <1>8. Returned(r, q \o chunk)'
    <2>1. /\ r \in Seq(Lexeme) /\ q \in Seq(Lexeme) /\ source = r \o q
          /\ text = Masked(r) /\ findings = Whole(r) /\ Settles(r)
      BY <1>2, <1>7 DEF Returned
    <2>2. q \o chunk \in Seq(Lexeme)
      BY <1>3, <2>1, ConcatProperties
    <2>3. source' = r \o (q \o chunk)
      <3>1. source' = (r \o q) \o chunk
        BY <1>2, <2>1
      <3> QED BY <1>3, <2>1, <3>1, ConcatLexemes
    <2>4. text' = Masked(r) /\ findings' = Whole(r) /\ state' # "Finalized"
      BY <1>2, <2>1
    <2> DEFINE more == q \o chunk
    <2> HIDE DEF more
    <2> QED BY <2>1, <2>2, <2>3, <2>4 DEF Returned
  <1> QED BY <1>1, <1>4, <1>6, <1>8 DEF SettledInv

\* A piece moves from the rest of the chunk to the unit.
LEMMA PieceMoves ==
    ASSUME SettledInv, NEW n \in 1 .. Len(rest), IsPiece(n)
    PROVE  LET u == Unit(n)
               left == SubSeq(rest, n + 1, Len(rest))
           IN  /\ state = "Accepting" /\ u \in Seq(Lexeme) /\ left \in Seq(Lexeme)
               /\ Len(u) = Len(retained) + n /\ Len(u) \in Nat /\ u[Len(u)] = rest[n]
               /\ Len(u) <= max_input_bytes
               /\ retained \o rest = u \o left
               /\ Tracked(n) = tracker_append(TrackerInit, u)
  <1> DEFINE u == Unit(n)
             left == SubSeq(rest, n + 1, Len(rest))
             piece == Piece(n)
  <1>1. IInv /\ TrackerFed /\ rest \in Seq(Lexeme) /\ retained \in Seq(Lexeme)
    BY DEF SettledInv, IInv, TypeOK
  <1>2. Len(rest) \in Nat /\ n \in 0 .. Len(rest) /\ Len(retained) \in Nat
    BY <1>1, LenProperties
  <1>3. state = "Accepting" /\ u \in Seq(Lexeme) /\ Len(u) = Len(retained) + n
          /\ Len(u) <= max_input_bytes
    BY <1>1, PieceProperties
  <1>4. piece \in Seq(Lexeme) /\ Len(piece) = n /\ \A i \in 1 .. n : piece[i] = rest[i]
    BY <1>1, <1>2, SplitAt DEF Piece
  <1>5. left \in Seq(Lexeme) /\ piece \o left = rest
    BY <1>1, <1>2, SplitAt DEF Piece
  <1>6. u = retained \o piece
    BY DEF Unit
  <1> HIDE DEF u, left, piece
  <1>7. retained \o rest = u \o left
    <2>1. (retained \o piece) \o left = retained \o (piece \o left)
      BY <1>1, <1>4, <1>5, ConcatLexemes
    <2> QED BY <1>5, <1>6, <2>1
  <1>8. u[Len(u)] = rest[n]
    <2>1. \A i \in 1 .. Len(retained) + Len(piece) :
              (retained \o piece)[i] = IF i <= Len(retained) THEN retained[i]
                                       ELSE piece[i - Len(retained)]
      BY <1>1, <1>4, ConcatProperties
    <2>2. /\ Len(retained) + n \in 1 .. Len(retained) + Len(piece)
          /\ ~(Len(retained) + n <= Len(retained)) /\ (Len(retained) + n) - Len(retained) = n
          /\ n \in 1 .. n
      BY <1>2, <1>4
    <2> QED BY <1>3, <1>4, <1>6, <2>1, <2>2
  <1>9. Tracked(n) = tracker_append(TrackerInit, u)
    <2>1. Tracked(n) = tracker_append(tracker_append(TrackerInit, retained), piece)
      BY <1>1 DEF Tracked, TrackerFed, piece
    <2>2. TrackerInit \in Tracker
      BY TrackerAppendNothing
    <2>3. tracker_append(tracker_append(TrackerInit, retained), piece)
            = tracker_append(TrackerInit, retained \o piece)
      BY <1>1, <1>4, <2>2, TrackerAppendSplits
    <2> QED BY <1>6, <2>1, <2>3
  <1>10. Len(u) \in Nat
    BY <1>2, <1>3
  <1> QED BY <1>3, <1>5, <1>7, <1>8, <1>9, <1>10 DEF u, left

LEMMA RetainsSettled ==
    ASSUME SettledInv, NEW n \in 1 .. Len(rest), AppendRetains(n)
    PROVE  SettledInv'
  <1> DEFINE left == SubSeq(rest, n + 1, Len(rest))
  <1>1. IInv'
    BY AppendRetainsPreserves DEF SettledInv
  <1>2. /\ IsPiece(n) /\ retained' = Unit(n) /\ tracker' = Tracked(n) /\ rest' = left
        /\ UNCHANGED <<state, finalized_bytes, finding_count, placeholder_count, emitted,
                       unit_findings, text, findings, source>>
    BY DEF AppendRetains, counters, received
  <1>3. /\ state = "Accepting" /\ retained \o rest = Unit(n) \o left
        /\ Tracked(n) = tracker_append(TrackerInit, Unit(n))
    BY <1>2, PieceMoves
  <1> HIDE DEF left
  <1>4. TrackerFed'
    BY <1>2, <1>3 DEF TrackerFed
  <1>5. PICK p : Kept(p)
    BY <1>3 DEF SettledInv
  <1>6. Kept(p)'
    <2>1. source' = p \o (retained' \o rest')
      BY <1>2, <1>3, <1>5 DEF Kept
    <2> QED BY <1>2, <1>5, <2>1 DEF Kept
  <1>7. PICK r, q : Returned(r, q)
    BY DEF SettledInv
  <1>8. Returned(r, q)'
    BY <1>2, <1>7 DEF Returned
  <1> QED BY <1>1, <1>4, <1>6, <1>8 DEF SettledInv

\* What processing the unit u after p yields.
LEMMA UnitJoins ==
    ASSUME SettledInv, NEW p, Kept(p), NEW u \in Seq(Lexeme), Len(p) + Len(u) <= max_input_bytes
    PROVE  /\ p \o u \in Seq(Lexeme) /\ Len(p \o u) = Len(p) + Len(u)
           /\ FindingsOf(u) \in Seq(Finding) /\ TextOf(u) \in Seq(OutputUnit)
           /\ Whole(p \o u) = Whole(p) \o FindingsOf(u)
           /\ Len(Whole(p \o u)) = finding_count + Len(FindingsOf(u))
           /\ Replaced(Whole(p \o u)) = placeholder_count + Replaced(FindingsOf(u))
           /\ Masked(p \o u) = Masked(p) \o TextOf(u)
  <1>1. /\ p \in Seq(Lexeme) /\ Settles(p) /\ finalized_bytes = Len(p)
        /\ finding_count = Len(Whole(p)) /\ placeholder_count = Replaced(Whole(p))
    BY DEF Kept
  <1>2. p \o u \in Seq(Lexeme) /\ Len(p \o u) = Len(p) + Len(u)
    BY <1>1, ConcatProperties
  <1> DEFINE gs == scan(Detect(u), Len(p), Len(Whole(p)))
  <1>3. /\ gs \in Seq(Finding)
        /\ Whole(p \o u) = Whole(p) \o gs
        /\ Masked(p \o u) = Masked(p) \o redact(u, gs, Len(p), Replaced(Whole(p)))
        /\ Replaced(Whole(p) \o gs) = Replaced(Whole(p)) + Replaced(gs)
    BY <1>1, WholeSplits
  <1>4. gs = FindingsOf(u)
    BY <1>1 DEF FindingsOf
  <1> HIDE DEF gs
  <1>5. redact(u, gs, Len(p), Replaced(Whole(p))) = TextOf(u)
    BY <1>1, <1>4 DEF TextOf
  <1>6. Whole(p) \in Seq(Finding)
    <2>1. Len(p) <= max_input_bytes
      BY <1>1, LenProperties, LimitFacts
    <2> QED BY <1>1, <2>1, DetectType
  <1>7. Len(Whole(p) \o gs) = Len(Whole(p)) + Len(gs)
    BY <1>3, <1>6, ConcatProperties
  <1>8. TextOf(u) \in Seq(OutputUnit)
    <2>1. placeholder_count \in Nat
      BY DEF SettledInv, IInv, TypeOK
    <2> QED BY <1>3, <1>4, <2>1, RedactType DEF TextOf
  <1> QED BY <1>1, <1>2, <1>3, <1>4, <1>5, <1>7, <1>8

LEMMA ClosesSettled ==
    ASSUME DetectSettles, SettledInv, NEW n \in 1 .. Len(rest), AppendClosesUnit(n)
    PROVE  SettledInv'
  <1> DEFINE u == Unit(n)
             left == SubSeq(rest, n + 1, Len(rest))
  <1>1. IInv'
    BY AppendClosesUnitPreserves DEF SettledInv
  <1>2. /\ IsPiece(n) /\ UnitCloses(n) /\ process_unit(u)
        /\ emitted' = emitted \o TextOf(u) /\ unit_findings' = unit_findings \o FindingsOf(u)
        /\ rest' = left
        /\ UNCHANGED <<state, text, findings, source>>
    BY DEF AppendClosesUnit, received
  <1>3. /\ finding_count' = finding_count + Len(FindingsOf(u))
        /\ placeholder_count' = placeholder_count + Replaced(FindingsOf(u))
        /\ finalized_bytes' = finalized_bytes + Len(u)
        /\ discard_retained /\ retained' = <<>> /\ tracker' = TrackerInit
    BY <1>2 DEF process_unit, discard_retained
  <1>4. /\ state = "Accepting" /\ u \in Seq(Lexeme) /\ left \in Seq(Lexeme)
        /\ Len(u) = Len(retained) + n /\ Len(u) \in Nat /\ u[Len(u)] = rest[n]
        /\ retained \o rest = u \o left
        /\ Tracked(n) = tracker_append(TrackerInit, u)
    BY <1>2, PieceMoves
  <1>5. ClosedUnit(u)
    <2>1. closes_unit(u, rest[n] \in Terminators, Tracked(n).stack)
      BY <1>2 DEF UnitCloses, ClosesLine
    <2>2. u # <<>>
      <3>1. Len(u) # 0
        <4>1. Len(retained) \in Nat
          BY LenProperties DEF SettledInv, IInv, TypeOK
        <4> QED BY <1>4, <4>1
      <3> QED BY <3>1, EmptySeq
    <2> HIDE DEF u
    <2> QED BY <1>4, <2>1, <2>2 DEF ClosedUnit
  <1>6. PICK p : Kept(p)
    BY <1>4 DEF SettledInv
  <1> HIDE DEF u, left
  <1>7. /\ p \in Seq(Lexeme) /\ Settles(p) /\ source = p \o (u \o left)
        /\ finalized_bytes = Len(p)
        /\ text \o emitted = Masked(p) /\ findings \o unit_findings = Whole(p)
    BY <1>4, <1>6 DEF Kept
  <1>8. Len(p) + Len(u) <= max_input_bytes
    <2>1. Len(source) <= max_input_bytes
      BY DEF SettledInv, IInv, Accounting
    <2>2. Len(source) = Len(p) + (Len(u) + Len(left))
      <3>1. u \o left \in Seq(Lexeme) /\ Len(u \o left) = Len(u) + Len(left)
        BY <1>4, ConcatProperties
      <3> DEFINE x == u \o left
      <3> HIDE DEF x
      <3>2. Len(p \o x) = Len(p) + Len(x)
        BY <1>7, <3>1, ConcatProperties DEF x
      <3> QED BY <1>7, <3>1, <3>2 DEF x
    <2>3. Len(p) \in Nat /\ Len(left) \in Nat
      BY <1>4, <1>7, LenProperties
    <2> QED BY <1>4, <2>1, <2>2, <2>3, LimitFacts
  <1>9. /\ p \o u \in Seq(Lexeme) /\ Len(p \o u) = Len(p) + Len(u)
        /\ FindingsOf(u) \in Seq(Finding) /\ TextOf(u) \in Seq(OutputUnit)
        /\ Whole(p \o u) = Whole(p) \o FindingsOf(u)
        /\ Len(Whole(p \o u)) = finding_count + Len(FindingsOf(u))
        /\ Replaced(Whole(p \o u)) = placeholder_count + Replaced(FindingsOf(u))
        /\ Masked(p \o u) = Masked(p) \o TextOf(u)
    BY <1>4, <1>6, <1>8, UnitJoins
  <1>10. Settles(p \o u)
    BY <1>4, <1>5, <1>7, <1>8, SettlesMore
  <1>11. source' = (p \o u) \o (retained' \o rest')
    <2>1. <<>> \o left = left
      BY <1>4, ConcatEmptySeq
    <2>2. (p \o u) \o left = p \o (u \o left)
      BY <1>4, <1>7, ConcatLexemes
    <2> QED BY <1>2, <1>3, <1>7, <2>1, <2>2
  <1>12. text' \o emitted' = Masked(p \o u)
    <2>1. text \in Seq(OutputUnit) /\ emitted \in Seq(OutputUnit)
      BY DEF SettledInv, IInv, TypeOK
    <2>2. (text \o emitted) \o TextOf(u) = text \o (emitted \o TextOf(u))
      <3> DEFINE x == TextOf(u)
      <3>1. x \in Seq(OutputUnit)
        BY <1>9
      <3> HIDE DEF x
      <3> QED BY <2>1, <3>1, ConcatOutput DEF x
    <2> QED BY <1>2, <1>7, <1>9, <2>2
  <1>13. findings' \o unit_findings' = Whole(p \o u)
    <2>1. findings \in Seq(Finding) /\ unit_findings \in Seq(Finding)
      BY DEF SettledInv, IInv, TypeOK
    <2>2. (findings \o unit_findings) \o FindingsOf(u) = findings \o (unit_findings \o FindingsOf(u))
      <3> DEFINE x == FindingsOf(u)
      <3>1. x \in Seq(Finding)
        BY <1>9
      <3> HIDE DEF x
      <3> QED BY <2>1, <3>1, ConcatFindings DEF x
    <2> QED BY <1>2, <1>7, <1>9, <2>2
  <1>14. \E pu : Kept(pu)'
    <2>0. PICK pu : pu = p \o u
      OBVIOUS
    <2>1. /\ pu \in Seq(Lexeme) /\ source' = pu \o (retained' \o rest') /\ Settles(pu)
          /\ finalized_bytes' = Len(pu)
          /\ finding_count' = Len(Whole(pu)) /\ placeholder_count' = Replaced(Whole(pu))
          /\ text' \o emitted' = Masked(pu) /\ findings' \o unit_findings' = Whole(pu)
      BY <1>3, <1>7, <1>9, <1>10, <1>11, <1>12, <1>13, <2>0
    <2>2. Kept(pu)'
      BY <2>1 DEF Kept
    <2> QED BY <2>2
  <1>15. TrackerFed'
    BY <1>3, TrackerAppendNothing DEF TrackerFed
  <1>16. PICK r, q : Returned(r, q)
    BY DEF SettledInv
  <1>17. Returned(r, q)'
    BY <1>2, <1>16 DEF Returned
  <1> QED BY <1>1, <1>14, <1>15, <1>17 DEF SettledInv

LEMMA ReturnSettled ==
    ASSUME SettledInv, ReturnAppend
    PROVE  SettledInv'
  <1>1. IInv'
    BY ReturnAppendPreserves DEF SettledInv
  <1>2. /\ state = "Accepting" /\ rest = <<>> /\ rest' = <<>>
        /\ text' = text \o emitted /\ findings' = findings \o unit_findings
        /\ emitted' = <<>> /\ unit_findings' = <<>>
        /\ UNCHANGED <<state, finalized_bytes, finding_count, placeholder_count, retained,
                       tracker, source>>
    BY DEF ReturnAppend, leave_call, counters, buffer, SettledInv, IInv, Over
  <1>3. TrackerFed'
    BY <1>2 DEF SettledInv, TrackerFed
  <1>4. PICK p : Kept(p)
    BY <1>2 DEF SettledInv
  <1>5. text' = Masked(p) /\ findings' = Whole(p)
    BY <1>2, <1>4 DEF Kept
  <1>6. text' \in Seq(OutputUnit) /\ findings' \in Seq(Finding)
    BY <1>1 DEF IInv, TypeOK
  <1>7. text' \o emitted' = text' /\ findings' \o unit_findings' = findings'
    <2>1. ASSUME NEW t \in Seq(OutputUnit), NEW fs \in Seq(Finding)
          PROVE  t \o <<>> = t /\ fs \o <<>> = fs
      BY ConcatEmptySeq
    <2> QED BY <1>2, <1>6, <2>1
  <1>8. Kept(p)'
    <2>1. source' = p \o (retained' \o rest')
      BY <1>2, <1>4 DEF Kept
    <2>2. text' \o emitted' = Masked(p) /\ findings' \o unit_findings' = Whole(p)
      BY <1>5, <1>7
    <2> QED BY <1>2, <1>4, <2>1, <2>2 DEF Kept
  <1>9. \E q : Returned(p, q)'
    <2>1. retained \in Seq(Lexeme) /\ retained \o rest = retained
      <3>1. retained \in Seq(Lexeme)
        BY DEF SettledInv, IInv, TypeOK
      <3> QED BY <1>2, <3>1, ConcatEmptySeq
    <2>2. PICK q : q = retained
      OBVIOUS
    <2>3. /\ p \in Seq(Lexeme) /\ q \in Seq(Lexeme) /\ source' = p \o q /\ Settles(p)
          /\ state' # "Finalized"
      BY <1>2, <1>4, <2>1, <2>2 DEF Kept
    <2>4. Returned(p, q)'
      BY <1>5, <2>3 DEF Returned
    <2> QED BY <2>4
  <1> QED BY <1>1, <1>3, <1>8, <1>9 DEF SettledInv

LEMMA FinalizeSettled ==
    ASSUME SettledInv, Finalize
    PROVE  SettledInv'
  <1> DEFINE u == retained
  <1>1. IInv'
    BY FinalizePreserves DEF SettledInv
  <1>2. /\ state = "Accepting" /\ state' = "Finalized" /\ ~calling
        /\ text' = text \o TextOf(u) /\ findings' = findings \o FindingsOf(u)
        /\ discard_retained /\ source' = source
    BY DEF Finalize, require_accepting, process_unit
  <1>3. /\ rest = <<>> /\ emitted = <<>> /\ unit_findings = <<>>
        /\ u \in Seq(Lexeme) /\ text \in Seq(OutputUnit) /\ findings \in Seq(Finding)
    BY <1>2 DEF SettledInv, IInv, Idle, TypeOK
  <1>4. TrackerFed'
    BY <1>2, TrackerAppendNothing DEF discard_retained, TrackerFed
  <1>5. PICK p : Kept(p)
    BY <1>2 DEF SettledInv
  <1>6. /\ u \o rest = u /\ text \o emitted = text /\ findings \o unit_findings = findings
    BY <1>3, ConcatEmptySeq
  <1>7. /\ p \in Seq(Lexeme) /\ source = p \o u /\ text = Masked(p) /\ findings = Whole(p)
    BY <1>5, <1>6 DEF Kept
  <1>8. Len(p) + Len(u) <= max_input_bytes
    <2>1. Len(source) <= max_input_bytes
      BY DEF SettledInv, IInv, Accounting
    <2>2. Len(p \o u) = Len(p) + Len(u)
      BY <1>3, <1>7, ConcatProperties
    <2> QED BY <1>7, <2>1, <2>2
  <1>9. Whole(p \o u) = Whole(p) \o FindingsOf(u) /\ Masked(p \o u) = Masked(p) \o TextOf(u)
          /\ p \o u \in Seq(Lexeme)
    BY <1>3, <1>5, <1>8, UnitJoins
  <1>10. \E w, q : Returned(w, q)'
    <2>1. PICK w : w = p \o u
      OBVIOUS
    <2>2. /\ w \in Seq(Lexeme) /\ source' = w
          /\ text' = Masked(w) /\ findings' = Whole(w) /\ state' = "Finalized"
      BY <1>2, <1>7, <1>9, <2>1
    <2>3. <<>> \in Seq(Lexeme) /\ w \o <<>> = w
      BY <2>2, EmptySeq, ConcatEmptySeq
    <2>4. Returned(w, <<>>)'
      BY <2>2, <2>3 DEF Returned
    <2> QED BY <2>4
  <1> QED BY <1>1, <1>2, <1>4, <1>10 DEF SettledInv

LEMMA NextSettled ==
    ASSUME DetectSettles, SettledInv, [Next]_vars
    PROVE  SettledInv'
  <1>1. IInv /\ IInv'
    BY NextPreserves DEF SettledInv
  <1>2. ASSUME NEW chunk \in Chunks, AppendRefused(chunk)
        PROVE  SettledInv'
    BY <1>1, <1>2, OverSettled DEF AppendRefused, require_accepting, fail_with, received
  <1>3. ASSUME NEW chunk \in Chunks, BeginAppend(chunk)
        PROVE  SettledInv'
    BY <1>3, BeginSettled
  <1>4. ASSUME NEW n \in 1 .. Len(rest), AppendReachesLimit(n)
        PROVE  SettledInv'
    BY <1>1, <1>4, PieceProperties, OverSettled DEF AppendReachesLimit, fail_with, received
  <1>5. ASSUME NEW n \in 1 .. Len(rest), AppendRetains(n)
        PROVE  SettledInv'
    BY <1>5, RetainsSettled
  <1>6. ASSUME NEW n \in 1 .. Len(rest), AppendClosesUnit(n)
        PROVE  SettledInv'
    BY <1>6, ClosesSettled
  <1>7. ASSUME NEW n \in 1 .. Len(rest), AppendFailsUnit(n)
        PROVE  SettledInv'
    BY <1>1, <1>7, PieceProperties, OverSettled
       DEF AppendFailsUnit, process_unit_fails, fail_with, received
  <1>8. ASSUME ReturnAppend PROVE SettledInv'
    BY <1>8, ReturnSettled
  <1>9. ASSUME Finalize PROVE SettledInv'
    BY <1>9, FinalizeSettled
  <1>10. ASSUME FinalizeFails PROVE SettledInv'
    BY <1>1, <1>10, OverSettled
       DEF FinalizeFails, require_accepting, process_unit_fails, fail_with, received
  <1>11. ASSUME Abort PROVE SettledInv'
    BY <1>1, <1>11, OverSettled DEF Abort, require_accepting, received
  <1>12. ASSUME RefusedCall \/ UNCHANGED vars PROVE SettledInv'
    <2>1. UNCHANGED <<state, retained, tracker, finalized_bytes, finding_count,
                      placeholder_count, rest, emitted, unit_findings, text, findings, source>>
      BY <1>12 DEF RefusedCall, vars, counters, buffer, frame, received
    <2>2. ASSUME NEW p, Kept(p) PROVE Kept(p)'
      BY <2>1, <2>2 DEF Kept
    <2>3. ASSUME NEW p, NEW q, Returned(p, q) PROVE Returned(p, q)'
      BY <2>1, <2>3 DEF Returned
    <2>4. TrackerFed'
      BY <2>1 DEF SettledInv, TrackerFed
    <2> QED BY <1>1, <2>1, <2>2, <2>3, <2>4 DEF SettledInv
  <1> QED
    BY <1>2, <1>3, <1>4, <1>5, <1>6, <1>7, <1>8, <1>9, <1>10, <1>11, <1>12 DEF Next

\* The placeholders of a text reproduce none of the values they replace.
LEMMA NothingInvalid ==
    ASSUME NothingReproduced, NEW u \in Seq(Lexeme), Len(u) <= max_input_bytes
    PROVE  ~invalid_placeholder(u, Whole(u), 0, 0)
  <1> DEFINE fs == Whole(u)
             replaced == {k \in 1 .. Len(fs) : replaces_text(fs[k].action)
                                                 /\ fs[k].end - fs[k].start = 1}
             forbidden == {u[fs[k].start - 0 + 1] : k \in replaced}
  <1>1. fs \in Seq(Finding) /\ Follows(fs, 0, 0, Len(u)) /\ Len(u) \in Nat
    BY DetectType, LenProperties
  <1> HIDE DEF fs
  <1>2. Len(fs) \in Nat
    BY <1>1, LenProperties
  <1>3. forbidden \subseteq Lexeme
    <2>1. ASSUME NEW k \in 1 .. Len(fs)
          PROVE  u[fs[k].start - 0 + 1] \in Lexeme
      <3>1. /\ fs[k].start \in Nat /\ fs[k].end \in Nat
            /\ fs[k].start < fs[k].end /\ fs[k].end <= Len(u)
        BY <1>1, FindingFields DEF Follows
      <3>2. fs[k].start - 0 + 1 \in 1 .. Len(u)
        BY <1>1, <3>1
      <3> QED BY <3>2, ElementOfSeq
    <2> QED BY <2>1
  <1>4. ASSUME NEW k \in 1 .. Len(fs)
        PROVE  Reproduces(0 + PlaceholderIndex(fs, k)) \cap forbidden = {}
    <2>1. PlaceholderIndex(fs, k) \in Nat
      BY <1>2, PlaceholderIndexType
    <2>2. 0 + PlaceholderIndex(fs, k) \in Nat
      BY <2>1
    <2>3. Reproduces(0 + PlaceholderIndex(fs, k)) \cap Lexeme = {}
      BY <2>2 DEF NothingReproduced
    <2> HIDE DEF forbidden
    <2> QED BY <1>3, <2>3
  <1> QED BY <1>4 DEF invalid_placeholder, fs

\* A session that finalizes has returned what one scan of its whole text returns, for every
\* partition of the text into appends (append_retained, finalize), when the hints keep what they
\* promise and no placeholder contains a value of the alphabet.
THEOREM PartitionInvariant ==
    ASSUME DetectSettles, NothingReproduced
    PROVE  Spec => []PartitionInvariance
  <1>1. Init => SettledInv
    BY InitSettled
  <1>2. SettledInv /\ [Next]_vars => SettledInv'
    BY NextSettled
  <1>3. SettledInv => PartitionInvariance
    <2> SUFFICES ASSUME SettledInv, state = "Finalized" PROVE PartitionInvariance
      BY DEF PartitionInvariance
    <2>1. PICK p, q : Returned(p, q)
      BY DEF SettledInv
    <2>2. p \in Seq(Lexeme) /\ q = <<>> /\ source = p \o q
            /\ text = Masked(p) /\ findings = Whole(p)
      BY <2>1 DEF Returned
    <2>3. source = p
      BY <2>2, ConcatEmptySeq
    <2>4. Len(source) <= max_input_bytes
      BY DEF SettledInv, IInv, Accounting
    <2>5. ~invalid_placeholder(source, Whole(source), 0, 0)
      BY <2>2, <2>3, <2>4, NothingInvalid
    <2> QED BY <2>2, <2>3, <2>5 DEF PartitionInvariance, scan_and_redact, Whole, Masked
  <1> QED BY <1>1, <1>2, <1>3, PTL DEF Spec

\* Whatever a session returned before it ended, well or not, begins the redaction of all the text
\* it took in and carries the findings that start there, when the hints keep what they promise.
THEOREM ReleasedIsSanitized ==
    ASSUME DetectSettles
    PROVE  Spec => []ReleasedTextIsSanitized
  <1>1. Init => SettledInv
    BY InitSettled
  <1>2. SettledInv /\ [Next]_vars => SettledInv'
    BY NextSettled
  <1>3. SettledInv => ReleasedTextIsSanitized
    <2> SUFFICES ASSUME SettledInv PROVE ReleasedTextIsSanitized
      OBVIOUS
    <2>1. PICK p, q : Returned(p, q)
      BY DEF SettledInv
    <2>2. /\ p \in Seq(Lexeme) /\ q \in Seq(Lexeme) /\ source = p \o q
          /\ text = Masked(p) /\ findings = Whole(p)
      BY <2>1 DEF Returned
    <2> DEFINE fs == Whole(p)
               gs == scan(Detect(q), Len(p), Len(fs))
               whole == Whole(source)
               masked == Masked(source)
               m == Len(p)
               w == redact(q, gs, m, Replaced(fs))
    <2>3. /\ m \in Nat /\ Len(q) \in Nat /\ Len(source) = m + Len(q) /\ source \in Seq(Lexeme)
          /\ m + Len(q) <= max_input_bytes /\ m <= max_input_bytes
          /\ Len(source) <= max_input_bytes
      <3>1. Len(source) <= max_input_bytes
        BY DEF SettledInv, IInv, Accounting
      <3>2. m \in Nat /\ Len(q) \in Nat
        BY <2>2, LenProperties
      <3>3. Len(source) = m + Len(q) /\ source \in Seq(Lexeme)
        BY <2>2, ConcatProperties
      <3> QED BY <3>1, <3>2, <3>3, LimitFacts
    <2>4. fs \in Seq(Finding) /\ Len(fs) \in Nat /\ Follows(fs, 0, 0, m)
      BY <2>2, <2>3, DetectType, LenProperties
    <2>5. text \in Seq(OutputUnit) /\ Len(text) = m
      <3>1. redact(p, fs, 0, 0) \in Seq(OutputUnit) /\ Len(redact(p, fs, 0, 0)) = m
        <4> HIDE DEF fs
        <4> QED BY <2>2, <2>4, RedactType
      <3> QED BY <2>2, <3>1 DEF Masked
    <2>6. \E gt, wt : /\ gt \in Seq(Finding) /\ wt \in Seq(OutputUnit)
                      /\ Follows(gt, Len(fs), m, m + Len(q))
                      /\ whole = fs \o gt /\ masked = text \o wt
      <3>1. CASE state = "Finalized"
        <4>1. q = <<>> /\ source = p
          BY <2>1, <2>2, <3>1, ConcatEmptySeq DEF Returned
        <4>2. <<>> \in Seq(Finding) /\ <<>> \in Seq(OutputUnit) /\ Len(<<>>) = 0
          BY EmptySeq
        <4>3. Follows(<<>>, Len(fs), m, m + Len(q))
          BY <4>2 DEF Follows
        <4>4. whole = fs \o <<>> /\ masked = text \o <<>>
          BY <2>2, <2>4, <2>5, <4>1, ConcatEmptySeq
        <4> QED BY <4>2, <4>3, <4>4
      <3>2. CASE state # "Finalized"
        <4>1. Settles(p)
          BY <2>1, <3>2 DEF Returned
        <4>2. /\ gs \in Seq(Finding) /\ Follows(gs, Len(fs), m, m + Len(q))
              /\ Whole(p \o q) = fs \o gs
              /\ Masked(p \o q) = Masked(p) \o redact(q, gs, m, Replaced(fs))
          BY <2>2, <2>3, <4>1, WholeSplits
        <4>3. w \in Seq(OutputUnit)
          <5> DEFINE r == Replaced(fs)
          <5>1. r \in Nat
            BY <2>4, PlaceholderIndexType DEF Replaced
          <5> HIDE DEF r, gs
          <5>2. redact(q, gs, m, r) \in Seq(OutputUnit)
            BY <2>2, <4>2, <5>1, RedactType
          <5> QED BY <5>2 DEF r
        <4> QED BY <2>2, <4>2, <4>3
      <3> QED BY <3>1, <3>2
    <2>7. PICK gt, wt : /\ gt \in Seq(Finding) /\ wt \in Seq(OutputUnit)
                        /\ Follows(gt, Len(fs), m, m + Len(q))
                        /\ whole = fs \o gt /\ masked = text \o wt
      BY <2>6
    <2> HIDE DEF fs, whole, masked, gs, w
    <2>8. /\ Len(gt) \in Nat /\ Len(whole) = Len(fs) + Len(gt)
          /\ \A i \in 1 .. Len(fs) + Len(gt) :
                whole[i] = IF i <= Len(fs) THEN fs[i] ELSE gt[i - Len(fs)]
      BY <2>4, <2>7, ConcatProperties, LenProperties
    <2>9. \A i \in 1 .. m : text[i] = masked[i]
      <3>1. /\ Len(wt) \in Nat
            /\ \A i \in 1 .. Len(text) + Len(wt) :
                  masked[i] = IF i <= Len(text) THEN text[i] ELSE wt[i - Len(text)]
        BY <2>5, <2>7, ConcatProperties, LenProperties
      <3>2. \A i \in 1 .. m : i \in 1 .. Len(text) + Len(wt) /\ i <= Len(text)
        BY <2>3, <2>5, <3>1
      <3> QED BY <3>1, <3>2
    <2>10. \A k \in 1 .. Len(fs) : fs[k] = whole[k]
      <3>1. \A k \in 1 .. Len(fs) : k \in 1 .. Len(fs) + Len(gt) /\ k <= Len(fs)
        BY <2>4, <2>8
      <3> QED BY <2>8, <3>1
    <2>11. ASSUME NEW k \in 1 .. Len(whole)
           PROVE  k <= Len(fs) <=> whole[k].start < m
      <3>1. k \in 1 .. Len(fs) + Len(gt)
        BY <2>8
      <3>2. CASE k <= Len(fs)
        <4>1. k \in 1 .. Len(fs)
          BY <2>4, <3>1, <3>2
        <4>2. fs[k].start < fs[k].end /\ fs[k].end <= m
          BY <2>4, <4>1 DEF Follows
        <4>3. fs[k].start \in Nat /\ fs[k].end \in Nat
          BY <2>4, <4>1, FindingFields
        <4>4. whole[k] = fs[k]
          BY <2>10, <4>1
        <4>5. whole[k].start < m
          BY <2>3, <4>2, <4>3, <4>4
        <4> QED BY <3>2, <4>5
      <3>3. CASE ~(k <= Len(fs))
        <4> DEFINE j == k - Len(fs)
        <4>1. j \in 1 .. Len(gt)
          BY <2>4, <2>8, <3>1, <3>3
        <4>2. whole[k] = gt[j]
          BY <2>8, <3>1, <3>3
        <4> HIDE DEF j
        <4>3. m <= gt[j].start
          BY <2>7, <4>1 DEF Follows
        <4>4. gt[j].start \in Nat
          BY <2>7, <4>1, FindingFields
        <4>5. ~(whole[k].start < m)
          BY <2>3, <4>2, <4>3, <4>4
        <4> QED BY <3>3, <4>5
      <3> QED BY <3>2, <3>3
    <2>12. Len(text) <= Len(source) /\ Len(findings) <= Len(whole)
      <3>1. Len(findings) = Len(fs)
        BY <2>2 DEF fs
      <3> QED BY <2>3, <2>4, <2>5, <2>8, <3>1
    <2>13. findings = fs
      BY <2>2 DEF fs
    <2> QED BY <2>5, <2>9, <2>10, <2>11, <2>12, <2>13
         DEF ReleasedTextIsSanitized, whole, masked, Whole, Masked
  <1> QED BY <1>1, <1>2, <1>3, PTL DEF Spec

---------------------------------------------------------------------------
(* A refusal does not depend on the partition: the session's buffer is, at every piece, the one    *)
(* a single append of any text that begins as this one would have there.                           *)

Buffer == [retained : Seq(Lexeme), tracker : Tracker, multiline : BOOLEAN,
           from : Nat \ {0}, ok : BOOLEAN]

\* f[i] is the buffer after position i of u.
Walk(f, u) ==
    f = [i \in 0 .. Len(u) |-> IF i = 0 THEN FreshBuffer ELSE AtOnce(u, f[i - 1], i)]

LEMMA WalkExists ==
    ASSUME NEW u, Len(u) \in Nat
    PROVE  \E f : Walk(f, u)
  <1> DEFINE Upto(f, n) ==
                 f = [i \in 0 .. n |-> IF i = 0 THEN FreshBuffer ELSE AtOnce(u, f[i - 1], i)]
             Without == {n \in 0 .. Len(u) : ~\E f : Upto(f, n)}
  <1>1. Upto([i \in 0 .. 0 |-> FreshBuffer], 0)
    OBVIOUS
  <1>2. ASSUME NEW n \in 1 .. Len(u), NEW f, Upto(f, n - 1)
        PROVE  \E g : Upto(g, n)
    <2> DEFINE g == [i \in 0 .. n |-> IF i < n THEN f[i] ELSE AtOnce(u, f[n - 1], n)]
    <2>1. ASSUME NEW i \in 0 .. n
          PROVE  g[i] = IF i = 0 THEN FreshBuffer ELSE AtOnce(u, g[i - 1], i)
      <3>1. CASE i < n
        <4>1. i \in 0 .. n - 1
          BY <3>1
        <4>2. f[i] = IF i = 0 THEN FreshBuffer ELSE AtOnce(u, f[i - 1], i)
          BY <1>2, <4>1
        <4>3. i # 0 => g[i - 1] = f[i - 1]
          BY <3>1
        <4>4. g[i] = f[i]
          BY <3>1
        <4> QED BY <4>2, <4>3, <4>4
      <3>2. CASE i = n
        <4>1. g[i - 1] = f[n - 1]
          BY <3>2
        <4>2. g[i] = AtOnce(u, f[n - 1], n)
          BY <3>2
        <4> QED BY <3>2, <4>1, <4>2
      <3> QED BY <3>1, <3>2
    <2>2. g = [i \in 0 .. n |-> g[i]]
      OBVIOUS
    <2> HIDE DEF g
    <2>3. g = [i \in 0 .. n |-> IF i = 0 THEN FreshBuffer ELSE AtOnce(u, g[i - 1], i)]
      BY <2>1, <2>2
    <2> QED BY <2>3
  <1> HIDE DEF Upto
  <1>3. SUFFICES ASSUME Without # {} PROVE FALSE
    <2>1. Without = {} => \E f : Upto(f, Len(u))
      OBVIOUS
    <2> QED BY <2>1 DEF Walk, Upto
  <1>4. PICK n \in Without : \A m \in Without : n <= m
    <2>1. Without \subseteq Nat
      OBVIOUS
    <2> HIDE DEF Without
    <2> QED BY <1>3, <2>1, LeastElement
  <1>5. n \in 1 .. Len(u) /\ n - 1 \notin Without /\ n - 1 \in 0 .. Len(u)
    BY <1>1, <1>4
  <1>6. PICK f : Upto(f, n - 1)
    BY <1>5
  <1> QED BY <1>2, <1>4, <1>5, <1>6

LEMMA WalkAt ==
    ASSUME NEW u, Len(u) \in Nat, NEW f, Walk(f, u)
    PROVE  f[0] = FreshBuffer /\ \A i \in 1 .. Len(u) : f[i] = AtOnce(u, f[i - 1], i)
  BY DEF Walk

LEMMA WalkUnique ==
    ASSUME NEW u, Len(u) \in Nat, NEW f, NEW g, Walk(f, u), Walk(g, u)
    PROVE  f[Len(u)] = g[Len(u)]
  <1> DEFINE Differ == {k \in 0 .. Len(u) : g[k] # f[k]}
  <1>1. SUFFICES ASSUME Differ # {} PROVE FALSE
    OBVIOUS
  <1>2. PICK k \in Differ : \A m \in Differ : k <= m
    <2>1. Differ \subseteq Nat
      OBVIOUS
    <2> HIDE DEF Differ
    <2> QED BY <1>1, <2>1, LeastElement
  <1>3. f[0] = FreshBuffer /\ \A i \in 1 .. Len(u) : f[i] = AtOnce(u, f[i - 1], i)
    BY WalkAt
  <1>4. g[0] = FreshBuffer /\ \A i \in 1 .. Len(u) : g[i] = AtOnce(u, g[i - 1], i)
    BY WalkAt
  <1>5. k # 0 => f[k - 1] = g[k - 1]
    BY <1>2
  <1> QED BY <1>2, <1>3, <1>4, <1>5

LEMMA AcceptedIs ==
    ASSUME NEW u, Len(u) \in Nat, NEW f, Walk(f, u)
    PROVE  AcceptedAtOnce(u) => f[Len(u)].ok
  <1> DEFINE g == CHOOSE h : Walk(h, u)
  <1>1. Walk(g, u)
    OBVIOUS
  <1>2. AcceptedAtOnce(u) => g[Len(u)].ok
    BY DEF AcceptedAtOnce, Walk
  <1> HIDE DEF g
  <1>3. f[Len(u)] = g[Len(u)]
    BY <1>1, WalkUnique
  <1> QED BY <1>2, <1>3

---------------------------------------------------------------------------
(* The memory of a begin. *)

\* A parser that has seen a begin does not forget it, and sees one only in a BEGIN.
LEMMA BeginRemembered ==
    ASSUME NEW t \in Tracker, NEW u \in Seq(Lexeme)
    PROVE  /\ t.has_begin => tracker_append(t, u).has_begin
           /\ (\A i \in 1 .. Len(u) : u[i] \notin Begin) =>
                  tracker_append(t, u).has_begin = t.has_begin
  <1> DEFINE s == Resumed(t)
  <1>1. Len(u) \in Nat
    BY LenProperties
  <1>2. s \in Parser /\ s.has_begin = t.has_begin
    BY ResumedType DEF SameView
  <1> HIDE DEF s
  <1>3. PICK f : Feeds(f, s, u)
    BY <1>1, FeedsExists
  <1>4. f[0] = s /\ \A i \in 1 .. Len(u) : f[i] = Fed(f[i - 1], u, i)
    BY <1>1, <1>3, FeedsAt
  <1>5. \A i \in 0 .. Len(u) : f[i] \in Parser
    BY <1>2, <1>3, FeedsType
  <1>6. \A i \in 1 .. Len(u) : f[i].has_begin = (f[i - 1].has_begin \/ u[i] \in Begin)
    <2> SUFFICES ASSUME NEW i \in 1 .. Len(u)
                 PROVE  f[i].has_begin = (f[i - 1].has_begin \/ u[i] \in Begin)
      OBVIOUS
    <2>1. PICK b : b = f[i - 1]
      OBVIOUS
    <2>2. b \in Parser /\ i \in Nat /\ b.has_begin \in BOOLEAN
      BY <1>1, <1>5, <2>1 DEF Parser
    <2>3. CASE u[i] \notin Begin \cup End
      BY <1>4, <2>1, <2>2, <2>3 DEF Fed
    <2>4. CASE u[i] \in Begin \cup End
      <3>1. PICK d : d = Delimiter(u, i)
        OBVIOUS
      <3>2. d \in Delims /\ (d.kind = "Begin" <=> u[i] \in Begin)
        BY <2>2, <2>4, <3>1, DelimiterType DEF Delimiter
      <3>3. f[i] = process_delimiter(b, d)
        BY <1>4, <2>1, <2>4, <3>1 DEF Fed
      <3>4. Processed(f[i], b, d)
        BY <2>2, <3>2, <3>3, ProcessIs
      <3> QED BY <2>1, <2>2, <3>2, <3>4 DEF Processed
    <2> QED BY <2>3, <2>4
  <1> DEFINE Plainly == \A i \in 1 .. Len(u) : u[i] \notin Begin
             Wrong == {i \in 0 .. Len(u) : ~(/\ s.has_begin => f[i].has_begin
                                             /\ Plainly => f[i].has_begin = s.has_begin)}
  <1>7. Wrong = {}
    <2>1. SUFFICES ASSUME Wrong # {} PROVE FALSE
      OBVIOUS
    <2>2. PICK k \in Wrong : \A i \in Wrong : k <= i
      <3>1. Wrong \subseteq Nat
        OBVIOUS
      <3> HIDE DEF Wrong
      <3> QED BY <2>1, <3>1, LeastElement
    <2>3. k # 0
      BY <1>4, <2>2
    <2>4. k \in 1 .. Len(u) /\ k - 1 \notin Wrong /\ k - 1 \in 0 .. Len(u)
      BY <1>1, <2>2, <2>3
    <2>5. f[k].has_begin = (f[k - 1].has_begin \/ u[k] \in Begin)
      BY <1>6, <2>4
    <2>6. f[k - 1].has_begin \in BOOLEAN
      BY <1>5, <2>4 DEF Parser
    <2> QED BY <2>2, <2>4, <2>5, <2>6
  <1>8. /\ s.has_begin => f[Len(u)].has_begin
        /\ Plainly => f[Len(u)].has_begin = s.has_begin
    <2>1. Len(u) \in 0 .. Len(u)
      BY <1>1
    <2> QED BY <1>7, <2>1
  <1>9. tracker_append(t, u).has_begin = f[Len(u)].has_begin
    BY <1>3, TrackerAppendIs DEF s, View
  <1> QED BY <1>2, <1>8, <1>9

LEMMA TrackerUnmoved ==
    ASSUME NEW t \in Tracker
    PROVE  tracker_append(t, <<>>) = t
  <1> DEFINE e == <<>>
  <1>1. e \in Seq(Lexeme) /\ Len(e) = 0
    BY EmptySeq
  <1> HIDE DEF e
  <1>2. PICK f : Feeds(f, Resumed(t), e)
    BY <1>1, FeedsExists
  <1>3. f[0] = Resumed(t)
    <2>1. Len(e) \in Nat
      BY <1>1
    <2> QED BY <1>2, <2>1, FeedsAt
  <1>4. tracker_append(t, e) = View(f[0])
    BY <1>1, <1>2, TrackerAppendIs
  <1>5. View(f[0]) = [stack |-> t.stack, has_begin |-> t.has_begin]
    BY <1>3, ResumedType DEF View, SameView
  <1>6. [stack |-> t.stack, has_begin |-> t.has_begin] = t
    BY DEF Tracker
  <1> QED BY <1>4, <1>5, <1>6 DEF e

---------------------------------------------------------------------------
(* One position of the walk. *)

\* b can be the buffer after position i.
Proper(b, i) == b \in Buffer /\ b.from <= i + 1 /\ b.multiline = b.tracker.has_begin

\* What the walk sees at position i from the buffer b.
UnitAt(u, b, i) == b.retained \o SubSeq(u, b.from, i)
TrackedAt(u, b, i) == tracker_append(b.tracker, SubSeq(u, b.from, i))
LimitAt(u, b, i) ==
    limit_reached(Len(UnitAt(u, b, i)), u[i] \in Terminators, TrackedAt(u, b, i).has_begin)
ClosesAt(u, b, i) ==
    closes_unit(UnitAt(u, b, i), u[i] \in Terminators, TrackedAt(u, b, i).stack)
PieceAt(u, i) == u[i] \in Terminators \/ i = Len(u)

LEMMA SubSeqBetween ==
    ASSUME NEW u \in Seq(Lexeme), NEW m \in Nat \ {0}, NEW n \in Nat, m <= n + 1, n <= Len(u)
    PROVE  /\ SubSeq(u, m, n) \in Seq(Lexeme) /\ Len(SubSeq(u, m, n)) = n - m + 1
           /\ \A i \in 1 .. n - m + 1 : SubSeq(u, m, n)[i] = u[m + i - 1]
  <1>1. Len(u) \in Nat /\ \A i \in 1 .. Len(u) : u[i] \in Lexeme
    BY LenProperties, ElementOfSeq
  <1>2. m \in Int /\ n \in Int /\ \A i \in m .. n : u[i] \in Lexeme
    BY <1>1
  <1>3. /\ SubSeq(u, m, n) \in Seq(Lexeme)
        /\ Len(SubSeq(u, m, n)) = IF m <= n THEN n - m + 1 ELSE 0
        /\ \A i \in 1 .. n - m + 1 : SubSeq(u, m, n)[i] = u[m + i - 1]
    BY <1>2, SubSeqProperties
  <1>4. (IF m <= n THEN n - m + 1 ELSE 0) = n - m + 1
    OBVIOUS
  <1> QED BY <1>3, <1>4

LEMMA SeenAt ==
    ASSUME NEW u \in Seq(Lexeme), NEW i \in 0 .. Len(u), NEW b \in Buffer, b.from <= i + 1
    PROVE  /\ UnitAt(u, b, i) \in Seq(Lexeme) /\ TrackedAt(u, b, i) \in Tracker
           /\ SubSeq(u, b.from, i) \in Seq(Lexeme)
           /\ Len(UnitAt(u, b, i)) = Len(b.retained) + (i - b.from + 1)
  <1>1. /\ b.from \in Nat \ {0} /\ b.retained \in Seq(Lexeme) /\ b.tracker \in Tracker
        /\ Len(u) \in Nat /\ i \in Nat /\ i <= Len(u)
    BY LenProperties DEF Buffer
  <1>2. PICK m \in Nat \ {0} : m = b.from
    BY <1>1
  <1>3. SubSeq(u, m, i) \in Seq(Lexeme) /\ Len(SubSeq(u, m, i)) = i - m + 1
    BY <1>1, <1>2, SubSeqBetween
  <1>4. UnitAt(u, b, i) \in Seq(Lexeme) /\ Len(UnitAt(u, b, i)) = Len(b.retained) + Len(SubSeq(u, m, i))
    BY <1>1, <1>2, <1>3, ConcatProperties DEF UnitAt
  <1>5. TrackedAt(u, b, i) \in Tracker
    BY <1>1, <1>2, <1>3, TrackerAppendSplits DEF TrackedAt
  <1> QED BY <1>2, <1>3, <1>4, <1>5

\* r is the buffer b after position i of u.
Stepped(r, u, b, i) ==
    /\ ~PieceAt(u, i) => r = b
    /\ PieceAt(u, i) /\ LimitAt(u, b, i) # "None" => r = [b EXCEPT !.ok = FALSE]
    /\ PieceAt(u, i) /\ LimitAt(u, b, i) = "None" /\ ClosesAt(u, b, i) =>
          r = [FreshBuffer EXCEPT !.from = i + 1, !.ok = b.ok]
    /\ PieceAt(u, i) /\ LimitAt(u, b, i) = "None" /\ ~ClosesAt(u, b, i) =>
          r = [retained |-> UnitAt(u, b, i), tracker |-> TrackedAt(u, b, i),
               multiline |-> TrackedAt(u, b, i).has_begin, from |-> i + 1, ok |-> b.ok]

LEMMA AtOnceIs ==
    ASSUME NEW u \in Seq(Lexeme), NEW i \in 1 .. Len(u), NEW b, Proper(b, i - 1)
    PROVE  Stepped(AtOnce(u, b, i), u, b, i)
  <1>1. Len(u) \in Nat /\ b \in Buffer /\ b.from \in Nat /\ b.from <= i + 1
    BY LenProperties DEF Proper, Buffer
  <1> DEFINE w == UnitAt(u, b, i)
             t == TrackedAt(u, b, i)
             m == b.multiline \/ t.has_begin
             line == u[i] \in Terminators
  <1>2. m = t.has_begin
    <2>1. i \in 0 .. Len(u)
      BY <1>1
    <2>2. SubSeq(u, b.from, i) \in Seq(Lexeme) /\ b.tracker \in Tracker /\ t \in Tracker
      BY <1>1, <2>1, SeenAt DEF Buffer
    <2>3. b.tracker.has_begin => t.has_begin
      BY <2>2, BeginRemembered DEF TrackedAt
    <2>4. b.multiline = b.tracker.has_begin /\ b.multiline \in BOOLEAN /\ t.has_begin \in BOOLEAN
      BY <2>2 DEF Proper, Buffer, Tracker
    <2> QED BY <2>3, <2>4
  <1>3. AtOnce(u, b, i) =
            IF ~line /\ i < Len(u) THEN b
            ELSE IF limit_reached(Len(w), line, m) # "None" THEN [b EXCEPT !.ok = FALSE]
            ELSE IF closes_unit(w, line, t.stack)
              THEN [FreshBuffer EXCEPT !.from = i + 1, !.ok = b.ok]
            ELSE [retained |-> w, tracker |-> t, multiline |-> m, from |-> i + 1, ok |-> b.ok]
    BY DEF AtOnce, UnitAt, TrackedAt
  <1>4. PieceAt(u, i) <=> ~(~line /\ i < Len(u))
    BY <1>1 DEF PieceAt
  <1>5. LimitAt(u, b, i) = limit_reached(Len(w), line, m)
    BY <1>2 DEF LimitAt
  <1>6. ClosesAt(u, b, i) = closes_unit(w, line, t.stack)
    BY DEF ClosesAt
  <1> HIDE DEF w, t, m, line
  <1> QED BY <1>2, <1>3, <1>4, <1>5, <1>6 DEF Stepped, w, t

\* One position keeps the buffer proper, and a refusal stands.
LEMMA SteppedProper ==
    ASSUME NEW u \in Seq(Lexeme), NEW i \in 1 .. Len(u), NEW b, Proper(b, i - 1),
           NEW r, Stepped(r, u, b, i)
    PROVE  Proper(r, i) /\ (~b.ok => ~r.ok)
  <1>1. /\ Len(u) \in Nat /\ i \in Nat /\ i \in 0 .. Len(u) /\ b \in Buffer /\ b.from \in Nat \ {0}
        /\ b.from <= i /\ b.from <= i + 1 /\ i + 1 \in Nat \ {0} /\ b.ok \in BOOLEAN
        /\ b.multiline = b.tracker.has_begin
    BY LenProperties DEF Proper, Buffer
  <1>2. CASE ~PieceAt(u, i)
    BY <1>1, <1>2 DEF Stepped, Proper
  <1>3. CASE PieceAt(u, i) /\ LimitAt(u, b, i) # "None"
    <2>1. r = [b EXCEPT !.ok = FALSE]
      BY <1>3 DEF Stepped
    <2>2. r \in Buffer /\ r.from = b.from /\ r.multiline = b.multiline /\ r.tracker = b.tracker
            /\ r.ok = FALSE
      BY <1>1, <2>1 DEF Buffer
    <2> QED BY <1>1, <2>2 DEF Proper
  <1>4. CASE PieceAt(u, i) /\ LimitAt(u, b, i) = "None" /\ ClosesAt(u, b, i)
    <2> DEFINE n == i + 1
    <2>1. r = [FreshBuffer EXCEPT !.from = n, !.ok = b.ok]
      BY <1>4 DEF Stepped
    <2>2. n \in Nat \ {0} /\ n <= i + 1
      BY <1>1
    <2> HIDE DEF n
    <2>3. r = [retained |-> <<>>, tracker |-> TrackerInit, multiline |-> FALSE,
               from |-> n, ok |-> b.ok]
      BY <2>1 DEF FreshBuffer
    <2>4. <<>> \in Seq(Lexeme) /\ TrackerInit \in Tracker /\ TrackerInit.has_begin = FALSE
      BY EmptySeq, TrackerAppendNothing DEF TrackerInit
    <2>5. r \in Buffer /\ r.from = n /\ r.multiline = r.tracker.has_begin /\ r.ok = b.ok
      BY <1>1, <2>2, <2>3, <2>4 DEF Buffer
    <2> QED BY <2>2, <2>5 DEF Proper
  <1>5. CASE PieceAt(u, i) /\ LimitAt(u, b, i) = "None" /\ ~ClosesAt(u, b, i)
    <2> DEFINE n == i + 1
               w == UnitAt(u, b, i)
               t == TrackedAt(u, b, i)
    <2>1. r = [retained |-> w, tracker |-> t, multiline |-> t.has_begin, from |-> n, ok |-> b.ok]
      BY <1>5 DEF Stepped
    <2>2. n \in Nat \ {0} /\ n <= i + 1
      BY <1>1
    <2>3. w \in Seq(Lexeme) /\ t \in Tracker
      BY <1>1, SeenAt
    <2> HIDE DEF n, w, t
    <2>4. t.has_begin \in BOOLEAN
      BY <2>3 DEF Tracker
    <2>5. r \in Buffer /\ r.from = n /\ r.multiline = r.tracker.has_begin /\ r.ok = b.ok
      BY <1>1, <2>1, <2>2, <2>3, <2>4 DEF Buffer
    <2> QED BY <2>2, <2>5 DEF Proper
  <1> QED BY <1>2, <1>3, <1>4, <1>5

LEMMA WalkProper ==
    ASSUME NEW u \in Seq(Lexeme), NEW f, Walk(f, u)
    PROVE  /\ \A i \in 0 .. Len(u) : Proper(f[i], i)
           /\ \A i \in 1 .. Len(u) : Stepped(f[i], u, f[i - 1], i)
           /\ \A i \in 1 .. Len(u) : ~f[i - 1].ok => ~f[i].ok
  <1> DEFINE Wrong == {i \in 0 .. Len(u) : ~Proper(f[i], i)}
  <1>1. Len(u) \in Nat
    BY LenProperties
  <1>2. f[0] = FreshBuffer /\ \A i \in 1 .. Len(u) : f[i] = AtOnce(u, f[i - 1], i)
    BY <1>1, WalkAt
  <1>3. Proper(f[0], 0)
    <2>1. <<>> \in Seq(Lexeme) /\ TrackerInit \in Tracker /\ TrackerInit.has_begin = FALSE
      BY EmptySeq, TrackerAppendNothing DEF TrackerInit
    <2>2. FreshBuffer \in Buffer
      BY <2>1 DEF FreshBuffer, Buffer
    <2>3. FreshBuffer.from <= 0 + 1
      BY DEF FreshBuffer
    <2>4. FreshBuffer.multiline = FreshBuffer.tracker.has_begin
      BY <2>1 DEF FreshBuffer
    <2> QED BY <1>2, <2>2, <2>3, <2>4 DEF Proper
  <1>4. ASSUME NEW i \in 1 .. Len(u), Proper(f[i - 1], i - 1)
        PROVE  Stepped(f[i], u, f[i - 1], i) /\ Proper(f[i], i) /\ (~f[i - 1].ok => ~f[i].ok)
    <2>1. PICK b : b = f[i - 1]
      OBVIOUS
    <2>2. Stepped(AtOnce(u, b, i), u, b, i)
      BY <1>4, <2>1, AtOnceIs
    <2>3. f[i] = AtOnce(u, b, i)
      BY <1>2, <2>1
    <2>4. Proper(f[i], i) /\ (~b.ok => ~f[i].ok)
      BY <1>4, <2>1, <2>2, <2>3, SteppedProper
    <2> QED BY <2>1, <2>2, <2>3, <2>4
  <1>5. Wrong = {}
    <2>1. SUFFICES ASSUME Wrong # {} PROVE FALSE
      OBVIOUS
    <2>2. PICK k \in Wrong : \A i \in Wrong : k <= i
      <3>1. Wrong \subseteq Nat
        OBVIOUS
      <3> HIDE DEF Wrong
      <3> QED BY <2>1, <3>1, LeastElement
    <2>3. k # 0
      BY <1>3, <2>2
    <2>4. k \in 1 .. Len(u) /\ k - 1 \notin Wrong /\ k - 1 \in 0 .. Len(u)
      BY <1>1, <2>2, <2>3
    <2>5. Proper(f[k - 1], k - 1)
      BY <2>4
    <2> QED BY <1>4, <2>2, <2>4, <2>5
  <1>6. \A i \in 0 .. Len(u) : Proper(f[i], i)
    BY <1>5
  <1>7. \A i \in 1 .. Len(u) : Proper(f[i - 1], i - 1)
    BY <1>1, <1>6
  <1> QED BY <1>4, <1>6, <1>7

\* A buffer that is refused at one position is refused at the end.
LEMMA WalkRefuses ==
    ASSUME NEW u \in Seq(Lexeme), NEW f, Walk(f, u), NEW p \in 0 .. Len(u), ~f[p].ok
    PROVE  ~f[Len(u)].ok
  <1> DEFINE Wrong == {i \in p .. Len(u) : f[i].ok}
  <1>1. Len(u) \in Nat
    BY LenProperties
  <1>2. \A i \in 1 .. Len(u) : ~f[i - 1].ok => ~f[i].ok
    BY WalkProper
  <1>3. Wrong = {}
    <2>1. SUFFICES ASSUME Wrong # {} PROVE FALSE
      OBVIOUS
    <2>2. PICK k \in Wrong : \A i \in Wrong : k <= i
      <3>1. Wrong \subseteq Nat
        OBVIOUS
      <3> HIDE DEF Wrong
      <3> QED BY <2>1, <3>1, LeastElement
    <2>3. k # p
      BY <2>2
    <2>4. k \in 1 .. Len(u) /\ k - 1 \notin Wrong /\ k - 1 \in p .. Len(u)
      BY <1>1, <2>2, <2>3
    <2> QED BY <1>2, <2>2, <2>4
  <1>4. Len(u) \in p .. Len(u)
    BY <1>1
  <1> QED BY <1>3, <1>4

\* Inside a line the buffer rests.
LEMMA WalkRests ==
    ASSUME NEW u \in Seq(Lexeme), NEW f, Walk(f, u), NEW p \in 0 .. Len(u), NEW q \in 0 .. Len(u),
           p <= q, \A i \in p + 1 .. q : ~PieceAt(u, i)
    PROVE  f[q] = f[p]
  <1> DEFINE Wrong == {i \in p .. q : f[i] # f[p]}
  <1>1. Len(u) \in Nat
    BY LenProperties
  <1>2. \A i \in 1 .. Len(u) : Stepped(f[i], u, f[i - 1], i)
    BY WalkProper
  <1>3. ASSUME NEW i \in p + 1 .. q PROVE f[i] = f[i - 1]
    <2>1. i \in 1 .. Len(u) /\ ~PieceAt(u, i)
      BY <1>1
    <2>2. Stepped(f[i], u, f[i - 1], i)
      BY <1>2, <2>1
    <2> QED BY <2>1, <2>2 DEF Stepped
  <1>4. Wrong = {}
    <2>1. SUFFICES ASSUME Wrong # {} PROVE FALSE
      OBVIOUS
    <2>2. PICK k \in Wrong : \A i \in Wrong : k <= i
      <3>1. Wrong \subseteq Nat
        OBVIOUS
      <3> HIDE DEF Wrong
      <3> QED BY <2>1, <3>1, LeastElement
    <2>3. k # p
      BY <2>2
    <2>4. k \in p + 1 .. q /\ k - 1 \notin Wrong /\ k - 1 \in p .. q
      BY <1>1, <2>2, <2>3
    <2> QED BY <1>3, <2>2, <2>4
  <1>5. q \in p .. q
    OBVIOUS
  <1> QED BY <1>4, <1>5

LEMMA SubSeqJoins ==
    ASSUME NEW u \in Seq(Lexeme), NEW m \in Nat \ {0}, NEW p \in Nat, NEW q \in Nat,
           m <= p + 1, p <= q, q <= Len(u)
    PROVE  SubSeq(u, m, p) \o SubSeq(u, p + 1, q) = SubSeq(u, m, q)
  <1> DEFINE a == SubSeq(u, m, p)
             b == SubSeq(u, p + 1, q)
             c == SubSeq(u, m, q)
             t == a \o b
  <1>1. /\ a \in Seq(Lexeme) /\ Len(a) = p - m + 1
        /\ \A i \in 1 .. p - m + 1 : a[i] = u[m + i - 1]
    <2>1. p <= Len(u)
      BY LenProperties
    <2> QED BY <2>1, SubSeqBetween
  <1>2. /\ b \in Seq(Lexeme) /\ Len(b) = q - p
        /\ \A i \in 1 .. q - p : b[i] = u[p + i]
    <2>1. PICK n \in Nat \ {0} : n = p + 1
      OBVIOUS
    <2>2. n <= q + 1
      BY <2>1
    <2>3. /\ SubSeq(u, n, q) \in Seq(Lexeme) /\ Len(SubSeq(u, n, q)) = q - n + 1
          /\ \A i \in 1 .. q - n + 1 : SubSeq(u, n, q)[i] = u[n + i - 1]
      BY <2>2, SubSeqBetween
    <2>4. q - n + 1 = q - p /\ \A i \in 1 .. q - p : n + i - 1 = p + i
      BY <2>1
    <2>5. b = SubSeq(u, n, q)
      BY <2>1
    <2> HIDE DEF b
    <2> QED BY <2>3, <2>4, <2>5
  <1>3. /\ c \in Seq(Lexeme) /\ Len(c) = q - m + 1
        /\ \A i \in 1 .. q - m + 1 : c[i] = u[m + i - 1]
    <2>1. m <= q + 1
      OBVIOUS
    <2> QED BY <2>1, SubSeqBetween
  <1> HIDE DEF a, b, c
  <1>4. /\ t \in Seq(Lexeme) /\ Len(t) = Len(a) + Len(b)
        /\ \A i \in 1 .. Len(a) + Len(b) : t[i] = IF i <= Len(a) THEN a[i] ELSE b[i - Len(a)]
    BY <1>1, <1>2, ConcatProperties
  <1> HIDE DEF t
  <1>5. Len(t) = q - m + 1
    BY <1>1, <1>2, <1>4
  <1>6. ASSUME NEW i \in 1 .. q - m + 1 PROVE t[i] = c[i]
    <2>1. i \in 1 .. Len(a) + Len(b)
      BY <1>1, <1>2
    <2>2. CASE i <= p - m + 1
      BY <1>1, <1>3, <1>4, <2>1, <2>2
    <2>3. CASE ~(i <= p - m + 1)
      <3>1. i - (p - m + 1) \in 1 .. q - p /\ p + (i - (p - m + 1)) = m + i - 1
        BY <2>3
      <3>2. t[i] = b[i - (p - m + 1)]
        BY <1>1, <1>4, <2>1, <2>3
      <3> QED BY <1>2, <1>3, <3>1, <3>2
    <2> QED BY <2>2, <2>3
  <1>7. t = c
    BY <1>3, <1>4, <1>5, <1>6, SeqEqual
  <1> QED BY <1>7 DEF a, b, c, t

\* A length that is over its limit stays over it when the line goes on, its terminator counted
\* or not.
LEMMA LimitStays ==
    ASSUME NEW m \in Nat, NEW n \in Nat, NEW line \in BOOLEAN, NEW multiline \in BOOLEAN,
           limit_reached(m, FALSE, multiline) \in {"TokenLimitExceeded", "MultilineLimitExceeded"},
           m < n
    PROVE  limit_reached(n, line, multiline) # "None"
  <1> DEFINE limit == construct_limit(multiline)
             open == IF line THEN n - 1 ELSE n
  <1>1. limit \in Nat /\ max_buffered_bytes \in Nat
    BY LimitFacts DEF construct_limit
  <1> HIDE DEF limit
  <1>2. m > limit
    BY <1>1 DEF limit_reached, limit
  <1>3. open > limit
    BY <1>1, <1>2
  <1>4. limit_reached(n, line, multiline) =
            IF multiline THEN "MultilineLimitExceeded" ELSE "TokenLimitExceeded"
    <2> HIDE DEF open
    <2>1. limit_reached(n, line, multiline) =
              CASE open > limit ->
                      IF multiline THEN "MultilineLimitExceeded" ELSE "TokenLimitExceeded"
                [] open <= limit /\ n > max_buffered_bytes -> "BufferLimitExceeded"
                [] OTHER -> "None"
      BY DEF limit_reached, open, limit
    <2>2. open \in Int
      BY DEF open
    <2>3. ~(open <= limit)
      BY <1>1, <1>3, <2>2
    <2> QED BY <1>3, <2>1, <2>3
  <1> QED BY <1>4

\* A session that refuses the piece that ends at q is refused by the walk, unless a BEGIN that is
\* still to come would have given its line more room.
LEMMA RefusalStands ==
    ASSUME NEW u \in Seq(Lexeme), NEW f, Walk(f, u), NEW p \in 0 .. Len(u), NEW q \in 1 .. Len(u),
           p < q, \A i \in p + 1 .. q - 1 : ~PieceAt(u, i),
           LimitAt(u, f[p], q) \in {"TokenLimitExceeded", "MultilineLimitExceeded"},
           \/ LimitAt(u, f[p], q) = "MultilineLimitExceeded"
           \/ \A i \in 1 .. Len(u) : u[i] \notin Begin
    PROVE  ~f[Len(u)].ok
  <1>1. Len(u) \in Nat
    BY LenProperties
  <1> DEFINE Ends == {i \in q .. Len(u) : PieceAt(u, i)}
  <1>2. PICK r \in Ends : \A i \in Ends : r <= i
    <2>1. Len(u) \in Ends
      BY <1>1 DEF PieceAt
    <2>2. Ends \subseteq Nat
      BY <1>1
    <2> HIDE DEF Ends
    <2> QED BY <2>1, <2>2, LeastElement
  <1>3. /\ r \in 1 .. Len(u) /\ r - 1 \in 0 .. Len(u) /\ q <= r /\ PieceAt(u, r) /\ p <= r - 1
        /\ r \in Nat
    BY <1>1, <1>2
  <1>4. \A i \in p + 1 .. r - 1 : ~PieceAt(u, i)
    <2> SUFFICES ASSUME NEW i \in p + 1 .. r - 1 PROVE ~PieceAt(u, i)
      OBVIOUS
    <2>1. CASE i < q
      BY <1>1, <2>1
    <2>2. CASE q <= i
      BY <1>1, <1>2, <1>3, <2>2
    <2> QED BY <1>1, <2>1, <2>2
  <1>5. f[r - 1] = f[p]
    BY <1>3, <1>4, WalkRests
  <1>6. PICK b : b = f[p]
    OBVIOUS
  <1>7. Proper(b, p)
    BY <1>6, WalkProper
  <1>8. /\ b \in Buffer /\ b.from \in Nat \ {0} /\ b.from <= p + 1 /\ b.retained \in Seq(Lexeme)
        /\ b.tracker \in Tracker /\ Len(b.retained) \in Nat
    BY <1>7, LenProperties DEF Proper, Buffer
  <1>9. LimitAt(u, b, r) # "None"
    <2>1. CASE r = q
      BY <1>6, <2>1
    <2>2. CASE q < r
      <3>1. u[q] \notin Terminators
        <4>1. q \notin Ends
          BY <1>1, <1>2, <2>2
        <4> QED BY <4>1, <1>1 DEF PieceAt
      <3>2. /\ q \in 0 .. Len(u) /\ r \in 0 .. Len(u) /\ b.from <= q + 1 /\ b.from <= r + 1
            /\ b.from <= q /\ q \in Nat
        BY <1>1, <1>3, <1>8
      <3>3. /\ TrackedAt(u, b, q) \in Tracker /\ TrackedAt(u, b, r) \in Tracker
            /\ Len(UnitAt(u, b, q)) = Len(b.retained) + (q - b.from + 1)
            /\ Len(UnitAt(u, b, r)) = Len(b.retained) + (r - b.from + 1)
            /\ SubSeq(u, b.from, q) \in Seq(Lexeme)
        BY <1>8, <3>2, SeenAt
      <3>4. PICK m \in Nat, n \in Nat : m = Len(UnitAt(u, b, q)) /\ n = Len(UnitAt(u, b, r))
        <4>1. Len(UnitAt(u, b, q)) \in Nat /\ Len(UnitAt(u, b, r)) \in Nat
          BY <1>3, <1>8, <3>2, <3>3
        <4> QED BY <4>1
      <3>5. m < n
        <4>1. PICK l \in Nat, from \in Nat : l = Len(b.retained) /\ from = b.from
          BY <1>8
        <4>2. m = l + (q - from + 1) /\ n = l + (r - from + 1)
          BY <3>3, <3>4, <4>1
        <4> QED BY <1>3, <2>2, <3>2, <4>2
      <3>6. TrackedAt(u, b, q).has_begin = TrackedAt(u, b, r).has_begin
        <4> DEFINE more == SubSeq(u, q + 1, r)
                   t == TrackedAt(u, b, q)
        <4>1. /\ more \in Seq(Lexeme) /\ Len(more) = r - (q + 1) + 1
              /\ \A i \in 1 .. r - (q + 1) + 1 : more[i] = u[(q + 1) + i - 1]
          <5>1. PICK k \in Nat \ {0} : k = q + 1
            BY <3>2
          <5>2. k <= r + 1 /\ r <= Len(u)
            BY <1>3, <2>2, <3>2, <5>1
          <5>3. /\ SubSeq(u, k, r) \in Seq(Lexeme) /\ Len(SubSeq(u, k, r)) = r - k + 1
                /\ \A i \in 1 .. r - k + 1 : SubSeq(u, k, r)[i] = u[k + i - 1]
            BY <1>3, <5>2, SubSeqBetween
          <5> QED BY <5>1, <5>3
        <4>2. TrackedAt(u, b, r) = tracker_append(t, more)
          <5>1. SubSeq(u, b.from, q) \o more = SubSeq(u, b.from, r)
            <6>1. PICK k \in Nat \ {0} : k = b.from
              BY <1>8
            <6>2. k <= q + 1 /\ q <= r /\ r <= Len(u)
              BY <1>3, <2>2, <3>2, <6>1
            <6> QED BY <1>3, <3>2, <6>1, <6>2, SubSeqJoins
          <5> HIDE DEF more
          <5> DEFINE start == SubSeq(u, b.from, q)
          <5>2. t = tracker_append(b.tracker, start) /\ start \in Seq(Lexeme)
            BY <3>3 DEF TrackedAt
          <5>3. TrackedAt(u, b, r) = tracker_append(b.tracker, start \o more)
            BY <5>1 DEF TrackedAt
          <5> HIDE DEF start, t
          <5>4. tracker_append(tracker_append(b.tracker, start), more)
                  = tracker_append(b.tracker, start \o more)
            BY <1>8, <4>1, <5>2, TrackerAppendSplits
          <5> QED BY <5>2, <5>3, <5>4
        <4> HIDE DEF more, t
        <4>3. t \in Tracker /\ t.has_begin \in BOOLEAN /\ TrackedAt(u, b, r).has_begin \in BOOLEAN
          BY <3>3 DEF t, Tracker
        <4>4. CASE t.has_begin
          <5>1. tracker_append(t, more).has_begin
            BY <4>1, <4>3, <4>4, BeginRemembered
          <5> QED BY <4>2, <4>3, <4>4, <5>1 DEF t
        <4>5. CASE ~t.has_begin
          <5>1. LimitAt(u, b, q) # "MultilineLimitExceeded"
            BY <4>5 DEF LimitAt, limit_reached, t
          <5>2. \A i \in 1 .. Len(u) : u[i] \notin Begin
            BY <1>6, <5>1
          <5>3. \A i \in 1 .. Len(more) : more[i] \notin Begin
            <6>1. ASSUME NEW i \in 1 .. Len(more) PROVE more[i] \notin Begin
              <7>1. i \in 1 .. r - (q + 1) + 1 /\ (q + 1) + i - 1 \in 1 .. Len(u)
                BY <1>1, <1>3, <3>2, <4>1
              <7> QED BY <4>1, <5>2, <7>1
            <6> QED BY <6>1
          <5>4. tracker_append(t, more).has_begin = t.has_begin
            BY <4>1, <4>3, <5>3, BeginRemembered
          <5> QED BY <4>2, <5>4 DEF t
        <4> QED BY <4>4, <4>5
      <3>7. PICK line \in BOOLEAN, multiline \in BOOLEAN :
                line = (u[r] \in Terminators) /\ multiline = TrackedAt(u, b, r).has_begin
        <4>1. TrackedAt(u, b, r).has_begin \in BOOLEAN
          BY <3>3 DEF Tracker
        <4>2. PICK line \in BOOLEAN : line = (u[r] \in Terminators)
          <5>1. CASE u[r] \in Terminators
            <6>1. TRUE = (u[r] \in Terminators)
              BY <5>1
            <6> QED BY <6>1
          <5>2. CASE u[r] \notin Terminators
            <6>1. FALSE = (u[r] \in Terminators)
              BY <5>2
            <6> QED BY <6>1
          <5> QED BY <5>1, <5>2
        <4>3. PICK multiline \in BOOLEAN : multiline = TrackedAt(u, b, r).has_begin
          BY <4>1
        <4> QED BY <4>2, <4>3
      <3>8. limit_reached(m, FALSE, multiline) \in {"TokenLimitExceeded", "MultilineLimitExceeded"}
        <4>1. LimitAt(u, b, q) = limit_reached(m, u[q] \in Terminators, multiline)
          BY <3>4, <3>6, <3>7 DEF LimitAt
        <4>2. (u[q] \in Terminators) = FALSE
          BY <3>1
        <4> QED BY <1>6, <4>1, <4>2
      <3>9. limit_reached(n, line, multiline) # "None"
        BY <3>5, <3>8, LimitStays
      <3> QED BY <3>4, <3>7, <3>9 DEF LimitAt
    <2> QED BY <1>1, <1>3, <2>1, <2>2
  <1>10. ~f[r].ok
    <2>1. Stepped(f[r], u, f[r - 1], r)
      BY <1>3, WalkProper
    <2>2. f[r] = [b EXCEPT !.ok = FALSE]
      BY <1>3, <1>5, <1>6, <1>9, <2>1 DEF Stepped
    <2> QED BY <1>8, <2>2 DEF Buffer
  <1>11. r \in 0 .. Len(u)
    BY <1>3
  <1> QED BY <1>10, <1>11, WalkRefuses

---------------------------------------------------------------------------
(* The session follows the walk of every text that begins as its own. *)

Extends(u, s) == \E v \in Seq(Lexeme) : u = s \o v
NoBegin(u) == \A i \in 1 .. Len(u) : u[i] \notin Begin
Refused(u) == \A f : Walk(f, u) => ~f[Len(u)].ok

\* The session is where the walk is that stands at b after position p of u.
Behind(b, u, p) == retained = UnitAt(u, b, p) /\ tracker = TrackedAt(u, b, p)

\* d is the text whose pieces the session has taken.
Walked(d) ==
    /\ d \in Seq(Lexeme) /\ source = d \o rest
    /\ \A u \in Seq(Lexeme) : Extends(u, source) =>
          \A f : Walk(f, u) => Behind(f[Len(d)], u, Len(d))

RefusalsStand ==
    error \in {"TokenLimitExceeded", "MultilineLimitExceeded"} =>
        \A u \in Seq(Lexeme) :
            Extends(u, source) /\ (error = "MultilineLimitExceeded" \/ NoBegin(u)) => Refused(u)

WalkInv ==
    /\ IInv /\ RefusalsStand
    /\ state = "Accepting" =>
          /\ error = "None" /\ tracker \in Tracker
          /\ multiline_detected = tracker.has_begin
          /\ \E d : Walked(d)

LEMMA ExtensionAt ==
    ASSUME NEW d \in Seq(Lexeme), NEW r \in Seq(Lexeme), NEW u, Extends(u, d \o r)
    PROVE  /\ Len(d) \in Nat /\ Len(r) \in Nat /\ Len(d) + Len(r) <= Len(u)
           /\ \A i \in 1 .. Len(r) : u[Len(d) + i] = r[i]
  <1> DEFINE s == d \o r
  <1>1. /\ s \in Seq(Lexeme) /\ Len(s) = Len(d) + Len(r)
        /\ \A i \in 1 .. Len(d) + Len(r) : s[i] = IF i <= Len(d) THEN d[i] ELSE r[i - Len(d)]
    BY ConcatProperties
  <1> HIDE DEF s
  <1>2. PICK v \in Seq(Lexeme) : u = s \o v
    BY DEF Extends, s
  <1>3. /\ Len(u) = Len(s) + Len(v)
        /\ \A i \in 1 .. Len(s) + Len(v) : u[i] = IF i <= Len(s) THEN s[i] ELSE v[i - Len(s)]
    <2> DEFINE w == s \o v
    <2>1. /\ Len(w) = Len(s) + Len(v)
          /\ \A i \in 1 .. Len(s) + Len(v) : w[i] = IF i <= Len(s) THEN s[i] ELSE v[i - Len(s)]
      <3>1. s \in Seq(Lexeme) /\ v \in Seq(Lexeme)
        BY <1>1
      <3> QED BY <3>1, ConcatProperties
    <2>2. u = w
      BY <1>2
    <2> HIDE DEF w
    <2> QED BY <2>1, <2>2
  <1>4. Len(d) \in Nat /\ Len(r) \in Nat /\ Len(v) \in Nat
    BY <1>2, LenProperties
  <1>5. ASSUME NEW i \in 1 .. Len(r) PROVE u[Len(d) + i] = r[i]
    <2>1. /\ Len(d) + i \in 1 .. Len(d) + Len(r) /\ Len(d) + i \in 1 .. Len(s) + Len(v)
          /\ Len(d) + i <= Len(s) /\ ~(Len(d) + i <= Len(d)) /\ (Len(d) + i) - Len(d) = i
      BY <1>1, <1>4
    <2> QED BY <1>1, <1>3, <2>1
  <1> QED BY <1>1, <1>3, <1>4, <1>5

LEMMA ExtendsMore ==
    ASSUME NEW s \in Seq(Lexeme), NEW c \in Seq(Lexeme), NEW u, Extends(u, s \o c)
    PROVE  Extends(u, s)
  <1>1. PICK v \in Seq(Lexeme) : u = (s \o c) \o v
    BY DEF Extends
  <1>2. c \o v \in Seq(Lexeme) /\ u = s \o (c \o v)
    BY <1>1, ConcatLexemes, ConcatProperties
  <1> QED BY <1>2 DEF Extends

\* What the session does with a piece is what the walk does at its last position.
LEMMA PieceWalked ==
    ASSUME WalkInv, NEW n \in 1 .. Len(rest), IsPiece(n), NEW d, Walked(d),
           NEW u \in Seq(Lexeme), Extends(u, source), NEW f, Walk(f, u),
           NEW p, p = Len(d), NEW q, q = p + n, NEW b, b = f[p]
    PROVE  /\ p \in 0 .. Len(u) /\ q \in 1 .. Len(u) /\ p < q /\ p \in Nat
           /\ \A i \in p + 1 .. q - 1 : ~PieceAt(u, i)
           /\ (PieceAt(u, q) \/ n = Len(rest)) /\ Proper(b, p) /\ Stepped(f[q], u, b, q)
           /\ UnitAt(u, b, q) = Unit(n) /\ TrackedAt(u, b, q) = Tracked(n)
           /\ LimitAt(u, b, q) = LimitReached(n) /\ ClosesAt(u, b, q) = UnitCloses(n)
           /\ Tracked(n) \in Tracker /\ MultilineDetected(n) = Tracked(n).has_begin
           /\ Unit(n) \in Seq(Lexeme) /\ (UnitCloses(n) => PieceAt(u, q))
  <1>1. /\ d \in Seq(Lexeme) /\ rest \in Seq(Lexeme) /\ source = d \o rest
        /\ retained \in Seq(Lexeme) /\ state = "Accepting"
    BY PieceProperties DEF Walked, WalkInv, IInv, TypeOK
  <1>2. tracker \in Tracker /\ multiline_detected = tracker.has_begin
    BY <1>1 DEF WalkInv
  <1>3. /\ Len(d) \in Nat /\ Len(rest) \in Nat /\ Len(d) + Len(rest) <= Len(u)
        /\ \A i \in 1 .. Len(rest) : u[Len(d) + i] = rest[i]
    BY <1>1, ExtensionAt
  <1>4. Len(u) \in Nat
    BY LenProperties
  <1>5. /\ p \in Nat /\ q \in Nat /\ p \in 0 .. Len(u) /\ q \in 1 .. Len(u) /\ q \in 0 .. Len(u)
        /\ p < q /\ n \in Nat
    BY <1>3, <1>4
  <1>6. u[q] = rest[n]
    BY <1>3
  <1>7. ASSUME NEW i \in p + 1 .. q - 1 PROVE ~PieceAt(u, i)
    <2>1. i - p \in 1 .. n - 1 /\ i - p \in 1 .. Len(rest) /\ p + (i - p) = i /\ i # Len(u)
      BY <1>3, <1>4, <1>5
    <2>2. u[i] = rest[i - p] /\ rest[i - p] \notin Terminators
      BY <1>3, <2>1 DEF IsPiece
    <2> QED BY <2>1, <2>2 DEF PieceAt
  <1>8. PieceAt(u, q) \/ n = Len(rest)
    BY <1>6 DEF IsPiece, PieceAt
  <1>9. Proper(b, p) /\ Behind(b, u, p)
    BY <1>5, WalkProper DEF Walked
  <1>10. /\ b \in Buffer /\ b.from \in Nat \ {0} /\ b.from <= p + 1 /\ b.retained \in Seq(Lexeme)
         /\ b.tracker \in Tracker
    BY <1>9 DEF Proper, Buffer
  <1>11. Stepped(f[q], u, b, q)
    <2>1. f[q - 1] = b
      <3>1. q - 1 \in 0 .. Len(u) /\ p <= q - 1
        BY <1>3, <1>4, <1>5
      <3> QED BY <1>5, <1>7, <3>1, WalkRests
    <2> QED BY <1>5, <2>1, WalkProper
  <1> DEFINE piece == Piece(n)
             seen == SubSeq(u, b.from, p)
             onward == SubSeq(u, p + 1, q)
             now == SubSeq(u, b.from, q)
  <1>12. piece \in Seq(Lexeme) /\ Len(piece) = n /\ \A i \in 1 .. n : piece[i] = rest[i]
    <2>1. n \in 0 .. Len(rest)
      BY <1>3
    <2> QED BY <1>1, <2>1, SplitAt DEF Piece
  <1>13. seen \in Seq(Lexeme) /\ retained = b.retained \o seen
           /\ tracker = tracker_append(b.tracker, seen)
    <2>1. seen \in Seq(Lexeme)
      BY <1>5, <1>10, SeenAt
    <2> QED BY <1>9, <2>1 DEF Behind, UnitAt, TrackedAt
  <1>14. onward = piece
    <2>1. PICK m \in Nat \ {0} : m = p + 1
      BY <1>5
    <2>2. m <= q + 1 /\ q <= Len(u)
      BY <1>5, <2>1
    <2>3. /\ SubSeq(u, m, q) \in Seq(Lexeme) /\ Len(SubSeq(u, m, q)) = q - m + 1
          /\ \A i \in 1 .. q - m + 1 : SubSeq(u, m, q)[i] = u[m + i - 1]
      BY <1>5, <2>2, SubSeqBetween
    <2>4. onward = SubSeq(u, m, q) /\ q - m + 1 = n
      BY <1>5, <2>1
    <2>5. ASSUME NEW i \in 1 .. n PROVE onward[i] = piece[i]
      <3>1. m + i - 1 = p + i /\ i \in 1 .. q - m + 1 /\ i \in 1 .. Len(rest)
        BY <1>3, <1>5, <2>1
      <3> HIDE DEF onward, piece
      <3> QED BY <1>3, <1>12, <2>3, <2>4, <3>1
    <2> HIDE DEF onward, piece
    <2> QED BY <1>12, <2>3, <2>4, <2>5, SeqEqual
  <1>15. seen \o piece = now
    <2>1. PICK m \in Nat \ {0} : m = b.from
      BY <1>10
    <2>2. m <= p + 1 /\ p <= q /\ q <= Len(u)
      BY <1>5, <1>10, <2>1
    <2>3. SubSeq(u, m, p) \o SubSeq(u, p + 1, q) = SubSeq(u, m, q)
      BY <1>5, <2>2, SubSeqJoins
    <2> HIDE DEF piece
    <2> QED BY <1>14, <2>1, <2>3
  <1> HIDE DEF onward
  <1>16. UnitAt(u, b, q) = Unit(n)
    <2>1. Unit(n) = (b.retained \o seen) \o piece
      BY <1>13 DEF Unit
    <2> HIDE DEF seen, piece, now
    <2>2. Unit(n) = b.retained \o now
      BY <1>10, <1>12, <1>13, <1>15, <2>1, ConcatLexemes
    <2> QED BY <2>2 DEF UnitAt, now
  <1>17. TrackedAt(u, b, q) = Tracked(n) /\ Tracked(n) \in Tracker
    <2>1. Tracked(n) = tracker_append(tracker, piece)
      BY DEF Tracked
    <2>2. TrackedAt(u, b, q) = tracker_append(b.tracker, now)
      BY DEF TrackedAt
    <2> HIDE DEF seen, piece, now
    <2>3. tracker_append(tracker_append(b.tracker, seen), piece)
            = tracker_append(b.tracker, seen \o piece)
      BY <1>10, <1>12, <1>13, TrackerAppendSplits
    <2>4. tracker_append(tracker, piece) \in Tracker
      BY <1>2, <1>12, TrackerAppendSplits
    <2> QED BY <1>13, <1>15, <2>1, <2>2, <2>3, <2>4
  <1>18. MultilineDetected(n) = Tracked(n).has_begin
    <2>1. tracker.has_begin => Tracked(n).has_begin
      <3> HIDE DEF piece
      <3>1. tracker.has_begin => tracker_append(tracker, piece).has_begin
        BY <1>2, <1>12, BeginRemembered
      <3> QED BY <3>1 DEF Tracked, piece
    <2>2. tracker.has_begin \in BOOLEAN /\ Tracked(n).has_begin \in BOOLEAN
      BY <1>2, <1>17 DEF Tracker
    <2> QED BY <1>2, <2>1, <2>2 DEF MultilineDetected
  <1>19. LimitAt(u, b, q) = LimitReached(n)
    BY <1>6, <1>16, <1>17, <1>18 DEF LimitAt, LimitReached, ClosesLine
  <1>20. ClosesAt(u, b, q) = UnitCloses(n)
    BY <1>6, <1>16, <1>17 DEF ClosesAt, UnitCloses, ClosesLine
  <1>21. Unit(n) \in Seq(Lexeme)
    BY PieceProperties DEF WalkInv
  <1>22. UnitCloses(n) => PieceAt(u, q)
    BY <1>6 DEF UnitCloses, closes_unit, ClosesLine, PieceAt
  <1> QED BY <1>5, <1>7, <1>8, <1>9, <1>11, <1>16, <1>17, <1>18, <1>19, <1>20, <1>21, <1>22

LEMMA InitWalked == Init => WalkInv
  <1> SUFFICES ASSUME Init PROVE WalkInv
    OBVIOUS
  <1>1. IInv
    BY InitEstablishes
  <1>2. /\ error = "None" /\ tracker = TrackerInit /\ multiline_detected = FALSE
        /\ source = <<>> /\ rest = <<>> /\ retained = <<>>
    BY DEF Init
  <1>3. RefusalsStand
    BY <1>2 DEF RefusalsStand
  <1>4. tracker \in Tracker /\ multiline_detected = tracker.has_begin
    BY <1>2, TrackerAppendNothing DEF TrackerInit
  <1>5. Walked(<<>>)
    <2>1. <<>> \in Seq(Lexeme) /\ <<>> \o <<>> = <<>> /\ Len(<<>>) = 0
      BY EmptySeq, ConcatEmptySeq
    <2>2. ASSUME NEW u \in Seq(Lexeme), NEW f, Walk(f, u)
          PROVE  Behind(f[0], u, 0)
      <3>1. f[0] = FreshBuffer
        <4>1. Len(u) \in Nat
          BY LenProperties
        <4> QED BY <2>2, <4>1, WalkAt
      <3>2. SubSeq(u, 1, 0) = <<>>
        BY SubSeqEmpty
      <3>3. UnitAt(u, FreshBuffer, 0) = <<>>
        BY <2>1, <3>2 DEF UnitAt, FreshBuffer
      <3>4. TrackedAt(u, FreshBuffer, 0) = TrackerInit
        BY <3>2, TrackerAppendNothing DEF TrackedAt, FreshBuffer
      <3> QED BY <1>2, <3>1, <3>3, <3>4 DEF Behind
    <2> QED BY <1>2, <2>1, <2>2 DEF Walked
  <1> QED BY <1>1, <1>2, <1>3, <1>4, <1>5 DEF WalkInv

\* A session that is over without a limit reached keeps the refusals it had.
LEMMA OverWalked ==
    ASSUME WalkInv, IInv', state' # "Accepting", UNCHANGED source,
           \/ error' = error
           \/ error' \notin {"TokenLimitExceeded", "MultilineLimitExceeded"}
    PROVE  WalkInv'
  <1>1. RefusalsStand'
    <2>1. CASE error' = error
      BY <2>1 DEF WalkInv, RefusalsStand
    <2>2. CASE error' \notin {"TokenLimitExceeded", "MultilineLimitExceeded"}
      BY <2>2 DEF RefusalsStand
    <2> QED BY <2>1, <2>2
  <1> QED BY <1>1 DEF WalkInv

LEMMA BeginWalked ==
    ASSUME WalkInv, NEW chunk \in Chunks, BeginAppend(chunk)
    PROVE  WalkInv'
  <1>1. IInv'
    BY BeginAppendPreserves DEF WalkInv
  <1>2. /\ state = "Accepting" /\ ~calling /\ rest' = chunk /\ source' = source \o chunk
        /\ UNCHANGED <<state, retained, tracker, multiline_detected, error>>
    BY DEF BeginAppend, require_accepting, buffer
  <1>3. chunk \in Seq(Lexeme) /\ rest = <<>> /\ source \in Seq(Lexeme)
    BY <1>2, TextChunks DEF WalkInv, IInv, TypeOK, Idle
  <1>4. error = "None" /\ tracker \in Tracker /\ multiline_detected = tracker.has_begin
    BY <1>2 DEF WalkInv
  <1>5. RefusalsStand'
    BY <1>2, <1>4 DEF RefusalsStand
  <1>6. PICK d : Walked(d)
    BY <1>2 DEF WalkInv
  <1>7. Walked(d)'
    <2>1. d \in Seq(Lexeme) /\ source = d
      BY <1>3, <1>6, ConcatEmptySeq DEF Walked
    <2>2. ASSUME NEW u \in Seq(Lexeme), Extends(u, source'), NEW f, Walk(f, u)
          PROVE  Behind(f[Len(d)], u, Len(d))'
      <3>1. Extends(u, source)
        BY <1>2, <1>3, <2>2, ExtendsMore
      <3>2. Behind(f[Len(d)], u, Len(d))
        BY <1>6, <2>2, <3>1 DEF Walked
      <3> QED BY <1>2, <3>2 DEF Behind
    <2> QED BY <1>2, <2>1, <2>2 DEF Walked
  <1> QED BY <1>1, <1>2, <1>4, <1>5, <1>7 DEF WalkInv

\* After a piece the session is with the walk of d and the piece, when it stands where the walk
\* does.
LEMMA PieceTaken ==
    ASSUME WalkInv, NEW n \in 1 .. Len(rest), IsPiece(n), NEW d, Walked(d),
           rest' = SubSeq(rest, n + 1, Len(rest)), source' = source,
           \A u \in Seq(Lexeme) : Extends(u, source) =>
              \A f : Walk(f, u) => Behind(f[Len(d) + n], u, Len(d) + n)'
    PROVE  \E e : Walked(e)'
  <1>1. d \in Seq(Lexeme) /\ rest \in Seq(Lexeme) /\ source = d \o rest /\ n \in 0 .. Len(rest)
    BY LenProperties DEF Walked, WalkInv, IInv, TypeOK
  <1>2. /\ Piece(n) \in Seq(Lexeme) /\ rest' \in Seq(Lexeme) /\ Piece(n) \o rest' = rest
        /\ Len(Piece(n)) = n
    BY <1>1, SplitAt DEF Piece
  <1>3. PICK c : c = Piece(n)
    OBVIOUS
  <1>4. PICK e : e = d \o c
    OBVIOUS
  <1>5. e \in Seq(Lexeme) /\ Len(e) = Len(d) + n
    BY <1>1, <1>2, <1>3, <1>4, ConcatProperties
  <1>6. source' = e \o rest'
    <2>1. PICK r : r = rest'
      OBVIOUS
    <2>2. d \in Seq(Lexeme) /\ c \in Seq(Lexeme) /\ r \in Seq(Lexeme) /\ c \o r = rest
      BY <1>1, <1>2, <1>3, <2>1
    <2>3. (d \o c) \o r = d \o (c \o r)
      BY <2>2, ConcatLexemes
    <2> QED BY <1>1, <1>4, <2>1, <2>2, <2>3
  <1>7. ASSUME NEW u \in Seq(Lexeme), Extends(u, source'), NEW f, Walk(f, u)
        PROVE  Behind(f[Len(e)], u, Len(e))'
    <2>1. Behind(f[Len(d) + n], u, Len(d) + n)'
      BY <1>7
    <2>2. Len(e) = Len(d) + n
      BY <1>5
    <2> QED BY <2>1, <2>2 DEF Behind
  <1>8. Walked(e)'
    BY <1>5, <1>6, <1>7 DEF Walked
  <1> QED BY <1>8

LEMMA RetainsWalked ==
    ASSUME WalkInv, NEW n \in 1 .. Len(rest), AppendRetains(n)
    PROVE  WalkInv'
  <1>1. IInv'
    BY AppendRetainsPreserves DEF WalkInv
  <1>2. /\ IsPiece(n) /\ LimitReached(n) = "None" /\ ~UnitCloses(n)
        /\ retained' = Unit(n) /\ tracker' = Tracked(n)
        /\ multiline_detected' = MultilineDetected(n)
        /\ rest' = SubSeq(rest, n + 1, Len(rest))
        /\ UNCHANGED <<state, source, error>>
    BY DEF AppendRetains
  <1>3. state = "Accepting"
    BY <1>2, PieceProperties DEF WalkInv
  <1>4. error = "None"
    BY <1>3 DEF WalkInv
  <1>5. PICK d : Walked(d)
    BY <1>3 DEF WalkInv
  <1>6. ASSUME NEW u \in Seq(Lexeme), Extends(u, source), NEW f, Walk(f, u)
        PROVE  /\ Behind(f[Len(d) + n], u, Len(d) + n)'
               /\ Tracked(n) \in Tracker /\ MultilineDetected(n) = Tracked(n).has_begin
    <2>1. PICK p, q, b : p = Len(d) /\ q = p + n /\ b = f[p]
      OBVIOUS
    <2>2. /\ q \in 1 .. Len(u) /\ p \in Nat /\ Proper(b, p) /\ Stepped(f[q], u, b, q)
          /\ UnitAt(u, b, q) = Unit(n) /\ TrackedAt(u, b, q) = Tracked(n)
          /\ LimitAt(u, b, q) = "None" /\ ~ClosesAt(u, b, q)
          /\ Tracked(n) \in Tracker /\ MultilineDetected(n) = Tracked(n).has_begin
          /\ Unit(n) \in Seq(Lexeme)
      BY <1>2, <1>5, <1>6, <2>1, PieceWalked
    <2>3. CASE ~PieceAt(u, q)
      <3>1. f[q] = b
        BY <2>2, <2>3 DEF Stepped
      <3>2. Behind(f[q], u, q)'
        BY <1>2, <2>2, <3>1 DEF Behind
      <3> QED BY <2>1, <2>2, <3>2
    <2>4. CASE PieceAt(u, q)
      <3> DEFINE w == UnitAt(u, b, q)
                 t == TrackedAt(u, b, q)
                 g == [retained |-> w, tracker |-> t, multiline |-> t.has_begin,
                       from |-> q + 1, ok |-> b.ok]
      <3>1. f[q] = g
        BY <2>2, <2>4 DEF Stepped
      <3>2. SubSeq(u, q + 1, q) = <<>>
        <4>1. PICK m \in Int, k \in Int : m = q + 1 /\ k = q
          BY <2>2
        <4>2. k < m
          BY <4>1
        <4>3. SubSeq(u, m, k) = <<>>
          BY <4>2, SubSeqEmpty
        <4> QED BY <4>1, <4>3
      <3>3. w \in Seq(Lexeme) /\ t \in Tracker
        BY <2>2
      <3> HIDE DEF w, t
      <3>4. UnitAt(u, g, q) = w
        <4>1. w \o <<>> = w
          BY <3>3, ConcatEmptySeq
        <4> QED BY <3>2, <4>1 DEF UnitAt
      <3>5. TrackedAt(u, g, q) = t
        BY <3>2, <3>3, TrackerUnmoved DEF TrackedAt
      <3> HIDE DEF g
      <3>6. Behind(f[q], u, q)'
        BY <1>2, <2>2, <3>1, <3>4, <3>5 DEF Behind, w, t
      <3> QED BY <2>1, <2>2, <3>6
    <2> QED BY <2>3, <2>4
  <1>7. \E e : Walked(e)'
    BY <1>2, <1>5, <1>6, PieceTaken
  <1>8. tracker' \in Tracker /\ multiline_detected' = tracker'.has_begin
    <2>1. source \in Seq(Lexeme) /\ Extends(source, source) /\ Len(source) \in Nat
      <3>1. source \in Seq(Lexeme)
        BY DEF WalkInv, IInv, TypeOK
      <3>2. <<>> \in Seq(Lexeme) /\ source = source \o <<>>
        BY <3>1, EmptySeq, ConcatEmptySeq
      <3> QED BY <3>1, <3>2, LenProperties DEF Extends
    <2>2. PICK f : Walk(f, source)
      BY <2>1, WalkExists
    <2> QED BY <1>2, <1>6, <2>1, <2>2
  <1>9. RefusalsStand'
    BY <1>2, <1>4 DEF RefusalsStand
  <1> QED BY <1>1, <1>2, <1>4, <1>7, <1>8, <1>9 DEF WalkInv

LEMMA ClosesWalked ==
    ASSUME WalkInv, NEW n \in 1 .. Len(rest), AppendClosesUnit(n)
    PROVE  WalkInv'
  <1>1. IInv'
    BY AppendClosesUnitPreserves DEF WalkInv
  <1>2. /\ IsPiece(n) /\ LimitReached(n) = "None" /\ UnitCloses(n)
        /\ retained' = <<>> /\ tracker' = TrackerInit /\ multiline_detected' = FALSE
        /\ rest' = SubSeq(rest, n + 1, Len(rest))
        /\ UNCHANGED <<state, source, error>>
    BY DEF AppendClosesUnit, process_unit, discard_retained
  <1>3. state = "Accepting"
    BY <1>2, PieceProperties DEF WalkInv
  <1>4. error = "None"
    BY <1>3 DEF WalkInv
  <1>5. PICK d : Walked(d)
    BY <1>3 DEF WalkInv
  <1>6. ASSUME NEW u \in Seq(Lexeme), Extends(u, source), NEW f, Walk(f, u)
        PROVE  Behind(f[Len(d) + n], u, Len(d) + n)'
    <2>1. PICK p, q, b : p = Len(d) /\ q = p + n /\ b = f[p]
      OBVIOUS
    <2>2. /\ q \in 1 .. Len(u) /\ p \in Nat /\ Stepped(f[q], u, b, q)
          /\ LimitAt(u, b, q) = "None" /\ ClosesAt(u, b, q) /\ PieceAt(u, q)
      BY <1>2, <1>5, <1>6, <2>1, PieceWalked
    <2>3. f[q] = [FreshBuffer EXCEPT !.from = q + 1, !.ok = b.ok]
      BY <2>2 DEF Stepped
    <2> DEFINE g == f[q]
    <2>4. g.retained = <<>> /\ g.tracker = TrackerInit /\ g.from = q + 1
      BY <2>3 DEF FreshBuffer
    <2>5. SubSeq(u, q + 1, q) = <<>>
      <3>1. PICK m \in Int, k \in Int : m = q + 1 /\ k = q
        BY <2>2
      <3>2. k < m
        BY <3>1
      <3>3. SubSeq(u, m, k) = <<>>
        BY <3>2, SubSeqEmpty
      <3> QED BY <3>1, <3>3
    <2> HIDE DEF g
    <2>6. UnitAt(u, g, q) = <<>>
      <3>1. <<>> \o <<>> = <<>>
        BY EmptySeq, ConcatEmptySeq
      <3> QED BY <2>4, <2>5, <3>1 DEF UnitAt
    <2>7. TrackedAt(u, g, q) = TrackerInit
      BY <2>4, <2>5, TrackerAppendNothing DEF TrackedAt
    <2>8. Behind(g, u, q)'
      BY <1>2, <2>6, <2>7 DEF Behind
    <2> QED BY <2>1, <2>8 DEF g
  <1>7. \E e : Walked(e)'
    BY <1>2, <1>5, <1>6, PieceTaken
  <1>8. tracker' \in Tracker /\ multiline_detected' = tracker'.has_begin
    BY <1>2, TrackerAppendNothing DEF TrackerInit
  <1>9. RefusalsStand'
    BY <1>2, <1>4 DEF RefusalsStand
  <1> QED BY <1>1, <1>2, <1>4, <1>7, <1>8, <1>9 DEF WalkInv

LEMMA LimitWalked ==
    ASSUME WalkInv, NEW n \in 1 .. Len(rest), AppendReachesLimit(n), IInv'
    PROVE  WalkInv'
  <1>1. /\ IsPiece(n) /\ error' = LimitReached(n) /\ state' = "Failed" /\ source' = source
    BY DEF AppendReachesLimit, fail_with
  <1>2. state = "Accepting"
    BY <1>1, PieceProperties DEF WalkInv
  <1>3. PICK d : Walked(d)
    BY <1>2 DEF WalkInv
  <1>4. ASSUME LimitReached(n) \in {"TokenLimitExceeded", "MultilineLimitExceeded"},
               NEW u \in Seq(Lexeme), Extends(u, source),
               LimitReached(n) = "MultilineLimitExceeded" \/ NoBegin(u),
               NEW f, Walk(f, u)
        PROVE  ~f[Len(u)].ok
    <2>1. PICK p, q, b : p = Len(d) /\ q = p + n /\ b = f[p]
      OBVIOUS
    <2>2. /\ p \in 0 .. Len(u) /\ q \in 1 .. Len(u) /\ p < q
          /\ \A i \in p + 1 .. q - 1 : ~PieceAt(u, i)
          /\ LimitAt(u, b, q) = LimitReached(n)
      BY <1>1, <1>3, <1>4, <2>1, PieceWalked
    <2>3. /\ LimitAt(u, f[p], q) \in {"TokenLimitExceeded", "MultilineLimitExceeded"}
          /\ \/ LimitAt(u, f[p], q) = "MultilineLimitExceeded"
             \/ \A i \in 1 .. Len(u) : u[i] \notin Begin
      BY <1>4, <2>1, <2>2 DEF NoBegin
    <2> QED BY <1>4, <2>2, <2>3, RefusalStands
  <1>5. RefusalsStand'
    <2>1. ASSUME LimitReached(n) \in {"TokenLimitExceeded", "MultilineLimitExceeded"},
                 NEW u \in Seq(Lexeme), Extends(u, source),
                 LimitReached(n) = "MultilineLimitExceeded" \/ NoBegin(u)
          PROVE  Refused(u)
      BY <1>4, <2>1 DEF Refused
    <2> QED BY <1>1, <2>1 DEF RefusalsStand
  <1> QED BY <1>1, <1>5 DEF WalkInv

LEMMA UnmovedWalked ==
    ASSUME WalkInv, IInv',
           UNCHANGED <<state, retained, tracker, multiline_detected, rest, source>>,
           error' = error \/ error' \in {"None", "InvalidState"},
           state = "Accepting" => error' = "None" \/ error' = error
    PROVE  WalkInv'
  <1>1. RefusalsStand'
    <2>1. CASE error' = error
      BY <2>1 DEF WalkInv, RefusalsStand
    <2>2. CASE error' \in {"None", "InvalidState"}
      BY <2>2 DEF RefusalsStand
    <2> QED BY <2>1, <2>2
  <1>2. ASSUME NEW d, Walked(d) PROVE Walked(d)'
    BY <1>2 DEF Walked, Behind
  <1>3. ASSUME state' = "Accepting"
        PROVE  /\ error' = "None" /\ tracker' \in Tracker
               /\ multiline_detected' = tracker'.has_begin
               /\ \E d : Walked(d)'
    <2>1. /\ error = "None" /\ tracker \in Tracker /\ multiline_detected = tracker.has_begin
          /\ \E d : Walked(d)
      BY <1>3 DEF WalkInv
    <2> QED BY <1>2, <1>3, <2>1
  <1> QED BY <1>1, <1>3 DEF WalkInv

LEMMA NextWalked ==
    ASSUME WalkInv, [Next]_vars
    PROVE  WalkInv'
  <1>1. IInv /\ IInv'
    BY NextPreserves DEF WalkInv
  <1>2. ASSUME NEW chunk \in Chunks, AppendRefused(chunk)
        PROVE  WalkInv'
    BY <1>1, <1>2, OverWalked DEF AppendRefused, fail_with
  <1>3. ASSUME NEW chunk \in Chunks, BeginAppend(chunk)
        PROVE  WalkInv'
    BY <1>3, BeginWalked
  <1>4. ASSUME NEW n \in 1 .. Len(rest), AppendReachesLimit(n)
        PROVE  WalkInv'
    BY <1>1, <1>4, LimitWalked
  <1>5. ASSUME NEW n \in 1 .. Len(rest), AppendRetains(n)
        PROVE  WalkInv'
    BY <1>5, RetainsWalked
  <1>6. ASSUME NEW n \in 1 .. Len(rest), AppendClosesUnit(n)
        PROVE  WalkInv'
    BY <1>6, ClosesWalked
  <1>7. ASSUME NEW n \in 1 .. Len(rest), AppendFailsUnit(n)
        PROVE  WalkInv'
    BY <1>1, <1>7, OverWalked DEF AppendFailsUnit, process_unit_fails, fail_with, UnitErrors
  <1>8. ASSUME ReturnAppend PROVE WalkInv'
    <2>1. rest' = rest /\ error' = "None"
            /\ UNCHANGED <<state, retained, tracker, multiline_detected, source>>
      BY <1>8 DEF ReturnAppend, leave_call, buffer
    <2> QED BY <1>1, <2>1, UnmovedWalked
  <1>9. ASSUME Finalize PROVE WalkInv'
    BY <1>1, <1>9, OverWalked DEF Finalize
  <1>10. ASSUME FinalizeFails PROVE WalkInv'
    BY <1>1, <1>10, OverWalked DEF FinalizeFails, process_unit_fails, fail_with, UnitErrors
  <1>11. ASSUME Abort PROVE WalkInv'
    BY <1>1, <1>11, OverWalked DEF Abort
  <1>12. ASSUME RefusedCall PROVE WalkInv'
    <2>1. /\ state # "Accepting" /\ error' = "InvalidState"
          /\ UNCHANGED <<state, retained, tracker, multiline_detected, rest, source>>
      BY <1>12 DEF RefusedCall, buffer, frame
    <2> QED BY <1>1, <2>1, UnmovedWalked
  <1>13. ASSUME UNCHANGED vars PROVE WalkInv'
    <2>1. UNCHANGED <<state, retained, tracker, multiline_detected, rest, source, error>>
      BY <1>13 DEF vars, buffer, frame
    <2> QED BY <1>1, <2>1, UnmovedWalked
  <1> QED
    BY <1>2, <1>3, <1>4, <1>5, <1>6, <1>7, <1>8, <1>9, <1>10, <1>11, <1>12, <1>13 DEF Next

\* What a refusal says of one append of the text and more.
LEMMA RefusedAtOnce ==
    ASSUME WalkInv, error \in {"TokenLimitExceeded", "MultilineLimitExceeded"},
           NEW more \in Chunks, error = "MultilineLimitExceeded" \/ NoBegin(source \o more)
    PROVE  ~AcceptedAtOnce(source \o more)
  <1>1. more \in Seq(Lexeme) /\ source \in Seq(Lexeme)
    BY TextChunks DEF WalkInv, IInv, TypeOK
  <1>2. PICK u : u = source \o more
    OBVIOUS
  <1>3. u \in Seq(Lexeme) /\ Extends(u, source)
    BY <1>1, <1>2, ConcatProperties DEF Extends
  <1>4. Len(u) \in Nat
    BY <1>3, LenProperties
  <1>5. PICK f : Walk(f, u)
    BY <1>4, WalkExists
  <1>6. Refused(u)
    BY <1>2, <1>3 DEF WalkInv, RefusalsStand
  <1>7. ~f[Len(u)].ok
    BY <1>5, <1>6 DEF Refused
  <1> QED BY <1>2, <1>4, <1>5, <1>7, AcceptedIs

\* A text that a token or multiline limit refused in pieces is refused in one append too, whatever
\* follows it (append_retained), over an alphabet without BEGIN delimiters: one that is still to
\* come gives its line more room.
THEOREM RefusalStandsAtOnce ==
    ASSUME Lexeme \cap Begin = {}
    PROVE  Spec => []LimitRefusalStands
  <1>1. Init => WalkInv
    BY InitWalked
  <1>2. WalkInv /\ [Next]_vars => WalkInv'
    BY NextWalked
  <1>3. WalkInv => LimitRefusalStands
    <2> SUFFICES ASSUME WalkInv, error \in {"TokenLimitExceeded", "MultilineLimitExceeded"},
                        NEW more \in Chunks
                 PROVE  ~AcceptedAtOnce(source \o more)
      BY DEF LimitRefusalStands
    <2>1. source \o more \in Seq(Lexeme)
      <3>1. more \in Seq(Lexeme) /\ source \in Seq(Lexeme)
        BY TextChunks DEF WalkInv, IInv, TypeOK
      <3> QED BY <3>1, ConcatProperties
    <2>2. NoBegin(source \o more)
      <3> DEFINE u == source \o more
      <3> HIDE DEF u
      <3>1. \A i \in 1 .. Len(u) : u[i] \in Lexeme
        BY <2>1, ElementOfSeq DEF u
      <3>2. NoBegin(u)
        BY <3>1 DEF NoBegin
      <3> QED BY <3>2 DEF u
    <2> QED BY <2>2, RefusedAtOnce
  <1> QED BY <1>1, <1>2, <1>3, PTL DEF Spec

\* A text that the multiline limit refused in pieces is refused in one append too, whatever
\* follows it, over every alphabet: the memory of a BEGIN is not lost before its unit ends.
THEOREM MultilineRefusalStands ==
    Spec => [](error = "MultilineLimitExceeded" =>
                  \A more \in Chunks : ~AcceptedAtOnce(source \o more))
  <1>1. Init => WalkInv
    BY InitWalked
  <1>2. WalkInv /\ [Next]_vars => WalkInv'
    BY NextWalked
  <1>3. WalkInv => (error = "MultilineLimitExceeded" =>
                       \A more \in Chunks : ~AcceptedAtOnce(source \o more))
    BY RefusedAtOnce
  <1> QED BY <1>1, <1>2, <1>3, PTL DEF Spec

---------------------------------------------------------------------------
(* SortedBy enumerates a finite set in a strict order. *)

\* The set of pairs `before` puts the elements of S in a strict order.
Irreflexive(S, before) == \A x \in S : <<x, x>> \notin before
Transitive(S, before) ==
    \A x, y, z \in S : <<x, y>> \in before /\ <<y, z>> \in before => <<x, z>> \in before
Total(S, before) == \A x, y \in S : x = y \/ <<x, y>> \in before \/ <<y, x>> \in before
StrictOrder(S, before) == Irreflexive(S, before) /\ Transitive(S, before) /\ Total(S, before)

\* s lists the elements of S, each once, in the order of `before`.
Lists(s, S, before) ==
    /\ s \in [1 .. Cardinality(S) -> S]
    /\ \A x \in S : \E k \in 1 .. Cardinality(S) : s[k] = x
    /\ \A j, k \in 1 .. Cardinality(S) : j < k <=> <<s[j], s[k]>> \in before

LEMMA SortedByLists ==
    ASSUME NEW S, IsFiniteSet(S), NEW before, StrictOrder(S, before)
    PROVE  /\ Cardinality(S) \in Nat
           /\ Lists(SortedBy(S, before), S, before)
  <1> DEFINE n == Cardinality(S)
             Below(x) == {y \in S : <<y, x>> \in before}
             rank == [x \in S |-> Cardinality(Below(x))]
             s == SortedBy(S, before)
  <1>1. n \in Nat
    BY FS_CardinalityType
  <1>2. ASSUME NEW x \in S
        PROVE  IsFiniteSet(Below(x)) /\ rank[x] \in 0 .. n - 1
    <2>1. Below(x) \in SUBSET S /\ x \notin Below(x)
      BY DEF StrictOrder, Irreflexive
    <2> DEFINE B == Below(x)
    <2> HIDE DEF B
    <2>2. B \in SUBSET S /\ x \notin B
      BY <2>1 DEF B
    <2>3. IsFiniteSet(B) /\ Cardinality(B) <= Cardinality(S) /\ (Cardinality(S) = Cardinality(B) => S = B)
      BY <2>2, FS_Subset
    <2>4. Cardinality(B) \in Nat
      BY <2>3, FS_CardinalityType
    <2>5. Cardinality(B) # Cardinality(S)
      BY <2>2, <2>3
    <2>6. Cardinality(B) \in 0 .. n - 1
      BY <1>1, <2>3, <2>4, <2>5
    <2> QED BY <2>3, <2>6 DEF B
  <1>3. ASSUME NEW x \in S, NEW y \in S, <<x, y>> \in before
        PROVE  rank[x] < rank[y]
    <2> DEFINE A == Below(x)
               B == Below(y)
    <2>1. A \subseteq B
      BY <1>3 DEF StrictOrder, Transitive
    <2>2. x \in B /\ x \notin A
      BY <1>3 DEF StrictOrder, Irreflexive
    <2>3. IsFiniteSet(B) /\ rank[x] \in 0 .. n - 1 /\ rank[y] \in 0 .. n - 1
      BY <1>2
    <2>4. rank[x] = Cardinality(A) /\ rank[y] = Cardinality(B)
      OBVIOUS
    <2> HIDE DEF A, B
    <2>5. Cardinality(A) <= Cardinality(B) /\ Cardinality(B) # Cardinality(A)
      BY <2>1, <2>2, <2>3, FS_Subset
    <2> HIDE DEF rank
    <2> QED BY <1>1, <2>3, <2>4, <2>5
  <1> HIDE DEF n
  <1>4. rank \in [S -> 0 .. n - 1]
    BY <1>2
  <1>5. ASSUME NEW x \in S, NEW y \in S, rank[x] = rank[y] PROVE x = y
    <2>1. x = y \/ <<x, y>> \in before \/ <<y, x>> \in before
      BY DEF StrictOrder, Total
    <2>2. rank[x] \in 0 .. n - 1 /\ rank[y] \in 0 .. n - 1
      BY <1>4
    <2>3. ~(rank[x] < rank[y]) /\ ~(rank[y] < rank[x])
      BY <1>5, <2>2, <1>1
    <2> HIDE DEF rank
    <2> QED BY <1>3, <2>1, <2>3
  <1>6. \A k \in 0 .. n - 1 : \E x \in S : rank[x] = k
    <2> DEFINE T == 0 .. n - 1
    <2>1. IsFiniteSet(T) /\ Cardinality(T) = n
      <3>1. 0 \in Int /\ n - 1 \in Int
        BY <1>1
      <3>2. IsFiniteSet(T) /\ Cardinality(T) = IF 0 > n - 1 THEN 0 ELSE n - 1 - 0 + 1
        BY <3>1, FS_Interval
      <3> QED BY <1>1, <3>2
    <2> HIDE DEF T, rank
    <2>2. rank \in [S -> T]
      BY <1>4 DEF T
    <2>3. rank \in Injection(S, T)
      <3>1. DOMAIN rank = S
        BY <2>2
      <3> QED BY <1>5, <2>2, <3>1 DEF Injection, IsInjective
    <2>4. rank \in Surjection(S, T)
      BY <2>1, <2>3, FS_Injection DEF n
    <2> QED BY <2>4 DEF Surjection, T
  <1>7. s = [k \in 1 .. n |->
               CHOOSE x \in S : Cardinality({y \in S : <<y, x>> \in before}) = k - 1]
    BY DEF SortedBy, n
  <1>8. ASSUME NEW k \in 1 .. n PROVE s[k] \in S /\ rank[s[k]] = k - 1
    <2>1. k - 1 \in 0 .. n - 1
      BY <1>1
    <2>2. PICK x \in S : rank[x] = k - 1
      BY <1>6, <2>1
    <2>3. s[k] = CHOOSE z \in S : Cardinality({y \in S : <<y, z>> \in before}) = k - 1
      <3> HIDE DEF s
      <3> QED BY <1>7
    <2>4. \A z \in S : rank[z] = Cardinality({y \in S : <<y, z>> \in before})
      OBVIOUS
    <2> HIDE DEF rank, s
    <2> QED BY <2>2, <2>3, <2>4
  <1>9. s \in [1 .. n -> S]
    <2> HIDE DEF rank, s
    <2> QED BY <1>7, <1>8
  <1> HIDE DEF rank, s
  <1>10. ASSUME NEW x \in S PROVE \E k \in 1 .. n : s[k] = x
    <2> DEFINE k == rank[x] + 1
    <2>1. rank[x] \in 0 .. n - 1
      BY <1>4
    <2>2. k \in 1 .. n /\ k - 1 = rank[x]
      BY <1>1, <2>1
    <2> HIDE DEF k
    <2>3. s[k] \in S /\ rank[s[k]] = rank[x]
      BY <1>8, <2>2
    <2>4. s[k] = x
      BY <1>5, <2>3
    <2> QED BY <2>2, <2>4
  <1>11. ASSUME NEW j \in 1 .. n, NEW k \in 1 .. n PROVE j < k <=> <<s[j], s[k]>> \in before
    <2>1. /\ s[j] \in S /\ rank[s[j]] = j - 1
          /\ s[k] \in S /\ rank[s[k]] = k - 1
      BY <1>8
    <2>2. ASSUME <<s[j], s[k]>> \in before PROVE j < k
      <3>1. j - 1 < k - 1
        BY <1>3, <2>1, <2>2
      <3> QED BY <1>1, <3>1
    <2>3. ASSUME j < k PROVE <<s[j], s[k]>> \in before
      <3>1. s[j] # s[k]
        <4>1. j - 1 # k - 1
          BY <1>1, <2>3
        <4> QED BY <2>1, <4>1
      <3>2. ~(<<s[k], s[j]>> \in before)
        <4>1. SUFFICES ASSUME <<s[k], s[j]>> \in before PROVE FALSE
          OBVIOUS
        <4>2. k - 1 < j - 1
          BY <1>3, <2>1, <4>1
        <4> QED BY <1>1, <2>3, <4>2
      <3> QED BY <2>1, <3>1, <3>2 DEF StrictOrder, Total
    <2> QED BY <2>2, <2>3
  <1> QED BY <1>1, <1>9, <1>10, <1>11 DEF Lists, n, s

\* A set has one listing in the order of its starts.
Increasing(s, K) ==
    /\ s \in Seq(K)
    /\ \A x \in K : \E k \in 1 .. Len(s) : s[k] = x
    /\ \A j, k \in 1 .. Len(s) : j < k => s[j].start < s[k].start

LEMMA IncreasingUnique ==
    ASSUME NEW K, \A x \in K : x.start \in Int,
           NEW s, NEW t, Increasing(s, K), Increasing(t, K)
    PROVE  s = t
  <1> DEFINE m == Len(s)
             n == Len(t)
             Agree(k) == k \in 1 .. m /\ k \in 1 .. n /\ s[k] = t[k]
             Differ == {k \in Nat : (k \in 1 .. m \/ k \in 1 .. n) /\ ~Agree(k)}
  <1>1. /\ s \in Seq(K) /\ m \in Nat /\ t \in Seq(K) /\ n \in Nat
        /\ \A k \in 1 .. m : s[k] \in K /\ s[k].start \in Int
        /\ \A k \in 1 .. n : t[k] \in K /\ t[k].start \in Int
    BY LenProperties, ElementOfSeq DEF Increasing
  <1>2. ASSUME Differ # {} PROVE FALSE
    <2>1. PICK k \in Differ : \A i \in Differ : k <= i
      <3>1. Differ \subseteq Nat
        OBVIOUS
      <3> HIDE DEF Differ
      <3> QED BY <1>2, <3>1, LeastElement
    <2>2. k \in Nat /\ (k \in 1 .. m \/ k \in 1 .. n) /\ ~Agree(k)
      BY <2>1
    <2>3. ASSUME NEW i \in 1 .. k - 1 PROVE i \in 1 .. m /\ i \in 1 .. n /\ s[i] = t[i]
      <3>1. i \notin Differ
        BY <2>1, <2>2
      <3>2. i \in Nat /\ (i \in 1 .. m \/ i \in 1 .. n)
        BY <1>1, <2>2
      <3> QED BY <3>1, <3>2
    <2>4. ASSUME NEW a, NEW b, NEW p \in Nat, NEW q \in Nat, k \in 1 .. p,
                 \A i \in 1 .. k - 1 : i \in 1 .. p /\ i \in 1 .. q /\ a[i] = b[i],
                 \A i \in 1 .. p : a[i] \in K /\ a[i].start \in Int,
                 \A x \in K : \E i \in 1 .. q : b[i] = x,
                 \A i, j \in 1 .. p : i < j => a[i].start < a[j].start
          PROVE  \E j \in 1 .. q : j >= k /\ b[j] = a[k]
      <3>1. PICK j \in 1 .. q : b[j] = a[k]
        BY <2>4
      <3>2. ASSUME j < k PROVE FALSE
        <4>1. j \in 1 .. k - 1 /\ j \in 1 .. p
          BY <2>2, <2>4, <3>2
        <4>2. a[j] = a[k]
          BY <2>4, <3>1, <4>1
        <4>3. a[j].start < a[k].start
          BY <2>4, <3>2, <4>1
        <4>4. a[k].start \in Int
          BY <2>4
        <4> QED BY <4>2, <4>3, <4>4
      <3>3. j >= k
        BY <2>2, <3>2
      <3> QED BY <3>1, <3>3
    <2>5. k \in 1 .. m => \E j \in 1 .. n : j >= k /\ t[j] = s[k]
      <3>1. /\ \A i \in 1 .. k - 1 : i \in 1 .. m /\ i \in 1 .. n /\ s[i] = t[i]
            /\ \A x \in K : \E i \in 1 .. n : t[i] = x
            /\ \A i, j \in 1 .. m : i < j => s[i].start < s[j].start
        BY <2>3 DEF Increasing
      <3> HIDE DEF m, n
      <3> QED BY <1>1, <2>4, <3>1
    <2>6. k \in 1 .. n => \E j \in 1 .. m : j >= k /\ s[j] = t[k]
      <3>1. /\ \A i \in 1 .. k - 1 : i \in 1 .. n /\ i \in 1 .. m /\ t[i] = s[i]
            /\ \A x \in K : \E i \in 1 .. m : s[i] = x
            /\ \A i, j \in 1 .. n : i < j => t[i].start < t[j].start
        BY <2>3 DEF Increasing
      <3> HIDE DEF m, n
      <3> QED BY <1>1, <2>4, <3>1
    <2>7. k \in 1 .. m /\ k \in 1 .. n
      <3> HIDE DEF m, n
      <3>1. k \in 1 .. m => k \in 1 .. n
        BY <1>1, <2>2, <2>5
      <3>2. k \in 1 .. n => k \in 1 .. m
        BY <1>1, <2>2, <2>6
      <3> QED BY <2>2, <3>1, <3>2
    <2>8. PICK j \in 1 .. n : j >= k /\ t[j] = s[k]
      BY <2>5, <2>7
    <2>9. PICK i \in 1 .. m : i >= k /\ s[i] = t[k]
      BY <2>6, <2>7
    <2>10. s[k] # t[k]
      BY <2>2, <2>7
    <2>11. j > k /\ i > k
      <3>1. j # k /\ i # k
        BY <2>8, <2>9, <2>10
      <3> QED BY <1>1, <2>2, <2>8, <2>9, <3>1
    <2>12. t[k].start < t[j].start /\ s[k].start < s[i].start
      BY <2>7, <2>11 DEF Increasing
    <2>13. t[k].start < s[k].start /\ s[k].start < t[k].start
      BY <2>8, <2>9, <2>12
    <2>14. t[k].start \in Int /\ s[k].start \in Int
      BY <1>1, <2>7
    <2> QED BY <2>13, <2>14
  <1>3. \A k \in Nat : (k \in 1 .. m \/ k \in 1 .. n) => Agree(k)
    BY <1>2
  <1> HIDE DEF m, n
  <1>4. m = n
    <2>1. \A k \in Nat : (k \in 1 .. m \/ k \in 1 .. n) => k \in 1 .. m /\ k \in 1 .. n
      BY <1>3
    <2>2. CASE m < n
      <3>1. n \in 1 .. n /\ n \in Nat
        BY <1>1, <2>2
      <3>2. n \in 1 .. m
        BY <2>1, <3>1
      <3> QED BY <1>1, <2>2, <3>2
    <2>3. CASE n < m
      <3>1. m \in 1 .. m /\ m \in Nat
        BY <1>1, <2>3
      <3>2. m \in 1 .. n
        BY <2>1, <3>1
      <3> QED BY <1>1, <2>3, <3>2
    <2> QED BY <1>1, <2>2, <2>3
  <1>5. \A k \in 1 .. m : s[k] = t[k]
    BY <1>1, <1>3
  <1> QED BY <1>1, <1>4, <1>5, SeqEqual DEF m, n

---------------------------------------------------------------------------
(* Greedy acceptance keeps the candidates that no better kept one overlaps. *)

Spans(C) == \A c \in C : c.start \in Int /\ c.end \in Int /\ c.start < c.end
Overlap(a, b) == a.start < b.end /\ b.start < a.end
Disjoint(A) == \A a, b \in A : a = b \/ ~Overlap(a, b)
Clashes(A, c) == \E a \in A : Overlap(a, c)

\* The nearest accepted span below a candidate overlaps it when any does.
LEMMA TryAcceptIs ==
    ASSUME NEW A, NEW c, Spans(A), Disjoint(A),
           c.start \in Int, c.end \in Int, c.start < c.end
    PROVE  try_accept(A, c) = IF Clashes(A, c) THEN A ELSE A \cup {c}
  <1> DEFINE below == {a \in A : a.start < c.end}
             nearest == CHOOSE a \in below : \A b \in below : b.start <= a.start
  <1>1. \A a \in A : a.start \in Int /\ a.end \in Int /\ a.start < a.end
    BY DEF Spans
  <1>2. try_accept(A, c) = IF below # {} /\ nearest.end > c.start THEN A ELSE A \cup {c}
    BY DEF try_accept
  <1>3. below # {} => nearest \in below /\ \A b \in below : b.start <= nearest.start
    <2> SUFFICES ASSUME below # {} PROVE \E a \in below : \A b \in below : b.start <= a.start
      OBVIOUS
    <2> DEFINE gaps == {c.end - a.start : a \in below}
    <2>1. gaps \subseteq Nat
      <3>1. ASSUME NEW a \in below PROVE c.end - a.start \in Nat
        <4>1. a.start \in Int /\ a.start < c.end
          BY <1>1
        <4> QED BY <4>1
      <3> QED BY <3>1
    <2>2. gaps # {}
      OBVIOUS
    <2>3. PICK g \in gaps : \A h \in gaps : g <= h
      <3> HIDE DEF gaps
      <3> QED BY <2>1, <2>2, LeastElement
    <2>4. PICK a \in below : g = c.end - a.start
      BY <2>3
    <2>5. ASSUME NEW b \in below PROVE b.start <= a.start
      <3>1. c.end - b.start \in gaps
        OBVIOUS
      <3>2. c.end - a.start <= c.end - b.start
        BY <2>3, <2>4, <3>1
      <3>3. a.start \in Int /\ b.start \in Int
        BY <1>1
      <3> QED BY <3>2, <3>3
    <2> QED BY <2>5
  <1> HIDE DEF nearest
  <1>4. ASSUME below # {}, nearest.end > c.start PROVE Clashes(A, c)
    <2>1. nearest \in A /\ nearest.start < c.end
      BY <1>3, <1>4
    <2>2. nearest.end \in Int
      BY <1>1, <2>1
    <2> QED BY <1>4, <2>1, <2>2 DEF Clashes, Overlap
  <1>5. ASSUME Clashes(A, c) PROVE below # {} /\ nearest.end > c.start
    <2>1. PICK b \in A : b.start < c.end /\ c.start < b.end
      BY <1>5 DEF Clashes, Overlap
    <2>2. b \in below
      BY <2>1
    <2>3. nearest \in A /\ b.start <= nearest.start
      BY <1>3, <2>2
    <2>4. /\ b.start \in Int /\ b.end \in Int /\ b.start < b.end
          /\ nearest.start \in Int /\ nearest.end \in Int /\ nearest.start < nearest.end
      BY <1>1, <2>3
    <2>5. CASE nearest = b
      BY <2>1, <2>2, <2>4, <2>5
    <2>6. CASE nearest # b
      <3>1. ~Overlap(nearest, b)
        BY <2>3, <2>6 DEF Disjoint
      <3>2. ~(nearest.start < b.end) \/ ~(b.start < nearest.end)
        BY <3>1 DEF Overlap
      <3>3. nearest.end > c.start
        BY <2>1, <2>3, <2>4, <3>2
      <3> QED BY <2>2, <3>3
    <2> QED BY <2>5, <2>6
  <1> QED BY <1>2, <1>4, <1>5

\* K is what is kept of C when the better of two overlapping candidates wins.
Kernel(K, C) ==
    /\ K \subseteq C
    /\ \A c \in C : c \in K <=> ~\E a \in K : priority(a, c) /\ Overlap(a, c)

ByPriority(C) == {p \in C \X C : priority(p[1], p[2])}
ByStart(K) == {p \in K \X K : p[1].start < p[2].start}

\* f gives what is accepted after each of the ranked candidates.
Accepts(f, ranked, n) ==
    f = [k \in 0 .. n |-> IF k = 0 THEN {} ELSE try_accept(f[k - 1], ranked[k])]

LEMMA AcceptsExists ==
    ASSUME NEW ranked, NEW n \in Nat
    PROVE  \E f : Accepts(f, ranked, n)
  <1> DEFINE Without == {k \in 0 .. n : ~\E f : Accepts(f, ranked, k)}
  <1>1. Accepts([k \in 0 .. 0 |-> {}], ranked, 0)
    BY DEF Accepts
  <1>2. ASSUME NEW k \in 1 .. n, NEW f, Accepts(f, ranked, k - 1)
        PROVE  \E g : Accepts(g, ranked, k)
    <2> DEFINE g == [i \in 0 .. k |-> IF i < k THEN f[i] ELSE try_accept(f[k - 1], ranked[k])]
    <2>1. ASSUME NEW i \in 0 .. k
          PROVE  g[i] = IF i = 0 THEN {} ELSE try_accept(g[i - 1], ranked[i])
      <3>1. CASE i < k
        <4>1. i \in 0 .. k - 1
          BY <3>1
        <4>2. f[i] = IF i = 0 THEN {} ELSE try_accept(f[i - 1], ranked[i])
          BY <1>2, <4>1 DEF Accepts
        <4>3. i # 0 => g[i - 1] = f[i - 1]
          BY <3>1
        <4>4. g[i] = f[i]
          BY <3>1
        <4> HIDE DEF g
        <4> QED BY <4>2, <4>3, <4>4
      <3>2. CASE i = k
        <4>1. g[i - 1] = f[k - 1]
          BY <3>2
        <4>2. g[i] = try_accept(f[k - 1], ranked[k])
          BY <3>2
        <4> HIDE DEF g
        <4> QED BY <3>2, <4>1, <4>2
      <3> HIDE DEF g
      <3> QED BY <3>1, <3>2
    <2>2. g = [i \in 0 .. k |-> g[i]]
      OBVIOUS
    <2> HIDE DEF g
    <2>3. g = [i \in 0 .. k |-> IF i = 0 THEN {} ELSE try_accept(g[i - 1], ranked[i])]
      BY <2>1, <2>2
    <2> QED BY <2>3 DEF Accepts
  <1>3. SUFFICES ASSUME Without # {} PROVE FALSE
    OBVIOUS
  <1>4. PICK k \in Without : \A m \in Without : k <= m
    <2>1. Without \subseteq Nat
      OBVIOUS
    <2> HIDE DEF Without
    <2> QED BY <1>3, <2>1, LeastElement
  <1>5. k \in 1 .. n /\ k - 1 \notin Without /\ k - 1 \in 0 .. n
    BY <1>1, <1>4
  <1>6. PICK f : Accepts(f, ranked, k - 1)
    BY <1>5
  <1> QED BY <1>2, <1>4, <1>5, <1>6

LEMMA AcceptsAt ==
    ASSUME NEW ranked, NEW n \in Nat, NEW f, Accepts(f, ranked, n)
    PROVE  f[0] = {} /\ \A i \in 1 .. n : f[i] = try_accept(f[i - 1], ranked[i])
  <1> DEFINE at(k) == IF k = 0 THEN {} ELSE try_accept(f[k - 1], ranked[k])
  <1>1. f = [k \in 0 .. n |-> at(k)]
    BY DEF Accepts
  <1> HIDE DEF at
  <1>2. \A k \in 0 .. n : f[k] = at(k)
    BY <1>1
  <1> QED BY <1>2 DEF at

\* What is accepted of the first k ranked candidates.
AcceptedUpto(A, ranked, k) ==
    /\ A \subseteq {ranked[i] : i \in 1 .. k}
    /\ Disjoint(A)
    /\ \A j \in 1 .. k :
          ranked[j] \in A <=> ~\E i \in 1 .. (j - 1) : ranked[i] \in A /\ Overlap(ranked[i], ranked[j])

LEMMA AcceptedNext ==
    ASSUME NEW C, Spans(C), NEW n \in Nat, NEW ranked \in [1 .. n -> C],
           \A i, j \in 1 .. n : ranked[i] = ranked[j] => i = j,
           NEW k \in 1 .. n, NEW A, AcceptedUpto(A, ranked, k - 1)
    PROVE  AcceptedUpto(try_accept(A, ranked[k]), ranked, k)
  <1> DEFINE c == ranked[k]
  <1>1. A \subseteq {ranked[i] : i \in 1 .. k - 1} /\ Disjoint(A)
    BY DEF AcceptedUpto
  <1>2. A \subseteq C
    BY <1>1
  <1>3. c \in C /\ c.start \in Int /\ c.end \in Int /\ c.start < c.end /\ Spans(A)
    BY <1>2 DEF Spans
  <1>4. c \notin A
    <2>1. \A i \in 1 .. k - 1 : ranked[i] # c
      OBVIOUS
    <2> QED BY <1>1, <2>1
  <1> HIDE DEF c
  <1>5. try_accept(A, c) = IF Clashes(A, c) THEN A ELSE A \cup {c}
    BY <1>1, <1>3, TryAcceptIs
  <1>6. Clashes(A, c) <=> \E i \in 1 .. k - 1 : ranked[i] \in A /\ Overlap(ranked[i], c)
    BY <1>1 DEF Clashes
  <1> DEFINE B == try_accept(A, c)
  <1>7. B \subseteq {ranked[i] : i \in 1 .. k}
    <2>1. B \subseteq A \cup {c}
      BY <1>5
    <2>2. A \subseteq {ranked[i] : i \in 1 .. k}
      BY <1>1
    <2>3. c \in {ranked[i] : i \in 1 .. k}
      BY DEF c
    <2> HIDE DEF B
    <2> QED BY <2>1, <2>2, <2>3
  <1>8. Disjoint(B)
    <2>1. CASE Clashes(A, c)
      BY <1>1, <1>5, <2>1
    <2>2. CASE ~Clashes(A, c)
      <3>1. B = A \cup {c}
        BY <1>5, <2>2
      <3>2. \A a \in A : ~Overlap(a, c)
        BY <2>2 DEF Clashes
      <3>3. \A a \in A : ~Overlap(c, a)
        BY <3>2 DEF Overlap
      <3> HIDE DEF B
      <3> QED BY <1>1, <3>1, <3>2, <3>3 DEF Disjoint
    <2> QED BY <2>1, <2>2
  <1>9. \A i \in 1 .. k - 1 : ranked[i] \in B <=> ranked[i] \in A
    <2>1. \A i \in 1 .. k - 1 : ranked[i] # c
      BY DEF c
    <2> QED BY <1>5, <2>1
  <1>10. c \in B <=> ~Clashes(A, c)
    BY <1>4, <1>5
  <1> HIDE DEF B
  <1>11. ASSUME NEW j \in 1 .. k
         PROVE  ranked[j] \in B <=>
                   ~\E i \in 1 .. (j - 1) : ranked[i] \in B /\ Overlap(ranked[i], ranked[j])
    <2>1. \A i \in 1 .. (j - 1) : i \in 1 .. k - 1
      OBVIOUS
    <2>2. \A i \in 1 .. (j - 1) : ranked[i] \in B <=> ranked[i] \in A
      BY <1>9, <2>1
    <2>3. CASE j = k
      BY <1>6, <1>10, <2>2, <2>3 DEF c
    <2>4. CASE j < k
      <3>1. j \in 1 .. k - 1
        BY <2>4
      <3>2. ranked[j] \in A <=>
               ~\E i \in 1 .. (j - 1) : ranked[i] \in A /\ Overlap(ranked[i], ranked[j])
        BY <3>1 DEF AcceptedUpto
      <3> QED BY <1>9, <2>2, <3>1, <3>2
    <2> QED BY <2>3, <2>4
  <1> QED BY <1>7, <1>8, <1>11 DEF AcceptedUpto, B, c

LEMMA AcceptedIsKernel ==
    ASSUME NEW C, IsFiniteSet(C), Spans(C), StrictOrder(C, ByPriority(C))
    PROVE  \E K : /\ Kernel(K, C) /\ Disjoint(K)
                  /\ accept_ranked(C) = SortedBy(K, ByStart(K))
  <1> DEFINE n == Cardinality(C)
             ranked == SortedBy(C, ByPriority(C))
             f == CHOOSE h : Accepts(h, ranked, n)
             K == f[n]
  <1>1. n \in Nat /\ Lists(ranked, C, ByPriority(C))
    BY SortedByLists
  <1>2. accept_ranked(C) = SortedBy(K, ByStart(K))
    BY DEF accept_ranked, ByPriority, ByStart, Accepts
  <1> HIDE DEF n, ranked
  <1>3. Accepts(f, ranked, n)
    BY <1>1, AcceptsExists
  <1> HIDE DEF f
  <1>4. /\ ranked \in [1 .. n -> C]
        /\ \A x \in C : \E k \in 1 .. n : ranked[k] = x
        /\ \A j, k \in 1 .. n : j < k <=> <<ranked[j], ranked[k]>> \in ByPriority(C)
    BY <1>1 DEF Lists, n
  <1>5. ASSUME NEW j \in 1 .. n, NEW k \in 1 .. n
        PROVE  j < k <=> priority(ranked[j], ranked[k])
    <2>1. ranked[j] \in C /\ ranked[k] \in C
      BY <1>4
    <2>2. <<ranked[j], ranked[k]>> \in ByPriority(C) <=> priority(ranked[j], ranked[k])
      BY <2>1 DEF ByPriority
    <2> QED BY <1>4, <2>2
  <1>6. \A j, k \in 1 .. n : ranked[j] = ranked[k] => j = k
    <2> SUFFICES ASSUME NEW j \in 1 .. n, NEW k \in 1 .. n, ranked[j] = ranked[k], j # k
                 PROVE  FALSE
      OBVIOUS
    <2>1. j < k \/ k < j
      BY <1>1
    <2>2. <<ranked[j], ranked[j]>> \in ByPriority(C)
      BY <1>4, <2>1
    <2> QED BY <1>4, <2>2 DEF StrictOrder, Irreflexive
  <1>7. \A k \in 0 .. n : AcceptedUpto(f[k], ranked, k)
    <2> DEFINE Wrong == {k \in 0 .. n : ~AcceptedUpto(f[k], ranked, k)}
    <2>1. SUFFICES ASSUME Wrong # {} PROVE FALSE
      OBVIOUS
    <2>2. PICK k \in Wrong : \A m \in Wrong : k <= m
      <3>1. Wrong \subseteq Nat
        OBVIOUS
      <3> HIDE DEF Wrong
      <3> QED BY <2>1, <3>1, LeastElement
    <2>3. f[0] = {} /\ \A i \in 1 .. n : f[i] = try_accept(f[i - 1], ranked[i])
      BY <1>1, <1>3, AcceptsAt
    <2>4. AcceptedUpto({}, ranked, 0)
      BY DEF AcceptedUpto, Disjoint
    <2>5. k \in 1 .. n /\ AcceptedUpto(f[k - 1], ranked, k - 1)
      BY <1>1, <2>2, <2>3, <2>4
    <2> DEFINE A == f[k - 1]
    <2>6. f[k] = try_accept(A, ranked[k]) /\ AcceptedUpto(A, ranked, k - 1)
      BY <2>3, <2>5
    <2> HIDE DEF A
    <2>7. AcceptedUpto(try_accept(A, ranked[k]), ranked, k)
      BY <1>1, <1>4, <1>6, <2>5, <2>6, AcceptedNext
    <2> QED BY <2>2, <2>6, <2>7
  <1>8. AcceptedUpto(K, ranked, n)
    BY <1>1, <1>7
  <1> HIDE DEF K
  <1>9. K \subseteq C /\ Disjoint(K)
    BY <1>4, <1>8 DEF AcceptedUpto
  <1>10. ASSUME NEW c \in C
         PROVE  c \in K <=> ~\E a \in K : priority(a, c) /\ Overlap(a, c)
    <2>1. PICK j \in 1 .. n : ranked[j] = c
      BY <1>4
    <2>2. c \in K <=> ~\E i \in 1 .. (j - 1) : ranked[i] \in K /\ Overlap(ranked[i], c)
      BY <1>8, <2>1 DEF AcceptedUpto
    <2>3. ASSUME NEW a \in K, priority(a, c), Overlap(a, c)
          PROVE  \E i \in 1 .. (j - 1) : ranked[i] \in K /\ Overlap(ranked[i], c)
      <3>1. PICK i \in 1 .. n : ranked[i] = a
        BY <1>4, <1>9
      <3>2. i < j
        BY <1>5, <2>1, <2>3, <3>1
      <3>3. i \in 1 .. (j - 1)
        BY <1>1, <3>2
      <3> QED BY <2>3, <3>1, <3>3
    <2>4. ASSUME NEW i \in 1 .. (j - 1), ranked[i] \in K, Overlap(ranked[i], c)
          PROVE  \E a \in K : priority(a, c) /\ Overlap(a, c)
      <3>1. i \in 1 .. n /\ i < j
        BY <1>1
      <3>2. priority(ranked[i], c)
        BY <1>5, <2>1, <3>1
      <3> QED BY <2>4, <3>2
    <2> QED BY <2>2, <2>3, <2>4
  <1> QED BY <1>2, <1>9, <1>10 DEF Kernel

\* There is one kernel.
LEMMA KernelUnique ==
    ASSUME NEW C, IsFiniteSet(C), StrictOrder(C, ByPriority(C)),
           NEW K, NEW L, Kernel(K, C), Kernel(L, C)
    PROVE  K = L
  <1> DEFINE n == Cardinality(C)
             ranked == SortedBy(C, ByPriority(C))
             Wrong == {k \in 1 .. n : ~(ranked[k] \in K <=> ranked[k] \in L)}
  <1>1. n \in Nat /\ Lists(ranked, C, ByPriority(C))
    BY SortedByLists
  <1>2. /\ ranked \in [1 .. n -> C]
        /\ \A x \in C : \E k \in 1 .. n : ranked[k] = x
        /\ \A j, k \in 1 .. n : j < k <=> <<ranked[j], ranked[k]>> \in ByPriority(C)
    BY <1>1 DEF Lists
  <1> HIDE DEF n, ranked
  <1>3. Wrong = {}
    <2>1. SUFFICES ASSUME Wrong # {} PROVE FALSE
      OBVIOUS
    <2>2. PICK k \in Wrong : \A m \in Wrong : k <= m
      <3>1. Wrong \subseteq Nat
        OBVIOUS
      <3> HIDE DEF Wrong
      <3> QED BY <2>1, <3>1, LeastElement
    <2>3. ASSUME NEW a \in C, priority(a, ranked[k])
          PROVE  a \in K <=> a \in L
      <3>1. PICK i \in 1 .. n : ranked[i] = a
        BY <1>2
      <3>2. <<ranked[i], ranked[k]>> \in ByPriority(C)
        BY <1>2, <2>2, <2>3, <3>1 DEF ByPriority
      <3>3. i < k
        BY <1>2, <2>2, <3>2
      <3>4. i \notin Wrong
        BY <1>1, <2>2, <3>3
      <3> QED BY <3>1, <3>4
    <2>4. ranked[k] \in C
      BY <1>2, <2>2
    <2>5. /\ K \subseteq C /\ L \subseteq C
          /\ ranked[k] \in K <=> ~\E a \in K : priority(a, ranked[k]) /\ Overlap(a, ranked[k])
          /\ ranked[k] \in L <=> ~\E a \in L : priority(a, ranked[k]) /\ Overlap(a, ranked[k])
      BY <2>4 DEF Kernel
    <2>6. ranked[k] \in K <=> ranked[k] \in L
      BY <2>3, <2>5
    <2> QED BY <2>2, <2>6
  <1>4. \A c \in C : c \in K <=> c \in L
    BY <1>2, <1>3
  <1> QED BY <1>4 DEF Kernel

\* Candidates on either side of a border never meet.
LEMMA KernelUnion ==
    ASSUME NEW C, NEW D, NEW m \in Int,
           \A c \in C : c.start \in Int /\ c.end \in Int /\ c.start < c.end /\ c.end <= m,
           \A d \in D : d.start \in Int /\ d.end \in Int /\ d.start < d.end /\ m <= d.start,
           NEW K, NEW L, Kernel(K, C), Kernel(L, D)
    PROVE  Kernel(K \cup L, C \cup D)
  <1>1. K \subseteq C /\ L \subseteq D
    BY DEF Kernel
  <1>2. ASSUME NEW c \in C, NEW d \in D PROVE ~Overlap(c, d) /\ ~Overlap(d, c) /\ c # d
    <2>1. /\ c.start \in Int /\ c.end \in Int /\ c.start < c.end /\ c.end <= m
          /\ d.start \in Int /\ d.end \in Int /\ d.start < d.end /\ m <= d.start
      OBVIOUS
    <2>2. ~(d.start < c.end) /\ c.start # d.start
      BY <2>1
    <2> QED BY <2>2 DEF Overlap
  <1>3. ASSUME NEW c \in C
        PROVE  c \in K \cup L <=> ~\E a \in K \cup L : priority(a, c) /\ Overlap(a, c)
    <2>1. c \in K <=> ~\E a \in K : priority(a, c) /\ Overlap(a, c)
      BY DEF Kernel
    <2>2. c \notin L /\ \A a \in L : ~Overlap(a, c)
      BY <1>1, <1>2
    <2> QED BY <2>1, <2>2
  <1>4. ASSUME NEW d \in D
        PROVE  d \in K \cup L <=> ~\E a \in K \cup L : priority(a, d) /\ Overlap(a, d)
    <2>1. d \in L <=> ~\E a \in L : priority(a, d) /\ Overlap(a, d)
      BY DEF Kernel
    <2>2. d \notin K /\ \A a \in K : ~Overlap(a, d)
      BY <1>1, <1>2
    <2> QED BY <2>1, <2>2
  <1> QED BY <1>1, <1>3, <1>4 DEF Kernel

---------------------------------------------------------------------------
(* What the built-in detectors may find in a text of n bytes. *)

Kinds == {<<"private_key", 4, 2>>, <<"bearer_token", 2, 2>>,
          <<"connection_string_password", 2, 1>>,
          <<"contextual_secret", 1, 2>>, <<"contextual_secret", 1, 1>>}
FoundIn(n) ==
    {c \in DetectedFinding : /\ <<c.type, c.specificity, c.confidence>> \in Kinds
                             /\ c.start < c.end /\ c.end <= n}

LEMMA FoundFields ==
    ASSUME NEW n \in Nat, NEW c \in FoundIn(n)
    PROVE  /\ c \in DetectedFinding /\ <<c.type, c.specificity, c.confidence>> \in Kinds
           /\ c.start \in Nat /\ c.end \in Nat /\ c.start < c.end /\ c.end <= n
           /\ c.specificity \in 0 .. 4 /\ c.confidence \in 0 .. 2
  BY DEF FoundIn, DetectedFinding

LEMMA CandidateFound ==
    ASSUME NEW t, NEW s, NEW c, <<t, s, c>> \in Kinds,
           NEW n \in Nat, NEW from \in Nat \ {0}, NEW to \in Nat, from <= to, to <= n
    PROVE  /\ Candidate(t, s, c, Range0(from, to)) \in FoundIn(n)
           /\ Candidate(t, s, c, Range0(from, to))
                = [type |-> t, specificity |-> s, confidence |-> c, start |-> from - 1, end |-> to]
  <1> DEFINE x == [type |-> t, specificity |-> s, confidence |-> c, start |-> from - 1, end |-> to]
  <1>1. Candidate(t, s, c, Range0(from, to)) = x
    BY DEF Candidate, Range0
  <1>2. t \in FindingType /\ s \in 0 .. 4 /\ c \in 0 .. 2
    BY DEF Kinds, FindingType
  <1>3. from - 1 \in Nat /\ from - 1 < to
    OBVIOUS
  <1>4. x \in FoundIn(n)
    BY <1>2, <1>3 DEF FoundIn, DetectedFinding
  <1> QED BY <1>1, <1>4

\* Type, specificity and confidence go together.
LEMMA KindIsRank ==
    ASSUME NEW n \in Nat, NEW c \in FoundIn(n), NEW d \in FoundIn(n),
           c.specificity = d.specificity, c.confidence = d.confidence
    PROVE  c.type = d.type
  <1>1. /\ <<c.type, c.specificity, c.confidence>> \in Kinds
        /\ <<d.type, d.specificity, d.confidence>> \in Kinds
    BY FoundFields
  <1> DEFINE t == c.type
             s == c.specificity
             e == c.confidence
             r == d.type
  <1>2. <<t, s, e>> \in Kinds /\ <<r, s, e>> \in Kinds
    BY <1>1
  <1> HIDE DEF t, s, e, r
  <1>3. t = r
    BY <1>2 DEF Kinds
  <1> QED BY <1>3 DEF t, r

LEMMA FoundEqual ==
    ASSUME NEW n \in Nat, NEW c \in FoundIn(n), NEW d \in FoundIn(n),
           c.specificity = d.specificity, c.confidence = d.confidence,
           c.start = d.start, c.end = d.end
    PROVE  c = d
  <1>1. c.type = d.type
    BY KindIsRank
  <1>2. c \in DetectedFinding /\ d \in DetectedFinding
    BY FoundFields
  <1> QED BY <1>1, <1>2 DEF DetectedFinding

LEMMA FoundFinite ==
    ASSUME NEW n \in Nat, NEW C, C \subseteq FoundIn(n)
    PROVE  IsFiniteSet(C)
  <1> DEFINE A == 0 .. 4
             B == 0 .. 2
             N == 0 .. n
             AB == A \X B
             NN == N \X N
             T == AB \X NN
             S == FoundIn(n)
             f == [c \in S |-> <<<<c.specificity, c.confidence>>, <<c.start, c.end>>>>]
  <1>1. IsFiniteSet(A) /\ IsFiniteSet(B) /\ IsFiniteSet(N)
    <2>1. 0 \in Int /\ 4 \in Int /\ 2 \in Int /\ n \in Int
      OBVIOUS
    <2> QED BY <2>1, FS_Interval
  <1>2. IsFiniteSet(T)
    <2> HIDE DEF A, B, N
    <2>1. IsFiniteSet(AB) /\ IsFiniteSet(NN)
      BY <1>1, FS_Product
    <2> HIDE DEF AB, NN
    <2> QED BY <2>1, FS_Product
  <1>3. f \in [S -> T]
    <2>1. ASSUME NEW c \in S
          PROVE  <<<<c.specificity, c.confidence>>, <<c.start, c.end>>>> \in T
      <3>1. c.specificity \in 0 .. 4 /\ c.confidence \in 0 .. 2 /\ c.start \in N /\ c.end \in N
        <4>1. /\ c.specificity \in 0 .. 4 /\ c.confidence \in 0 .. 2
              /\ c.start \in Nat /\ c.end \in Nat /\ c.start < c.end /\ c.end <= n
          <5> HIDE DEF f, T
          <5> QED BY FoundFields
        <4> QED BY <4>1
      <3> HIDE DEF N
      <3> QED BY <3>1
    <2> QED BY <2>1
  <1>4. ASSUME NEW c \in S, NEW d \in S, f[c] = f[d] PROVE c = d
    <2>1. <<<<c.specificity, c.confidence>>, <<c.start, c.end>>>>
            = <<<<d.specificity, d.confidence>>, <<d.start, d.end>>>>
      BY <1>4
    <2>2. /\ c.specificity = d.specificity /\ c.confidence = d.confidence
          /\ c.start = d.start /\ c.end = d.end
      BY <2>1
    <2> QED BY <2>2, FoundEqual
  <1> HIDE DEF f, T
  <1>5. f \in Injection(S, T)
    <2>1. DOMAIN f = S
      BY <1>3
    <2> QED BY <1>3, <1>4, <2>1 DEF Injection, IsInjective
  <1>6. IsFiniteSet(S)
    BY <1>2, <1>5, FS_Injection
  <1> QED BY <1>6, FS_Subset

\* The better of two candidates is always known.
LEMMA PriorityOrder ==
    ASSUME NEW n \in Nat, NEW C, C \subseteq FoundIn(n)
    PROVE  IsFiniteSet(C) /\ Spans(C) /\ StrictOrder(C, ByPriority(C))
  <1>1. ASSUME NEW c \in C
        PROVE  /\ c \in FoundIn(n) /\ c.start \in Int /\ c.end \in Int /\ c.start < c.end
               /\ c.specificity \in Int /\ c.confidence \in Int
    <2>1. c \in FoundIn(n)
      OBVIOUS
    <2>2. /\ c.start \in Nat /\ c.end \in Nat /\ c.start < c.end
          /\ c.specificity \in 0 .. 4 /\ c.confidence \in 0 .. 2
      BY <2>1, FoundFields
    <2> QED BY <2>1, <2>2
  <1>2. \A c, d \in C : <<c, d>> \in ByPriority(C) <=> priority(c, d)
    BY DEF ByPriority
  <1>3. Irreflexive(C, ByPriority(C))
    <2> SUFFICES ASSUME NEW c \in C PROVE ~priority(c, c)
      BY <1>2 DEF Irreflexive
    <2> QED BY <1>1 DEF priority
  <1>4. Transitive(C, ByPriority(C))
    <2> SUFFICES ASSUME NEW c \in C, NEW d \in C, NEW e \in C, priority(c, d), priority(d, e)
                 PROVE  priority(c, e)
      BY <1>2 DEF Transitive
    <2>1. /\ c.start \in Int /\ c.end \in Int /\ c.specificity \in Int /\ c.confidence \in Int
          /\ d.start \in Int /\ d.end \in Int /\ d.specificity \in Int /\ d.confidence \in Int
          /\ e.start \in Int /\ e.end \in Int /\ e.specificity \in Int /\ e.confidence \in Int
      BY <1>1
    <2> QED BY <2>1 DEF priority
  <1>5. Total(C, ByPriority(C))
    <2> SUFFICES ASSUME NEW c \in C, NEW d \in C, ~priority(c, d), ~priority(d, c)
                 PROVE  c = d
      BY <1>2 DEF Total
    <2>1. /\ c.start \in Int /\ c.end \in Int /\ c.specificity \in Int /\ c.confidence \in Int
          /\ d.start \in Int /\ d.end \in Int /\ d.specificity \in Int /\ d.confidence \in Int
      BY <1>1
    <2>2. /\ c.specificity = d.specificity /\ c.confidence = d.confidence
          /\ c.start = d.start /\ c.end = d.end
      BY <2>1 DEF priority
    <2> QED BY <1>1, <2>2, FoundEqual
  <1> QED BY <1>1, <1>3, <1>4, <1>5, FoundFinite DEF StrictOrder, Spans

\* The accepted candidates follow each other.
LEMMA StartOrder ==
    ASSUME NEW n \in Nat, NEW K, K \subseteq FoundIn(n), Disjoint(K)
    PROVE  StrictOrder(K, ByStart(K))
  <1>1. ASSUME NEW c \in K
        PROVE  c.start \in Nat /\ c.end \in Nat /\ c.start < c.end
    <2>1. c \in FoundIn(n)
      OBVIOUS
    <2> QED BY <2>1, FoundFields
  <1>2. \A c, d \in K : <<c, d>> \in ByStart(K) <=> c.start < d.start
    BY DEF ByStart
  <1>3. ASSUME NEW c \in K, NEW d \in K, ~(c.start < d.start), ~(d.start < c.start)
        PROVE  c = d
    <2>1. c.start < d.end /\ d.start < c.end
      BY <1>1, <1>3
    <2> QED BY <2>1 DEF Disjoint, Overlap
  <1>4. Irreflexive(K, ByStart(K))
    BY <1>1, <1>2 DEF Irreflexive
  <1>5. Transitive(K, ByStart(K))
    <2> SUFFICES ASSUME NEW c \in K, NEW d \in K, NEW e \in K, c.start < d.start, d.start < e.start
                 PROVE  c.start < e.start
      BY <1>2 DEF Transitive
    <2> QED BY <1>1
  <1>6. Total(K, ByStart(K))
    BY <1>2, <1>3 DEF Total
  <1> QED BY <1>4, <1>5, <1>6 DEF StrictOrder

\* What accept_ranked makes of the candidates of a text of n bytes.
Accepted(s, C, n) ==
    \E K : /\ K \subseteq FoundIn(n) /\ Kernel(K, C) /\ Disjoint(K) /\ Increasing(s, K)

LEMMA AcceptRankedIs ==
    ASSUME NEW n \in Nat, NEW C, C \subseteq FoundIn(n)
    PROVE  Accepted(accept_ranked(C), C, n)
  <1>1. IsFiniteSet(C) /\ Spans(C) /\ StrictOrder(C, ByPriority(C))
    BY PriorityOrder
  <1>2. PICK K : Kernel(K, C) /\ Disjoint(K) /\ accept_ranked(C) = SortedBy(K, ByStart(K))
    BY <1>1, AcceptedIsKernel
  <1>3. K \subseteq FoundIn(n)
    BY <1>2 DEF Kernel
  <1>4. IsFiniteSet(K) /\ StrictOrder(K, ByStart(K))
    BY <1>2, <1>3, FoundFinite, StartOrder
  <1> DEFINE s == SortedBy(K, ByStart(K))
             k == Cardinality(K)
  <1>5. k \in Nat /\ Lists(s, K, ByStart(K))
    BY <1>4, SortedByLists
  <1> HIDE DEF s
  <1>6. /\ s \in [1 .. k -> K]
        /\ \A x \in K : \E i \in 1 .. k : s[i] = x
        /\ \A i, j \in 1 .. k : i < j <=> <<s[i], s[j]>> \in ByStart(K)
    BY <1>5 DEF Lists
  <1> HIDE DEF k
  <1>7. s \in Seq(K) /\ Len(s) = k
    BY <1>5, <1>6, SeqOfFunction
  <1>8. \A i, j \in 1 .. k : i < j => s[i].start < s[j].start
    BY <1>6 DEF ByStart
  <1>9. Increasing(s, K)
    BY <1>6, <1>7, <1>8 DEF Increasing
  <1>10. accept_ranked(C) = s
    BY <1>2 DEF s
  <1>11. Accepted(s, C, n)
    BY <1>2, <1>3, <1>9 DEF Accepted
  <1> QED BY <1>10, <1>11

\* So what it returns is in order, within the text, and does not overlap.
LEMMA AcceptedInOrder ==
    ASSUME NEW n \in Nat, NEW C, C \subseteq FoundIn(n)
    PROVE  /\ accept_ranked(C) \in Seq(DetectedFinding)
           /\ ordered_and_disjoint(accept_ranked(C), 0, n)
  <1> DEFINE s == accept_ranked(C)
  <1>0. Accepted(s, C, n)
    BY AcceptRankedIs
  <1> HIDE DEF s
  <1>1. PICK K : K \subseteq FoundIn(n) /\ Disjoint(K) /\ Increasing(s, K)
    BY <1>0 DEF Accepted
  <1>2. /\ s \in Seq(K) /\ Len(s) \in Nat
        /\ \A i \in 1 .. Len(s) : s[i] \in K
        /\ \A i, j \in 1 .. Len(s) : i < j => s[i].start < s[j].start
    BY <1>1, LenProperties, ElementOfSeq DEF Increasing
  <1>3. ASSUME NEW i \in 1 .. Len(s)
        PROVE  /\ s[i] \in DetectedFinding
               /\ s[i].start \in Nat /\ s[i].end \in Nat /\ s[i].start < s[i].end /\ s[i].end <= n
    <2> DEFINE x == s[i]
    <2>1. x \in FoundIn(n)
      BY <1>1, <1>2
    <2> HIDE DEF x
    <2>2. /\ x \in DetectedFinding /\ x.start \in Nat /\ x.end \in Nat
          /\ x.start < x.end /\ x.end <= n
      BY <2>1, FoundFields
    <2> QED BY <2>2 DEF x
  <1>4. s \in Seq(DetectedFinding)
    <2>1. s \in [1 .. Len(s) -> DetectedFinding]
      <3>1. s = [i \in 1 .. Len(s) |-> s[i]]
        BY <1>2
      <3> QED BY <1>3, <3>1
    <2> QED BY <1>2, <2>1, SeqOfFunction
  <1>5. ASSUME NEW i \in 1 .. Len(s), i > 1
        PROVE  s[i - 1].end <= s[i].start
    <2>1. i - 1 \in 1 .. Len(s) /\ i - 1 < i
      BY <1>2, <1>5
    <2>2. s[i - 1].start < s[i].start
      BY <1>2, <2>1
    <2>3. s[i - 1].start < s[i].end
      BY <1>3, <2>1, <2>2
    <2>4. s[i - 1] # s[i]
      BY <1>3, <2>1, <2>2
    <2>5. ~Overlap(s[i - 1], s[i])
      BY <1>1, <1>2, <2>1, <2>4 DEF Disjoint
    <2>6. ~(s[i].start < s[i - 1].end)
      BY <2>3, <2>5 DEF Overlap
    <2> QED BY <1>3, <2>1, <2>6
  <1> QED BY <1>3, <1>4, <1>5 DEF ordered_and_disjoint, s

---------------------------------------------------------------------------
(* What was found in a text, moved to where the text begins. *)

Shift(c, m) == [c EXCEPT !.start = @ + m, !.end = @ + m]
Shifted(C, m) == {Shift(c, m) : c \in C}

LEMMA ShiftFields ==
    ASSUME NEW n \in Nat, NEW c \in FoundIn(n), NEW m \in Nat
    PROVE  /\ Shift(c, m) \in FoundIn(m + n)
           /\ Shift(c, m).type = c.type
           /\ Shift(c, m).specificity = c.specificity /\ Shift(c, m).confidence = c.confidence
           /\ Shift(c, m).start = c.start + m /\ Shift(c, m).end = c.end + m
           /\ m <= Shift(c, m).start
  <1> DEFINE e == [c EXCEPT !.start = @ + m, !.end = @ + m]
  <1>1. /\ c \in DetectedFinding /\ <<c.type, c.specificity, c.confidence>> \in Kinds
        /\ c.start \in Nat /\ c.end \in Nat /\ c.start < c.end /\ c.end <= n
    BY FoundFields
  <1>2. /\ e \in DetectedFinding
        /\ e.type = c.type /\ e.specificity = c.specificity /\ e.confidence = c.confidence
        /\ e.start = c.start + m /\ e.end = c.end + m
    BY <1>1, MovedFields
  <1> HIDE DEF e
  <1>3. e.start < e.end /\ e.end <= m + n /\ m <= e.start
    BY <1>1, <1>2
  <1>4. <<e.type, e.specificity, e.confidence>> \in Kinds
    BY <1>1, <1>2
  <1>5. e \in FoundIn(m + n)
    BY <1>2, <1>3, <1>4 DEF FoundIn
  <1> QED BY <1>2, <1>3, <1>5 DEF Shift, e

LEMMA ShiftedFound ==
    ASSUME NEW n \in Nat, NEW C, C \subseteq FoundIn(n), NEW m \in Nat
    PROVE  Shifted(C, m) \subseteq FoundIn(m + n)
  <1>1. ASSUME NEW c \in C PROVE Shift(c, m) \in FoundIn(m + n)
    <2>1. c \in FoundIn(n)
      OBVIOUS
    <2> QED BY <2>1, ShiftFields
  <1> QED BY <1>1 DEF Shifted

LEMMA ShiftInjective ==
    ASSUME NEW n \in Nat, NEW c \in FoundIn(n), NEW d \in FoundIn(n), NEW m \in Nat,
           Shift(c, m) = Shift(d, m)
    PROVE  c = d
  <1>1. /\ c.specificity = d.specificity /\ c.confidence = d.confidence
        /\ c.start + m = d.start + m /\ c.end + m = d.end + m
    <2>1. /\ Shift(c, m).specificity = c.specificity /\ Shift(c, m).confidence = c.confidence
          /\ Shift(c, m).start = c.start + m /\ Shift(c, m).end = c.end + m
      BY ShiftFields
    <2>2. /\ Shift(d, m).specificity = d.specificity /\ Shift(d, m).confidence = d.confidence
          /\ Shift(d, m).start = d.start + m /\ Shift(d, m).end = d.end + m
      BY ShiftFields
    <2> QED BY <2>1, <2>2
  <1>2. c.start \in Nat /\ c.end \in Nat /\ d.start \in Nat /\ d.end \in Nat
    BY FoundFields
  <1>3. c.start = d.start /\ c.end = d.end
    BY <1>1, <1>2
  <1> QED BY <1>1, <1>3, FoundEqual

\* Moving a text moves nothing past anything else.
LEMMA ShiftKeeps ==
    ASSUME NEW n \in Nat, NEW c \in FoundIn(n), NEW d \in FoundIn(n), NEW m \in Nat
    PROVE  /\ priority(Shift(c, m), Shift(d, m)) <=> priority(c, d)
           /\ Overlap(Shift(c, m), Shift(d, m)) <=> Overlap(c, d)
  <1> DEFINE x == Shift(c, m)
             y == Shift(d, m)
  <1>1. /\ c.start \in Nat /\ c.end \in Nat /\ d.start \in Nat /\ d.end \in Nat
        /\ c.specificity \in 0 .. 4 /\ c.confidence \in 0 .. 2
        /\ d.specificity \in 0 .. 4 /\ d.confidence \in 0 .. 2
    BY FoundFields
  <1>2. /\ x.specificity = c.specificity /\ x.confidence = c.confidence
        /\ x.start = c.start + m /\ x.end = c.end + m
        /\ y.specificity = d.specificity /\ y.confidence = d.confidence
        /\ y.start = d.start + m /\ y.end = d.end + m
    BY ShiftFields
  <1> HIDE DEF x, y
  <1>3. /\ x.end - x.start = c.end - c.start /\ y.end - y.start = d.end - d.start
        /\ x.start < y.start <=> c.start < d.start
        /\ x.start < y.end <=> c.start < d.end
        /\ y.start < x.end <=> d.start < c.end
    BY <1>1, <1>2
  <1>4. priority(x, y) <=> priority(c, d)
    BY <1>2, <1>3 DEF priority
  <1>5. Overlap(x, y) <=> Overlap(c, d)
    BY <1>3 DEF Overlap
  <1> QED BY <1>4, <1>5 DEF x, y

LEMMA KernelShift ==
    ASSUME NEW n \in Nat, NEW C, C \subseteq FoundIn(n), NEW K, Kernel(K, C), NEW m \in Nat
    PROVE  Kernel(Shifted(K, m), Shifted(C, m))
  <1>1. K \subseteq C /\ \A c \in C : c \in K <=> ~\E a \in K : priority(a, c) /\ Overlap(a, c)
    BY DEF Kernel
  <1>2. ASSUME NEW c \in C PROVE Shift(c, m) \in Shifted(K, m) <=> c \in K
    <2>1. ASSUME NEW d \in K, Shift(c, m) = Shift(d, m) PROVE c \in K
      <3>1. c \in FoundIn(n) /\ d \in FoundIn(n)
        BY <1>1
      <3>2. c = d
        BY <2>1, <3>1, ShiftInjective
      <3> QED BY <3>2
    <2> QED BY <2>1 DEF Shifted
  <1>3. ASSUME NEW c \in C
        PROVE  (\E a \in Shifted(K, m) : priority(a, Shift(c, m)) /\ Overlap(a, Shift(c, m)))
                 <=> \E a \in K : priority(a, c) /\ Overlap(a, c)
    <2>1. ASSUME NEW a \in K
          PROVE  /\ priority(Shift(a, m), Shift(c, m)) <=> priority(a, c)
                 /\ Overlap(Shift(a, m), Shift(c, m)) <=> Overlap(a, c)
      <3>1. c \in FoundIn(n) /\ a \in FoundIn(n)
        BY <1>1
      <3> QED BY <3>1, ShiftKeeps
    <2>2. ASSUME NEW b \in Shifted(K, m), priority(b, Shift(c, m)), Overlap(b, Shift(c, m))
          PROVE  \E a \in K : priority(a, c) /\ Overlap(a, c)
      <3>1. PICK a \in K : b = Shift(a, m)
        BY DEF Shifted
      <3> QED BY <2>1, <2>2, <3>1
    <2>3. ASSUME NEW a \in K, priority(a, c), Overlap(a, c)
          PROVE  \E b \in Shifted(K, m) : priority(b, Shift(c, m)) /\ Overlap(b, Shift(c, m))
      <3>1. Shift(a, m) \in Shifted(K, m)
        BY DEF Shifted
      <3> QED BY <2>1, <2>3, <3>1
    <2> QED BY <2>2, <2>3
  <1>4. Shifted(K, m) \subseteq Shifted(C, m)
    BY <1>1 DEF Shifted
  <1>5. ASSUME NEW d \in Shifted(C, m)
        PROVE  d \in Shifted(K, m) <=>
                  ~\E a \in Shifted(K, m) : priority(a, d) /\ Overlap(a, d)
    <2>1. PICK c \in C : d = Shift(c, m)
      BY DEF Shifted
    <2> QED BY <1>1, <1>2, <1>3, <2>1
  <1> QED BY <1>4, <1>5 DEF Kernel

\* What is accepted of C, and of D moved by m, is what is accepted of each.
AcceptsApart(C, D, m) ==
    accept_ranked(C \cup Shifted(D, m)) = accept_ranked(C) \o Moved(accept_ranked(D), m)

\* When what is found in a text is what is found in each of its parts, so is what is accepted.
LEMMA AcceptedSplits ==
    ASSUME NEW m \in Nat, NEW n \in Nat,
           NEW C, C \subseteq FoundIn(m), NEW D, D \subseteq FoundIn(n)
    PROVE  AcceptsApart(C, D, m)
  <1> SUFFICES accept_ranked(C \cup Shifted(D, m)) = accept_ranked(C) \o Moved(accept_ranked(D), m)
    BY DEF AcceptsApart
  <1> DEFINE E == Shifted(D, m)
             s == accept_ranked(C)
             t == accept_ranked(D)
             w == accept_ranked(C \cup E)
             moved == Moved(t, m)
             joined == s \o moved
  <1>1. E \subseteq FoundIn(m + n)
    BY ShiftedFound
  <1>2. C \cup E \subseteq FoundIn(m + n)
    <2>1. ASSUME NEW c \in C PROVE c \in FoundIn(m + n)
      <3>1. c \in FoundIn(m)
        OBVIOUS
      <3>2. c.end \in Nat /\ c.end <= m
        BY <3>1, FoundFields
      <3>3. c.end <= m + n
        BY <3>2
      <3> QED BY <3>1, <3>3 DEF FoundIn
    <2> QED BY <1>1, <2>1
  <1>3. PICK K : K \subseteq FoundIn(m) /\ Kernel(K, C) /\ Disjoint(K) /\ Increasing(s, K)
    <2>1. Accepted(s, C, m)
      BY AcceptRankedIs
    <2> HIDE DEF s
    <2> QED BY <2>1 DEF Accepted
  <1>4. PICK L : L \subseteq FoundIn(n) /\ Kernel(L, D) /\ Disjoint(L) /\ Increasing(t, L)
    <2>1. Accepted(t, D, n)
      BY AcceptRankedIs
    <2> HIDE DEF t
    <2> QED BY <2>1 DEF Accepted
  <1> DEFINE B == C \cup E
  <1>5. m + n \in Nat
    OBVIOUS
  <1> HIDE DEF E
  <1>6. PICK M : M \subseteq FoundIn(m + n) /\ Kernel(M, B) /\ Increasing(w, M)
    <2> DEFINE q == m + n
    <2>1. q \in Nat /\ B \subseteq FoundIn(q)
      BY <1>2, <1>5
    <2> HIDE DEF B, q
    <2>2. Accepted(accept_ranked(B), B, q)
      BY <2>1, AcceptRankedIs
    <2>3. PICK x : x = accept_ranked(B)
      OBVIOUS
    <2>4. \E M : M \subseteq FoundIn(q) /\ Kernel(M, B) /\ Increasing(x, M)
      BY <2>2, <2>3 DEF Accepted
    <2> QED BY <2>3, <2>4 DEF B, q
  <1> DEFINE N == Shifted(L, m)
  <1>7. Kernel(N, E) /\ N \subseteq FoundIn(m + n)
    BY <1>4, KernelShift, ShiftedFound DEF E
  <1>8. Kernel(K \cup N, B)
    <2>1. ASSUME NEW c \in C
          PROVE  c.start \in Int /\ c.end \in Int /\ c.start < c.end /\ c.end <= m
      <3>1. c \in FoundIn(m)
        OBVIOUS
      <3>2. c.start \in Nat /\ c.end \in Nat /\ c.start < c.end /\ c.end <= m
        BY <3>1, FoundFields
      <3> QED BY <3>2
    <2>2. ASSUME NEW d \in E
          PROVE  d.start \in Int /\ d.end \in Int /\ d.start < d.end /\ m <= d.start
      <3>1. PICK c \in D : d = Shift(c, m)
        BY DEF E, Shifted
      <3>2. c \in FoundIn(n)
        OBVIOUS
      <3>3. d \in FoundIn(m + n) /\ m <= d.start
        BY <3>1, <3>2, ShiftFields
      <3>4. d.start \in Nat /\ d.end \in Nat /\ d.start < d.end
        BY <1>5, <3>3, FoundFields
      <3> QED BY <3>3, <3>4
    <2> HIDE DEF N
    <2>3. Kernel(K \cup N, C \cup E)
      BY <1>3, <1>7, <2>1, <2>2, KernelUnion
    <2> QED BY <2>3
  <1>9. M = K \cup N
    <2> DEFINE J == K \cup N
               q == m + n
    <2>1. q \in Nat /\ B \subseteq FoundIn(q) /\ Kernel(J, B) /\ Kernel(M, B)
      BY <1>2, <1>5, <1>6, <1>8
    <2> HIDE DEF B, J, q
    <2>2. IsFiniteSet(B) /\ StrictOrder(B, ByPriority(B))
      BY <2>1, PriorityOrder
    <2>3. M = J
      BY <2>1, <2>2, KernelUnique
    <2> QED BY <2>3 DEF J
  <1>10. s \in Seq(DetectedFinding) /\ t \in Seq(DetectedFinding)
    BY AcceptedInOrder
  <1> HIDE DEF s, t, w, B
  <1>11. /\ Len(t) \in Nat /\ moved \in Seq(DetectedFinding) /\ Len(moved) = Len(t)
         /\ \A k \in 1 .. Len(t) : moved[k] = Shift(t[k], m)
    BY <1>10, MovedProperties DEF Shift
  <1> HIDE DEF moved, N
  <1>12. /\ s \in Seq(K) /\ Len(s) \in Nat /\ \A i \in 1 .. Len(s) : s[i] \in K
         /\ \A x \in K : \E k \in 1 .. Len(s) : s[k] = x
         /\ \A j, k \in 1 .. Len(s) : j < k => s[j].start < s[k].start
    BY <1>3, LenProperties, ElementOfSeq DEF Increasing
  <1>13. /\ t \in Seq(L) /\ \A i \in 1 .. Len(t) : t[i] \in L
         /\ \A x \in L : \E k \in 1 .. Len(t) : t[k] = x
         /\ \A j, k \in 1 .. Len(t) : j < k => t[j].start < t[k].start
    BY <1>4, LenProperties, ElementOfSeq DEF Increasing
  <1>14. \A i \in 1 .. Len(moved) : moved[i] \in N
    BY <1>11, <1>13 DEF N, Shifted
  <1>15. /\ joined \in Seq(DetectedFinding) /\ Len(joined) = Len(s) + Len(t)
         /\ \A i \in 1 .. Len(s) + Len(t) :
               joined[i] = IF i <= Len(s) THEN s[i] ELSE moved[i - Len(s)]
    <2>1. /\ joined \in Seq(DetectedFinding) /\ Len(joined) = Len(s) + Len(moved)
          /\ \A i \in 1 .. Len(s) + Len(moved) :
                joined[i] = IF i <= Len(s) THEN s[i] ELSE moved[i - Len(s)]
      BY <1>10, <1>11, ConcatProperties
    <2> QED BY <1>11, <2>1
  <1> HIDE DEF joined
  <1>16. ASSUME NEW i \in 1 .. Len(joined)
         PROVE  \/ i \in 1 .. Len(s) /\ joined[i] = s[i] /\ joined[i] \in K
                \/ /\ i - Len(s) \in 1 .. Len(t) /\ joined[i] = moved[i - Len(s)]
                   /\ joined[i] \in N
    <2>1. i \in 1 .. Len(s) + Len(t)
      BY <1>15
    <2>2. CASE i <= Len(s)
      <3>1. i \in 1 .. Len(s)
        BY <1>12, <2>1, <2>2
      <3> QED BY <1>12, <1>15, <2>1, <2>2, <3>1
    <2>3. CASE ~(i <= Len(s))
      <3>1. i - Len(s) \in 1 .. Len(t)
        BY <1>11, <1>12, <2>1, <2>3
      <3>2. joined[i] = moved[i - Len(s)]
        BY <1>15, <2>1, <2>3
      <3>3. moved[i - Len(s)] \in N
        BY <1>11, <1>14, <3>1
      <3> QED BY <3>1, <3>2, <3>3
    <2> QED BY <2>2, <2>3
  <1>17. joined \in Seq(M)
    <2>1. joined = [i \in 1 .. Len(joined) |-> joined[i]]
      BY <1>15
    <2>2. \A i \in 1 .. Len(joined) : joined[i] \in M
      BY <1>9, <1>16
    <2>3. joined \in [1 .. Len(joined) -> M]
      BY <2>1, <2>2
    <2>4. Len(joined) \in Nat
      BY <1>15, LenProperties
    <2> QED BY <2>3, <2>4, SeqOfFunction
  <1>18. ASSUME NEW x \in M PROVE \E k \in 1 .. Len(joined) : joined[k] = x
    <2>1. CASE x \in K
      <3>1. PICK k \in 1 .. Len(s) : s[k] = x
        BY <1>12, <2>1
      <3>2. k \in 1 .. Len(s) + Len(t) /\ k <= Len(s)
        BY <1>11, <1>12
      <3> QED BY <1>15, <3>1, <3>2
    <2>2. CASE x \in N
      <3>1. PICK y \in L : x = Shift(y, m)
        BY <2>2 DEF N, Shifted
      <3>2. PICK k \in 1 .. Len(t) : t[k] = y
        BY <1>13
      <3>3. k + Len(s) \in 1 .. Len(s) + Len(t) /\ ~(k + Len(s) <= Len(s)) /\ (k + Len(s)) - Len(s) = k
        BY <1>11, <1>12
      <3>4. joined[k + Len(s)] = moved[k]
        BY <1>15, <3>3
      <3>5. moved[k] = x
        BY <1>11, <3>1, <3>2
      <3> QED BY <1>15, <3>3, <3>4, <3>5
    <2> QED BY <1>9, <2>1, <2>2
  <1>19. ASSUME NEW j \in 1 .. Len(joined), NEW k \in 1 .. Len(joined), j < k
         PROVE  joined[j].start < joined[k].start
    <2>1. j \in Nat /\ k \in Nat
      OBVIOUS
    <2>2. CASE k \in 1 .. Len(s)
      <3>1. j \in 1 .. Len(s)
        BY <1>12, <1>19, <2>2
      <3>2. j \in 1 .. Len(s) + Len(t) /\ k \in 1 .. Len(s) + Len(t) /\ j <= Len(s) /\ k <= Len(s)
        BY <1>15, <2>2, <3>1
      <3>3. joined[j] = s[j] /\ joined[k] = s[k]
        BY <1>15, <3>2
      <3> QED BY <1>12, <1>19, <2>2, <3>1, <3>3
    <2>3. CASE k \notin 1 .. Len(s) /\ j \in 1 .. Len(s)
      <3>1. joined[k] \in N
        BY <1>16, <2>3
      <3>2. joined[j] \in K
        <4>1. j \in 1 .. Len(s) + Len(t) /\ j <= Len(s)
          BY <1>15, <2>3
        <4> QED BY <1>12, <1>15, <2>3, <4>1
      <3>3. PICK c \in FoundIn(m) : c = joined[j]
        BY <1>3, <3>2
      <3>4. PICK d \in L : joined[k] = Shift(d, m)
        BY <3>1 DEF N, Shifted
      <3>5. d \in FoundIn(n)
        BY <1>4
      <3>6. PICK e \in FoundIn(m + n) : e = joined[k] /\ m <= e.start
        BY <3>4, <3>5, ShiftFields
      <3>7. c.start \in Nat /\ c.end \in Nat /\ c.start < c.end /\ c.end <= m
        BY FoundFields
      <3>8. e.start \in Nat
        BY <1>5, FoundFields
      <3>9. c.start < e.start
        BY <3>6, <3>7, <3>8
      <3> QED BY <3>3, <3>6, <3>9
    <2>4. CASE j \notin 1 .. Len(s)
      <3>1. k \notin 1 .. Len(s)
        BY <1>12, <1>19, <2>4
      <3> DEFINE a == j - Len(s)
                 b == k - Len(s)
      <3>2. /\ a \in 1 .. Len(t) /\ b \in 1 .. Len(t)
            /\ joined[j] = moved[a] /\ joined[k] = moved[b]
        BY <1>16, <2>4, <3>1
      <3>3. a < b
        BY <1>12, <1>19, <2>1
      <3> HIDE DEF a, b
      <3>4. PICK c \in FoundIn(n) : c = t[a]
        BY <1>4, <1>13, <3>2
      <3>5. PICK d \in FoundIn(n) : d = t[b]
        BY <1>4, <1>13, <3>2
      <3>6. c.start < d.start
        BY <1>13, <3>2, <3>3, <3>4, <3>5
      <3>7. Shift(c, m).start = c.start + m /\ Shift(d, m).start = d.start + m
        BY ShiftFields
      <3>8. c.start \in Nat /\ d.start \in Nat
        BY FoundFields
      <3>9. Shift(c, m).start < Shift(d, m).start
        BY <3>6, <3>7, <3>8
      <3> QED BY <1>11, <3>2, <3>4, <3>5, <3>9
    <2> QED BY <2>2, <2>3, <2>4
  <1>20. Increasing(joined, M)
    BY <1>17, <1>18, <1>19 DEF Increasing
  <1>21. \A x \in M : x.start \in Int
    <2> SUFFICES ASSUME NEW x \in M PROVE x.start \in Int
      OBVIOUS
    <2>1. x \in FoundIn(m + n)
      BY <1>6
    <2>2. x.start \in Nat
      BY <1>5, <2>1, FoundFields
    <2> QED BY <2>2
  <1>22. w = joined
    BY <1>6, <1>20, <1>21, IncreasingUnique
  <1> QED BY <1>22 DEF w, joined, s, t, moved, E

---------------------------------------------------------------------------
(* Private keys: the parser over two texts, the first of which leaves no block open. *)

SpansOf(s) == {s.completed[k] : k \in 1 .. Len(s.completed)}
Reported(u, x) == x.malformed \/ has_encoded_body(u, x.body_start, x.footer_start - 1)
Block(from, to) == Candidate("private_key", 4, 2, Range0(from, to))
Blocks(u, X) == {Block(x.start, x.end) : x \in {y \in X : Reported(u, y)}}
OpenBlock(s, n) == IF s.stack # <<>> /\ s.malformed THEN {Block(s.outer_start, n)} ELSE {}

LEMMA PrivateKeysAre ==
    ASSUME NEW u \in Seq(Lexeme), NEW f, Feeds(f, ParserState, u)
    PROVE  private_key_candidates(u)
             = Blocks(u, SpansOf(f[Len(u)])) \cup OpenBlock(f[Len(u)], Len(u))
  <1>1. Len(u) \in Nat
    BY LenProperties
  <1>2. scan_delimiters(ParserState, u) = f[Len(u)]
    BY <1>1, ScanDelimitersIs
  <1> QED BY <1>2 DEF private_key_candidates, Blocks, SpansOf, Reported, OpenBlock, Block

LEMMA SpansAppended ==
    ASSUME NEW s \in Parser, NEW r \in Parser, NEW x \in Span, r.completed = Append(s.completed, x)
    PROVE  SpansOf(r) = SpansOf(s) \cup {x}
  <1> DEFINE q == s.completed
             a == Append(q, x)
  <1>1. q \in Seq(Span) /\ Len(q) \in Nat
    BY LenProperties DEF Parser
  <1> HIDE DEF q
  <1>2. /\ Len(a) = Len(q) + 1
        /\ \A i \in 1 .. Len(q) : a[i] = q[i]
        /\ a[Len(q) + 1] = x
    BY <1>1, AppendProperties
  <1> HIDE DEF a
  <1>3. {a[k] : k \in 1 .. Len(a)} = {q[k] : k \in 1 .. Len(q)} \cup {x}
    <2>1. ASSUME NEW k \in 1 .. Len(a) PROVE a[k] \in {q[i] : i \in 1 .. Len(q)} \cup {x}
      <3>1. k \in 1 .. Len(q) \/ k = Len(q) + 1
        BY <1>1, <1>2
      <3> QED BY <1>2, <3>1
    <2>2. ASSUME NEW k \in 1 .. Len(q) PROVE q[k] \in {a[i] : i \in 1 .. Len(a)}
      <3>1. k \in 1 .. Len(a) /\ a[k] = q[k]
        BY <1>1, <1>2
      <3> QED BY <3>1
    <2>3. x \in {a[i] : i \in 1 .. Len(a)}
      <3>1. Len(q) + 1 \in 1 .. Len(a)
        BY <1>1, <1>2
      <3> QED BY <1>2, <3>1
    <2> QED BY <2>1, <2>2, <2>3
  <1> QED BY <1>3 DEF SpansOf, a, q

\* What a delimiter does to the spans.
LEMMA ProcessSpans ==
    ASSUME NEW s \in Parser, NEW d \in Delims, NEW r, Processed(r, s, d)
    PROVE  SpansOf(r) = IF Closes(s.stack, d.kind, d.label)
                          THEN SpansOf(s) \cup {SpanOf(s, d)} ELSE SpansOf(s)
  <1>1. r \in Parser
    BY DEF Processed
  <1>2. CASE Closes(s.stack, d.kind, d.label)
    <2>1. SpanOf(s, d) \in Span
      <3>1. /\ s.outer_start \in Nat /\ s.body_start \in Nat /\ s.malformed \in BOOLEAN
            /\ d.start \in Nat /\ d.end \in Nat
        BY DEF Parser, Delims
      <3> QED BY <3>1 DEF SpanOf, Span
    <2> DEFINE x == SpanOf(s, d)
    <2>2. r.completed = Append(s.completed, x) /\ x \in Span
      BY <1>2, <2>1 DEF Processed
    <2> HIDE DEF x
    <2>3. SpansOf(r) = SpansOf(s) \cup {x}
      BY <1>1, <2>2, SpansAppended
    <2> QED BY <1>2, <2>3 DEF x
  <1>3. CASE ~Closes(s.stack, d.kind, d.label)
    <2>1. r.completed = s.completed
      BY <1>3 DEF Processed
    <2> QED BY <1>3, <2>1 DEF SpansOf
  <1> QED BY <1>2, <1>3

\* The span x lies within the first i positions.
Inside(x, i) ==
    /\ x \in Span /\ 1 <= x.start /\ x.start <= x.end /\ x.end <= i
    /\ 1 <= x.body_start /\ x.footer_start <= i
\* A parser after i positions.
Sane(s, i) ==
    /\ s \in Parser
    /\ 1 <= s.outer_start /\ 1 <= s.body_start
    /\ s.stack # <<>> => s.outer_start <= i
    /\ s.stack = <<>> => ~s.malformed
    /\ \A x \in SpansOf(s) : Inside(x, i)

LEMMA SaneStart == Sane(ParserState, 0)
  <1>1. <<>> \in Seq(Span) /\ <<>> \in Seq(Labels) /\ Len(<<>>) = 0
    OBVIOUS
  <1>2. PICK s \in Parser : s = ParserState
    BY <1>1 DEF Parser, ParserState
  <1>3. /\ s.outer_start = 1 /\ s.body_start = 1 /\ s.stack = <<>> /\ ~s.malformed
        /\ s.completed = <<>>
    BY <1>2 DEF ParserState
  <1>4. SpansOf(s) = {}
    BY <1>1, <1>3 DEF SpansOf
  <1> QED BY <1>2, <1>3, <1>4 DEF Sane

LEMMA SaneNext ==
    ASSUME NEW i \in Nat \ {0}, NEW s, Sane(s, i - 1), NEW u
    PROVE  Sane(Fed(s, u, i), i)
  <1>1. /\ s \in Parser /\ s.outer_start \in Nat /\ s.body_start \in Nat /\ s.malformed \in BOOLEAN
        /\ s.stack \in Seq(Labels) /\ Len(s.stack) \in Nat
        /\ 1 <= s.outer_start /\ 1 <= s.body_start
        /\ s.stack # <<>> => s.outer_start <= i - 1
        /\ s.stack = <<>> => ~s.malformed
    BY LenProperties DEF Sane, Parser
  <1>2. ASSUME NEW x \in SpansOf(s) PROVE Inside(x, i)
    <2>1. Inside(x, i - 1)
      BY DEF Sane
    <2>2. x \in Span /\ x.end \in Nat /\ x.footer_start \in Nat
      BY <2>1 DEF Inside, Span
    <2> QED BY <2>1, <2>2 DEF Inside
  <1>3. CASE u[i] \notin Begin \cup End
    <2>1. Fed(s, u, i) = s
      BY <1>3 DEF Fed
    <2>2. s.stack # <<>> => s.outer_start <= i
      BY <1>1
    <2>3. Sane(s, i)
      BY <1>1, <1>2, <2>2 DEF Sane
    <2> QED BY <2>1, <2>3
  <1>4. CASE u[i] \in Begin \cup End
    <2>1. PICK d \in Delims : d = Delimiter(u, i) /\ d.start = i /\ d.end = i
      BY <1>4, DelimiterType
    <2>2. PICK r : r = Fed(s, u, i) /\ Processed(r, s, d)
      BY <1>1, <1>4, <2>1, ProcessIs DEF Fed
    <2>3. /\ d.kind \in {"Begin", "End"} /\ d.label \in Labels
          /\ r \in Parser /\ r.outer_start \in Nat /\ r.body_start \in Nat
          /\ r.stack = StackAfter(s.stack, d.kind, d.label)
          /\ r.malformed = MalformedAfter(s.stack, d.kind, d.label, s.malformed)
          /\ r.outer_start = IF Opens(s.stack, d.kind) THEN d.start ELSE s.outer_start
          /\ r.body_start = IF Opens(s.stack, d.kind) THEN d.end + 1 ELSE s.body_start
      BY <2>2 DEF Processed, Parser, Delims
    <2>4. 1 <= r.outer_start /\ 1 <= r.body_start
      BY <1>1, <2>1, <2>3
    <2>5. (s.stack = <<>>) <=> (Len(s.stack) = 0)
      BY <1>1, EmptySeq
    <2>6. r.stack # <<>> => r.outer_start <= i
      <3>1. CASE Opens(s.stack, d.kind)
        BY <2>1, <2>3, <3>1
      <3>2. CASE ~Opens(s.stack, d.kind)
        <4>1. r.outer_start = s.outer_start
          BY <2>3, <3>2
        <4>2. s.stack = <<>> => r.stack = <<>>
          BY <1>1, <2>3, <2>5, <3>2 DEF StackAfter, Opens
        <4> QED BY <1>1, <4>1, <4>2
      <3> QED BY <3>1, <3>2
    <2>7. ASSUME r.stack = <<>> PROVE ~r.malformed
      <3>1. d.kind = "End"
        <4>1. SUFFICES ASSUME d.kind = "Begin" PROVE FALSE
          BY <2>3
        <4>2. r.stack = Append(s.stack, d.label)
          BY <2>3, <4>1 DEF StackAfter
        <4>3. Len(Append(s.stack, d.label)) = Len(s.stack) + 1
          BY <1>1, <2>3, AppendProperties
        <4>4. Len(<<>>) = 0
          OBVIOUS
        <4> QED BY <1>1, <2>7, <4>2, <4>3, <4>4
      <3>2. CASE Len(s.stack) = 0
        BY <1>1, <2>3, <2>5, <3>1, <3>2 DEF MalformedAfter, Closes
      <3>3. CASE Len(s.stack) > 0
        <4> DEFINE n == Len(s.stack)
        <4>1. n \in Nat /\ n > 0 /\ s.stack # <<>>
          BY <1>1, <2>5, <3>3
        <4>2. s.stack[n] = d.label /\ SubSeq(s.stack, 1, n - 1) = <<>>
          BY <2>3, <2>7, <3>1, <3>3, <4>1 DEF StackAfter
        <4>3. Len(SubSeq(s.stack, 1, n - 1)) = n - 1
          <5>1. n - 1 \in Int /\ 1 \in Int /\ \A k \in 1 .. n - 1 : s.stack[k] \in Labels
            BY <1>1, <4>1, ElementOfSeq
          <5>2. Len(SubSeq(s.stack, 1, n - 1)) = IF 1 <= n - 1 THEN n - 1 - 1 + 1 ELSE 0
            BY <5>1, SubSeqProperties
          <5> QED BY <4>1, <5>2
        <4>4. Len(<<>>) = 0
          OBVIOUS
        <4>5. n = 1
          <5> HIDE DEF n
          <5>1. n - 1 = 0
            BY <4>2, <4>3, <4>4
          <5> QED BY <4>1, <5>1
        <4>6. Closes(s.stack, d.kind, d.label)
          BY <3>1, <4>2, <4>5 DEF Closes
        <4> QED BY <2>3, <3>1, <4>6 DEF MalformedAfter
      <3> QED BY <1>1, <3>2, <3>3
    <2>8. ASSUME NEW x \in SpansOf(r) PROVE Inside(x, i)
      <3>1. SpansOf(r) = IF Closes(s.stack, d.kind, d.label)
                           THEN SpansOf(s) \cup {SpanOf(s, d)} ELSE SpansOf(s)
        BY <1>1, <2>1, <2>2, ProcessSpans
      <3>2. CASE x \in SpansOf(s)
        BY <1>2, <3>2
      <3>3. CASE x \notin SpansOf(s)
        <4>1. Closes(s.stack, d.kind, d.label) /\ x = SpanOf(s, d)
          BY <3>1, <3>3
        <4>2. s.stack # <<>>
          BY <2>5, <4>1 DEF Closes
        <4>3. /\ x \in Span /\ x.start = s.outer_start /\ x.end = i
              /\ x.body_start = s.body_start /\ x.footer_start = i
          BY <1>1, <2>1, <4>1 DEF SpanOf, Span
        <4> QED BY <1>1, <4>2, <4>3 DEF Inside
      <3> QED BY <3>2, <3>3
    <2> QED BY <2>2, <2>3, <2>4, <2>6, <2>7, <2>8 DEF Sane
  <1> QED BY <1>3, <1>4

LEMMA FeedsSane ==
    ASSUME NEW u \in Seq(Lexeme), NEW f, Feeds(f, ParserState, u)
    PROVE  \A i \in 0 .. Len(u) : Sane(f[i], i)
  <1> DEFINE Wrong == {i \in 0 .. Len(u) : ~Sane(f[i], i)}
  <1>1. Len(u) \in Nat
    BY LenProperties
  <1>2. f[0] = ParserState /\ \A i \in 1 .. Len(u) : f[i] = Fed(f[i - 1], u, i)
    BY <1>1, FeedsAt
  <1>3. SUFFICES ASSUME Wrong # {} PROVE FALSE
    OBVIOUS
  <1>4. PICK k \in Wrong : \A m \in Wrong : k <= m
    <2>1. Wrong \subseteq Nat
      OBVIOUS
    <2> HIDE DEF Wrong
    <2> QED BY <1>3, <2>1, LeastElement
  <1>5. k \in 1 .. Len(u) /\ Sane(f[k - 1], k - 1)
    BY <1>1, <1>2, <1>4, SaneStart
  <1>6. Sane(f[k], k)
    <2>1. PICK s : s = f[k - 1]
      OBVIOUS
    <2>2. k \in Nat \ {0} /\ Sane(s, k - 1) /\ f[k] = Fed(s, u, k)
      BY <1>2, <1>5, <2>1
    <2>3. Sane(Fed(s, u, k), k)
      BY <2>2, SaneNext
    <2> QED BY <2>2, <2>3
  <1> QED BY <1>4, <1>6

\* A private key is found within its text.
LEMMA PrivateKeysFound ==
    ASSUME NEW u \in Seq(Lexeme)
    PROVE  private_key_candidates(u) \subseteq FoundIn(Len(u))
  <1>1. Len(u) \in Nat /\ Len(u) \in 0 .. Len(u)
    BY LenProperties
  <1>2. PICK f : Feeds(f, ParserState, u)
    BY <1>1, FeedsExists
  <1>3. PICK s : s = f[Len(u)]
    OBVIOUS
  <1>4. Sane(s, Len(u))
    BY <1>1, <1>2, <1>3, FeedsSane
  <1>5. private_key_candidates(u) = Blocks(u, SpansOf(s)) \cup OpenBlock(s, Len(u))
    BY <1>2, <1>3, PrivateKeysAre
  <1>6. <<"private_key", 4, 2>> \in Kinds
    BY DEF Kinds
  <1>7. ASSUME NEW x \in SpansOf(s) PROVE Block(x.start, x.end) \in FoundIn(Len(u))
    <2>1. Inside(x, Len(u))
      BY <1>4 DEF Sane
    <2>2. PICK from \in Nat \ {0}, to \in Nat :
            from = x.start /\ to = x.end /\ from <= to /\ to <= Len(u)
      BY <2>1 DEF Inside, Span
    <2>3. Candidate("private_key", 4, 2, Range0(from, to)) \in FoundIn(Len(u))
      BY <1>1, <1>6, <2>2, CandidateFound
    <2> QED BY <2>2, <2>3 DEF Block
  <1>8. ASSUME s.stack # <<>> PROVE Block(s.outer_start, Len(u)) \in FoundIn(Len(u))
    <2>1. PICK from \in Nat \ {0} : from = s.outer_start /\ from <= Len(u)
      BY <1>4, <1>8 DEF Sane, Parser
    <2>2. Candidate("private_key", 4, 2, Range0(from, Len(u))) \in FoundIn(Len(u))
      BY <1>1, <1>6, <2>1, CandidateFound
    <2> QED BY <2>1, <2>2 DEF Block
  <1> QED BY <1>5, <1>7, <1>8 DEF Blocks, OpenBlock

MovedSpan(x, m) ==
    [start |-> x.start + m, end |-> x.end + m, body_start |-> x.body_start + m,
     footer_start |-> x.footer_start + m, malformed |-> x.malformed]
MovedSpans(X, m) == {MovedSpan(x, m) : x \in X}

\* The parser s of a text whose first m positions hold the spans A and left nothing open is as the
\* parser t of the rest of the text.
Alike(s, t, A, m) ==
    /\ s.stack = t.stack /\ s.malformed = t.malformed
    /\ t.stack # <<>> => s.outer_start = t.outer_start + m /\ s.body_start = t.body_start + m
    /\ SpansOf(s) = A \cup MovedSpans(SpansOf(t), m)

LEMMA AlikeNext ==
    ASSUME NEW s \in Parser, NEW t \in Parser, NEW A, NEW m \in Nat, Alike(s, t, A, m),
           NEW w, NEW v, NEW j \in Nat, w[m + j] = v[j]
    PROVE  Alike(Fed(s, w, m + j), Fed(t, v, j), A, m)
  <1>1. CASE v[j] \notin Begin \cup End
    BY <1>1 DEF Fed
  <1>2. CASE v[j] \in Begin \cup End
    <2>1. PICK e \in Delims : e = Delimiter(v, j) /\ e.start = j /\ e.end = j
      BY <1>2, DelimiterType
    <2>2. PICK i \in Nat : i = m + j
      OBVIOUS
    <2>3. PICK d \in Delims : d = Delimiter(w, i) /\ d.start = i /\ d.end = i
      BY <1>2, <2>2, DelimiterType
    <2>4. d.kind = e.kind /\ d.label = e.label
      BY <2>1, <2>2, <2>3 DEF Delimiter
    <2>5. PICK r : r = Fed(s, w, m + j) /\ Processed(r, s, d)
      BY <1>2, <2>2, <2>3, ProcessIs DEF Fed
    <2>6. PICK q : q = Fed(t, v, j) /\ Processed(q, t, e)
      BY <1>2, <2>1, ProcessIs DEF Fed
    <2>7. /\ r.stack = StackAfter(s.stack, d.kind, d.label)
          /\ r.malformed = MalformedAfter(s.stack, d.kind, d.label, s.malformed)
          /\ r.outer_start = IF Opens(s.stack, d.kind) THEN d.start ELSE s.outer_start
          /\ r.body_start = IF Opens(s.stack, d.kind) THEN d.end + 1 ELSE s.body_start
      BY <2>5 DEF Processed
    <2>8. /\ q.stack = StackAfter(t.stack, e.kind, e.label)
          /\ q.malformed = MalformedAfter(t.stack, e.kind, e.label, t.malformed)
          /\ q.outer_start = IF Opens(t.stack, e.kind) THEN e.start ELSE t.outer_start
          /\ q.body_start = IF Opens(t.stack, e.kind) THEN e.end + 1 ELSE t.body_start
      BY <2>6 DEF Processed
    <2>9. /\ s.stack = t.stack /\ s.malformed = t.malformed
          /\ t.stack # <<>> => s.outer_start = t.outer_start + m /\ s.body_start = t.body_start + m
          /\ SpansOf(s) = A \cup MovedSpans(SpansOf(t), m)
      BY DEF Alike
    <2>10. r.stack = q.stack /\ r.malformed = q.malformed
      BY <2>4, <2>7, <2>8, <2>9
    <2>11. t.stack \in Seq(Labels) /\ ((t.stack = <<>>) <=> (Len(t.stack) = 0))
      <3>1. t.stack \in Seq(Labels)
        BY DEF Parser
      <3> QED BY <3>1, EmptySeq
    <2>12. ASSUME q.stack # <<>>
           PROVE  r.outer_start = q.outer_start + m /\ r.body_start = q.body_start + m
      <3>1. CASE Opens(t.stack, e.kind)
        <4>1. r.outer_start = i /\ q.outer_start = j /\ r.body_start = i + 1 /\ q.body_start = j + 1
          BY <2>1, <2>3, <2>4, <2>7, <2>8, <2>9, <3>1
        <4> QED BY <2>2, <4>1
      <3>2. CASE ~Opens(t.stack, e.kind)
        <4>1. /\ r.outer_start = s.outer_start /\ q.outer_start = t.outer_start
              /\ r.body_start = s.body_start /\ q.body_start = t.body_start
          BY <2>4, <2>7, <2>8, <2>9, <3>2
        <4>2. t.stack # <<>>
          <5>1. SUFFICES ASSUME t.stack = <<>> PROVE FALSE
            OBVIOUS
          <5>2. Len(t.stack) = 0
            BY <2>11, <5>1
          <5>3. q.stack = t.stack
            BY <2>8, <3>2, <5>2 DEF StackAfter, Opens
          <5> QED BY <2>12, <5>1, <5>3
        <4> QED BY <2>9, <4>1, <4>2
      <3> QED BY <3>1, <3>2
    <2>13. SpansOf(r) = A \cup MovedSpans(SpansOf(q), m)
      <3>1. SpansOf(r) = IF Closes(s.stack, d.kind, d.label)
                           THEN SpansOf(s) \cup {SpanOf(s, d)} ELSE SpansOf(s)
        BY <2>5, ProcessSpans
      <3>2. SpansOf(q) = IF Closes(t.stack, e.kind, e.label)
                           THEN SpansOf(t) \cup {SpanOf(t, e)} ELSE SpansOf(t)
        BY <2>6, ProcessSpans
      <3>3. CASE Closes(t.stack, e.kind, e.label)
        <4>1. SpanOf(s, d) = MovedSpan(SpanOf(t, e), m)
          <5>1. t.stack # <<>>
            BY <2>11, <3>3 DEF Closes
          <5>2. /\ s.outer_start = t.outer_start + m /\ s.body_start = t.body_start + m
                /\ s.malformed = t.malformed
            BY <2>9, <5>1
          <5>3. d.end = e.end + m /\ d.start = e.start + m
            BY <2>1, <2>2, <2>3
          <5> QED BY <5>2, <5>3 DEF SpanOf, MovedSpan
        <4>2. MovedSpans(SpansOf(t) \cup {SpanOf(t, e)}, m)
                = MovedSpans(SpansOf(t), m) \cup {MovedSpan(SpanOf(t, e), m)}
          BY DEF MovedSpans
        <4>3. SpansOf(r) = SpansOf(s) \cup {SpanOf(s, d)}
          BY <2>4, <2>9, <3>1, <3>3
        <4>4. SpansOf(q) = SpansOf(t) \cup {SpanOf(t, e)}
          BY <3>2, <3>3
        <4> QED BY <2>9, <4>1, <4>2, <4>3, <4>4
      <3>4. CASE ~Closes(t.stack, e.kind, e.label)
        BY <2>4, <2>9, <3>1, <3>2, <3>4
      <3> QED BY <3>3, <3>4
    <2> QED BY <2>5, <2>6, <2>10, <2>12, <2>13 DEF Alike
  <1> QED BY <1>1, <1>2

\* Two texts joined, the first of which ends with no block open.
LEMMA FeedsAlike ==
    ASSUME NEW u \in Seq(Lexeme), NEW v \in Seq(Lexeme), NEW f, NEW g, NEW h,
           Feeds(f, ParserState, u), Feeds(g, ParserState, u \o v), Feeds(h, ParserState, v),
           f[Len(u)].stack = <<>>
    PROVE  Alike(g[Len(u) + Len(v)], h[Len(v)], SpansOf(f[Len(u)]), Len(u))
  <1>1. PICK m \in Nat, n \in Nat : m = Len(u) /\ n = Len(v)
    BY LenProperties
  <1>2. PICK w : w = u \o v
    OBVIOUS
  <1>3. /\ w \in Seq(Lexeme) /\ Len(w) = m + n /\ Len(w) \in Nat
        /\ \A j \in 1 .. n : w[m + j] = v[j]
    <2>1. /\ u \o v \in Seq(Lexeme) /\ Len(u \o v) = Len(u) + Len(v)
          /\ \A i \in 1 .. Len(u) + Len(v) :
                (u \o v)[i] = IF i <= Len(u) THEN u[i] ELSE v[i - Len(u)]
      BY ConcatProperties
    <2>2. \A j \in 1 .. n : m + j \in 1 .. m + n /\ ~(m + j <= m) /\ (m + j) - m = j
      OBVIOUS
    <2> QED BY <1>1, <1>2, <2>1, <2>2
  <1>4. ParserState \in Parser
    BY SaneStart DEF Sane
  <1>5. \A i \in 0 .. m + n : g[i] \in Parser
    BY <1>2, <1>3, <1>4, FeedsType
  <1>6. \A i \in 0 .. n : h[i] \in Parser
    BY <1>1, <1>4, FeedsType
  <1>7. \A i \in 1 .. m + n : g[i] = Fed(g[i - 1], w, i)
    <2>1. Feeds(g, ParserState, w) /\ Len(w) \in Nat
      BY <1>2, <1>3
    <2>2. \A i \in 1 .. Len(w) : g[i] = Fed(g[i - 1], w, i)
      BY <2>1, FeedsAt
    <2> QED BY <1>3, <2>2
  <1>8. h[0] = ParserState /\ \A i \in 1 .. n : h[i] = Fed(h[i - 1], v, i)
    BY <1>1, FeedsAt
  <1>9. g[m] = f[m]
    <2>1. \A i \in 0 .. Len(u) : g[i] = f[i]
      BY FeedsPrefix
    <2>2. m \in 0 .. m
      OBVIOUS
    <2> QED BY <1>1, <2>1, <2>2
  <1> DEFINE A == SpansOf(f[m])
  <1>10. Alike(g[m + 0], h[0], A, m)
    <2>1. Sane(f[m], m)
      BY <1>1, FeedsSane
    <2>2. f[m].stack = <<>> /\ f[m].malformed = FALSE
      <3>1. f[m].malformed \in BOOLEAN
        BY <2>1 DEF Sane, Parser
      <3> QED BY <1>1, <2>1, <3>1 DEF Sane
    <2>3. h[0].stack = <<>> /\ h[0].malformed = FALSE /\ h[0].completed = <<>>
      BY <1>8 DEF ParserState
    <2>4. SpansOf(h[0]) = {}
      BY <2>3 DEF SpansOf
    <2>5. MovedSpans(SpansOf(h[0]), m) = {}
      BY <2>4 DEF MovedSpans
    <2>6. m + 0 = m
      OBVIOUS
    <2> QED BY <1>9, <2>2, <2>3, <2>5, <2>6 DEF Alike
  <1> HIDE DEF A
  <1> DEFINE Wrong == {j \in 0 .. n : ~Alike(g[m + j], h[j], A, m)}
  <1>11. SUFFICES ASSUME Wrong # {} PROVE FALSE
    <2>1. Wrong = {} => Alike(g[m + n], h[n], A, m)
      OBVIOUS
    <2> QED BY <1>1, <2>1 DEF A
  <1>12. PICK k \in Wrong : \A i \in Wrong : k <= i
    <2>1. Wrong \subseteq Nat
      OBVIOUS
    <2> HIDE DEF Wrong
    <2> QED BY <1>11, <2>1, LeastElement
  <1>13. k \in 1 .. n /\ Alike(g[m + (k - 1)], h[k - 1], A, m)
    <2>1. k # 0
      BY <1>10, <1>12
    <2> QED BY <1>12, <2>1
  <1>14. PICK s \in Parser, t \in Parser : s = g[m + (k - 1)] /\ t = h[k - 1]
    <2>1. m + (k - 1) \in 0 .. m + n /\ k - 1 \in 0 .. n
      BY <1>13
    <2> QED BY <1>5, <1>6, <2>1
  <1>15. g[m + k] = Fed(s, w, m + k) /\ h[k] = Fed(t, v, k)
    <2>1. m + k \in 1 .. m + n /\ (m + k) - 1 = m + (k - 1)
      BY <1>13
    <2>2. g[m + k] = Fed(g[(m + k) - 1], w, m + k)
      BY <1>7, <2>1
    <2>3. h[k] = Fed(h[k - 1], v, k)
      BY <1>8, <1>13
    <2> QED BY <1>14, <2>1, <2>2, <2>3
  <1>16. Alike(Fed(s, w, m + k), Fed(t, v, k), A, m)
    <2>1. Alike(s, t, A, m) /\ k \in Nat /\ w[m + k] = v[k]
      BY <1>3, <1>13, <1>14
    <2> QED BY <2>1, AlikeNext
  <1> QED BY <1>12, <1>15, <1>16

\* A candidate found further on.
LEMMA CandidateMoves ==
    ASSUME NEW t, NEW s, NEW c, <<t, s, c>> \in Kinds,
           NEW from \in Nat \ {0}, NEW to \in Nat, from <= to, NEW m \in Nat
    PROVE  Candidate(t, s, c, Range0(from + m, to + m)) = Shift(Candidate(t, s, c, Range0(from, to)), m)
  <1>1. PICK a \in Nat \ {0}, b \in Nat : a = from + m /\ b = to + m /\ a <= b
    <2>1. from + m \in Nat \ {0} /\ to + m \in Nat /\ from + m <= to + m
      OBVIOUS
    <2> QED BY <2>1
  <1>2. PICK x : x = Candidate(t, s, c, Range0(from, to))
    OBVIOUS
  <1>3. PICK y : y = Candidate(t, s, c, Range0(a, b))
    OBVIOUS
  <1>4. /\ x \in FoundIn(to)
        /\ x = [type |-> t, specificity |-> s, confidence |-> c, start |-> from - 1, end |-> to]
    BY <1>2, CandidateFound
  <1>5. /\ y \in FoundIn(b)
        /\ y = [type |-> t, specificity |-> s, confidence |-> c, start |-> a - 1, end |-> b]
    BY <1>1, <1>3, CandidateFound
  <1>6. /\ Shift(x, m) \in FoundIn(m + to)
        /\ Shift(x, m).specificity = x.specificity /\ Shift(x, m).confidence = x.confidence
        /\ Shift(x, m).start = x.start + m /\ Shift(x, m).end = x.end + m
    <2>1. x \in FoundIn(to)
      BY <1>4
    <2> QED BY <2>1, ShiftFields
  <1>7. m + to = b
    BY <1>1
  <1>8. /\ x.specificity = s /\ x.confidence = c /\ x.start = from - 1 /\ x.end = to
        /\ y.specificity = s /\ y.confidence = c /\ y.start = a - 1 /\ y.end = b
    BY <1>4, <1>5
  <1>9. (from - 1) + m = a - 1
    BY <1>1
  <1>10. y = Shift(x, m)
    <2>1. PICK z : z = Shift(x, m)
      OBVIOUS
    <2>2. z \in FoundIn(b)
      BY <1>6, <1>7, <2>1
    <2>3. /\ z.specificity = y.specificity /\ z.confidence = y.confidence
          /\ z.start = y.start /\ z.end = y.end
      BY <1>1, <1>6, <1>8, <1>9, <2>1
    <2>4. z = y
      BY <1>5, <2>2, <2>3, FoundEqual
    <2> QED BY <2>1, <2>4
  <1> QED BY <1>1, <1>2, <1>3, <1>10

LEMMA BlockMoves ==
    ASSUME NEW from \in Nat \ {0}, NEW to \in Nat, from <= to, NEW m \in Nat
    PROVE  Block(from + m, to + m) = Shift(Block(from, to), m)
  <1>1. <<"private_key", 4, 2>> \in Kinds
    BY DEF Kinds
  <1> QED BY <1>1, CandidateMoves DEF Block

\* The private keys of two texts are those of each, when the first leaves no block open.
LEMMA PrivateKeysSplit ==
    ASSUME NEW u \in Seq(Lexeme), NEW v \in Seq(Lexeme),
           tracker_append(TrackerInit, u).stack = <<>>
    PROVE  private_key_candidates(u \o v)
             = private_key_candidates(u) \cup Shifted(private_key_candidates(v), Len(u))
  <1>1. PICK m \in Nat, n \in Nat : m = Len(u) /\ n = Len(v)
    BY LenProperties
  <1>2. PICK w : w = u \o v
    OBVIOUS
  <1>3. /\ w \in Seq(Lexeme) /\ Len(w) = m + n /\ Len(w) \in Nat
        /\ \A i \in 1 .. m : w[i] = u[i]
        /\ \A j \in 1 .. n : w[m + j] = v[j]
    <2>1. /\ u \o v \in Seq(Lexeme) /\ Len(u \o v) = Len(u) + Len(v)
          /\ \A i \in 1 .. Len(u) + Len(v) :
                (u \o v)[i] = IF i <= Len(u) THEN u[i] ELSE v[i - Len(u)]
      BY ConcatProperties
    <2>2. \A j \in 1 .. n : m + j \in 1 .. m + n /\ ~(m + j <= m) /\ (m + j) - m = j
      OBVIOUS
    <2>3. \A i \in 1 .. m : i \in 1 .. m + n /\ i <= m
      OBVIOUS
    <2> QED BY <1>1, <1>2, <2>1, <2>2, <2>3
  <1>4. PICK f : Feeds(f, ParserState, u)
    BY <1>1, FeedsExists
  <1>5. PICK g : Feeds(g, ParserState, w)
    BY <1>3, FeedsExists
  <1>6. PICK h : Feeds(h, ParserState, v)
    BY <1>1, FeedsExists
  <1>7. PICK a, b, c : a = f[m] /\ b = g[m + n] /\ c = h[n]
    OBVIOUS
  <1>8. a.stack = <<>>
    <2>1. TrackerInit \in Tracker
      BY DEF TrackerInit, Tracker
    <2>2. Resumed(TrackerInit) = ParserState
      <3>1. PICK s \in Parser : s = ParserState
        BY SaneStart DEF Sane
      <3>2. s.stack = <<>> /\ s.has_begin = FALSE
        BY <3>1 DEF ParserState
      <3>3. [s EXCEPT !.stack = <<>>, !.has_begin = FALSE] = s
        BY <3>2 DEF Parser
      <3> QED BY <3>1, <3>3 DEF Resumed, TrackerInit
    <2>3. tracker_append(TrackerInit, u) = View(f[Len(u)])
      BY <1>4, <2>1, <2>2, TrackerAppendIs
    <2> QED BY <1>1, <1>7, <2>3 DEF View
  <1>9. Alike(b, c, SpansOf(a), m)
    BY <1>1, <1>2, <1>4, <1>5, <1>6, <1>7, <1>8, FeedsAlike
  <1>10. Sane(a, m) /\ Sane(c, n)
    BY <1>1, <1>4, <1>6, <1>7, FeedsSane
  <1>11. /\ private_key_candidates(u) = Blocks(u, SpansOf(a)) \cup OpenBlock(a, m)
         /\ private_key_candidates(v) = Blocks(v, SpansOf(c)) \cup OpenBlock(c, n)
         /\ private_key_candidates(w) = Blocks(w, SpansOf(b)) \cup OpenBlock(b, m + n)
    BY <1>1, <1>3, <1>4, <1>5, <1>6, <1>7, PrivateKeysAre
  <1>12. OpenBlock(a, m) = {}
    BY <1>8 DEF OpenBlock
  <1>13. OpenBlock(b, m + n) = Shifted(OpenBlock(c, n), m)
    <2>1. b.stack = c.stack /\ b.malformed = c.malformed
      BY <1>9 DEF Alike
    <2>2. CASE c.stack # <<>> /\ c.malformed
      <3>1. PICK from \in Nat \ {0} : /\ from = c.outer_start /\ b.outer_start = from + m
                                      /\ from <= n
        BY <1>9, <1>10, <2>2 DEF Alike, Sane, Parser
      <3>2. OpenBlock(b, m + n) = {Block(from + m, n + m)}
        BY <2>1, <2>2, <3>1 DEF OpenBlock
      <3>3. OpenBlock(c, n) = {Block(from, n)}
        BY <2>2, <3>1 DEF OpenBlock
      <3>4. Block(from + m, n + m) = Shift(Block(from, n), m)
        BY <3>1, BlockMoves
      <3> QED BY <3>2, <3>3, <3>4 DEF Shifted
    <2>3. CASE ~(c.stack # <<>> /\ c.malformed)
      <3>1. OpenBlock(b, m + n) = {} /\ OpenBlock(c, n) = {}
        BY <2>1, <2>3 DEF OpenBlock
      <3> QED BY <3>1 DEF Shifted
    <2> QED BY <2>2, <2>3
  <1>14. ASSUME NEW x \in SpansOf(a)
         PROVE  Reported(w, x) <=> Reported(u, x)
    <2>1. Inside(x, m)
      BY <1>10 DEF Sane
    <2>2. x.body_start \in Nat /\ x.footer_start \in Nat /\ 1 <= x.body_start /\ x.footer_start <= m
      BY <2>1 DEF Inside, Span
    <2>3. \A i \in x.body_start .. x.footer_start - 1 : i \in 1 .. m
      BY <2>2
    <2>4. \A i \in x.body_start .. x.footer_start - 1 : w[i] = u[i]
      BY <1>3, <2>3
    <2> QED BY <2>4 DEF Reported, has_encoded_body
  <1>15. ASSUME NEW x \in SpansOf(c)
         PROVE  /\ Reported(w, MovedSpan(x, m)) <=> Reported(v, x)
                /\ Block(MovedSpan(x, m).start, MovedSpan(x, m).end)
                     = Shift(Block(x.start, x.end), m)
    <2>1. Inside(x, n)
      BY <1>10 DEF Sane
    <2>2. PICK p \in Nat, q \in Nat : p = x.body_start /\ q = x.footer_start /\ 1 <= p /\ q <= n
      BY <2>1 DEF Inside, Span
    <2>3. PICK y : y = MovedSpan(x, m)
      OBVIOUS
    <2>4. /\ y.malformed = x.malformed /\ y.body_start = p + m /\ y.footer_start = q + m
          /\ y.start = x.start + m /\ y.end = x.end + m
      BY <2>2, <2>3 DEF MovedSpan
    <2>5. has_encoded_body(w, p + m, (q + m) - 1) <=> has_encoded_body(v, p, q - 1)
      <3>1. ASSUME NEW i \in p .. q - 1
            PROVE  i + m \in p + m .. (q + m) - 1 /\ w[i + m] = v[i]
        <4>1. i \in 1 .. n /\ i + m = m + i
          BY <2>2
        <4>2. w[m + i] = v[i]
          BY <1>3, <4>1
        <4> QED BY <4>1, <4>2
      <3>2. ASSUME NEW k \in p + m .. (q + m) - 1
            PROVE  k - m \in p .. q - 1 /\ w[k] = v[k - m]
        <4>1. k - m \in 1 .. n /\ k - m \in p .. q - 1 /\ m + (k - m) = k
          BY <2>2
        <4>2. w[m + (k - m)] = v[k - m]
          BY <1>3, <4>1
        <4> QED BY <4>1, <4>2
      <3> QED BY <3>1, <3>2 DEF has_encoded_body
    <2>6. Reported(w, y) <=> Reported(v, x)
      BY <2>2, <2>4, <2>5 DEF Reported
    <2>7. x.start \in Nat \ {0} /\ x.end \in Nat /\ x.start <= x.end
      BY <2>1 DEF Inside, Span
    <2>8. Block(y.start, y.end) = Shift(Block(x.start, x.end), m)
      <3>1. PICK k \in Nat \ {0}, l \in Nat : k = x.start /\ l = x.end /\ k <= l
        BY <2>7
      <3>2. Block(k + m, l + m) = Shift(Block(k, l), m)
        BY <3>1, BlockMoves
      <3> QED BY <2>4, <3>1, <3>2
    <2> QED BY <2>3, <2>6, <2>8
  <1>16. Blocks(w, SpansOf(b)) = Blocks(u, SpansOf(a)) \cup Shifted(Blocks(v, SpansOf(c)), m)
    <2>1. SpansOf(b) = SpansOf(a) \cup MovedSpans(SpansOf(c), m)
      BY <1>9 DEF Alike
    <2>2. Blocks(w, SpansOf(b)) = Blocks(w, SpansOf(a)) \cup Blocks(w, MovedSpans(SpansOf(c), m))
      BY <2>1 DEF Blocks
    <2>3. Blocks(w, SpansOf(a)) = Blocks(u, SpansOf(a))
      BY <1>14 DEF Blocks
    <2>4. ASSUME NEW k \in Blocks(w, MovedSpans(SpansOf(c), m))
          PROVE  k \in Shifted(Blocks(v, SpansOf(c)), m)
      <3>1. PICK y \in MovedSpans(SpansOf(c), m) : Reported(w, y) /\ k = Block(y.start, y.end)
        BY DEF Blocks
      <3>2. PICK x \in SpansOf(c) : y = MovedSpan(x, m)
        BY DEF MovedSpans
      <3>3. Reported(v, x) /\ k = Shift(Block(x.start, x.end), m)
        BY <1>15, <3>1, <3>2
      <3> QED BY <3>3 DEF Shifted, Blocks
    <2>5. ASSUME NEW k \in Shifted(Blocks(v, SpansOf(c)), m)
          PROVE  k \in Blocks(w, MovedSpans(SpansOf(c), m))
      <3>1. PICK x \in SpansOf(c) : Reported(v, x) /\ k = Shift(Block(x.start, x.end), m)
        BY DEF Shifted, Blocks
      <3>2. PICK y \in MovedSpans(SpansOf(c), m) : y = MovedSpan(x, m)
        BY DEF MovedSpans
      <3>3. Reported(w, y) /\ k = Block(y.start, y.end)
        BY <1>15, <3>1, <3>2
      <3> QED BY <3>3 DEF Blocks
    <2> QED BY <2>2, <2>3, <2>4, <2>5
  <1>17. Shifted(private_key_candidates(v), m)
           = Shifted(Blocks(v, SpansOf(c)), m) \cup Shifted(OpenBlock(c, n), m)
    BY <1>11 DEF Shifted
  <1>18. private_key_candidates(w)
           = private_key_candidates(u) \cup Shifted(private_key_candidates(v), m)
    BY <1>11, <1>12, <1>13, <1>16, <1>17
  <1> QED BY <1>1, <1>2, <1>18

---------------------------------------------------------------------------
(* Detectors whose match is one lexeme. *)

\* w is u followed by v.
Joined(w, u, v) ==
    /\ w \in Seq(Lexeme) /\ u \in Seq(Lexeme) /\ v \in Seq(Lexeme)
    /\ Len(w) = Len(u) + Len(v) /\ Len(u) \in Nat /\ Len(v) \in Nat /\ Len(w) \in Nat
    /\ \A i \in 1 .. Len(u) : w[i] = u[i]
    /\ \A j \in 1 .. Len(v) : w[Len(u) + j] = v[j]

LEMMA ConcatJoins ==
    ASSUME NEW u \in Seq(Lexeme), NEW v \in Seq(Lexeme)
    PROVE  Joined(u \o v, u, v)
  <1>1. Len(u) \in Nat /\ Len(v) \in Nat
    BY LenProperties
  <1>2. /\ u \o v \in Seq(Lexeme) /\ Len(u \o v) = Len(u) + Len(v)
        /\ \A i \in 1 .. Len(u) + Len(v) :
              (u \o v)[i] = IF i <= Len(u) THEN u[i] ELSE v[i - Len(u)]
    BY ConcatProperties
  <1>3. \A j \in 1 .. Len(v) : /\ Len(u) + j \in 1 .. Len(u) + Len(v)
                               /\ ~(Len(u) + j <= Len(u)) /\ (Len(u) + j) - Len(u) = j
    BY <1>1
  <1>4. \A i \in 1 .. Len(u) : i \in 1 .. Len(u) + Len(v) /\ i <= Len(u)
    BY <1>1
  <1> QED BY <1>1, <1>2, <1>3, <1>4 DEF Joined

LEMMA StructuralFound ==
    ASSUME NEW u \in Seq(Lexeme), NEW x, NEW t, NEW c, <<t, 2, c>> \in Kinds
    PROVE  Structural(u, x, t, c) \subseteq FoundIn(Len(u))
  <1>1. Len(u) \in Nat
    BY LenProperties
  <1>2. ASSUME NEW i \in 1 .. Len(u)
        PROVE  Candidate(t, 2, c, Range0(i, i)) \in FoundIn(Len(u))
    <2>1. i \in Nat \ {0} /\ i \in Nat /\ i <= i /\ i <= Len(u)
      BY <1>1
    <2> QED BY <1>1, <2>1, CandidateFound
  <1> QED BY <1>2 DEF Structural

LEMMA StructuralSplits ==
    ASSUME NEW w, NEW u, NEW v, Joined(w, u, v), NEW x, NEW t, NEW c, <<t, 2, c>> \in Kinds
    PROVE  Structural(w, x, t, c)
             = Structural(u, x, t, c) \cup Shifted(Structural(v, x, t, c), Len(u))
  <1> DEFINE m == Len(u)
             n == Len(v)
             at(i) == Candidate(t, 2, c, Range0(i, i))
             U == {i \in 1 .. m : u[i] = x}
             V == {i \in 1 .. n : v[i] = x}
             W == {i \in 1 .. m + n : w[i] = x}
  <1>1. /\ Len(w) = m + n /\ m \in Nat /\ n \in Nat
        /\ \A i \in 1 .. m : w[i] = u[i]
        /\ \A j \in 1 .. n : w[m + j] = v[j]
    BY DEF Joined
  <1> HIDE DEF m, n
  <1>2. /\ Structural(w, x, t, c) = {at(i) : i \in W}
        /\ Structural(u, x, t, c) = {at(i) : i \in U}
        /\ Structural(v, x, t, c) = {at(i) : i \in V}
    BY <1>1 DEF Structural, m, n
  <1>3. ASSUME NEW i \in V PROVE at(i + m) = Shift(at(i), m)
    <2>1. i \in Nat \ {0} /\ i \in Nat /\ i <= i
      OBVIOUS
    <2> QED BY <1>1, <2>1, CandidateMoves
  <1>4. ASSUME NEW i \in W PROVE i \in U \/ i - m \in V
    <2>1. CASE i <= m
      <3>1. i \in 1 .. m
        BY <1>1, <2>1
      <3> QED BY <1>1, <3>1
    <2>2. CASE ~(i <= m)
      <3>1. i - m \in 1 .. n /\ m + (i - m) = i
        BY <1>1, <2>2
      <3> QED BY <1>1, <3>1
    <2> QED BY <2>1, <2>2
  <1>5. U \subseteq W
    <2>1. \A i \in 1 .. m : i \in 1 .. m + n
      BY <1>1
    <2> QED BY <1>1, <2>1
  <1>6. ASSUME NEW i \in V PROVE i + m \in W
    <2>1. i + m \in 1 .. m + n /\ m + i = i + m
      BY <1>1
    <2> QED BY <1>1, <2>1
  <1>7. \A i \in W : (i - m) + m = i
    BY <1>1
  <1> HIDE DEF U, V, W, at
  <1>8. ASSUME NEW i \in W PROVE at(i) \in {at(j) : j \in U} \cup Shifted({at(j) : j \in V}, m)
    <2>1. CASE i \in U
      BY <2>1
    <2>2. CASE i - m \in V
      <3>1. at(i) = Shift(at(i - m), m)
        BY <1>3, <1>7, <2>2
      <3> QED BY <2>2, <3>1 DEF Shifted
    <2> QED BY <1>4, <2>1, <2>2
  <1>9. ASSUME NEW i \in V PROVE Shift(at(i), m) \in {at(j) : j \in W}
    BY <1>3, <1>6
  <1>10. {at(i) : i \in W} = {at(j) : j \in U} \cup Shifted({at(j) : j \in V}, m)
    BY <1>5, <1>8, <1>9 DEF Shifted
  <1> QED BY <1>2, <1>10 DEF m

---------------------------------------------------------------------------
(* Contextual assignments. *)

\* j is the first position from i on whose lexeme is outside S.
SkipsTo(u, S, i, j) ==
    /\ j \in i .. (Len(u) + 1)
    /\ j = Len(u) + 1 \/ u[j] \notin S
    /\ \A k \in i .. (j - 1) : u[k] \in S

LEMMA SkipWhileIs ==
    ASSUME NEW u, Len(u) \in Nat, NEW S, NEW i \in 1 .. (Len(u) + 1)
    PROVE  SkipsTo(u, S, i, SkipWhile(u, S, i))
  <1> DEFINE Outside == {j \in i .. (Len(u) + 1) : j = Len(u) + 1 \/ u[j] \notin S}
  <1>1. PICK j \in Outside : \A k \in Outside : j <= k
    <2>1. Len(u) + 1 \in Outside /\ Outside \subseteq Nat
      OBVIOUS
    <2> HIDE DEF Outside
    <2> QED BY <2>1, LeastElement
  <1>2. ASSUME NEW k \in i .. (j - 1) PROVE u[k] \in S
    <2>1. k \in i .. (Len(u) + 1) /\ ~(j <= k) /\ k # Len(u) + 1
      OBVIOUS
    <2>2. k \notin Outside
      BY <1>1, <2>1
    <2> QED BY <2>1, <2>2
  <1>3. \E k \in i .. (Len(u) + 1) : /\ k = Len(u) + 1 \/ u[k] \notin S
                                     /\ \A l \in i .. (k - 1) : u[l] \in S
    BY <1>1, <1>2
  <1> QED BY <1>3 DEF SkipWhile, SkipsTo

LEMMA SkipsOnce ==
    ASSUME NEW u, Len(u) \in Nat, NEW S, NEW i \in 1 .. (Len(u) + 1),
           NEW j, SkipsTo(u, S, i, j)
    PROVE  SkipWhile(u, S, i) = j
  <1>1. PICK k : k = SkipWhile(u, S, i)
    OBVIOUS
  <1>2. SkipsTo(u, S, i, k)
    BY <1>1, SkipWhileIs
  <1>3. /\ j \in i .. (Len(u) + 1) /\ (j = Len(u) + 1 \/ u[j] \notin S)
        /\ \A l \in i .. (j - 1) : u[l] \in S
    BY DEF SkipsTo
  <1>4. /\ k \in i .. (Len(u) + 1) /\ (k = Len(u) + 1 \/ u[k] \notin S)
        /\ \A l \in i .. (k - 1) : u[l] \in S
    BY <1>2 DEF SkipsTo
  <1>5. ~(j < k)
    <2>1. SUFFICES ASSUME j < k PROVE FALSE
      OBVIOUS
    <2>2. j \in i .. (k - 1) /\ j # Len(u) + 1
      BY <1>3, <1>4, <2>1
    <2> QED BY <1>3, <1>4, <2>2
  <1>6. ~(k < j)
    <2>1. SUFFICES ASSUME k < j PROVE FALSE
      OBVIOUS
    <2>2. k \in i .. (j - 1) /\ k # Len(u) + 1
      BY <1>3, <1>4, <2>1
    <2> QED BY <1>3, <1>4, <2>2
  <1> QED BY <1>1, <1>3, <1>4, <1>5, <1>6

\* Skipping in the second of two texts, and in the first when it stops there.
LEMMA SkipsMoved ==
    ASSUME NEW w, NEW u, NEW v, Joined(w, u, v), NEW S, NEW i \in 1 .. (Len(v) + 1),
           NEW j, SkipsTo(v, S, i, j)
    PROVE  SkipsTo(w, S, Len(u) + i, Len(u) + j)
  <1> DEFINE m == Len(u)
             n == Len(v)
  <1>1. /\ Len(w) = m + n /\ m \in Nat /\ n \in Nat
        /\ \A l \in 1 .. n : w[m + l] = v[l]
    BY DEF Joined
  <1>2. /\ j \in i .. (n + 1) /\ (j = n + 1 \/ v[j] \notin S)
        /\ \A l \in i .. (j - 1) : v[l] \in S
    BY DEF SkipsTo
  <1> HIDE DEF m, n
  <1>3. i \in 1 .. (n + 1)
    BY DEF n
  <1>4. m + j \in m + i .. (m + n) + 1
    BY <1>1, <1>2, <1>3
  <1>5. m + j = (m + n) + 1 \/ w[m + j] \notin S
    <2>1. CASE j = n + 1
      BY <1>1, <2>1
    <2>2. CASE j # n + 1
      <3>1. j \in 1 .. n
        BY <1>1, <1>2, <1>3, <2>2
      <3> QED BY <1>1, <1>2, <2>2, <3>1
    <2> QED BY <2>1, <2>2
  <1>6. ASSUME NEW k \in m + i .. (m + j) - 1 PROVE w[k] \in S
    <2>1. k - m \in 1 .. n /\ k - m \in i .. (j - 1) /\ m + (k - m) = k
      BY <1>1, <1>2, <1>3
    <2>2. w[m + (k - m)] = v[k - m]
      BY <1>1, <2>1
    <2> QED BY <1>2, <2>1, <2>2
  <1> QED BY <1>1, <1>4, <1>5, <1>6 DEF SkipsTo, m

LEMMA SkipsKept ==
    ASSUME NEW w, NEW u, NEW v, Joined(w, u, v), NEW S, NEW i \in 1 .. Len(u),
           NEW j, SkipsTo(u, S, i, j), j <= Len(u)
    PROVE  SkipsTo(w, S, i, j)
  <1> DEFINE m == Len(u)
             n == Len(v)
  <1>1. /\ Len(w) = m + n /\ m \in Nat /\ n \in Nat
        /\ \A l \in 1 .. m : w[l] = u[l]
    BY DEF Joined
  <1>2. /\ j \in i .. (m + 1) /\ (j = m + 1 \/ u[j] \notin S)
        /\ \A l \in i .. (j - 1) : u[l] \in S
    BY DEF SkipsTo
  <1> HIDE DEF m, n
  <1>3. i \in 1 .. m /\ j <= m
    BY DEF m
  <1>4. j \in 1 .. m /\ j \in i .. (m + n) + 1 /\ \A l \in i .. (j - 1) : l \in 1 .. m
    BY <1>1, <1>2, <1>3
  <1>5. w[j] \notin S
    <2>1. j # m + 1
      BY <1>1, <1>3, <1>4
    <2> QED BY <1>1, <1>2, <1>4, <2>1
  <1>6. \A l \in i .. (j - 1) : w[l] \in S
    BY <1>1, <1>2, <1>4
  <1> QED BY <1>1, <1>4, <1>5, <1>6 DEF SkipsTo

\* The value that starts at x: quoted, or the run of names from x to just before `run`.
Quoted(u, x) == x <= Len(u) /\ u[x] = "value"
Unquoted(u, x, run) == (\E i \in x .. (run - 1) : u[i] = "key") \/ run - x >= 4
QuotedEnds(u, x) == x = Len(u) \/ u[x + 1] \notin Named \cup {"value"}
ValueAt(u, x, run) ==
    IF Quoted(u, x)
      THEN IF QuotedEnds(u, x) THEN {Candidate("contextual_secret", 1, 2, Range0(x, x))} ELSE {}
    ELSE IF Unquoted(u, x, run)
      THEN {Candidate("contextual_secret", 1, 1, Range0(x, run - 1))}
    ELSE {}

LEMMA AssignmentValueIs ==
    ASSUME NEW u, Len(u) \in Nat, NEW x \in 1 .. (Len(u) + 1),
           NEW run, SkipsTo(u, Named, x, run)
    PROVE  assignment_value(u, x) = ValueAt(u, x, run)
  <1>1. SkipWhile(u, Named, x) = run
    BY SkipsOnce
  <1>2. /\ run \in x .. (Len(u) + 1) /\ (run = Len(u) + 1 \/ u[run] \notin Named)
        /\ \A k \in x .. (run - 1) : u[k] \in Named
    BY DEF SkipsTo
  <1>3. CASE Quoted(u, x)
    <2>1. u[x] \notin Named
      BY <1>3 DEF Quoted, Named
    <2>2. run = x
      <3>1. SUFFICES ASSUME run # x PROVE FALSE
        OBVIOUS
      <3>2. x \in x .. (run - 1)
        BY <1>2, <3>1
      <3> QED BY <1>2, <2>1, <3>2
    <2>3. ~Unquoted(u, x, run)
      BY <2>2 DEF Unquoted
    <2>4. assignment_value(u, x)
            = IF QuotedEnds(u, x) THEN {Candidate("contextual_secret", 1, 2, Range0(x, x))} ELSE {}
      BY <1>1, <1>3, <2>3 DEF assignment_value, Quoted, Unquoted, QuotedEnds
    <2> QED BY <1>3, <2>4 DEF ValueAt
  <1>4. CASE ~Quoted(u, x) /\ Unquoted(u, x, run)
    <2>1. assignment_value(u, x) = {Candidate("contextual_secret", 1, 1, Range0(x, run - 1))}
      BY <1>1, <1>4 DEF assignment_value, Quoted, Unquoted
    <2> QED BY <1>4, <2>1 DEF ValueAt
  <1>5. CASE ~Quoted(u, x) /\ ~Unquoted(u, x, run)
    <2>1. assignment_value(u, x) = {}
      BY <1>1, <1>5 DEF assignment_value, Quoted, Unquoted
    <2> QED BY <1>5, <2>1 DEF ValueAt
  <1> QED BY <1>3, <1>4, <1>5

LEMMA ContextualKinds ==
    <<"contextual_secret", 1, 2>> \in Kinds /\ <<"contextual_secret", 1, 1>> \in Kinds
  BY DEF Kinds

LEMMA ValueFound ==
    ASSUME NEW u, Len(u) \in Nat, NEW x \in 1 .. (Len(u) + 1)
    PROVE  assignment_value(u, x) \subseteq FoundIn(Len(u))
  <1>1. PICK run : SkipsTo(u, Named, x, run)
    BY SkipWhileIs
  <1>2. run \in x .. (Len(u) + 1)
    BY <1>1 DEF SkipsTo
  <1>3. assignment_value(u, x) = ValueAt(u, x, run)
    BY <1>1, AssignmentValueIs
  <1>4. CASE Quoted(u, x)
    <2>1. x \in Nat \ {0} /\ x \in Nat /\ x <= x /\ x <= Len(u)
      BY <1>4 DEF Quoted
    <2>2. Candidate("contextual_secret", 1, 2, Range0(x, x)) \in FoundIn(Len(u))
      BY <2>1, ContextualKinds, CandidateFound
    <2> QED BY <1>3, <1>4, <2>2 DEF ValueAt
  <1>5. CASE ~Quoted(u, x) /\ Unquoted(u, x, run)
    <2>1. PICK to \in Nat : to = run - 1 /\ x <= to /\ to <= Len(u)
      <3>1. x <= run - 1
        BY <1>2, <1>5 DEF Unquoted
      <3> QED BY <1>2, <3>1
    <2>2. x \in Nat \ {0}
      OBVIOUS
    <2>3. Candidate("contextual_secret", 1, 1, Range0(x, to)) \in FoundIn(Len(u))
      BY <2>1, <2>2, ContextualKinds, CandidateFound
    <2> QED BY <1>3, <1>5, <2>1, <2>3 DEF ValueAt
  <1>6. CASE ~Quoted(u, x) /\ ~Unquoted(u, x, run)
    BY <1>3, <1>6 DEF ValueAt
  <1> QED BY <1>4, <1>5, <1>6

LEMMA ValueMoves ==
    ASSUME NEW w, NEW u, NEW v, Joined(w, u, v), NEW x \in 1 .. (Len(v) + 1)
    PROVE  assignment_value(w, Len(u) + x) = Shifted(assignment_value(v, x), Len(u))
  <1>1. PICK m \in Nat, n \in Nat : /\ m = Len(u) /\ n = Len(v) /\ Len(w) = m + n
                                    /\ \A l \in 1 .. n : w[m + l] = v[l]
    BY DEF Joined
  <1>2. PICK run : SkipsTo(v, Named, x, run)
    BY <1>1, SkipWhileIs
  <1>3. run \in x .. (n + 1) /\ x \in 1 .. n + 1 /\ run \in Nat /\ x \in Nat \ {0}
    BY <1>1, <1>2 DEF SkipsTo
  <1>4. SkipsTo(w, Named, m + x, m + run)
    BY <1>1, <1>2, SkipsMoved
  <1>5. assignment_value(v, x) = ValueAt(v, x, run)
    BY <1>1, <1>2, AssignmentValueIs
  <1>6. assignment_value(w, m + x) = ValueAt(w, m + x, m + run)
    <2>1. PICK y : y = m + x
      OBVIOUS
    <2>2. PICK r : r = m + run
      OBVIOUS
    <2>3. y \in 1 .. (Len(w) + 1) /\ Len(w) \in Nat
      BY <1>1, <1>3, <2>1
    <2>4. SkipsTo(w, Named, y, r)
      BY <1>4, <2>1, <2>2
    <2>5. assignment_value(w, y) = ValueAt(w, y, r)
      BY <2>3, <2>4, AssignmentValueIs
    <2> QED BY <2>1, <2>2, <2>5
  <1>7. Quoted(w, m + x) <=> Quoted(v, x)
    <2>1. m + x <= m + n <=> x <= n
      BY <1>3
    <2>2. x <= n => w[m + x] = v[x]
      BY <1>1, <1>3
    <2> QED BY <1>1, <2>1, <2>2 DEF Quoted
  <1>8. CASE Quoted(v, x)
    <2>1. x \in 1 .. n
      BY <1>1, <1>3, <1>8 DEF Quoted
    <2>2. QuotedEnds(w, m + x) <=> QuotedEnds(v, x)
      <3>1. m + x = m + n <=> x = n
        BY <2>1
      <3>2. x # n => w[(m + x) + 1] = v[x + 1]
        <4>1. SUFFICES ASSUME x # n PROVE w[(m + x) + 1] = v[x + 1]
          OBVIOUS
        <4>2. x + 1 \in 1 .. n /\ m + (x + 1) = (m + x) + 1
          BY <2>1, <4>1
        <4>3. w[m + (x + 1)] = v[x + 1]
          BY <1>1, <4>2
        <4> QED BY <4>2, <4>3
      <3> QED BY <1>1, <3>1, <3>2 DEF QuotedEnds
    <2>3. Candidate("contextual_secret", 1, 2, Range0(m + x, m + x))
            = Shift(Candidate("contextual_secret", 1, 2, Range0(x, x)), m)
      <3>1. x \in Nat /\ x <= x /\ m + x = x + m
        BY <1>3
      <3>2. Candidate("contextual_secret", 1, 2, Range0(x + m, x + m))
              = Shift(Candidate("contextual_secret", 1, 2, Range0(x, x)), m)
        BY <1>3, <3>1, ContextualKinds, CandidateMoves
      <3> QED BY <3>1, <3>2
    <2>4. ValueAt(v, x, run) = IF QuotedEnds(v, x)
                                 THEN {Candidate("contextual_secret", 1, 2, Range0(x, x))} ELSE {}
      BY <1>8 DEF ValueAt
    <2>5. ValueAt(w, m + x, m + run)
            = IF QuotedEnds(v, x)
                THEN {Candidate("contextual_secret", 1, 2, Range0(m + x, m + x))} ELSE {}
      BY <1>7, <1>8, <2>2 DEF ValueAt
    <2> QED BY <1>1, <1>5, <1>6, <2>3, <2>4, <2>5 DEF Shifted
  <1>9. CASE ~Quoted(v, x)
    <2>1. Unquoted(w, m + x, m + run) <=> Unquoted(v, x, run)
      <3>1. (m + run) - (m + x) = run - x
        BY <1>3
      <3>2. ASSUME NEW i \in x .. (run - 1) PROVE m + i \in m + x .. (m + run) - 1 /\ w[m + i] = v[i]
        <4>1. i \in 1 .. n /\ m + i \in m + x .. (m + run) - 1
          BY <1>3
        <4> QED BY <1>1, <4>1
      <3>3. ASSUME NEW k \in m + x .. (m + run) - 1 PROVE k - m \in x .. (run - 1) /\ w[k] = v[k - m]
        <4>1. k - m \in 1 .. n /\ k - m \in x .. (run - 1) /\ m + (k - m) = k
          BY <1>3
        <4>2. w[m + (k - m)] = v[k - m]
          BY <1>1, <4>1
        <4> QED BY <4>1, <4>2
      <3> QED BY <3>1, <3>2, <3>3 DEF Unquoted
    <2>2. CASE Unquoted(v, x, run)
      <3>1. PICK to \in Nat : to = run - 1 /\ x <= to
        <4>1. x <= run - 1
          BY <1>3, <2>2 DEF Unquoted
        <4> QED BY <1>3, <4>1
      <3>2. Candidate("contextual_secret", 1, 1, Range0(x + m, to + m))
              = Shift(Candidate("contextual_secret", 1, 1, Range0(x, to)), m)
        BY <1>3, <3>1, ContextualKinds, CandidateMoves
      <3>3. m + x = x + m /\ (m + run) - 1 = to + m
        BY <1>3, <3>1
      <3>4. ValueAt(v, x, run) = {Candidate("contextual_secret", 1, 1, Range0(x, to))}
        BY <1>9, <2>2, <3>1 DEF ValueAt
      <3>5. ValueAt(w, m + x, m + run)
              = {Candidate("contextual_secret", 1, 1, Range0(m + x, (m + run) - 1))}
        BY <1>7, <1>9, <2>1, <2>2 DEF ValueAt
      <3> QED BY <1>1, <1>5, <1>6, <3>2, <3>3, <3>4, <3>5 DEF Shifted
    <2>3. CASE ~Unquoted(v, x, run)
      <3>1. ValueAt(v, x, run) = {} /\ ValueAt(w, m + x, m + run) = {}
        BY <1>7, <1>9, <2>1, <2>3 DEF ValueAt
      <3> QED BY <1>1, <1>5, <1>6, <3>1 DEF Shifted
    <2> QED BY <2>2, <2>3
  <1> QED BY <1>8, <1>9

\* A value never reaches past the terminator that ends the first text.
LEMMA ValueKept ==
    ASSUME NEW w, NEW u, NEW v, Joined(w, u, v), NEW x \in 1 .. Len(u),
           u[Len(u)] \in Terminators
    PROVE  assignment_value(w, x) = assignment_value(u, x)
  <1>1. PICK m \in Nat, n \in Nat : /\ m = Len(u) /\ n = Len(v) /\ Len(w) = m + n
                                    /\ \A l \in 1 .. m : w[l] = u[l]
    BY DEF Joined
  <1>2. PICK run : SkipsTo(u, Named, x, run)
    <2>1. x \in 1 .. (Len(u) + 1)
      BY <1>1
    <2> QED BY <1>1, <2>1, SkipWhileIs
  <1>3. /\ run \in x .. (m + 1) /\ x \in 1 .. m
        /\ \A k \in x .. (run - 1) : u[k] \in Named
    BY <1>1, <1>2 DEF SkipsTo
  <1>4. u[m] \notin Named /\ u[m] # "value"
    BY <1>1 DEF Terminators, Named
  <1>5. run <= m
    <2>1. SUFFICES ASSUME ~(run <= m) PROVE FALSE
      OBVIOUS
    <2>2. m \in x .. (run - 1)
      BY <1>3, <2>1
    <2> QED BY <1>3, <1>4, <2>2
  <1>6. SkipsTo(w, Named, x, run)
    BY <1>1, <1>2, <1>5, SkipsKept
  <1>7. assignment_value(u, x) = ValueAt(u, x, run)
    <2>1. x \in 1 .. (Len(u) + 1)
      BY <1>1
    <2> QED BY <1>1, <1>2, <2>1, AssignmentValueIs
  <1>8. assignment_value(w, x) = ValueAt(w, x, run)
    <2>1. x \in 1 .. (Len(w) + 1) /\ Len(w) \in Nat
      BY <1>1
    <2> QED BY <1>6, <2>1, AssignmentValueIs
  <1>9. Quoted(w, x) <=> Quoted(u, x)
    <2>1. x <= m + n /\ x <= m
      BY <1>3
    <2> QED BY <1>1, <1>3, <2>1 DEF Quoted
  <1>10. CASE Quoted(u, x)
    <2>1. x # m
      BY <1>4, <1>10 DEF Quoted
    <2>2. x + 1 \in 1 .. m /\ x # m + n
      BY <1>3, <2>1
    <2>3. QuotedEnds(w, x) <=> QuotedEnds(u, x)
      BY <1>1, <2>1, <2>2 DEF QuotedEnds
    <2> QED BY <1>7, <1>8, <1>9, <1>10, <2>3 DEF ValueAt
  <1>11. CASE ~Quoted(u, x)
    <2>1. \A k \in x .. (run - 1) : w[k] = u[k]
      <3>1. \A k \in x .. (run - 1) : k \in 1 .. m
        BY <1>3
      <3> QED BY <1>1, <3>1
    <2>2. Unquoted(w, x, run) <=> Unquoted(u, x, run)
      BY <2>1 DEF Unquoted
    <2> QED BY <1>7, <1>8, <1>9, <1>11, <2>2 DEF ValueAt
  <1> QED BY <1>10, <1>11

\* What an assignment prefix tried at c captures.
PrefixAt(u, c, at) ==
    \/ at = c /\ is_line_start(u, c) /\ u[c] \in Named
    \/ at = c + 1 /\ u[c] \in Whitespace /\ c < Len(u) /\ u[c + 1] \in Named
    \/ /\ at = 0
       /\ ~(is_line_start(u, c) /\ u[c] \in Named)
       /\ ~(u[c] \in Whitespace /\ c < Len(u) /\ u[c + 1] \in Named)

LEMMA PrefixNameIs ==
    ASSUME NEW u, Len(u) \in Nat, NEW c \in 1 .. Len(u), NEW at, PrefixAt(u, c, at)
    PROVE  prefix_name(u, c) = at
  <1> DEFINE Here == is_line_start(u, c) /\ u[c] \in Named
             Past == u[c] \in Whitespace /\ c < Len(u) /\ u[c + 1] \in Named
  <1>1. prefix_name(u, c) = CASE Here -> c [] Past -> c + 1 [] OTHER -> 0
    BY DEF prefix_name
  <1>2. ~(Here /\ Past)
    BY DEF Named, Whitespace
  <1>3. \/ at = c /\ Here
        \/ at = c + 1 /\ Past
        \/ at = 0 /\ ~Here /\ ~Past
    BY DEF PrefixAt
  <1> HIDE DEF Here, Past
  <1> QED BY <1>1, <1>2, <1>3

LEMMA PrefixIs ==
    ASSUME NEW u, Len(u) \in Nat, NEW c \in 1 .. Len(u)
    PROVE  PrefixAt(u, c, prefix_name(u, c))
  <1>1. \E at : PrefixAt(u, c, at)
    BY DEF PrefixAt
  <1> QED BY <1>1, PrefixNameIs

LEMMA PrefixFits ==
    ASSUME NEW u, Len(u) \in Nat, NEW c \in 1 .. Len(u), NEW at, PrefixAt(u, c, at), at # 0
    PROVE  at \in {c, c + 1} /\ at \in 1 .. Len(u) /\ at + 1 \in 1 .. (Len(u) + 1) /\ u[at] \in Named
  BY DEF PrefixAt

LEMMA PrefixMoves ==
    ASSUME NEW w, NEW u, NEW v, Joined(w, u, v), Len(u) # 0, u[Len(u)] \in Terminators,
           NEW c \in 1 .. Len(v), NEW at, PrefixAt(v, c, at)
    PROVE  PrefixAt(w, Len(u) + c, IF at = 0 THEN 0 ELSE Len(u) + at)
  <1>1. PICK m \in Nat, n \in Nat : /\ m = Len(u) /\ n = Len(v) /\ Len(w) = m + n
                                    /\ \A l \in 1 .. m : w[l] = u[l]
                                    /\ \A l \in 1 .. n : w[m + l] = v[l]
    BY DEF Joined
  <1>2. c \in 1 .. n /\ m \in Nat \ {0}
    BY <1>1
  <1>3. w[m + c] = v[c] /\ (c < n => w[(m + c) + 1] = v[c + 1]) /\ (m + c < m + n <=> c < n)
    <2>1. c < n => c + 1 \in 1 .. n /\ m + (c + 1) = (m + c) + 1
      BY <1>2
    <2>2. m + c < m + n <=> c < n
      BY <1>2
    <2>3. c < n => w[m + (c + 1)] = v[c + 1]
      BY <1>1, <2>1
    <2> QED BY <1>1, <1>2, <2>1, <2>2, <2>3
  <1>4. is_line_start(w, m + c) <=> is_line_start(v, c)
    <2>1. CASE c = 1
      <3>1. m \in 1 .. m /\ (m + 1) - 1 = m
        BY <1>2
      <3>2. w[(m + 1) - 1] = u[m]
        BY <1>1, <3>1
      <3> QED BY <1>1, <2>1, <3>2 DEF is_line_start
    <2>2. CASE c # 1
      <3>1. c - 1 \in 1 .. n /\ m + (c - 1) = (m + c) - 1 /\ m + c # 1
        BY <1>2, <2>2
      <3>2. w[m + (c - 1)] = v[c - 1]
        BY <1>1, <3>1
      <3>3. w[(m + c) - 1] = v[c - 1]
        BY <3>1, <3>2
      <3> QED BY <2>2, <3>1, <3>3 DEF is_line_start
    <2> QED BY <2>1, <2>2
  <1>5. CASE at = c /\ is_line_start(v, c) /\ v[c] \in Named
    <2>1. at # 0 /\ m + at = m + c
      BY <1>2, <1>5
    <2> QED BY <1>1, <1>3, <1>4, <1>5, <2>1 DEF PrefixAt
  <1>6. CASE at = c + 1 /\ v[c] \in Whitespace /\ c < n /\ v[c + 1] \in Named
    <2>1. at # 0 /\ m + at = (m + c) + 1
      BY <1>2, <1>6
    <2> QED BY <1>1, <1>3, <1>6, <2>1 DEF PrefixAt
  <1>7. CASE /\ at = 0
             /\ ~(is_line_start(v, c) /\ v[c] \in Named)
             /\ ~(v[c] \in Whitespace /\ c < n /\ v[c + 1] \in Named)
    <2>1. ~(is_line_start(w, m + c) /\ w[m + c] \in Named)
      BY <1>3, <1>4, <1>7
    <2>2. ~(w[m + c] \in Whitespace /\ m + c < Len(w) /\ w[(m + c) + 1] \in Named)
      BY <1>1, <1>3, <1>7
    <2> QED BY <1>1, <1>7, <2>1, <2>2 DEF PrefixAt
  <1> QED BY <1>1, <1>5, <1>6, <1>7 DEF PrefixAt

LEMMA PrefixKept ==
    ASSUME NEW w, NEW u, NEW v, Joined(w, u, v), NEW c \in 1 .. Len(u) - 1,
           NEW at, PrefixAt(u, c, at)
    PROVE  PrefixAt(w, c, at)
  <1>1. PICK m \in Nat, n \in Nat : /\ m = Len(u) /\ n = Len(v) /\ Len(w) = m + n
                                    /\ \A l \in 1 .. m : w[l] = u[l]
    BY DEF Joined
  <1>2. c \in 1 .. m /\ c + 1 \in 1 .. m /\ c < m /\ c < m + n /\ (c # 1 => c - 1 \in 1 .. m)
    BY <1>1
  <1>3. w[c] = u[c] /\ w[c + 1] = u[c + 1] /\ (c # 1 => w[c - 1] = u[c - 1])
    BY <1>1, <1>2
  <1>4. is_line_start(w, c) <=> is_line_start(u, c)
    BY <1>3 DEF is_line_start
  <1> QED BY <1>1, <1>2, <1>3, <1>4 DEF PrefixAt

---------------------------------------------------------------------------

\* One step of the scan, and the scan itself.
Scanned(u, f, c) ==
    IF c > Len(u) THEN {}
    ELSE LET at == prefix_name(u, c)
             prefix_end == SkipWhile(u, Whitespace, at + 1)
         IN  IF at = 0 THEN f[c + 1]
             ELSE (IF u[at] = "key" THEN assignment_value(u, prefix_end) ELSE {})
                    \cup f[prefix_end]

AssignmentScan(f, u) == f = [c \in 1 .. (Len(u) + 1) |-> Scanned(u, f, c)]

\* The same from position p on.
ScansFrom(f, u, p) == \A c \in p .. (Len(u) + 1) : f[c] = Scanned(u, f, c)

LEMMA ScannedAlike ==
    ASSUME NEW u, Len(u) \in Nat, NEW c \in 1 .. (Len(u) + 1), NEW f, NEW g,
           \A k \in (c + 1) .. (Len(u) + 1) : f[k] = g[k]
    PROVE  Scanned(u, f, c) = Scanned(u, g, c)
  <1>1. CASE c > Len(u)
    BY <1>1 DEF Scanned
  <1>2. CASE ~(c > Len(u))
    <2>1. PICK at : at = prefix_name(u, c) /\ PrefixAt(u, c, at)
      <3>1. c \in 1 .. Len(u)
        BY <1>2
      <3> QED BY <3>1, PrefixIs
    <2>2. CASE at = 0
      <3>1. f[c + 1] = g[c + 1]
        BY <1>2
      <3> QED BY <1>2, <2>1, <2>2, <3>1 DEF Scanned
    <2>3. CASE at # 0
      <3>1. c \in 1 .. Len(u)
        BY <1>2
      <3>2. at \in {c, c + 1} /\ at \in 1 .. Len(u) /\ at + 1 \in 1 .. (Len(u) + 1)
        BY <2>1, <2>3, <3>1, PrefixFits
      <3>3. PICK to : to = SkipWhile(u, Whitespace, at + 1) /\ SkipsTo(u, Whitespace, at + 1, to)
        <4>1. PICK x : x = at + 1 /\ x \in 1 .. (Len(u) + 1)
          BY <3>2
        <4>2. SkipsTo(u, Whitespace, x, SkipWhile(u, Whitespace, x))
          BY <4>1, SkipWhileIs
        <4> QED BY <4>1, <4>2
      <3>4. to \in (at + 1) .. (Len(u) + 1)
        BY <3>3 DEF SkipsTo
      <3>5. f[to] = g[to]
        <4>1. to \in (c + 1) .. (Len(u) + 1)
          BY <3>1, <3>2, <3>4
        <4> QED BY <4>1
      <3> QED BY <1>2, <2>1, <2>3, <3>3, <3>5 DEF Scanned
    <2> QED BY <2>2, <2>3
  <1> QED BY <1>1, <1>2

LEMMA AssignmentScanExists ==
    ASSUME NEW u, Len(u) \in Nat
    PROVE  \E f : AssignmentScan(f, u)
  <1>1. PICK n \in Nat : n = Len(u)
    OBVIOUS
  <1> DEFINE From(k) == \E f : ScansFrom(f, u, (n + 1) - k)
             Without == {k \in 0 .. n : ~From(k)}
  <1>2. From(0)
    <2> DEFINE f == [c \in 1 .. (n + 1) |-> {}]
    <2>1. ASSUME NEW c \in (n + 1) - 0 .. (Len(u) + 1) PROVE f[c] = Scanned(u, f, c)
      <3>1. c = n + 1 /\ c > Len(u) /\ c \in 1 .. (n + 1)
        BY <1>1
      <3>2. f[c] = {}
        BY <3>1
      <3> HIDE DEF f
      <3> QED BY <3>1, <3>2 DEF Scanned
    <2> HIDE DEF f
    <2> QED BY <2>1 DEF ScansFrom
  <1>3. ASSUME NEW k \in 1 .. n, From(k - 1) PROVE From(k)
    <2>1. PICK p \in Nat : p = (n + 1) - k /\ p \in 1 .. n /\ (n + 1) - (k - 1) = p + 1
      OBVIOUS
    <2>2. PICK f : ScansFrom(f, u, p + 1)
      BY <1>3, <2>1
    <2> DEFINE at(c) == IF c = p THEN Scanned(u, f, p) ELSE f[c]
               g == [c \in 1 .. (n + 1) |-> at(c)]
    <2>3. \A c \in (p + 1) .. (n + 1) : g[c] = f[c] /\ c \in 1 .. (n + 1)
      BY <2>1
    <2>4. g[p] = Scanned(u, f, p)
      BY <2>1
    <2> HIDE DEF g
    <2>5. ASSUME NEW c \in p .. (Len(u) + 1) PROVE g[c] = Scanned(u, g, c)
      <3>1. c \in 1 .. (Len(u) + 1)
        BY <1>1, <2>1
      <3>2. \A l \in (c + 1) .. (Len(u) + 1) : f[l] = g[l]
        <4>1. \A l \in (c + 1) .. (Len(u) + 1) : l \in (p + 1) .. (n + 1)
          BY <1>1, <2>1
        <4> QED BY <2>3, <4>1
      <3>3. Scanned(u, f, c) = Scanned(u, g, c)
        BY <3>1, <3>2, ScannedAlike
      <3>4. g[c] = Scanned(u, f, c)
        <4>1. CASE c = p
          BY <2>4, <4>1
        <4>2. CASE c # p
          <5>1. c \in (p + 1) .. (n + 1)
            BY <1>1, <2>1, <4>2
          <5>2. f[c] = Scanned(u, f, c)
            BY <1>1, <2>2, <5>1 DEF ScansFrom
          <5> QED BY <2>3, <5>1, <5>2
        <4> QED BY <4>1, <4>2
      <3> QED BY <3>3, <3>4
    <2>6. ScansFrom(g, u, p)
      BY <2>5 DEF ScansFrom
    <2> QED BY <2>1, <2>6
  <1>4. From(n)
    <2>1. SUFFICES Without = {}
      BY <1>1
    <2>2. SUFFICES ASSUME Without # {} PROVE FALSE
      OBVIOUS
    <2>3. PICK k \in Without : \A j \in Without : k <= j
      <3>1. Without \subseteq Nat
        BY <1>1
      <3> HIDE DEF Without
      <3> QED BY <2>2, <3>1, LeastElement
    <2>4. k \in 0 .. n /\ ~From(k)
      BY <2>3
    <2> HIDE DEF From
    <2>5. k \in 1 .. n /\ k - 1 \in 0 .. n /\ ~(k <= k - 1)
      BY <1>2, <2>4
    <2>6. From(k - 1)
      BY <2>3, <2>5
    <2> QED BY <1>3, <2>4, <2>5, <2>6
  <1>5. PICK f : ScansFrom(f, u, 1)
    BY <1>1, <1>4
  <1> DEFINE g == [c \in 1 .. (Len(u) + 1) |-> f[c]]
  <1>6. ASSUME NEW c \in 1 .. (Len(u) + 1) PROVE g[c] = Scanned(u, g, c)
    <2>1. \A l \in (c + 1) .. (Len(u) + 1) : f[l] = g[l]
      OBVIOUS
    <2>2. g[c] = f[c] /\ f[c] = Scanned(u, f, c)
      BY <1>5 DEF ScansFrom
    <2> HIDE DEF g
    <2>3. Scanned(u, f, c) = Scanned(u, g, c)
      BY <2>1, ScannedAlike
    <2> QED BY <2>2, <2>3
  <1>7. g = [c \in 1 .. (Len(u) + 1) |-> g[c]]
    OBVIOUS
  <1> HIDE DEF g
  <1>8. g = [c \in 1 .. (Len(u) + 1) |-> Scanned(u, g, c)]
    BY <1>6, <1>7
  <1> QED BY <1>8 DEF AssignmentScan

LEMMA AssignmentScanAt ==
    ASSUME NEW u, NEW f, AssignmentScan(f, u)
    PROVE  \A c \in 1 .. (Len(u) + 1) : f[c] = Scanned(u, f, c)
  <1> DEFINE at(c) == Scanned(u, f, c)
  <1>1. f = [c \in 1 .. (Len(u) + 1) |-> at(c)]
    BY DEF AssignmentScan
  <1> HIDE DEF at
  <1>2. \A c \in 1 .. (Len(u) + 1) : f[c] = at(c)
    BY <1>1
  <1> QED BY <1>2 DEF at

LEMMA AssignmentsAre ==
    ASSUME NEW u, Len(u) \in Nat
    PROVE  \E f : AssignmentScan(f, u) /\ assignment_candidates(u) = f[1]
  <1> DEFINE g == CHOOSE f : AssignmentScan(f, u)
  <1>1. AssignmentScan(g, u)
    BY AssignmentScanExists
  <1>2. assignment_candidates(u) = g[1]
    BY DEF assignment_candidates, AssignmentScan, Scanned
  <1> QED BY <1>1, <1>2

LEMMA ScannedNone ==
    ASSUME NEW u, Len(u) \in Nat, NEW c \in 1 .. Len(u), NEW f, PrefixAt(u, c, 0)
    PROVE  Scanned(u, f, c) = f[c + 1]
  <1>1. prefix_name(u, c) = 0
    BY PrefixNameIs
  <1> QED BY <1>1 DEF Scanned

\* A prefix matches at c; it ends before position `to`.
Prefixed(u, c, at, to) ==
    /\ PrefixAt(u, c, at) /\ at # 0
    /\ \E next \in 1 .. (Len(u) + 1) : next = at + 1 /\ SkipsTo(u, Whitespace, next, to)

\* What the assignment whose name is at `at` and whose value begins at `to` is worth.
Assigned(u, at, to) == IF u[at] = "key" THEN assignment_value(u, to) ELSE {}

LEMMA PrefixedOrNot ==
    ASSUME NEW u, Len(u) \in Nat, NEW c \in 1 .. Len(u)
    PROVE  PrefixAt(u, c, 0) \/ \E at, to : Prefixed(u, c, at, to)
  <1>1. PICK at : PrefixAt(u, c, at)
    BY PrefixIs
  <1>2. SUFFICES ASSUME at # 0 PROVE \E to : Prefixed(u, c, at, to)
    BY <1>1
  <1>3. PICK next : next = at + 1 /\ next \in 1 .. (Len(u) + 1)
    BY <1>1, <1>2, PrefixFits
  <1>4. PICK to : SkipsTo(u, Whitespace, next, to)
    BY <1>3, SkipWhileIs
  <1> QED BY <1>1, <1>2, <1>3, <1>4 DEF Prefixed

LEMMA ScannedAfter ==
    ASSUME NEW u, Len(u) \in Nat, NEW c \in 1 .. Len(u), NEW at, NEW to, Prefixed(u, c, at, to)
    PROVE  /\ \A f : Scanned(u, f, c) = Assigned(u, at, to) \cup f[to]
           /\ to \in (c + 1) .. (Len(u) + 1) /\ at \in 1 .. Len(u)
  <1>1. PICK next \in 1 .. (Len(u) + 1) : next = at + 1 /\ SkipsTo(u, Whitespace, next, to)
    BY DEF Prefixed
  <1>2. PrefixAt(u, c, at) /\ at # 0
    BY DEF Prefixed
  <1>3. prefix_name(u, c) = at
    BY <1>2, PrefixNameIs
  <1>4. at \in {c, c + 1} /\ at \in 1 .. Len(u)
    BY <1>2, PrefixFits
  <1>5. SkipWhile(u, Whitespace, next) = to
    BY <1>1, SkipsOnce
  <1>6. to \in next .. (Len(u) + 1)
    BY <1>1 DEF SkipsTo
  <1>7. to \in (c + 1) .. (Len(u) + 1)
    BY <1>1, <1>4, <1>6
  <1>8. \A f : Scanned(u, f, c) = Assigned(u, at, to) \cup f[to]
    BY <1>1, <1>2, <1>3, <1>5 DEF Scanned, Assigned
  <1> QED BY <1>4, <1>7, <1>8

LEMMA AssignedFound ==
    ASSUME NEW u, Len(u) \in Nat, NEW at, NEW to \in 1 .. (Len(u) + 1)
    PROVE  Assigned(u, at, to) \subseteq FoundIn(Len(u))
  BY ValueFound DEF Assigned

\* A prefix in the second of two texts.
LEMMA PrefixedMoves ==
    ASSUME NEW w, NEW u, NEW v, Joined(w, u, v), Len(u) # 0, u[Len(u)] \in Terminators,
           NEW c \in 1 .. Len(v), NEW at, NEW to, Prefixed(v, c, at, to)
    PROVE  /\ Prefixed(w, Len(u) + c, Len(u) + at, Len(u) + to)
           /\ Assigned(w, Len(u) + at, Len(u) + to) = Shifted(Assigned(v, at, to), Len(u))
  <1>1. PICK m \in Nat, n \in Nat : /\ m = Len(u) /\ n = Len(v) /\ Len(w) = m + n
                                    /\ \A l \in 1 .. n : w[m + l] = v[l]
    BY DEF Joined
  <1>2. PICK next \in 1 .. (Len(v) + 1) : next = at + 1 /\ SkipsTo(v, Whitespace, next, to)
    BY DEF Prefixed
  <1>3. PrefixAt(v, c, at) /\ at # 0
    BY DEF Prefixed
  <1>4. to \in (c + 1) .. (n + 1) /\ at \in 1 .. n
    <2>1. Len(v) \in Nat
      BY <1>1
    <2> QED BY <1>1, <2>1, ScannedAfter
  <1>5. PrefixAt(w, Len(u) + c, IF at = 0 THEN 0 ELSE Len(u) + at)
    BY <1>3, PrefixMoves
  <1>6. SkipsTo(w, Whitespace, Len(u) + next, Len(u) + to)
    BY <1>2, SkipsMoved
  <1>7. assignment_value(w, Len(u) + to) = Shifted(assignment_value(v, to), Len(u))
    <2>1. to \in 1 .. (Len(v) + 1)
      BY <1>1, <1>4
    <2> QED BY <2>1, ValueMoves
  <1>8. m + at # 0 /\ m + next \in 1 .. (m + n) + 1 /\ m + next = (m + at) + 1
    BY <1>1, <1>2, <1>4
  <1>9. Prefixed(w, m + c, m + at, m + to)
    BY <1>1, <1>3, <1>5, <1>6, <1>8 DEF Prefixed
  <1>10. w[m + at] = v[at]
    BY <1>1, <1>4
  <1>11. Assigned(w, m + at, m + to) = Shifted(Assigned(v, at, to), m)
    BY <1>1, <1>7, <1>10 DEF Assigned, Shifted
  <1> QED BY <1>1, <1>9, <1>11

LEMMA AssignmentsFound ==
    ASSUME NEW u, Len(u) \in Nat
    PROVE  assignment_candidates(u) \subseteq FoundIn(Len(u))
  <1>1. PICK n \in Nat : n = Len(u)
    OBVIOUS
  <1>2. PICK f : AssignmentScan(f, u) /\ assignment_candidates(u) = f[1]
    BY AssignmentsAre
  <1> DEFINE Wrong == {k \in 0 .. n : ~(f[(n + 1) - k] \subseteq FoundIn(n))}
  <1>3. SUFFICES ASSUME Wrong # {} PROVE FALSE
    <2>1. (n + 1) - n = 1 /\ n \in 0 .. n
      OBVIOUS
    <2> QED BY <1>1, <1>2, <2>1
  <1>4. PICK k \in Wrong : \A j \in Wrong : k <= j
    <2>1. Wrong \subseteq Nat
      OBVIOUS
    <2> HIDE DEF Wrong
    <2> QED BY <1>3, <2>1, LeastElement
  <1>5. PICK c \in 1 .. (n + 1) : c = (n + 1) - k
    BY <1>4
  <1>6. ASSUME NEW d \in (c + 1) .. (n + 1) PROVE f[d] \subseteq FoundIn(n)
    <2>1. (n + 1) - d \in 0 .. n /\ ~(k <= (n + 1) - d) /\ (n + 1) - ((n + 1) - d) = d
      BY <1>4, <1>5
    <2> QED BY <1>4, <2>1
  <1>7. f[c] = Scanned(u, f, c)
    BY <1>1, <1>2, AssignmentScanAt
  <1>8. CASE c > n
    BY <1>1, <1>4, <1>5, <1>7, <1>8 DEF Scanned
  <1>9. CASE ~(c > n)
    <2>1. c \in 1 .. Len(u)
      BY <1>1, <1>9
    <2>2. CASE PrefixAt(u, c, 0)
      <3>1. f[c] = f[c + 1]
        BY <1>7, <2>1, <2>2, ScannedNone
      <3>2. c + 1 \in (c + 1) .. (n + 1)
        BY <1>9
      <3> QED BY <1>4, <1>5, <1>6, <3>1, <3>2
    <2>3. ASSUME NEW at, NEW to, Prefixed(u, c, at, to) PROVE FALSE
      <3>1. f[c] = Assigned(u, at, to) \cup f[to] /\ to \in (c + 1) .. (n + 1)
        BY <1>1, <1>7, <2>1, <2>3, ScannedAfter
      <3>2. to \in 1 .. (Len(u) + 1)
        BY <1>1, <3>1
      <3>3. Assigned(u, at, to) \subseteq FoundIn(n)
        BY <1>1, <3>2, AssignedFound
      <3> QED BY <1>4, <1>5, <1>6, <3>1, <3>3
    <2> QED BY <1>1, <2>1, <2>2, <2>3, PrefixedOrNot
  <1> QED BY <1>8, <1>9

\* The scan of w, once it is past u, is the scan of v.
LEMMA ScanMoves ==
    ASSUME NEW w, NEW u, NEW v, Joined(w, u, v), Len(u) # 0, u[Len(u)] \in Terminators,
           NEW g, AssignmentScan(g, w), NEW h, AssignmentScan(h, v),
           NEW d \in 1 .. (Len(v) + 1)
    PROVE  g[Len(u) + d] = Shifted(h[d], Len(u))
  <1>1. PICK m \in Nat, n \in Nat : /\ m = Len(u) /\ n = Len(v) /\ Len(w) = m + n
                                    /\ \A l \in 1 .. n : w[m + l] = v[l]
    BY DEF Joined
  <1> DEFINE Wrong == {k \in 0 .. n : g[m + ((n + 1) - k)] # Shifted(h[(n + 1) - k], m)}
  <1>2. SUFFICES ASSUME Wrong # {} PROVE FALSE
    <2>1. (n + 1) - d \in 0 .. n /\ (n + 1) - ((n + 1) - d) = d
      BY <1>1
    <2> QED BY <1>1, <2>1
  <1>3. PICK k \in Wrong : \A j \in Wrong : k <= j
    <2>1. Wrong \subseteq Nat
      OBVIOUS
    <2> HIDE DEF Wrong
    <2> QED BY <1>2, <2>1, LeastElement
  <1>4. PICK c \in 1 .. (n + 1) : c = (n + 1) - k
    BY <1>3
  <1>5. g[m + c] # Shifted(h[c], m)
    BY <1>3, <1>4
  <1>6. ASSUME NEW e \in (c + 1) .. (n + 1) PROVE g[m + e] = Shifted(h[e], m)
    <2>1. (n + 1) - e \in 0 .. n /\ ~(k <= (n + 1) - e) /\ (n + 1) - ((n + 1) - e) = e
      BY <1>3, <1>4
    <2> QED BY <1>3, <2>1
  <1> HIDE DEF Wrong
  <1>7. PICK p \in Nat : p = m + c /\ p \in 1 .. (m + n) + 1
    OBVIOUS
  <1>8. h[c] = Scanned(v, h, c) /\ g[p] = Scanned(w, g, p)
    <2>1. h[c] = Scanned(v, h, c)
      BY <1>1, AssignmentScanAt
    <2>2. g[p] = Scanned(w, g, p)
      BY <1>1, <1>7, AssignmentScanAt
    <2> QED BY <2>1, <2>2
  <1>9. CASE c > n
    <2>1. p > m + n
      BY <1>7, <1>9
    <2>2. h[c] = {} /\ g[p] = {}
      BY <1>1, <1>8, <1>9, <2>1 DEF Scanned
    <2> QED BY <1>5, <1>7, <2>2 DEF Shifted
  <1>10. CASE ~(c > n)
    <2>1. c \in 1 .. Len(v) /\ p \in 1 .. Len(w) /\ Len(v) \in Nat /\ Len(w) \in Nat
      BY <1>1, <1>7, <1>10
    <2>2. CASE PrefixAt(v, c, 0)
      <3>1. PrefixAt(w, p, 0)
        <4>1. PrefixAt(w, Len(u) + c, IF 0 = 0 THEN 0 ELSE Len(u) + 0)
          BY <2>1, <2>2, PrefixMoves
        <4> QED BY <1>1, <1>7, <4>1
      <3>2. h[c] = h[c + 1] /\ g[p] = g[p + 1]
        <4>1. Scanned(v, h, c) = h[c + 1]
          BY <2>1, <2>2, ScannedNone
        <4>2. Scanned(w, g, p) = g[p + 1]
          BY <2>1, <3>1, ScannedNone
        <4> QED BY <1>8, <4>1, <4>2
      <3>3. c + 1 \in (c + 1) .. (n + 1) /\ p + 1 = m + (c + 1)
        BY <1>7, <1>10
      <3> QED BY <1>5, <1>6, <1>7, <3>2, <3>3
    <2>3. ASSUME NEW at, NEW to, Prefixed(v, c, at, to) PROVE FALSE
      <3>1. /\ Prefixed(w, Len(u) + c, Len(u) + at, Len(u) + to)
            /\ Assigned(w, Len(u) + at, Len(u) + to) = Shifted(Assigned(v, at, to), Len(u))
        BY <2>1, <2>3, PrefixedMoves
      <3>2. PICK there, stop : there = m + at /\ stop = m + to
        OBVIOUS
      <3>3. Prefixed(w, p, there, stop)
        BY <1>1, <1>7, <3>1, <3>2
      <3>4. h[c] = Assigned(v, at, to) \cup h[to] /\ to \in (c + 1) .. (n + 1)
        BY <1>1, <1>8, <2>1, <2>3, ScannedAfter
      <3>5. g[p] = Assigned(w, there, stop) \cup g[stop]
        BY <1>8, <2>1, <3>3, ScannedAfter
      <3>6. Assigned(w, there, stop) = Shifted(Assigned(v, at, to), m)
        BY <1>1, <3>1, <3>2
      <3>7. g[stop] = Shifted(h[to], m)
        BY <1>6, <3>2, <3>4
      <3>8. g[p] = Shifted(h[c], m)
        BY <3>4, <3>5, <3>6, <3>7 DEF Shifted
      <3> QED BY <1>5, <1>7, <3>8
    <2> QED BY <2>1, <2>2, <2>3, PrefixedOrNot
  <1> QED BY <1>9, <1>10

\* j is the last position whose lexeme is outside S.
SkipBackIs(u, S, j) ==
    /\ j \in 0 .. Len(u)
    /\ j = 0 \/ u[j] \notin S
    /\ \A k \in (j + 1) .. Len(u) : u[k] \in S

LEMMA SkipsBackOnce ==
    ASSUME NEW u, Len(u) \in Nat, NEW S, NEW j, SkipBackIs(u, S, j)
    PROVE  SkipBack(u, S) = j
  <1>1. PICK k : k = SkipBack(u, S)
    OBVIOUS
  <1>2. /\ j \in 0 .. Len(u) /\ (j = 0 \/ u[j] \notin S)
        /\ \A l \in (j + 1) .. Len(u) : u[l] \in S
    BY DEF SkipBackIs
  <1>3. /\ k \in 0 .. Len(u) /\ (k = 0 \/ u[k] \notin S)
        /\ \A l \in (k + 1) .. Len(u) : u[l] \in S
    BY <1>1, <1>2 DEF SkipBack
  <1>4. ~(j < k)
    <2>1. SUFFICES ASSUME j < k PROVE FALSE
      OBVIOUS
    <2>2. k \in (j + 1) .. Len(u) /\ k # 0
      BY <1>2, <1>3, <2>1
    <2> QED BY <1>2, <1>3, <2>2
  <1>5. ~(k < j)
    <2>1. SUFFICES ASSUME k < j PROVE FALSE
      OBVIOUS
    <2>2. j \in (k + 1) .. Len(u) /\ j # 0
      BY <1>2, <1>3, <2>1
    <2> QED BY <1>2, <1>3, <2>2
  <1> QED BY <1>1, <1>2, <1>3, <1>4, <1>5

\* Where the hint reports no open assignment, the value after a listed name begins in the text.
LEMMA ValueBegins ==
    ASSUME NEW u, Len(u) \in Nat, ~has_open_contextual_assignment(u),
           NEW c \in 1 .. Len(u), NEW at, NEW to, Prefixed(u, c, at, to), u[at] # "name"
    PROVE  to \in 1 .. Len(u)
  <1>1. PICK m \in Nat : m = Len(u)
    OBVIOUS
  <1>2. to \in (c + 1) .. (m + 1) /\ at \in 1 .. m
    BY <1>1, ScannedAfter
  <1>3. PICK next \in 1 .. (m + 1) : next = at + 1 /\ SkipsTo(u, Whitespace, next, to)
    BY <1>1 DEF Prefixed
  <1>4. PrefixAt(u, c, at) /\ at # 0
    BY DEF Prefixed
  <1>5. SUFFICES ASSUME to = m + 1 PROVE FALSE
    BY <1>1, <1>2
  <1>6. u[at] = "key"
    <2>1. u[at] \in Named
      BY <1>4, PrefixFits
    <2> QED BY <2>1 DEF Named
  <1>7. \A k \in at + 1 .. m : u[k] \in Whitespace
    <2>1. \A k \in next .. (to - 1) : u[k] \in Whitespace
      BY <1>3 DEF SkipsTo
    <2> QED BY <1>2, <1>3, <1>5, <2>1
  <1>8. SkipBack(u, Whitespace) = at
    <2>1. u[at] \notin Whitespace
      BY <1>6 DEF Whitespace
    <2>2. SkipBackIs(u, Whitespace, at)
      BY <1>1, <1>2, <1>7, <2>1 DEF SkipBackIs
    <2> QED BY <2>2, SkipsBackOnce
  <1>9. at = 1 \/ u[at - 1] \in Whitespace
    <2>1. CASE at = c /\ is_line_start(u, c)
      BY <2>1 DEF is_line_start, Terminators, Whitespace
    <2>2. CASE at = c + 1 /\ u[c] \in Whitespace
      <3>1. at - 1 = c
        BY <2>2
      <3> QED BY <2>2, <3>1
    <2> QED BY <1>4, <2>1, <2>2 DEF PrefixAt
  <1> QED BY <1>2, <1>6, <1>8, <1>9 DEF has_open_contextual_assignment

\* A text that ends a line and leaves no assignment open, without the short name.
Settled(u) ==
    /\ Len(u) \in Nat \ {0} /\ u[Len(u)] \in Terminators
    /\ ~has_open_contextual_assignment(u)
    /\ \A i \in 1 .. Len(u) : u[i] # "name"

LEMMA PrefixedKept ==
    ASSUME NEW w, NEW u, NEW v, Joined(w, u, v), Settled(u),
           NEW c \in 1 .. Len(u) - 1, NEW at, NEW to, Prefixed(u, c, at, to)
    PROVE  /\ Prefixed(w, c, at, to) /\ to \in (c + 1) .. Len(u)
           /\ Assigned(w, at, to) = Assigned(u, at, to)
  <1>1. PICK m \in Nat, n \in Nat : /\ m = Len(u) /\ n = Len(v) /\ Len(w) = m + n
                                    /\ \A l \in 1 .. m : w[l] = u[l]
    BY DEF Joined
  <1>2. PICK next \in 1 .. (m + 1) : next = at + 1 /\ SkipsTo(u, Whitespace, next, to)
    BY <1>1 DEF Prefixed
  <1>3. PrefixAt(u, c, at) /\ at # 0
    BY DEF Prefixed
  <1>4. to \in (c + 1) .. (m + 1) /\ at \in 1 .. m
    <2>1. c \in 1 .. Len(u)
      BY <1>1
    <2> QED BY <1>1, <2>1, ScannedAfter
  <1>5. to \in 1 .. m
    <2>1. c \in 1 .. Len(u) /\ u[at] # "name"
      BY <1>1, <1>4 DEF Settled
    <2> QED BY <1>1, <2>1, ValueBegins DEF Settled
  <1>6. PrefixAt(w, c, at)
    BY <1>3, PrefixKept
  <1>7. next \in 1 .. m /\ next \in 1 .. (m + n) + 1
    <2>1. to \in next .. (m + 1)
      BY <1>1, <1>2 DEF SkipsTo
    <2> QED BY <1>5, <2>1
  <1>8. SkipsTo(w, Whitespace, next, to)
    <2>1. next \in 1 .. Len(u) /\ to <= Len(u)
      BY <1>1, <1>5, <1>7
    <2> QED BY <1>2, <2>1, SkipsKept
  <1>9. Prefixed(w, c, at, to)
    BY <1>1, <1>2, <1>3, <1>6, <1>7, <1>8 DEF Prefixed
  <1>10. assignment_value(w, to) = assignment_value(u, to)
    <2>1. to \in 1 .. Len(u)
      BY <1>1, <1>5
    <2> QED BY <2>1, ValueKept DEF Settled
  <1>11. Assigned(w, at, to) = Assigned(u, at, to)
    BY <1>1, <1>4, <1>10 DEF Assigned
  <1> QED BY <1>1, <1>4, <1>5, <1>9, <1>11

\* The last character of the first text is whitespace: a prefix that consumes it captures what a
\* line start would.
LEMMA ScanCrosses ==
    ASSUME NEW w, NEW u, NEW v, Joined(w, u, v), Settled(u),
           NEW g, AssignmentScan(g, w), NEW f, AssignmentScan(f, u),
           NEW m \in Nat, m = Len(u)
    PROVE  f[m] = {} /\ f[m + 1] = {} /\ g[m] = g[m + 1]
  <1>1. PICK n \in Nat : /\ n = Len(v) /\ Len(w) = m + n /\ m \in 1 .. m
                         /\ \A l \in 1 .. m : w[l] = u[l]
    BY DEF Joined, Settled
  <1>2. u[m] \in Terminators /\ u[m] \notin Named /\ u[m] \in Whitespace
    BY DEF Settled, Terminators, Named, Whitespace
  <1>3. f[m] = Scanned(u, f, m) /\ f[m + 1] = Scanned(u, f, m + 1)
    BY <1>1, AssignmentScanAt
  <1>4. f[m + 1] = {}
    BY <1>3 DEF Scanned
  <1>5. PrefixAt(u, m, 0)
    BY <1>2 DEF PrefixAt
  <1>6. f[m] = {}
    <2>1. Scanned(u, f, m) = f[m + 1]
      BY <1>1, <1>5, ScannedNone
    <2> QED BY <1>3, <1>4, <2>1
  <1>7. g[m] = Scanned(w, g, m)
    <2>1. m \in 1 .. (Len(w) + 1)
      BY <1>1
    <2> QED BY <2>1, AssignmentScanAt
  <1>8. m \in 1 .. Len(w) /\ Len(w) \in Nat
    BY <1>1
  <1>9. CASE PrefixAt(w, m, 0)
    <2>1. Scanned(w, g, m) = g[m + 1]
      BY <1>8, <1>9, ScannedNone
    <2> QED BY <1>4, <1>6, <1>7, <2>1
  <1>10. ASSUME NEW at, NEW to, Prefixed(w, m, at, to) PROVE g[m] = g[m + 1]
    <2>1. PrefixAt(w, m, at) /\ at # 0
      BY <1>10 DEF Prefixed
    <2>2. w[m] \notin Named /\ w[m] \in Terminators
      BY <1>1, <1>2
    <2>3. at = m + 1 /\ m < Len(w) /\ w[m + 1] \in Named
      BY <2>1, <2>2 DEF PrefixAt
    <2>4. PICK p \in Nat : p = m + 1 /\ p \in 1 .. Len(w) /\ p - 1 = m
      BY <1>1, <2>3
    <2>5. PrefixAt(w, p, at)
      BY <2>2, <2>3, <2>4 DEF PrefixAt, is_line_start
    <2>6. Prefixed(w, p, at, to)
      BY <1>10, <2>5 DEF Prefixed
    <2>7. g[p] = Scanned(w, g, p)
      <3>1. p \in 1 .. (Len(w) + 1)
        BY <1>8, <2>4
      <3> QED BY <3>1, AssignmentScanAt
    <2>8. Scanned(w, g, p) = Assigned(w, at, to) \cup g[to]
      BY <1>8, <2>4, <2>6, ScannedAfter
    <2>9. Scanned(w, g, m) = Assigned(w, at, to) \cup g[to]
      BY <1>8, <1>10, ScannedAfter
    <2> QED BY <1>7, <2>4, <2>7, <2>8, <2>9
  <1> QED BY <1>4, <1>6, <1>8, <1>9, <1>10, PrefixedOrNot

\* Up to the end of u, the scan of w finds what the scan of u does, and then what it finds from
\* there on.
LEMMA ScanKept ==
    ASSUME NEW w, NEW u, NEW v, Joined(w, u, v), Settled(u),
           NEW g, AssignmentScan(g, w), NEW f, AssignmentScan(f, u)
    PROVE  g[1] = f[1] \cup g[Len(u) + 1]
  <1>1. PICK m \in Nat, n \in Nat : /\ m = Len(u) /\ n = Len(v) /\ Len(w) = m + n /\ m # 0
    BY DEF Joined, Settled
  <1> DEFINE Wrong == {k \in 0 .. m : g[(m + 1) - k] # f[(m + 1) - k] \cup g[m + 1]}
  <1>2. SUFFICES ASSUME Wrong # {} PROVE FALSE
    <2>1. m \in 0 .. m /\ (m + 1) - m = 1
      OBVIOUS
    <2> QED BY <1>1, <2>1
  <1>3. PICK k \in Wrong : \A j \in Wrong : k <= j
    <2>1. Wrong \subseteq Nat
      OBVIOUS
    <2> HIDE DEF Wrong
    <2> QED BY <1>2, <2>1, LeastElement
  <1>4. PICK c \in 1 .. (m + 1) : c = (m + 1) - k
    BY <1>3
  <1>5. g[c] # f[c] \cup g[m + 1]
    BY <1>3, <1>4
  <1>6. ASSUME NEW e \in (c + 1) .. (m + 1) PROVE g[e] = f[e] \cup g[m + 1]
    <2>1. (m + 1) - e \in 0 .. m /\ ~(k <= (m + 1) - e) /\ (m + 1) - ((m + 1) - e) = e
      BY <1>3, <1>4
    <2> QED BY <1>3, <2>1
  <1> HIDE DEF Wrong
  <1>7. f[m] = {} /\ f[m + 1] = {} /\ g[m] = g[m + 1]
    BY <1>1, ScanCrosses
  <1>8. c # m + 1 /\ c # m
    BY <1>5, <1>7
  <1>9. c \in 1 .. Len(u) - 1 /\ c \in 1 .. Len(u) /\ c \in 1 .. Len(w)
        /\ Len(u) \in Nat /\ Len(w) \in Nat
    BY <1>1, <1>8
  <1>10. f[c] = Scanned(u, f, c) /\ g[c] = Scanned(w, g, c)
    <2>1. c \in 1 .. (Len(u) + 1) /\ c \in 1 .. (Len(w) + 1)
      BY <1>9
    <2>2. f[c] = Scanned(u, f, c)
      BY <2>1, AssignmentScanAt
    <2>3. g[c] = Scanned(w, g, c)
      BY <2>1, AssignmentScanAt
    <2> QED BY <2>2, <2>3
  <1>11. CASE PrefixAt(u, c, 0)
    <2>1. PrefixAt(w, c, 0)
      BY <1>9, <1>11, PrefixKept
    <2>2. Scanned(u, f, c) = f[c + 1]
      BY <1>9, <1>11, ScannedNone
    <2>3. Scanned(w, g, c) = g[c + 1]
      BY <1>9, <2>1, ScannedNone
    <2>4. c + 1 \in (c + 1) .. (m + 1)
      BY <1>8
    <2> QED BY <1>5, <1>6, <1>10, <2>2, <2>3, <2>4
  <1>12. ASSUME NEW at, NEW to, Prefixed(u, c, at, to) PROVE FALSE
    <2>1. /\ Prefixed(w, c, at, to) /\ to \in (c + 1) .. Len(u)
          /\ Assigned(w, at, to) = Assigned(u, at, to)
      BY <1>9, <1>12, PrefixedKept
    <2>2. Scanned(u, f, c) = Assigned(u, at, to) \cup f[to]
      BY <1>9, <1>12, ScannedAfter
    <2>3. Scanned(w, g, c) = Assigned(w, at, to) \cup g[to]
      BY <1>9, <2>1, ScannedAfter
    <2>4. to \in (c + 1) .. (m + 1)
      BY <1>1, <2>1
    <2>5. g[to] = f[to] \cup g[m + 1]
      BY <1>6, <2>4
    <2> QED BY <1>5, <1>10, <2>1, <2>2, <2>3, <2>5
  <1> QED BY <1>9, <1>11, <1>12, PrefixedOrNot

\* The assignments of two texts are those of each, when the first leaves none open.
LEMMA AssignmentsSplit ==
    ASSUME NEW w, NEW u, NEW v, Joined(w, u, v), Settled(u)
    PROVE  assignment_candidates(w)
             = assignment_candidates(u) \cup Shifted(assignment_candidates(v), Len(u))
  <1>1. Len(u) \in Nat /\ Len(v) \in Nat /\ Len(w) \in Nat /\ Len(u) # 0
        /\ u[Len(u)] \in Terminators
    BY DEF Joined, Settled
  <1>2. PICK f : AssignmentScan(f, u) /\ assignment_candidates(u) = f[1]
    BY <1>1, AssignmentsAre
  <1>3. PICK h : AssignmentScan(h, v) /\ assignment_candidates(v) = h[1]
    BY <1>1, AssignmentsAre
  <1>4. PICK g : AssignmentScan(g, w) /\ assignment_candidates(w) = g[1]
    BY <1>1, AssignmentsAre
  <1>5. g[Len(u) + 1] = Shifted(h[1], Len(u))
    <2>1. 1 \in 1 .. (Len(v) + 1)
      BY <1>1
    <2> QED BY <1>1, <1>3, <1>4, <2>1, ScanMoves
  <1>6. g[1] = f[1] \cup g[Len(u) + 1]
    BY <1>2, <1>4, ScanKept
  <1> QED BY <1>2, <1>3, <1>4, <1>5, <1>6

---------------------------------------------------------------------------
(* The built-in detectors keep the contract, and settle what the hints let a session close. *)

\* A session whose registry is that of the built-in detectors.
DetectsBuiltIn ==
    \A u \in Seq(Lexeme) : Len(u) <= max_input_bytes => Detect(u) = run_detector_pipeline(u)

LEMMA BuiltInFound ==
    ASSUME NEW u \in Seq(Lexeme)
    PROVE  built_in_detectors(u) \subseteq FoundIn(Len(u))
  <1>1. Len(u) \in Nat
    BY LenProperties
  <1>2. private_key_candidates(u) \subseteq FoundIn(Len(u))
    BY PrivateKeysFound
  <1>3. assignment_candidates(u) \subseteq FoundIn(Len(u))
    BY <1>1, AssignmentsFound
  <1>4. bearer_candidates(u) \subseteq FoundIn(Len(u))
    <2>1. <<"bearer_token", 2, 2>> \in Kinds
      BY DEF Kinds
    <2> QED BY <2>1, StructuralFound DEF bearer_candidates
  <1>5. connection_string_candidates(u) \subseteq FoundIn(Len(u))
    <2>1. <<"connection_string_password", 2, 1>> \in Kinds
      BY DEF Kinds
    <2> QED BY <2>1, StructuralFound DEF connection_string_candidates
  <1> QED BY <1>2, <1>3, <1>4, <1>5 DEF built_in_detectors

\* What the pipeline over the built-in detectors returns lies in the text, in order and without
\* overlap: the contract the session relies on (run_detector_pipeline, accept_ranked_candidates).
THEOREM BuiltInContract ==
    \A u \in Seq(Lexeme) :
        /\ run_detector_pipeline(u) \in Seq(DetectedFinding)
        /\ ordered_and_disjoint(run_detector_pipeline(u), 0, Len(u))
  <1> SUFFICES ASSUME NEW u \in Seq(Lexeme)
               PROVE  /\ run_detector_pipeline(u) \in Seq(DetectedFinding)
                      /\ ordered_and_disjoint(run_detector_pipeline(u), 0, Len(u))
    OBVIOUS
  <1>0. PICK C : C = built_in_detectors(u)
    OBVIOUS
  <1>1. PICK n \in Nat : C = built_in_detectors(u) /\ n = Len(u)
    BY <1>0, LenProperties
  <1>2. C \subseteq FoundIn(n)
    BY <1>1, BuiltInFound
  <1>3. accept_ranked(C) \in Seq(DetectedFinding) /\ ordered_and_disjoint(accept_ranked(C), 0, n)
    BY <1>2, AcceptedInOrder
  <1> QED BY <1>1, <1>3 DEF run_detector_pipeline

\* Every detector finds in two texts what it finds in each, when the hints leave the first closed.
LEMMA BuiltInSplits ==
    ASSUME NEW u \in Seq(Lexeme), NEW v \in Seq(Lexeme), Settled(u),
           tracker_append(TrackerInit, u).stack = <<>>
    PROVE  built_in_detectors(u \o v)
             = built_in_detectors(u) \cup Shifted(built_in_detectors(v), Len(u))
  <1>1. PICK w : w = u \o v /\ Joined(w, u, v)
    BY ConcatJoins
  <1>2. private_key_candidates(w)
          = private_key_candidates(u) \cup Shifted(private_key_candidates(v), Len(u))
    BY <1>1, PrivateKeysSplit
  <1>3. assignment_candidates(w)
          = assignment_candidates(u) \cup Shifted(assignment_candidates(v), Len(u))
    BY <1>1, AssignmentsSplit
  <1>4. bearer_candidates(w) = bearer_candidates(u) \cup Shifted(bearer_candidates(v), Len(u))
    <2>1. <<"bearer_token", 2, 2>> \in Kinds
      BY DEF Kinds
    <2> QED BY <1>1, <2>1, StructuralSplits DEF bearer_candidates
  <1>5. connection_string_candidates(w)
          = connection_string_candidates(u) \cup Shifted(connection_string_candidates(v), Len(u))
    <2>1. <<"connection_string_password", 2, 1>> \in Kinds
      BY DEF Kinds
    <2> QED BY <1>1, <2>1, StructuralSplits DEF connection_string_candidates
  <1>6. Shifted(built_in_detectors(v), Len(u))
          = Shifted(private_key_candidates(v), Len(u)) \cup Shifted(bearer_candidates(v), Len(u))
              \cup Shifted(connection_string_candidates(v), Len(u))
              \cup Shifted(assignment_candidates(v), Len(u))
    BY DEF built_in_detectors, Shifted
  <1> QED BY <1>1, <1>2, <1>3, <1>4, <1>5, <1>6 DEF built_in_detectors

LEMMA PipelineSplits ==
    ASSUME NEW u \in Seq(Lexeme), NEW v \in Seq(Lexeme), Settled(u),
           tracker_append(TrackerInit, u).stack = <<>>
    PROVE  run_detector_pipeline(u \o v)
             = run_detector_pipeline(u) \o Moved(run_detector_pipeline(v), Len(u))
  <1>0. PICK C, D : C = built_in_detectors(u) /\ D = built_in_detectors(v)
    OBVIOUS
  <1>1. PICK m \in Nat, n \in Nat : /\ C = built_in_detectors(u) /\ D = built_in_detectors(v)
                                    /\ m = Len(u) /\ n = Len(v)
    BY <1>0, LenProperties
  <1>2. C \subseteq FoundIn(m)
    BY <1>1, BuiltInFound
  <1>3. D \subseteq FoundIn(n)
    BY <1>1, BuiltInFound
  <1>4. built_in_detectors(u \o v) = C \cup Shifted(D, m)
    BY <1>1, BuiltInSplits
  <1>5. AcceptsApart(C, D, m)
    BY <1>2, <1>3, AcceptedSplits
  <1> QED BY <1>1, <1>4, <1>5 DEF run_detector_pipeline, AcceptsApart

LEMMA ClosedSettles ==
    ASSUME DetectsBuiltIn,
           NEW m \in 0 .. max_input_bytes, NEW u \in [1 .. m -> Lexeme],
           \A i \in 1 .. m : u[i] # "name"
    PROVE  SettlesAt(u)
  <1>1. max_input_bytes \in Nat /\ m \in Nat
    BY ValidLimits DEF valid_limits
  <1>2. u \in Seq(Lexeme) /\ Len(u) = m
    BY <1>1
  <1>3. SUFFICES ASSUME ClosedUnit(u),
                        NEW n \in 0 .. (max_input_bytes - m), NEW v \in [1 .. n -> Lexeme]
                 PROVE  Detect(u \o v) = Detect(u) \o Moved(Detect(v), Len(u))
    BY <1>2 DEF SettlesAt
  <1>4. v \in Seq(Lexeme) /\ Len(v) = n
    BY <1>1
  <1>5. u \o v \in Seq(Lexeme) /\ Len(u \o v) = m + n
    BY <1>2, <1>4, ConcatProperties
  <1>6. Settled(u) /\ tracker_append(TrackerInit, u).stack = <<>>
    <2>1. m # 0
      BY <1>2, <1>3, EmptySeq DEF ClosedUnit
    <2>2. u[Len(u)] \in Terminators /\ ~has_open_contextual_assignment(u)
          /\ tracker_append(TrackerInit, u).stack = <<>>
      BY <1>3 DEF ClosedUnit, closes_unit, has_open_single_line_construct
    <2> QED BY <1>1, <1>2, <2>1, <2>2 DEF Settled
  <1>7. run_detector_pipeline(u \o v)
          = run_detector_pipeline(u) \o Moved(run_detector_pipeline(v), Len(u))
    BY <1>2, <1>4, <1>6, PipelineSplits
  <1>8. Detect(u) = run_detector_pipeline(u) /\ Detect(v) = run_detector_pipeline(v)
        /\ Detect(u \o v) = run_detector_pipeline(u \o v)
    <2>1. m <= max_input_bytes /\ n <= max_input_bytes /\ m + n <= max_input_bytes
      BY <1>1
    <2> QED BY <1>2, <1>4, <1>5, <2>1 DEF DetectsBuiltIn
  <1> QED BY <1>7, <1>8

\* Whatever a session takes in, and wherever it closes a unit, no continuation changes what the
\* built-in detectors find in the unit, nor what they find in the continuation, unless the text
\* holds the short name `p:` that the hints overlook.
THEOREM BuiltInSettles ==
    ASSUME DetectsBuiltIn
    PROVE  Spec => []((\A i \in 1 .. Len(source) : source[i] # "name") => HintsSettleUnits)
  <1>1. IInv => ((\A i \in 1 .. Len(source) : source[i] # "name") => HintsSettleUnits)
    <2> SUFFICES ASSUME IInv, \A i \in 1 .. Len(source) : source[i] # "name"
                 PROVE  HintsSettleUnits
      OBVIOUS
    <2>1. PICK m \in Nat : m = Len(source)
      BY LenProperties DEF IInv, TypeOK
    <2>2. source \in [1 .. m -> Lexeme] /\ m \in 0 .. max_input_bytes
      BY <2>1 DEF IInv, TypeOK, Accounting
    <2>3. SettlesAt(source)
      BY <2>1, <2>2, ClosedSettles
    <2> QED BY <2>3 DEF HintsSettleUnits
  <1> QED BY <1>1, Invariance, PTL

LEMMA BuiltInDetectSettles ==
    ASSUME DetectsBuiltIn, "name" \notin Lexeme
    PROVE  DetectSettles
  <1> SUFFICES ASSUME NEW m \in 0 .. max_input_bytes, NEW u \in [1 .. m -> Lexeme]
               PROVE  SettlesAt(u)
    BY DEF DetectSettles
  <1>1. \A i \in 1 .. m : u[i] # "name"
    OBVIOUS
  <1> QED BY <1>1, ClosedSettles

\* A session over the built-in detectors that finalizes has returned what one scan and redaction
\* of the whole text returns, however the text was cut into chunks (incremental.rs, "Partition
\* invariance"), as long as it holds neither the short name nor a secret a placeholder may equal.
THEOREM BuiltInPartition ==
    ASSUME DetectsBuiltIn, "name" \notin Lexeme, "dsn" \notin Lexeme
    PROVE  Spec => []PartitionInvariance
  <1>1. DetectSettles
    BY BuiltInDetectSettles
  <1>2. NothingReproduced
    BY DEF NothingReproduced, Reproduces
  <1> QED BY <1>1, <1>2, PartitionInvariant

\* What a session over the built-in detectors has returned, in whatever state it is, begins the
\* redaction of the whole text and carries exactly the findings that start in it.
THEOREM BuiltInReleased ==
    ASSUME DetectsBuiltIn, "name" \notin Lexeme
    PROVE  Spec => []ReleasedTextIsSanitized
  <1>1. DetectSettles
    BY BuiltInDetectSettles
  <1> QED BY <1>1, ReleasedIsSanitized
=============================================================================
