-------------------------- MODULE CommandLineProofs --------------------------
(***************************************************************************)
(* The command line, for all inputs, however they are read, all command    *)
(* lines, and whatever the sources, the session and the pipe do.           *)
(***************************************************************************)
EXTENDS CommandLine, SequenceLemmas, FiniteSetTheorems

---------------------------------------------------------------------------
(* The inductive invariant. *)

Output == Byte \cup {"report", "document", "file"}
Failure == Refusals \cup FileFailures \cup {"WRITE_FAILED"}

Shape ==
    /\ TypeOK
    /\ args \in ArgumentLists /\ mode = parse(args) /\ paths = paths_of(args)
    /\ mode \in {"help", "usage", "check", "redact"} /\ format \in {"json", "text"}
    /\ pipe_open \in BOOLEAN
    /\ input \in Seq(Byte) /\ carry \in Seq(Byte)
    /\ retained \in Seq(Byte) /\ result \in Seq(Byte)
    /\ buffered \in Seq(Output) /\ delivered \in Seq(Output)
    /\ collected \in Nat /\ failures \in Seq(Failure)
    /\ sources \in Seq(Seq(Nat)) /\ FlattenSeq(sources) \in Seq(Nat)

\* What a run of each kind goes through.
Phases ==
    /\ FromStdin => phase \notin {"Files", "Document"}
    /\ ~FromStdin => phase \notin {"Read", "Emit"}
    /\ phase = "Document" => mode = "help"
    /\ phase = "Files" => mode \in {"check", "redact"}
    /\ phase = "Report" => mode = "check"
    /\ exit_code # -1 <=> phase = "Ended"

\* What the session's state says about the text it holds.
SessionHolds ==
    /\ session_state # "Accepting" => retained = <<>> /\ carry = <<>>
    /\ result # <<>> => phase = "Emit"
    /\ phase = "Read" => session_state = "Accepting"
    /\ phase = "Emit" => session_state \in {"Accepting", "Finalized"}
    /\ session_state = "Finalized" => position = Len(input)
    /\ FromStdin /\ phase \in {"Report", "Exit", "Ended"} => session_state # "Accepting"

\* A redaction that may still exit with 0 has its whole text in the pipe or on the way to it.
RedactionWritten ==
    mode = "redact" =>
        /\ phase = "Files" => delivered = <<>>
        /\ phase = "Exit" /\ outcome = "Clean" =>
              delivered \o buffered = IF FromStdin THEN input ELSE <<"file">>

\* A check has come to the end of what it reports on.
Accounted ==
    mode = "check" =>
        /\ FromStdin /\ phase \in {"Read", "Emit"} => failures = <<>>
        /\ FromStdin /\ phase \in {"Report", "Exit", "Ended"} /\ failures = <<>> =>
              session_state = "Finalized"
        /\ phase = "Files" => Len(sources) + Len(failures) < Cardinality(paths)
        /\ ~FromStdin /\ phase \in {"Report", "Exit", "Ended"} =>
              Len(sources) + Len(failures) = Cardinality(paths)

\* A check that may still exit with 0 or 1 says what it found.
Verdict ==
    mode = "check" /\ phase = "Exit" /\ outcome \in {"Clean", "Findings"} =>
        /\ failures = <<>>
        /\ outcome = "Findings" <=> finding_count > 0
        /\ delivered \o buffered =
              IF finding_count > 0 \/ format = "json" THEN <<"report">> ELSE <<>>

IInv ==
    /\ Shape /\ Phases /\ SessionHolds /\ NoByteLost /\ RedactionWritten /\ Accounted /\ Verdict
    /\ IdsUnique /\ RedactedInFull /\ CheckedInFull

---------------------------------------------------------------------------
(* The arguments. *)

\* There is always a place where the options end: the first "--", or behind the last argument.
LEMMA OptionsEnd ==
    ASSUME NEW line, Len(line) \in Nat
    PROVE  LET e == options_end(line)
           IN  /\ e \in 1 .. (Len(line) + 1)
               /\ e <= Len(line) => line[e] = "--"
               /\ \A k \in 1 .. (e - 1) : line[k] # "--"
  <1> DEFINE Ends_at(n) == /\ n <= Len(line) => line[n] = "--"
                           /\ \A k \in 1 .. (n - 1) : line[k] # "--"
             Marks == {k \in 1 .. Len(line) : line[k] = "--"}
  <1>1. \E n \in 1 .. (Len(line) + 1) : Ends_at(n)
    <2>1. CASE Marks = {}
      <3>1. Ends_at(Len(line) + 1)
        BY <2>1
      <3> QED BY <3>1
    <2>2. CASE Marks # {}
      <3>1. Marks \subseteq Nat
        OBVIOUS
      <3>2. PICK n \in Marks : \A m \in Marks : n <= m
        <4> HIDE DEF Marks
        <4> QED BY <2>2, <3>1, LeastElement
      <3>3. Ends_at(n)
        BY <3>2
      <3> QED BY <3>2, <3>3
    <2> QED BY <2>1, <2>2
  <1>2. options_end(line) = CHOOSE n \in 1 .. (Len(line) + 1) : Ends_at(n)
    BY DEF options_end
  <1> QED BY <1>1, <1>2

\* parse finds the paths a reader of the command line would.
LEMMA PathsAreRequested ==
    ASSUME args \in ArgumentLists
    PROVE  paths_of(args) = Requested /\ IsFiniteSet(Requested) /\ Cardinality(Requested) \in Nat
  <1> DEFINE e == options_end(args)
  <1>1. args \in Seq(STRING) /\ Len(args) \in Nat /\ DOMAIN args = 1 .. Len(args)
    BY Streams
  <1>2. /\ e \in 1 .. (Len(args) + 1)
        /\ e <= Len(args) => args[e] = "--"
        /\ \A k \in 1 .. (e - 1) : args[k] # "--"
    BY <1>1, OptionsEnd
  <1> HIDE DEF e
  <1>3. ASSUME NEW k \in 1 .. Len(args)
        PROVE  "--" \in ToSet(SubSeq(args, 1, k - 1)) <=> e < k
    <2> DEFINE before == SubSeq(args, 1, k - 1)
    <2>1. Len(before) = k - 1 /\ \A i \in 1 .. k - 1 : before[i] = args[i]
      BY <1>1, SubSeqProperties
    <2>2. "--" \in ToSet(before) <=> \E i \in 1 .. k - 1 : args[i] = "--"
      <3>1. DOMAIN before = 1 .. k - 1
        BY <1>1, <2>1
      <3> HIDE DEF before
      <3> QED BY <2>1, <3>1 DEF ToSet
    <2>3. (\E i \in 1 .. k - 1 : args[i] = "--") <=> e < k
      BY <1>1, <1>2
    <2> QED BY <2>2, <2>3
  <1>4. ASSUME NEW k \in 1 .. Len(args)
        PROVE  k \in paths_of(args) <=> k \in Requested
    <2>1. k \in paths_of(args) <=> (k < e /\ args[k] \notin Dashed) \/ e < k
      BY <1>1, <1>2 DEF paths_of, e
    <2>2. k \in Requested <=> args[k] \notin Dashed \/ e < k
      BY <1>1, <1>3 DEF Requested
    <2>3. args[e] = "--" /\ k = e => args[k] \in Dashed
      BY DEF Dashed
    <2> QED BY <1>1, <1>2, <2>1, <2>2, <2>3
  <1>5. paths_of(args) \subseteq 1 .. Len(args) /\ Requested \subseteq 1 .. Len(args)
    BY <1>1, <1>2 DEF paths_of, Requested, e
  <1>6. paths_of(args) = Requested
    BY <1>4, <1>5
  <1>7. IsFiniteSet(1 .. Len(args))
    BY <1>1, FS_Interval
  <1> QED BY <1>5, <1>6, <1>7, FS_Subset, FS_CardinalityType

---------------------------------------------------------------------------
(* The decoder. *)

LEMMA WidthType == \A b \in DOMAIN Width : b \in Byte /\ Width[b] \in 1 .. 4
  BY DEF Width, Byte

\* The character that starts at i ends at i or later, inside the text.
LEMMA CharEnd ==
    ASSUME NEW u \in Seq(Byte), NEW i \in 1 .. Len(u), u[i] \in DOMAIN Width
    PROVE  char_end(u, i) = 0 \/ char_end(u, i) \in i .. Len(u)
  <1>1. Width[u[i]] \in 1 .. 4 /\ Len(u) \in Nat
    BY WidthType
  <1> QED BY <1>1 DEF char_end

\* What valid_up_to says of position i, from what it says of later ones.
UptoStep(u, f, i) ==
    IF i > Len(u) \/ u[i] \notin DOMAIN Width THEN i - 1
    ELSE IF char_end(u, i) = 0 THEN i - 1 ELSE f[char_end(u, i) + 1]

LEMMA UptoExists ==
    ASSUME NEW u \in Seq(Byte)
    PROVE  \E f : f = [i \in 1 .. (Len(u) + 1) |-> UptoStep(u, f, i)]
  <1> DEFINE L == Len(u) + 1
             From(f, n) == f = [i \in (L - n) .. L |-> UptoStep(u, f, i)]
             Without == {n \in 0 .. Len(u) : ~\E f : From(f, n)}
  <1>1. L \in Nat /\ Len(u) \in Nat
    OBVIOUS
  <1>2. From([i \in L .. L |-> i - 1], 0)
    BY <1>1 DEF UptoStep
  <1>3. ASSUME NEW n \in 1 .. Len(u), NEW f, From(f, n - 1)
        PROVE  \E g : From(g, n)
    <2> DEFINE g == [i \in (L - n) .. L |-> IF i = L - n THEN UptoStep(u, f, i) ELSE f[i]]
    <2>1. ASSUME NEW i \in (L - n) .. L
          PROVE  g[i] = UptoStep(u, g, i)
      <3>1. g[i] = UptoStep(u, f, i)
        <4>1. CASE i = L - n
          BY <4>1
        <4>2. CASE i # L - n
          <5>1. i \in (L - (n - 1)) .. L
            BY <1>1, <4>2
          <5>2. f[i] = UptoStep(u, f, i)
            BY <1>3, <5>1
          <5> QED BY <4>2, <5>2
        <4> QED BY <4>1, <4>2
      <3>2. ASSUME i <= Len(u), u[i] \in DOMAIN Width, char_end(u, i) # 0
            PROVE  g[char_end(u, i) + 1] = f[char_end(u, i) + 1]
        <4>1. i \in 1 .. Len(u)
          BY <1>1, <3>2
        <4>2. char_end(u, i) \in i .. Len(u)
          BY <3>2, <4>1, CharEnd
        <4>3. char_end(u, i) + 1 \in (L - n) .. L /\ char_end(u, i) + 1 # L - n
          BY <1>1, <4>2
        <4> QED BY <4>3
      <3>3. UptoStep(u, g, i) = UptoStep(u, f, i)
        <4>1. i > Len(u) \/ i <= Len(u)
          BY <1>1
        <4> HIDE DEF g
        <4> QED BY <3>2, <4>1 DEF UptoStep
      <3> QED BY <3>1, <3>3
    <2>2. g = [i \in (L - n) .. L |-> g[i]]
      OBVIOUS
    <2> HIDE DEF g
    <2>3. g = [i \in (L - n) .. L |-> UptoStep(u, g, i)]
      BY <2>1, <2>2
    <2> QED BY <2>3
  <1>4. L - Len(u) = 1
    BY <1>1
  <1> HIDE DEF From
  <1>5. SUFFICES ASSUME Without # {} PROVE FALSE
    <2>1. Without = {} => \E f : From(f, Len(u))
      BY <1>1
    <2> QED BY <1>4, <2>1 DEF From
  <1>6. Without \subseteq Nat
    BY <1>1
  <1>7. PICK n \in Without : \A m \in Without : n <= m
    <2> HIDE DEF Without
    <2> QED BY <1>5, <1>6, LeastElement
  <1>8. n \in 1 .. Len(u) /\ n - 1 \notin Without /\ n - 1 \in 0 .. Len(u)
    BY <1>1, <1>2, <1>7
  <1>9. PICK f : From(f, n - 1)
    BY <1>8
  <1> QED BY <1>3, <1>7, <1>8, <1>9

\* The longest valid prefix is a prefix.
LEMMA ValidUpTo ==
    ASSUME NEW u \in Seq(Byte)
    PROVE  valid_up_to(u) \in 0 .. Len(u)
  <1> DEFINE L == Len(u) + 1
             f == CHOOSE g : g = [i \in 1 .. L |-> UptoStep(u, g, i)]
             Wrong == {n \in 0 .. Len(u) : f[L - n] \notin 0 .. Len(u)}
  <1>1. valid_up_to(u) = f[1]
    BY DEF valid_up_to, UptoStep
  <1>2. f = [i \in 1 .. L |-> UptoStep(u, f, i)]
    BY UptoExists
  <1>3. L \in Nat /\ Len(u) \in Nat /\ L - Len(u) = 1
    OBVIOUS
  <1> HIDE DEF f
  <1>4. SUFFICES ASSUME Wrong # {} PROVE FALSE
    BY <1>1, <1>3
  <1>5. Wrong \subseteq Nat
    BY <1>3
  <1>6. PICK n \in Wrong : \A m \in Wrong : n <= m
    <2> HIDE DEF Wrong
    <2> QED BY <1>4, <1>5, LeastElement
  <1> DEFINE i == L - n
  <1>7. i \in 1 .. L /\ f[i] \notin 0 .. Len(u) /\ f[i] = UptoStep(u, f, i)
    BY <1>2, <1>3, <1>6
  <1>8. i <= Len(u) /\ u[i] \in DOMAIN Width /\ char_end(u, i) # 0 /\ f[i] = f[char_end(u, i) + 1]
    BY <1>3, <1>7 DEF UptoStep
  <1>9. char_end(u, i) \in i .. Len(u)
    BY <1>7, <1>8, CharEnd
  <1>10. L - (char_end(u, i) + 1) \notin Wrong
    BY <1>3, <1>6, <1>9
  <1>11. L - (L - (char_end(u, i) + 1)) = char_end(u, i) + 1 /\ L - (char_end(u, i) + 1) \in 0 .. Len(u)
    BY <1>3, <1>7, <1>9
  <1> QED BY <1>7, <1>8, <1>10, <1>11

---------------------------------------------------------------------------
(* What several actions have in common. *)

\* The command line does not change while the program runs.
LEMMA CommandKept ==
    ASSUME UNCHANGED command
    PROVE  /\ UNCHANGED <<args, mode, format, paths, input>>
           /\ FromStdin' <=> FromStdin
           /\ Requested' = Requested
  BY DEF command, FromStdin, Requested

\* Before the exit code is there, nothing is promised about it.
LEMMA StillRunning ==
    ASSUME IInv, phase \notin {"Ended"}, UNCHANGED exit_code
    PROVE  exit_code' = -1 /\ RedactedInFull' /\ CheckedInFull'
  BY DEF IInv, Phases, RedactedInFull, CheckedInFull

LEMMA SourcesKept ==
    ASSUME IInv, UNCHANGED sources
    PROVE  IdsUnique' /\ finding_count' = finding_count
  BY DEF IInv, IdsUnique, finding_count

\* A stream that fails leaves nothing behind and says so.
LEMMA StreamFails ==
    ASSUME IInv, FromStdin, phase \in {"Read", "Emit"},
           NEW failure \in Failure, NEW left \in {"Finalized", "Aborted", "Failed"},
           stream_fails(failure, left), UNCHANGED stdout, position' \in 0 .. Len(input),
           left = "Finalized" => session_state = "Finalized" /\ UNCHANGED position
    PROVE  IInv'
  <1>1. /\ session_state' = left /\ retained' = <<>> /\ carry' = <<>> /\ result' = <<>>
        /\ collected' = 0
        /\ UNCHANGED <<sources, exit_code, buffered, delivered, pipe_open>>
        /\ UNCHANGED command
    BY DEF stream_fails, discard_stream, stdout
  <1>2. /\ mode = "check" =>
              failures' = Append(failures, failure) /\ phase' = "Report" /\ outcome' = outcome
        /\ mode # "check" => outcome' = failure /\ phase' = "Exit" /\ failures' = failures
    BY DEF stream_fails
  <1>3. /\ UNCHANGED <<args, mode, format, paths, input>> /\ (FromStdin' <=> FromStdin)
        /\ exit_code' = -1 /\ RedactedInFull' /\ CheckedInFull' /\ IdsUnique'
    BY <1>1, CommandKept, StillRunning, SourcesKept
  <1>4. Append(failures, failure) \in Seq(Failure) /\ Append(failures, failure) # <<>>
    <2>1. failures \in Seq(Failure)
      BY DEF IInv, Shape
    <2> QED BY <2>1
  <1>5. mode \in {"check", "redact"}
    BY DEF FromStdin
  <1>6. Shape'
    <2>1. <<>> \in Seq(Byte) /\ Len(<<>>) = 0 /\ 0 \in Nat
      OBVIOUS
    <2>2. TypeOK'
      BY <1>1, <1>2, <1>3, <1>5, <2>1 DEF IInv, Shape, TypeOK
    <2>3. failures' \in Seq(Failure) /\ mode' = parse(args') /\ paths' = paths_of(args')
      BY <1>2, <1>3, <1>4 DEF IInv, Shape
    <2> QED BY <1>1, <1>3, <2>1, <2>2, <2>3 DEF IInv, Shape
  <1>7. Phases'
    BY <1>1, <1>2, <1>3, <1>5 DEF IInv, Phases
  <1>8. SessionHolds'
    BY <1>1, <1>2, <1>3, <1>5 DEF IInv, SessionHolds
  <1>9. NoByteLost'
    BY <1>2, <1>3, <1>5 DEF NoByteLost
  <1>10. outcome' = failure => outcome' \notin {"Clean", "Findings"}
    BY DEF Failure, Refusals, FileFailures
  <1>11. RedactionWritten'
    BY <1>2, <1>3, <1>5, <1>10 DEF RedactionWritten
  <1>12. Accounted'
    BY <1>2, <1>3, <1>4, <1>5 DEF Accounted
  <1>13. Verdict'
    BY <1>2, <1>3, <1>5 DEF Verdict
  <1> QED BY <1>3, <1>6, <1>7, <1>8, <1>9, <1>11, <1>12, <1>13 DEF IInv

---------------------------------------------------------------------------
(* Reading. *)

\* Only standard input is read, and only while the session accepts text.
LEMMA Reading ==
    ASSUME IInv, phase = "Read"
    PROVE  FromStdin /\ session_state = "Accepting"
  BY DEF IInv, Phases, SessionHolds

LEMMA ChunkIs ==
    ASSUME IInv, NEW n \in 1 .. READ_CHUNK_BYTES, CanRead(n)
    PROVE  /\ n \in Nat /\ position + n \in 0 .. Len(input)
           /\ Chunk(n) \in Seq(Byte) /\ Len(Chunk(n)) = n
           /\ SubSeq(input, 1, position) \o Chunk(n) = SubSeq(input, 1, position + n)
  <1>1. /\ input \in Seq(Byte) /\ Len(input) \in Nat /\ position \in 0 .. Len(input) /\ n \in Nat
        /\ n <= Len(input) - position
    BY Streams DEF IInv, Shape, TypeOK, CanRead
  <1>2. Chunk(n) \in Seq(Byte) /\ Len(Chunk(n)) = n
    <2>1. position + 1 \in Int /\ position + n \in 1 .. Len(input)
      BY <1>1
    <2> QED BY <1>1, <2>1, SubSeqProperties DEF Chunk
  <1>3. SubSeq(input, 1, position) \o SubSeq(input, position + 1, position + n)
          = SubSeq(input, 1, position + n)
    BY <1>1, ConcatAdjacentSubSeq
  <1> QED BY <1>1, <1>2, <1>3 DEF Chunk

\* The decoder cuts the bytes it has in two, and carries what more bytes may complete: less than
\* one character.
LEMMA DecoderCuts ==
    ASSUME NEW u \in Seq(Byte), decodable(u)
    PROVE  LET v == valid_up_to(u)
           IN  /\ SubSeq(u, 1, v) \in Seq(Byte) /\ Len(SubSeq(u, 1, v)) = v
               /\ SubSeq(u, v + 1, Len(u)) \in Seq(Byte)
               /\ Len(SubSeq(u, v + 1, Len(u))) <= 3
               /\ SubSeq(u, 1, v) \o SubSeq(u, v + 1, Len(u)) = u
  <1> DEFINE v == valid_up_to(u)
  <1>1. v \in 0 .. Len(u) /\ Len(u) \in Nat
    BY ValidUpTo
  <1>2. Len(u) - v <= 3
    <2>1. CASE v = Len(u)
      BY <1>1, <2>1
    <2>2. CASE incomplete(u)
      <3>1. u[v + 1] \in DOMAIN Width /\ Len(u) < v + 1 + Width[u[v + 1]] - 1
        BY <2>2 DEF incomplete
      <3>2. Width[u[v + 1]] \in 1 .. 4
        BY <3>1, WidthType
      <3> QED BY <1>1, <3>1, <3>2
    <2> QED BY <2>1, <2>2 DEF decodable
  <1> HIDE DEF v
  <1>3. SubSeq(u, 1, v) \in Seq(Byte) /\ Len(SubSeq(u, 1, v)) = v
    BY <1>1, SubSeqProperties
  <1>4. SubSeq(u, v + 1, Len(u)) \in Seq(Byte) /\ Len(SubSeq(u, v + 1, Len(u))) = Len(u) - v
    BY <1>1, SubSeqProperties
  <1>5. SubSeq(u, 1, v) \o SubSeq(u, v + 1, Len(u)) = SubSeq(u, 1, Len(u))
    <2>1. 1 \in 1 .. Len(u) + 1 /\ v \in 1 - 1 .. Len(u) /\ Len(u) \in v .. Len(u)
      BY <1>1
    <2> QED BY <2>1, ConcatAdjacentSubSeq
  <1>6. SubSeq(u, 1, Len(u)) = u
    BY SubSeqFull
  <1> QED BY <1>1, <1>2, <1>3, <1>4, <1>5, <1>6 DEF v

\* What the session returns and what it retains are what it had and what it was given.
LEMMA SessionCuts ==
    ASSUME IInv, NEW decoded \in Seq(Byte), session_append(decoded)
    PROVE  /\ result' \in Seq(Byte) /\ retained' \in Seq(Byte) /\ collected' \in Nat
           /\ result' \o retained' = retained \o decoded
  <1> DEFINE unresolved == retained \o decoded
             ends == {i \in (Len(retained) + 1) .. Len(unresolved) : unresolved[i] = "nl"}
  <1>1. retained \in Seq(Byte) /\ collected \in Nat
    BY DEF IInv, Shape
  <1>2. unresolved \in Seq(Byte) /\ Len(unresolved) \in Nat
    BY <1>1, ConcatProperties
  <1>3. PICK cut \in {0} \cup ends, found \in 0 .. MaxFindings :
            /\ result' = SubSeq(unresolved, 1, cut)
            /\ retained' = SubSeq(unresolved, cut + 1, Len(unresolved))
            /\ collected' = collected + found
    BY DEF session_append
  <1>4. cut \in 0 .. Len(unresolved)
    <2>1. Len(retained) \in Nat
      BY <1>1
    <2> QED BY <1>2, <2>1
  <1> HIDE DEF unresolved
  <1>5. result' \in Seq(Byte) /\ retained' \in Seq(Byte)
    <2>1. \A i \in 1 .. cut : unresolved[i] \in Byte
      BY <1>2, <1>4
    <2>2. \A i \in (cut + 1) .. Len(unresolved) : unresolved[i] \in Byte
      BY <1>2, <1>4
    <2>3. cut \in Int /\ cut + 1 \in Int /\ Len(unresolved) \in Int /\ 1 \in Int
      BY <1>2, <1>4
    <2> QED BY <1>3, <2>1, <2>2, <2>3, SubSeqProperties
  <1>6. result' \o retained' = unresolved
    <2>1. 1 \in 1 .. Len(unresolved) + 1 /\ cut \in 1 - 1 .. Len(unresolved)
            /\ Len(unresolved) \in cut .. Len(unresolved)
      BY <1>2, <1>4
    <2>2. result' \o retained' = SubSeq(unresolved, 1, Len(unresolved))
      BY <1>2, <1>3, <2>1, ConcatAdjacentSubSeq
    <2> QED BY <1>2, <2>2, SubSeqFull
  <1>7. collected' \in Nat
    BY <1>1, <1>3, Streams
  <1> QED BY <1>5, <1>6, <1>7 DEF unresolved

\* Where the parentheses stand makes no difference to an output.
LEMMA Associates ==
    ASSUME NEW s \in Seq(Output), NEW t \in Seq(Output), NEW w \in Seq(Output)
    PROVE  (s \o t) \o w = s \o (t \o w) /\ s \o t \in Seq(Output)
  BY ConcatAssociative, ConcatProperties

LEMMA ReadAppendsKeeps ==
    ASSUME IInv, NEW n \in 1 .. READ_CHUNK_BYTES, ReadAppends(n)
    PROVE  IInv'
  <1> DEFINE u == carry \o Chunk(n)
             v == valid_up_to(u)
  <1>1. /\ phase = "Read" /\ CanRead(n) /\ decodable(u)
        /\ position' = position + n
        /\ carry' = SubSeq(u, Len(Decoded(n)) + 1, Len(carry) + n)
        /\ session_append(Decoded(n)) /\ phase' = "Emit"
        /\ UNCHANGED <<session_state, sources, failures, buffered, delivered, pipe_open, outcome,
                       exit_code>>
        /\ UNCHANGED command
    BY DEF ReadAppends, CanRead, report, stdout
  <1>2. FromStdin /\ session_state = "Accepting"
    BY <1>1, Reading
  <1>3. /\ UNCHANGED <<args, mode, format, paths, input>> /\ (FromStdin' <=> FromStdin)
        /\ exit_code' = -1 /\ RedactedInFull' /\ CheckedInFull' /\ IdsUnique'
    BY <1>1, CommandKept, StillRunning, SourcesKept
  <1>4. /\ position + n \in 0 .. Len(input) /\ Chunk(n) \in Seq(Byte) /\ Len(Chunk(n)) = n
        /\ SubSeq(input, 1, position) \o Chunk(n) = SubSeq(input, 1, position + n)
    BY <1>1, ChunkIs
  <1>5. /\ carry \in Seq(Byte) /\ retained \in Seq(Byte) /\ result \in Seq(Byte)
        /\ buffered \in Seq(Output) /\ delivered \in Seq(Output) /\ input \in Seq(Byte)
        /\ position \in 0 .. Len(input)
    BY DEF IInv, Shape, TypeOK
  <1>6. u \in Seq(Byte) /\ Len(u) = Len(carry) + n
    BY <1>4, <1>5, ConcatProperties
  <1> HIDE DEF u
  <1>7. /\ SubSeq(u, 1, v) \in Seq(Byte) /\ Len(SubSeq(u, 1, v)) = v
        /\ SubSeq(u, v + 1, Len(u)) \in Seq(Byte)
        /\ Len(SubSeq(u, v + 1, Len(u))) <= 3
        /\ SubSeq(u, 1, v) \o SubSeq(u, v + 1, Len(u)) = u
    BY <1>1, <1>6, DecoderCuts
  <1>8. Decoded(n) = SubSeq(u, 1, v)
    BY DEF Decoded, u
  <1>9. carry' = SubSeq(u, v + 1, Len(u))
    BY <1>1, <1>6, <1>7, <1>8
  <1>10. /\ result' \in Seq(Byte) /\ retained' \in Seq(Byte) /\ collected' \in Nat
         /\ result' \o retained' = retained \o Decoded(n)
    BY <1>1, <1>7, <1>8, SessionCuts
  <1>11. Shape'
    <2>1. TypeOK'
      BY <1>1, <1>3, <1>4, <1>7, <1>9 DEF IInv, Shape, TypeOK
    <2> QED BY <1>1, <1>3, <1>7, <1>9, <1>10, <2>1 DEF IInv, Shape
  <1>12. Phases'
    BY <1>1, <1>2, <1>3 DEF IInv, Phases
  <1>13. SessionHolds'
    BY <1>1, <1>2, <1>3 DEF IInv, SessionHolds
  <1>14. NoByteLost'
    <2>1. SUFFICES ASSUME mode = "redact"
                   PROVE  delivered \o buffered \o result' \o retained' \o carry'
                            = SubSeq(input, 1, position + n)
      BY <1>1, <1>3 DEF NoByteLost
    <2>2. result = <<>>
      BY <1>1 DEF IInv, SessionHolds
    <2>3. delivered \o buffered \o result \o retained \o carry = SubSeq(input, 1, position)
      BY <1>1, <1>2, <2>1 DEF IInv, NoByteLost
    <2>4. /\ carry \in Seq(Output) /\ retained \in Seq(Output) /\ Chunk(n) \in Seq(Output)
          /\ result' \in Seq(Output) /\ retained' \in Seq(Output) /\ carry' \in Seq(Output)
          /\ Decoded(n) \in Seq(Output)
      <3>1. Byte \subseteq Output
        BY DEF Output
      <3> QED BY <1>4, <1>5, <1>7, <1>8, <1>9, <1>10, <3>1, SeqMonotonic
    <2> DEFINE sent == delivered \o buffered
    <2>5. sent \in Seq(Output) /\ sent \o <<>> = sent
      BY <1>5, ConcatProperties, ConcatEmptySeq
    <2> HIDE DEF sent
    <2>6. (sent \o retained \o carry) \o Chunk(n) = SubSeq(input, 1, position + n)
      BY <1>4, <2>2, <2>3, <2>5 DEF sent
    <2>7. (sent \o retained \o carry) \o Chunk(n) = (sent \o retained) \o u
      <3>1. sent \o retained \in Seq(Output)
        BY <2>4, <2>5, Associates
      <3> QED BY <2>4, <3>1, Associates DEF u
    <2>8. (sent \o retained) \o u = (sent \o retained) \o Decoded(n) \o carry'
      <3>1. sent \o retained \in Seq(Output)
        BY <2>4, <2>5, Associates
      <3>2. u = Decoded(n) \o carry'
        BY <1>7, <1>8, <1>9
      <3> DEFINE before == sent \o retained
      <3> HIDE DEF before
      <3>3. before \in Seq(Output)
        BY <3>1 DEF before
      <3>4. \A s, t, w \in Seq(Output) : (s \o t) \o w = s \o (t \o w)
        BY Associates
      <3>5. (before \o Decoded(n)) \o carry' = before \o (Decoded(n) \o carry')
        BY <2>4, <3>3, <3>4
      <3> QED BY <3>2, <3>5 DEF before
    <2>9. (sent \o retained) \o Decoded(n) = (sent \o result') \o retained'
      <3>1. (sent \o retained) \o Decoded(n) = sent \o (retained \o Decoded(n))
        BY <2>4, <2>5, Associates
      <3>2. (sent \o result') \o retained' = sent \o (result' \o retained')
        BY <2>4, <2>5, Associates
      <3> QED BY <1>10, <3>1, <3>2
    <2> QED BY <2>6, <2>7, <2>8, <2>9 DEF sent
  <1>15. RedactionWritten'
    BY <1>1 DEF RedactionWritten
  <1>16. Accounted'
    BY <1>1, <1>2, <1>3 DEF IInv, Accounted
  <1>17. Verdict'
    BY <1>1 DEF Verdict
  <1> QED BY <1>3, <1>11, <1>12, <1>13, <1>14, <1>15, <1>16, <1>17 DEF IInv

LEMMA ReadRefusedKeeps ==
    ASSUME IInv, NEW n \in 1 .. READ_CHUNK_BYTES, ReadRefused(n)
    PROVE  IInv'
  <1>1. /\ phase = "Read" /\ CanRead(n) /\ position' = position + n /\ UNCHANGED stdout
        /\ \E code \in Refusals : stream_fails(code, "Failed")
    BY DEF ReadRefused, CanRead
  <1>2. FromStdin /\ position + n \in 0 .. Len(input)
    BY <1>1, Reading, ChunkIs
  <1> QED BY <1>1, <1>2, StreamFails DEF Failure

LEMMA ReadUndecodableKeeps ==
    ASSUME IInv, NEW n \in 1 .. READ_CHUNK_BYTES, ReadUndecodable(n)
    PROVE  IInv'
  <1>1. /\ phase = "Read" /\ CanRead(n) /\ position' = position + n /\ UNCHANGED stdout
        /\ stream_fails("NOT_UTF8", "Aborted")
    BY DEF ReadUndecodable, CanRead
  <1>2. FromStdin /\ position + n \in 0 .. Len(input)
    BY <1>1, Reading, ChunkIs
  <1>3. "NOT_UTF8" \in Failure
    BY DEF Failure, FileFailures
  <1> QED BY <1>1, <1>2, <1>3, StreamFails

LEMMA ReadFailsKeeps ==
    ASSUME IInv, ReadFails
    PROVE  IInv'
  <1>1. /\ phase = "Read" /\ UNCHANGED <<position, stdout>>
        /\ stream_fails("READ_FAILED", "Aborted")
    BY DEF ReadFails
  <1>2. FromStdin /\ position' \in 0 .. Len(input) /\ "READ_FAILED" \in Failure
    BY <1>1, Reading DEF IInv, Shape, TypeOK, Failure, FileFailures
  <1> QED BY <1>1, <1>2, StreamFails

LEMMA EndRefusedKeeps ==
    ASSUME IInv, EndRefused
    PROVE  IInv'
  <1>1. /\ phase = "Read" /\ UNCHANGED <<position, stdout>>
        /\ stream_fails("INVALID_PLACEHOLDER", "Failed")
    BY DEF EndRefused
  <1>2. FromStdin /\ position' \in 0 .. Len(input) /\ "INVALID_PLACEHOLDER" \in Failure
    BY <1>1, Reading DEF IInv, Shape, TypeOK, Failure, FileFailures
  <1> QED BY <1>1, <1>2, StreamFails

LEMMA EndIncompleteKeeps ==
    ASSUME IInv, EndIncomplete
    PROVE  IInv'
  <1>1. /\ phase = "Read" /\ UNCHANGED <<position, stdout>>
        /\ stream_fails("NOT_UTF8", "Aborted")
    BY DEF EndIncomplete
  <1>2. FromStdin /\ position' \in 0 .. Len(input) /\ "NOT_UTF8" \in Failure
    BY <1>1, Reading DEF IInv, Shape, TypeOK, Failure, FileFailures
  <1> QED BY <1>1, <1>2, StreamFails

LEMMA EndOfInputKeeps ==
    ASSUME IInv, EndOfInput
    PROVE  IInv'
  <1>1. /\ phase = "Read" /\ position = Len(input) /\ carry = <<>>
        /\ session_state' = "Finalized" /\ result' = retained /\ retained' = <<>>
        /\ phase' = "Emit"
        /\ UNCHANGED <<position, carry, sources, failures, buffered, delivered, pipe_open, outcome,
                       exit_code>>
        /\ UNCHANGED command
    BY DEF EndOfInput, report, stdout
  <1>2. FromStdin /\ session_state = "Accepting"
    BY <1>1, Reading
  <1>3. /\ UNCHANGED <<args, mode, format, paths, input>> /\ (FromStdin' <=> FromStdin)
        /\ exit_code' = -1 /\ RedactedInFull' /\ CheckedInFull' /\ IdsUnique'
    BY <1>1, CommandKept, StillRunning, SourcesKept
  <1>4. Shape'
    <2>1. <<>> \in Seq(Byte) /\ Len(<<>>) = 0
      OBVIOUS
    <2>2. TypeOK'
      BY <1>1, <1>3, <2>1 DEF IInv, Shape, TypeOK
    <2>3. collected' \in Nat
      <3>1. PICK found \in 0 .. (IF retained = <<>> THEN 0 ELSE MaxFindings) :
                collected' = collected + found
        BY DEF EndOfInput
      <3>2. found \in Nat
        BY Streams
      <3> QED BY <3>1, <3>2 DEF IInv, Shape
    <2> QED BY <1>1, <1>3, <2>1, <2>2, <2>3 DEF IInv, Shape
  <1>5. Phases'
    BY <1>1, <1>2, <1>3 DEF IInv, Phases
  <1>6. SessionHolds'
    BY <1>1, <1>2, <1>3 DEF IInv, SessionHolds
  <1>7. NoByteLost'
    <2>1. SUFFICES ASSUME mode = "redact"
                   PROVE  delivered \o buffered \o retained \o <<>> \o <<>>
                            = SubSeq(input, 1, position)
      BY <1>1, <1>3 DEF NoByteLost
    <2>2. result = <<>>
      BY <1>1 DEF IInv, SessionHolds
    <2>3. delivered \o buffered \o result \o retained \o carry = SubSeq(input, 1, position)
      BY <1>1, <1>2, <2>1 DEF IInv, NoByteLost
    <2>4. delivered \in Seq(Output) /\ buffered \in Seq(Output) /\ retained \in Seq(Output)
      <3>1. Byte \subseteq Output
        BY DEF Output
      <3> QED BY <3>1, SeqMonotonic DEF IInv, Shape
    <2>5. /\ delivered \o buffered \in Seq(Output)
          /\ delivered \o buffered \o <<>> = delivered \o buffered
      BY <2>4, Associates, ConcatEmptySeq
    <2>6. /\ delivered \o buffered \o retained \in Seq(Output)
          /\ delivered \o buffered \o retained \o <<>> = delivered \o buffered \o retained
      BY <2>4, <2>5, Associates, ConcatEmptySeq
    <2> QED BY <1>1, <2>2, <2>3, <2>5, <2>6
  <1>8. RedactionWritten'
    BY <1>1 DEF RedactionWritten
  <1>9. Accounted'
    BY <1>1, <1>2, <1>3 DEF IInv, Accounted
  <1>10. Verdict'
    BY <1>1 DEF Verdict
  <1> QED BY <1>3, <1>4, <1>5, <1>6, <1>7, <1>8, <1>9, <1>10 DEF IInv

---------------------------------------------------------------------------
(* Emitting, and the findings of a source. *)

\* push_source continues the numbering.
LEMMA IdsContinue ==
    ASSUME IInv, NEW found \in Nat, push_source(found)
    PROVE  /\ sources' \in Seq(Seq(Nat)) /\ FlattenSeq(sources)' \in Seq(Nat)
           /\ Len(sources') = Len(sources) + 1
           /\ IdsUnique'
  <1> DEFINE ids == FlattenSeq(sources)
             added == [k \in 1 .. found |-> finding_count + k]
  <1>1. sources \in Seq(Seq(Nat)) /\ ids \in Seq(Nat) /\ \A k \in 1 .. Len(ids) : ids[k] = k
    BY DEF IInv, Shape, IdsUnique
  <1>2. finding_count = Len(ids) /\ Len(ids) \in Nat
    BY <1>1 DEF finding_count
  <1>3. added \in Seq(Nat) /\ Len(added) = found /\ \A k \in 1 .. found : added[k] = Len(ids) + k
    BY <1>2
  <1>4. sources' = Append(sources, added)
    BY DEF push_source
  <1> HIDE DEF added
  <1>5. FlattenSeq(sources)' = ids \o added
    <2>1. FlattenSeq(Append(sources, added)) = FlattenSeq(sources) \o added
      BY <1>1, <1>3, FlattenSeqAppend
    <2> QED BY <1>4, <2>1
  <1> HIDE DEF ids
  <1>6. ids \o added \in Seq(Nat) /\ \A k \in 1 .. Len(ids \o added) : (ids \o added)[k] = k
    <2>1. /\ ids \o added \in Seq(Nat) /\ Len(ids \o added) = Len(ids) + found
          /\ \A k \in 1 .. Len(ids) + found :
                (ids \o added)[k] = IF k <= Len(ids) THEN ids[k] ELSE added[k - Len(ids)]
      BY <1>1, <1>3, ConcatProperties
    <2>2. ASSUME NEW k \in 1 .. Len(ids) + found
          PROVE  (ids \o added)[k] = k
      BY <1>1, <1>2, <1>3, <2>1
    <2> QED BY <2>1, <2>2
  <1>7. sources' \in Seq(Seq(Nat)) /\ Len(sources') = Len(sources) + 1
    BY <1>1, <1>3, <1>4
  <1> QED BY <1>5, <1>6, <1>7 DEF IdsUnique

LEMMA EmitKeeps ==
    ASSUME IInv, Emit
    PROVE  IInv'
  <1>1. /\ phase = "Emit" /\ result' = <<>>
        /\ UNCHANGED <<position, carry, session_state, retained, failures, delivered, pipe_open,
                       exit_code>>
        /\ UNCHANGED command
        /\ buffered' = IF mode = "check" THEN buffered ELSE buffered \o result
    BY DEF Emit, session, stdout
  <1>2. FromStdin /\ mode \in {"check", "redact"} /\ session_state \in {"Accepting", "Finalized"}
    BY <1>1 DEF IInv, Phases, SessionHolds, FromStdin
  <1>3. /\ UNCHANGED <<args, mode, format, paths, input>> /\ (FromStdin' <=> FromStdin)
        /\ exit_code' = -1 /\ RedactedInFull' /\ CheckedInFull'
    BY <1>1, CommandKept, StillRunning
  <1>4. /\ session_state = "Accepting" =>
              phase' = "Read" /\ UNCHANGED <<collected, sources, outcome>>
        /\ session_state = "Finalized" /\ mode = "check" =>
              phase' = "Report" /\ push_source(collected) /\ collected' = 0 /\ UNCHANGED outcome
        /\ session_state = "Finalized" /\ mode = "redact" =>
              phase' = "Exit" /\ outcome' = "Clean" /\ UNCHANGED <<collected, sources>>
    BY DEF Emit
  <1>5. collected \in Nat /\ sources \in Seq(Seq(Nat)) /\ FlattenSeq(sources) \in Seq(Nat)
    BY DEF IInv, Shape
  <1>6. /\ sources' \in Seq(Seq(Nat)) /\ FlattenSeq(sources)' \in Seq(Nat) /\ collected' \in Nat
        /\ IdsUnique'
    <2>1. CASE push_source(collected) /\ collected' = 0
      BY <1>5, <2>1, IdsContinue
    <2>2. CASE UNCHANGED <<collected, sources>>
      BY <1>5, <2>2, SourcesKept
    <2> QED BY <1>2, <1>4, <2>1, <2>2
  <1>7. /\ delivered \in Seq(Output) /\ buffered \in Seq(Output) /\ result \in Seq(Output)
        /\ retained \in Seq(Output) /\ carry \in Seq(Output)
    <2>1. Byte \subseteq Output
      BY DEF Output
    <2> QED BY <2>1, SeqMonotonic DEF IInv, Shape
  <1>8. buffered' \in Seq(Output)
    BY <1>1, <1>7, Associates
  <1>9. Shape'
    <2>1. <<>> \in Seq(Byte)
      OBVIOUS
    <2>2. TypeOK'
      BY <1>1, <1>2, <1>3, <1>4 DEF IInv, Shape, TypeOK
    <2> QED BY <1>1, <1>3, <1>6, <1>8, <2>1, <2>2 DEF IInv, Shape
  <1>10. Phases'
    BY <1>1, <1>2, <1>3, <1>4 DEF IInv, Phases
  <1>11. SessionHolds'
    BY <1>1, <1>2, <1>3, <1>4 DEF IInv, SessionHolds
  <1>12. ASSUME mode = "redact"
         PROVE  /\ (delivered \o buffered') \o retained \o carry = SubSeq(input, 1, position)
                /\ delivered \o buffered' \in Seq(Output)
    <2>1. delivered \o buffered \o result \o retained \o carry = SubSeq(input, 1, position)
      BY <1>1, <1>2, <1>12 DEF IInv, NoByteLost
    <2>2. delivered \o (buffered \o result) = (delivered \o buffered) \o result
      <3>1. \A s, t, w \in Seq(Output) : (s \o t) \o w = s \o (t \o w)
        BY Associates
      <3> QED BY <1>7, <3>1
    <2> QED BY <1>1, <1>7, <1>8, <1>12, <2>1, <2>2, Associates
  <1>13. NoByteLost'
    <2>1. SUFFICES ASSUME mode = "redact"
                   PROVE  delivered \o buffered' \o <<>> \o retained \o carry
                            = SubSeq(input, 1, position)
      BY <1>1, <1>3 DEF NoByteLost
    <2>2. delivered \o buffered' \o <<>> = delivered \o buffered'
      BY <1>12, <2>1, ConcatEmptySeq
    <2> QED BY <1>12, <2>1, <2>2
  <1>14. RedactionWritten'
    <2>1. SUFFICES ASSUME mode = "redact", session_state = "Finalized"
                   PROVE  delivered \o buffered' = input
      BY <1>1, <1>2, <1>3, <1>4 DEF RedactionWritten
    <2>2. retained = <<>> /\ carry = <<>> /\ position = Len(input) /\ input \in Seq(Byte)
      BY <2>1 DEF IInv, Shape, SessionHolds
    <2>3. SubSeq(input, 1, position) = input
      BY <2>2, SubSeqFull
    <2>4. (delivered \o buffered') \o <<>> = delivered \o buffered'
      BY <1>12, <2>1, ConcatEmptySeq
    <2> QED BY <1>12, <2>1, <2>2, <2>3, <2>4
  <1>15. Accounted'
    BY <1>1, <1>2, <1>3, <1>4 DEF IInv, Accounted
  <1>16. Verdict'
    BY <1>2, <1>3, <1>4 DEF Verdict
  <1> QED BY <1>3, <1>6, <1>9, <1>10, <1>11, <1>13, <1>14, <1>15, <1>16 DEF IInv

LEMMA EmitFailsKeeps ==
    ASSUME IInv, EmitFails
    PROVE  IInv'
  <1> DEFINE left == IF session_state = "Accepting" THEN "Aborted" ELSE session_state
  <1>1. /\ phase = "Emit" /\ UNCHANGED <<position, stdout>> /\ stream_fails("WRITE_FAILED", left)
    BY DEF EmitFails
  <1>2. /\ FromStdin /\ position' \in 0 .. Len(input) /\ "WRITE_FAILED" \in Failure
        /\ left \in {"Finalized", "Aborted", "Failed"}
        /\ left = "Finalized" => session_state = "Finalized"
    BY <1>1 DEF IInv, Shape, TypeOK, Phases, SessionHolds, Failure
  <1> QED BY <1>1, <1>2, StreamFails

\* What stands in the buffer and what is in the pipe stay the same text.
LEMMA SpillKeeps ==
    ASSUME IInv, Spill
    PROVE  IInv'
  <1>1. /\ phase = "Emit" /\ delivered' = delivered \o buffered /\ buffered' = <<>>
        /\ UNCHANGED <<phase, position, carry, session_state, retained, result, collected, sources,
                       failures, pipe_open, outcome, exit_code>>
        /\ UNCHANGED command
    BY DEF Spill, session, report
  <1>2. /\ UNCHANGED <<args, mode, format, paths, input>> /\ (FromStdin' <=> FromStdin)
        /\ exit_code' = -1 /\ RedactedInFull' /\ CheckedInFull' /\ IdsUnique'
    BY <1>1, CommandKept, StillRunning, SourcesKept
  <1>3. /\ delivered' \in Seq(Output) /\ buffered' \in Seq(Output)
        /\ delivered' \o buffered' = delivered \o buffered
    <2>1. delivered \in Seq(Output) /\ buffered \in Seq(Output) /\ <<>> \in Seq(Output)
      BY DEF IInv, Shape
    <2>2. delivered \o buffered \in Seq(Output)
      BY <2>1, Associates
    <2> QED BY <1>1, <2>1, <2>2, ConcatEmptySeq
  <1>4. Shape'
    BY <1>1, <1>2, <1>3 DEF IInv, Shape, TypeOK
  <1>5. Phases' /\ SessionHolds'
    BY <1>1, <1>2 DEF IInv, Phases, SessionHolds
  <1>6. NoByteLost'
    BY <1>1, <1>2, <1>3 DEF IInv, NoByteLost
  <1>7. RedactionWritten' /\ Accounted' /\ Verdict'
    BY <1>1, <1>2 DEF IInv, RedactionWritten, Accounted, Verdict
  <1> QED BY <1>2, <1>4, <1>5, <1>6, <1>7 DEF IInv

LEMMA PipeClosesKeeps ==
    ASSUME IInv, PipeCloses
    PROVE  IInv'
  <1>1. /\ pipe_open' = FALSE
        /\ UNCHANGED <<phase, position, carry, session_state, retained, result, collected, sources,
                       failures, buffered, delivered, outcome, exit_code>>
        /\ UNCHANGED command
        /\ exit_code = -1
    BY DEF PipeCloses, session, report
  <1>2. /\ UNCHANGED <<args, mode, format, paths, input>> /\ (FromStdin' <=> FromStdin)
        /\ IdsUnique' /\ finding_count' = finding_count
    BY <1>1, CommandKept, SourcesKept
  <1>3. pipe_open' \in BOOLEAN
    BY <1>1
  <1>4. Shape'
    BY <1>1, <1>2, <1>3 DEF IInv, Shape, TypeOK
  <1>5. Phases' /\ SessionHolds' /\ NoByteLost'
    BY <1>1, <1>2 DEF IInv, Phases, SessionHolds, NoByteLost
  <1>6. RedactionWritten' /\ Accounted' /\ Verdict'
    BY <1>1, <1>2 DEF IInv, RedactionWritten, Accounted, Verdict
  <1>7. RedactedInFull' /\ CheckedInFull'
    BY <1>1 DEF RedactedInFull, CheckedInFull
  <1> QED BY <1>2, <1>4, <1>5, <1>6, <1>7 DEF IInv

---------------------------------------------------------------------------
(* Files. *)

LEMMA CheckFileKeeps ==
    ASSUME IInv, CheckFile
    PROVE  IInv'
  <1>1. /\ phase = "Files" /\ mode = "check"
        /\ Len(sources) + Len(failures) < Cardinality(paths)
        /\ phase' = IF Len(sources) + Len(failures) + 1 = Cardinality(paths)
                    THEN "Report" ELSE "Files"
        /\ UNCHANGED <<position, carry, session_state, retained, result, collected, buffered,
                       delivered, pipe_open, outcome, exit_code>>
        /\ UNCHANGED command
    BY DEF CheckFile, session, stdout, last_file
  <1>2. \/ \E found \in 0 .. MaxFindings : push_source(found) /\ failures' = failures
        \/ \E code \in FileFailures : failures' = Append(failures, code) /\ sources' = sources
    BY DEF CheckFile
  <1>3. ~FromStdin
    BY <1>1 DEF IInv, Phases
  <1>4. /\ UNCHANGED <<args, mode, format, paths, input>> /\ (FromStdin' <=> FromStdin)
        /\ exit_code' = -1 /\ RedactedInFull' /\ CheckedInFull'
    BY <1>1, CommandKept, StillRunning
  <1>5. /\ sources \in Seq(Seq(Nat)) /\ FlattenSeq(sources) \in Seq(Nat) /\ failures \in Seq(Failure)
        /\ Len(sources) \in Nat /\ Len(failures) \in Nat /\ Cardinality(paths) \in Nat
    <2>1. args \in ArgumentLists /\ paths = paths_of(args)
      BY DEF IInv, Shape
    <2> QED BY <2>1, PathsAreRequested DEF IInv, Shape
  <1>6. /\ sources' \in Seq(Seq(Nat)) /\ FlattenSeq(sources)' \in Seq(Nat)
        /\ failures' \in Seq(Failure) /\ IdsUnique'
        /\ Len(sources') + Len(failures') = Len(sources) + Len(failures) + 1
    <2>1. ASSUME NEW found \in 0 .. MaxFindings, push_source(found), failures' = failures
          PROVE  <1>6
      <3>1. found \in Nat
        BY Streams
      <3>2. /\ sources' \in Seq(Seq(Nat)) /\ FlattenSeq(sources)' \in Seq(Nat)
            /\ Len(sources') = Len(sources) + 1 /\ IdsUnique'
        BY <2>1, <3>1, IdsContinue
      <3>3. Len(failures') = Len(failures) /\ failures' \in Seq(Failure)
        BY <1>5, <2>1
      <3>4. Len(sources') + Len(failures') = Len(sources) + Len(failures) + 1
        BY <1>5, <3>2, <3>3
      <3> QED BY <3>2, <3>3, <3>4
    <2>2. ASSUME NEW code \in FileFailures, failures' = Append(failures, code), sources' = sources
          PROVE  <1>6
      <3>1. code \in Failure
        BY DEF Failure
      <3>2. failures' \in Seq(Failure) /\ Len(failures') = Len(failures) + 1
        BY <1>5, <2>2, <3>1
      <3> QED BY <1>5, <2>2, <3>2, SourcesKept
    <2> QED BY <1>2, <2>1, <2>2
  <1>7. Shape'
    <2>1. TypeOK'
      BY <1>1, <1>4 DEF IInv, Shape, TypeOK
    <2> QED BY <1>1, <1>4, <1>6, <2>1 DEF IInv, Shape
  <1>8. Phases'
    BY <1>1, <1>3, <1>4 DEF IInv, Phases
  <1>9. SessionHolds'
    BY <1>1, <1>3, <1>4 DEF IInv, SessionHolds
  <1>10. NoByteLost' /\ RedactionWritten'
    BY <1>1, <1>4 DEF NoByteLost, RedactionWritten
  <1>11. Accounted'
    <2>1. /\ phase' = "Files" => Len(sources') + Len(failures') < Cardinality(paths)
          /\ phase' = "Report" => Len(sources') + Len(failures') = Cardinality(paths)
      <3> DEFINE m == Len(sources) + Len(failures) + 1
                 c == Cardinality(paths)
      <3>1. m \in Nat /\ c \in Nat /\ m <= c
        BY <1>1, <1>5
      <3>2. Len(sources') + Len(failures') = m /\ phase' = IF m = c THEN "Report" ELSE "Files"
        BY <1>1, <1>6
      <3> HIDE DEF m, c
      <3>3. (phase' = "Files" => m < c) /\ (phase' = "Report" => m = c)
        BY <3>1, <3>2
      <3> QED BY <3>2, <3>3 DEF c
    <2> QED BY <1>1, <1>3, <1>4, <2>1 DEF Accounted
  <1>12. Verdict'
    BY <1>1 DEF Verdict
  <1> QED BY <1>4, <1>6, <1>7, <1>8, <1>9, <1>10, <1>11, <1>12 DEF IInv

LEMMA RedactFileKeeps ==
    ASSUME IInv, RedactFile
    PROVE  IInv'
  <1>1. /\ phase = "Files" /\ mode = "redact" /\ phase' = "Exit"
        /\ UNCHANGED <<position, carry, session_state, retained, result, collected, sources,
                       failures, delivered, pipe_open, exit_code>>
        /\ UNCHANGED command
    BY DEF RedactFile, session, report
  <1>2. \/ outcome' = "Clean" /\ buffered' = <<"file">>
        \/ outcome' \in FileFailures /\ buffered' = buffered
    BY DEF RedactFile
  <1>3. ~FromStdin /\ delivered = <<>>
    BY <1>1 DEF IInv, Phases, RedactionWritten
  <1>4. /\ UNCHANGED <<args, mode, format, paths, input>> /\ (FromStdin' <=> FromStdin)
        /\ exit_code' = -1 /\ RedactedInFull' /\ CheckedInFull' /\ IdsUnique'
    BY <1>1, CommandKept, StillRunning, SourcesKept
  <1>5. <<"file">> \in Seq(Output) /\ <<>> \o <<"file">> = <<"file">>
    <2>1. "file" \in Output
      BY DEF Output
    <2> QED BY <2>1
  <1>6. Shape'
    <2>1. TypeOK'
      BY <1>1, <1>4 DEF IInv, Shape, TypeOK
    <2>2. buffered' \in Seq(Output)
      BY <1>2, <1>5 DEF IInv, Shape
    <2> QED BY <1>1, <1>4, <2>1, <2>2 DEF IInv, Shape
  <1>7. Phases' /\ SessionHolds'
    BY <1>1, <1>3, <1>4 DEF IInv, Phases, SessionHolds
  <1>8. NoByteLost' /\ Accounted' /\ Verdict'
    BY <1>1, <1>4 DEF NoByteLost, Accounted, Verdict
  <1>9. RedactionWritten'
    <2>1. outcome' = "Clean" => buffered' = <<"file">>
      BY <1>2 DEF FileFailures
    <2> QED BY <1>1, <1>3, <1>4, <1>5, <2>1 DEF RedactionWritten
  <1> QED BY <1>4, <1>6, <1>7, <1>8, <1>9 DEF IInv

---------------------------------------------------------------------------
(* The report, the documents and the exit code. *)

LEMMA WriteReportKeeps ==
    ASSUME IInv, NEW stderr_open \in BOOLEAN, NEW overflows \in BOOLEAN,
           WriteReport(stderr_open, overflows)
    PROVE  IInv'
  <1> DEFINE lines == IF format = "json" \/ finding_count > 0 THEN <<"report">> ELSE <<>>
  <1>1. /\ phase = "Report" /\ phase' = "Exit"
        /\ UNCHANGED <<position, carry, session_state, retained, result, collected, sources,
                       failures, pipe_open, exit_code>>
        /\ UNCHANGED command
        /\ \/ buffered' = <<>> /\ delivered' = lines
           \/ buffered' = lines /\ delivered' = <<>>
        /\ \E reported \in BOOLEAN : outcome' = verdict(reported)
    <2>1. /\ phase = "Report" /\ phase' = "Exit"
          /\ UNCHANGED <<position, carry, session_state, retained, result, collected, sources,
                         failures, pipe_open, exit_code>>
          /\ UNCHANGED command
      BY DEF WriteReport, session, report
    <2>2. \/ buffered' = <<>> /\ delivered' = lines
          \/ buffered' = lines /\ delivered' = <<>>
      BY DEF WriteReport
    <2>3. \E reported \in BOOLEAN : outcome' = verdict(reported)
      <3> DEFINE written == IF format = "json" THEN pipe_open \/ ~overflows
                            ELSE (pipe_open \/ lines = <<>>) /\ stderr_open
                 reported == written /\ (failures = <<>> \/ stderr_open)
      <3>1. outcome' = verdict(reported)
        BY DEF WriteReport
      <3>2. reported \in BOOLEAN
        OBVIOUS
      <3> HIDE DEF reported
      <3> QED BY <3>1, <3>2
    <2> QED BY <2>1, <2>2, <2>3
  <1>2. mode = "check"
    BY <1>1 DEF IInv, Phases
  <1>3. /\ UNCHANGED <<args, mode, format, paths, input>> /\ (FromStdin' <=> FromStdin)
        /\ exit_code' = -1 /\ RedactedInFull' /\ CheckedInFull' /\ IdsUnique'
        /\ finding_count' = finding_count
    BY <1>1, CommandKept, StillRunning, SourcesKept
  <1>4. finding_count \in Nat
    BY DEF IInv, Shape, finding_count
  <1>5. /\ outcome' = "Findings" => failures = <<>> /\ finding_count > 0
        /\ outcome' = "Clean" => failures = <<>> /\ ~(finding_count > 0)
    BY <1>1, <1>4 DEF verdict
  <1>6. lines \in Seq(Output) /\ <<>> \in Seq(Output)
    <2>1. "report" \in Output
      BY DEF Output
    <2> QED BY <2>1
  <1> HIDE DEF lines
  <1>7. /\ buffered' \in Seq(Output) /\ delivered' \in Seq(Output)
        /\ delivered' \o buffered' = lines
    BY <1>1, <1>6, ConcatEmptySeq
  <1>8. Shape'
    <2>1. TypeOK'
      BY <1>1, <1>3 DEF IInv, Shape, TypeOK
    <2> QED BY <1>1, <1>3, <1>7, <2>1 DEF IInv, Shape
  <1>9. Phases' /\ SessionHolds'
    BY <1>1, <1>2, <1>3 DEF IInv, Phases, SessionHolds
  <1>10. NoByteLost' /\ RedactionWritten'
    BY <1>1, <1>2, <1>3 DEF NoByteLost, RedactionWritten
  <1>11. Accounted'
    BY <1>1, <1>2, <1>3 DEF IInv, Accounted
  <1>12. Verdict'
    <2>1. delivered' \o buffered'
            = IF finding_count > 0 \/ format = "json" THEN <<"report">> ELSE <<>>
      BY <1>7 DEF lines
    <2> QED BY <1>1, <1>3, <1>5, <2>1 DEF Verdict
  <1> QED BY <1>3, <1>8, <1>9, <1>10, <1>11, <1>12 DEF IInv

LEMMA WriteDocumentKeeps ==
    ASSUME IInv, WriteDocument
    PROVE  IInv'
  <1>1. /\ phase = "Document" /\ phase' = "Exit" /\ buffered' = <<"document">>
        /\ UNCHANGED <<position, carry, session_state, retained, result, collected, sources,
                       failures, delivered, pipe_open, exit_code>>
        /\ UNCHANGED command
    BY DEF WriteDocument, session, report
  <1>2. mode = "help" /\ ~FromStdin
    BY <1>1 DEF IInv, Phases
  <1>3. /\ UNCHANGED <<args, mode, format, paths, input>> /\ (FromStdin' <=> FromStdin)
        /\ exit_code' = -1 /\ RedactedInFull' /\ CheckedInFull' /\ IdsUnique'
    BY <1>1, CommandKept, StillRunning, SourcesKept
  <1>4. Shape'
    <2>1. TypeOK'
      BY <1>1, <1>3 DEF IInv, Shape, TypeOK
    <2>2. buffered' \in Seq(Output)
      <3>1. "document" \in Output
        BY DEF Output
      <3> QED BY <1>1, <3>1
    <2> QED BY <1>1, <1>3, <2>1, <2>2 DEF IInv, Shape
  <1>5. Phases' /\ SessionHolds'
    BY <1>1, <1>2, <1>3 DEF IInv, Phases, SessionHolds
  <1>6. NoByteLost' /\ RedactionWritten' /\ Accounted' /\ Verdict'
    BY <1>1, <1>2, <1>3 DEF NoByteLost, RedactionWritten, Accounted, Verdict
  <1> QED BY <1>3, <1>4, <1>5, <1>6 DEF IInv

\* 0 and 1 need a last flush that worked.
LEMMA ExitKeeps ==
    ASSUME IInv, Exit
    PROVE  IInv'
  <1>1. /\ phase = "Exit" /\ phase' = "Ended"
        /\ outcome' = final_outcome
        /\ exit_code' = IF final_outcome \in DOMAIN ExitCode THEN ExitCode[final_outcome] ELSE 2
        /\ IF flushes THEN delivered' = delivered \o buffered /\ buffered' = <<>>
           ELSE delivered' = delivered /\ buffered' = buffered
        /\ UNCHANGED <<position, carry, session_state, retained, result, collected, sources,
                       failures, pipe_open>>
        /\ UNCHANGED command
    BY DEF Exit, session, report
  <1>2. /\ UNCHANGED <<args, mode, format, paths, input>> /\ (FromStdin' <=> FromStdin)
        /\ IdsUnique' /\ finding_count' = finding_count /\ Requested' = Requested
    BY <1>1, CommandKept, SourcesKept
  <1>3. /\ exit_code' \in {0, 1, 2}
        /\ exit_code' = 0 => final_outcome = "Clean"
        /\ exit_code' = 1 => final_outcome = "Findings"
    BY <1>1 DEF ExitCode
  <1>4. exit_code' \in {0, 1} =>
           /\ outcome = final_outcome
           /\ delivered' = delivered \o buffered
    BY <1>1, <1>3 DEF final_outcome
  <1>5. delivered' \in Seq(Output) /\ buffered' \in Seq(Output)
    <2>1. delivered \in Seq(Output) /\ buffered \in Seq(Output) /\ <<>> \in Seq(Output)
      BY DEF IInv, Shape
    <2>2. delivered \o buffered \in Seq(Output)
      BY <2>1, Associates
    <2> QED BY <1>1, <2>1, <2>2
  <1>6. Shape'
    <2>1. TypeOK'
      BY <1>1, <1>2, <1>3 DEF IInv, Shape, TypeOK
    <2> QED BY <1>1, <1>2, <1>5, <2>1 DEF IInv, Shape
  <1>7. Phases' /\ SessionHolds'
    <2>1. exit_code' # -1
      BY <1>3
    <2> QED BY <1>1, <1>2, <2>1 DEF IInv, Phases, SessionHolds
  <1>8. NoByteLost' /\ RedactionWritten' /\ Verdict'
    BY <1>1, <1>2 DEF NoByteLost, RedactionWritten, Verdict
  <1>9. Accounted'
    BY <1>1, <1>2 DEF IInv, Accounted
  <1>10. RedactedInFull'
    <2>1. exit_code' = 0 /\ mode = "redact" =>
             delivered \o buffered = IF FromStdin THEN input ELSE <<"file">>
      BY <1>1, <1>3, <1>4 DEF IInv, RedactionWritten
    <2> QED BY <1>2, <1>4, <2>1 DEF RedactedInFull
  <1>11. CheckedInFull'
    <2>1. SUFFICES ASSUME exit_code' \in {0, 1}, mode = "check"
                   PROVE  /\ failures = <<>>
                          /\ IF Requested = {} THEN session_state = "Finalized" /\ position = Len(input)
                             ELSE Len(sources) = Cardinality(Requested)
                          /\ exit_code' = IF finding_count > 0 THEN 1 ELSE 0
                          /\ finding_count > 0 \/ format = "json" => delivered' = <<"report">>
      BY <1>1, <1>2 DEF CheckedInFull
    <2>2. /\ failures = <<>> /\ (outcome = "Findings" <=> finding_count > 0)
          /\ delivered \o buffered =
                IF finding_count > 0 \/ format = "json" THEN <<"report">> ELSE <<>>
      BY <1>1, <1>3, <1>4, <2>1 DEF IInv, Verdict
    <2>3. paths = Requested
      BY PathsAreRequested DEF IInv, Shape
    <2>4. Requested = {} => session_state = "Finalized" /\ position = Len(input)
      BY <1>1, <2>1, <2>2, <2>3 DEF IInv, Accounted, SessionHolds, FromStdin
    <2>5. Requested # {} => Len(sources) = Cardinality(Requested)
      <3>1. Requested # {} => Len(sources) + Len(failures) = Cardinality(Requested)
        BY <1>1, <2>1, <2>3 DEF IInv, Accounted, FromStdin
      <3>2. Len(failures) = 0 /\ Len(sources) \in Nat
        BY <2>2 DEF IInv, Shape
      <3> QED BY <3>1, <3>2
    <2> QED BY <1>3, <1>4, <2>1, <2>2, <2>4, <2>5
  <1> QED BY <1>2, <1>6, <1>7, <1>8, <1>9, <1>10, <1>11 DEF IInv

---------------------------------------------------------------------------
(* The theorems. *)

LEMMA InitHolds == Init => IInv
  <1>1. SUFFICES ASSUME Init PROVE IInv
    OBVIOUS
  <1>2. /\ args \in ArgumentLists /\ mode = parse(args) /\ paths = paths_of(args)
        /\ format \in {"json", "text"} /\ input \in Inputs
        /\ position = 0 /\ carry = <<>> /\ session_state = "Accepting" /\ retained = <<>>
        /\ result = <<>> /\ collected = 0 /\ sources = <<>> /\ failures = <<>>
        /\ buffered = <<>> /\ delivered = <<>> /\ exit_code = -1
    BY <1>1 DEF Init
  <1>3. mode \in {"help", "usage", "check", "redact"}
    BY <1>2 DEF parse
  <1>4. /\ phase \in {"Read", "Document", "Exit", "Files"}
        /\ phase = "Read" <=> FromStdin
        /\ phase = "Document" <=> mode = "help"
        /\ phase = "Exit" <=> mode = "usage"
    BY <1>1, <1>3 DEF Init, FromStdin
  <1>5. pipe_open \in BOOLEAN
    <2>1. pipe_open = TRUE
      BY <1>1 DEF Init
    <2> QED BY <2>1
  <1>6. /\ input \in Seq(Byte) /\ Len(input) \in Nat /\ Len(<<>>) = 0
        /\ \A T : <<>> \in Seq(T)
    BY <1>2, Streams
  <1>7. FlattenSeq(sources) = <<>> /\ finding_count = 0
    BY <1>2 DEF FlattenSeq, finding_count
  <1>8. Shape
    <2>1. TypeOK
      BY <1>2, <1>4, <1>6 DEF TypeOK
    <2> QED BY <1>2, <1>3, <1>5, <1>6, <1>7, <2>1 DEF Shape
  <1>9. Phases /\ SessionHolds
    BY <1>2, <1>3, <1>4 DEF Phases, SessionHolds, FromStdin
  <1>10. NoByteLost
    <2>1. SubSeq(input, 1, 0) = <<>>
      BY SubSeqEmpty
    <2>2. <<>> \o <<>> = <<>>
      OBVIOUS
    <2> QED BY <1>2, <2>1, <2>2 DEF NoByteLost
  <1>11. RedactionWritten
    BY <1>2, <1>4 DEF RedactionWritten
  <1>12. Accounted
    <2>1. paths # {} => 0 < Cardinality(paths)
      BY <1>2, PathsAreRequested, FS_EmptySet
    <2> QED BY <1>2, <1>4, <1>6, <2>1 DEF Accounted, FromStdin
  <1>13. Verdict
    BY <1>4 DEF Verdict
  <1>14. IdsUnique /\ RedactedInFull /\ CheckedInFull
    BY <1>2, <1>6, <1>7 DEF IdsUnique, RedactedInFull, CheckedInFull
  <1> QED BY <1>8, <1>9, <1>10, <1>11, <1>12, <1>13, <1>14 DEF IInv

LEMMA StutterKeeps ==
    ASSUME IInv, UNCHANGED vars
    PROVE  IInv'
  <1>1. /\ UNCHANGED <<phase, position, carry, session_state, retained, result, collected, sources,
                       failures, buffered, delivered, pipe_open, outcome, exit_code>>
        /\ UNCHANGED command
    BY DEF vars, session, report, stdout
  <1>2. /\ UNCHANGED <<args, mode, format, paths, input>> /\ (FromStdin' <=> FromStdin)
        /\ IdsUnique' /\ finding_count' = finding_count /\ Requested' = Requested
    BY <1>1, CommandKept, SourcesKept
  <1>3. Shape'
    BY <1>1, <1>2 DEF IInv, Shape, TypeOK
  <1>4. Phases' /\ SessionHolds' /\ NoByteLost'
    BY <1>1, <1>2 DEF IInv, Phases, SessionHolds, NoByteLost
  <1>5. RedactionWritten' /\ Accounted' /\ Verdict'
    BY <1>1, <1>2 DEF IInv, RedactionWritten, Accounted, Verdict
  <1>6. RedactedInFull' /\ CheckedInFull'
    BY <1>1, <1>2 DEF IInv, RedactedInFull, CheckedInFull
  <1> QED BY <1>2, <1>3, <1>4, <1>5, <1>6 DEF IInv

LEMMA NextPreserves == IInv /\ [Next]_vars => IInv'
  <1>1. SUFFICES ASSUME IInv, [Next]_vars PROVE IInv'
    OBVIOUS
  <1>2. ASSUME NEW n \in 1 .. READ_CHUNK_BYTES,
               ReadAppends(n) \/ ReadRefused(n) \/ ReadUndecodable(n)
        PROVE  IInv'
    BY <1>1, <1>2, ReadAppendsKeeps, ReadRefusedKeeps, ReadUndecodableKeeps
  <1>3. CASE ReadFails \/ EndOfInput \/ EndRefused \/ EndIncomplete
    BY <1>1, <1>3, ReadFailsKeeps, EndOfInputKeeps, EndRefusedKeeps, EndIncompleteKeeps
  <1>4. CASE Emit \/ EmitFails \/ Spill \/ PipeCloses
    BY <1>1, <1>4, EmitKeeps, EmitFailsKeeps, SpillKeeps, PipeClosesKeeps
  <1>5. CASE CheckFile \/ RedactFile \/ WriteDocument
    BY <1>1, <1>5, CheckFileKeeps, RedactFileKeeps, WriteDocumentKeeps
  <1>6. ASSUME NEW stderr_open \in BOOLEAN, NEW overflows \in BOOLEAN,
               WriteReport(stderr_open, overflows)
        PROVE  IInv'
    BY <1>1, <1>6, WriteReportKeeps
  <1>7. CASE Exit
    BY <1>1, <1>7, ExitKeeps
  <1>8. CASE UNCHANGED vars
    BY <1>1, <1>8, StutterKeeps
  <1> QED BY <1>1, <1>2, <1>3, <1>4, <1>5, <1>6, <1>7, <1>8 DEF Next, Step

\* The invariant holds however the command is run.
THEOREM Invariant == Spec => []IInv
  BY InitHolds, NextPreserves, PTL DEF Spec

\* At most three bytes are carried from read to read, and a session, a phase and an exit code are
\* always one of those there are.
THEOREM TypeCorrect == Spec => []TypeOK
  <1>1. IInv => TypeOK
    BY DEF IInv, Shape
  <1> QED BY <1>1, Invariant, PTL

\* However the reads split the input and whenever the buffer spills: what left, what waits and
\* what is retained or carried add up to what was read.
THEOREM StreamConserved == Spec => []NoByteLost
  <1>1. IInv => NoByteLost
    BY DEF IInv
  <1> QED BY <1>1, Invariant, PTL

\* A redaction that exits with 0 has delivered the whole of its input.
THEOREM ZeroIsAPromise == Spec => []RedactedInFull
  <1>1. IInv => RedactedInFull
    BY DEF IInv
  <1> QED BY <1>1, Invariant, PTL

\* A check that exits with 0 or 1 has scanned all it was asked for, tells findings from none, and
\* its report has arrived.
THEOREM VerdictIsComplete == Spec => []CheckedInFull
  <1>1. IInv => CheckedInFull
    BY DEF IInv
  <1> QED BY <1>1, Invariant, PTL

\* The ids of a report count its findings, from source to source.
THEOREM IdsCount == Spec => []IdsUnique
  <1>1. IInv => IdsUnique
    BY DEF IInv
  <1> QED BY <1>1, Invariant, PTL

\* A stream that is over holds no plaintext, however it ended.
THEOREM OverHoldsNothing == Spec => []NothingHeld
  <1>1. IInv => NothingHeld
    BY DEF IInv, SessionHolds, NothingHeld
  <1> QED BY <1>1, Invariant, PTL

=============================================================================
