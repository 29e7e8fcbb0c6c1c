--------------------------- MODULE DelimiterTracker ---------------------------
(***************************************************************************)
(* PrivateKeyRetentionTracker of private_key.rs, with delimiters that a    *)
(* chunk boundary may split.  A symbol stands for a run of characters:     *)
(* dash is -----, begin and end are the keywords with their space, pk is   *)
(* PRIVATE KEY, rsa is RSA and its space; wide, more are the two bytes of  *)
(* one character, which no piece splits; other is any other byte.  Each    *)
(* counts as one byte, so that the longest delimiter has five.             *)
(***************************************************************************)
EXTENDS PemDelimiters

CONSTANTS Fragments,    \* the pieces the session may hand over
          MAX_DELIMITER_LEN,
          MaxText       \* bound on the text of one construct

VARIABLES stack, has_begin, processed_bytes, lookbehind,   \* the tracker
          text                                              \* all its pieces since the reset

tracker == <<stack, has_begin, processed_bytes, lookbehind>>
vars == <<tracker, text>>

Symbol == {"dash", "begin", "end", "pk", "rsa", "wide", "more", "other"}

LABELS == {<<"pk">>, <<"rsa", "pk">>}
KindOf == [begin |-> "Begin", end |-> "End"]

Form(kind, label) == <<"dash", kind>> \o label \o <<"dash">>
Occurs(d, u, i) == i + Len(d) - 1 <= Len(u) /\ SubSeq(u, i, i + Len(d) - 1) = d

ASSUME TrackerPieces == Fragments \subseteq Seq(Symbol)
ASSUME LongestDelimiter ==
    /\ MAX_DELIMITER_LEN \in Nat
    /\ \A k \in DOMAIN KindOf, l \in LABELS : Len(Form(k, l)) <= MAX_DELIMITER_LEN

\* The delimiters find_next_delimiter returns one after the other: leftmost first, each one
\* looked for behind the last.
delimiters(u) ==
    LET found[i \in 1 .. (Len(u) + 1)] ==
          IF \E k \in DOMAIN KindOf, l \in LABELS : Occurs(Form(k, l), u, i)
            THEN LET m == CHOOSE m \in (DOMAIN KindOf) \X LABELS : Occurs(Form(m[1], m[2]), u, i)
                     last == i + Len(m[2]) + 2
                 IN  <<[kind |-> KindOf[m[1]], label |-> m[2], start |-> i, end |-> last]>>
                       \o found[last + 1]
            ELSE IF i > Len(u) THEN <<>> ELSE found[i + 1]
    IN  found[1]

\* Mutant of byte_suffix: one byte too few.
byte_suffix_short(u, n) ==
    LET cut == Len(u) - n + 2
        start == IF u[cut] = "more" THEN cut + 1 ELSE cut
    IN  IF Len(u) < n THEN u ELSE SubSeq(u, start, Len(u))

\* The longest suffix of at most n bytes that starts on a character boundary.
byte_suffix(u, n) ==
    LET cut == Len(u) - n + 1
        start == IF u[cut] = "more" THEN cut + 1 ELSE cut
    IN  IF Len(u) <= n THEN u ELSE SubSeq(u, start, Len(u))

\* Delimiters of the lookbehind that are accounted for are left out.
scan_delimiters(s, ds, input_offset) ==
    LET after[k \in 0 .. Len(ds)] ==
          IF k = 0 THEN s
          ELSE IF input_offset + ds[k].end <= processed_bytes THEN after[k - 1]
          ELSE process_delimiter(after[k - 1], ds[k])
    IN  after[Len(ds)]

Init ==
    /\ stack = <<>> /\ has_begin = FALSE /\ processed_bytes = 0 /\ lookbehind = <<>>
    /\ text = <<>>

\* Mutant of append: a delimiter in the lookbehind is accounted for again.
append_counts_twice(piece) ==
    LET input == lookbehind \o piece
        state == process_delimiters([ParserState EXCEPT !.stack = stack, !.has_begin = has_begin],
                                    delimiters(input))
    IN  /\ stack' = state.stack
        /\ has_begin' = state.has_begin
        /\ processed_bytes' = processed_bytes + Len(piece)
        /\ lookbehind' = byte_suffix(input, MAX_DELIMITER_LEN - 1)

append(piece) ==
    LET input == lookbehind \o piece
        input_offset == processed_bytes - Len(lookbehind)
        state == scan_delimiters([ParserState EXCEPT !.stack = stack, !.has_begin = has_begin],
                                 delimiters(input), input_offset)
    IN  /\ stack' = state.stack
        /\ has_begin' = state.has_begin
        /\ processed_bytes' = processed_bytes + Len(piece)
        /\ lookbehind' = byte_suffix(input, MAX_DELIMITER_LEN - 1)

Append_(piece) ==
    /\ Len(text) + Len(piece) <= MaxText
    /\ append(piece)
    /\ text' = text \o piece

reset ==
    /\ stack' = <<>> /\ has_begin' = FALSE /\ processed_bytes' = 0 /\ lookbehind' = <<>>
    /\ text' = <<>>

Next == (\E piece \in Fragments : Append_(piece)) \/ reset

Spec == Init /\ [][Next]_vars

---------------------------------------------------------------------------

TypeOK ==
    /\ text \in Seq(Symbol)
    /\ stack \in Seq(LABELS) /\ has_begin \in BOOLEAN
    /\ processed_bytes = Len(text)
    /\ lookbehind \in Seq(Symbol) /\ Len(lookbehind) < MAX_DELIMITER_LEN

\* What one scan of the whole text finds.
Whole == process_delimiters(ParserState, delimiters(text))

\* A dash that ends one delimiter and begins another.
SharesDashes(u) ==
    LET forms == {Form(k, l) : k \in DOMAIN KindOf, l \in LABELS}
    IN  \E d \in forms, e \in forms, i \in 1 .. Len(u) :
            Occurs(d, u, i) /\ Occurs(e, u, i + Len(d) - 1)

\* However the text is cut into pieces, a delimiter split over several of them included, the
\* blocks the tracker holds open are those that a scan of the text in one piece finds open: no
\* delimiter is missed and none counted twice.  Texts whose delimiters share dashes apart.
TrackerMatchesScan ==
    ~SharesDashes(text) => stack = Whole.stack /\ has_begin = Whole.has_begin

\* Everything the next piece may complete is in reach: a delimiter the text could still be in the
\* middle of starts inside the lookbehind.
LookbehindReaches ==
    \A k \in DOMAIN KindOf, l \in LABELS, n \in 1 .. (MAX_DELIMITER_LEN - 1) :
        LET start == SubSeq(Form(k, l), 1, n)
        IN  n < Len(Form(k, l)) /\ n <= Len(text) /\ SubSeq(text, Len(text) - n + 1, Len(text)) = start
              => n <= Len(lookbehind)
=============================================================================
