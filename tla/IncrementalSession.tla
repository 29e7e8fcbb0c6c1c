------------------------- MODULE IncrementalSession -------------------------
(***************************************************************************)
(* The bounded incremental sanitizer session of secret-scan-core: a caller *)
(* appends a text in chunks of its choosing; the session retains what an   *)
(* open line or construct may still need, runs the pipeline over each unit *)
(* that closes, and hands back the sanitized text and findings of the      *)
(* units that closed during the call.  An `append` runs its loop one piece *)
(* (the chunk up to its next line terminator) per step, so that what a     *)
(* failure in the middle of a call leaves behind is visible.               *)
(***************************************************************************)
EXTENDS Pipeline

CONSTANTS
    Lexeme,              \* the lexemes the texts are made of
    Chunks,              \* what a caller may append in one call
    max_input_bytes, max_buffered_bytes, max_token_bytes, max_multiline_bytes,
    LOOKAROUND_BYTES,
    Detect(_)            \* the detector registry's pipeline, on one unit

\* What `IncrementalLimits::new` accepts; its check that the sum does not overflow is implied, as no
\* limit is above the largest integer.
minimum_buffered_bytes(token, multiline) ==
    (IF token > multiline THEN token ELSE multiline) + LOOKAROUND_BYTES
valid_limits ==
    /\ max_input_bytes \in Nat \ {0} /\ max_buffered_bytes \in Nat \ {0}
    /\ max_token_bytes \in Nat \ {0} /\ max_multiline_bytes \in Nat \ {0}
    /\ max_token_bytes <= max_input_bytes /\ max_multiline_bytes <= max_input_bytes
    /\ max_buffered_bytes >= minimum_buffered_bytes(max_token_bytes, max_multiline_bytes)

ASSUME ValidLimits == LOOKAROUND_BYTES \in Nat \ {0} /\ valid_limits

ASSUME TextChunks == Lexeme \subseteq AllLexemes /\ Chunks \subseteq Seq(Lexeme)

FindingType == {"private_key", "contextual_secret", "bearer_token", "connection_string_password"}
DetectedFinding ==
    [type : FindingType,
     specificity : 0 .. 4, confidence : 0 .. 2, start : Nat, end : Nat]

\* What the pipeline promises of every text a session may have to scan: findings within the
\* text, in order, none overlapping the one before it.
ASSUME DetectContract ==
    \A n \in 0 .. max_input_bytes : \A u \in [1 .. n -> Lexeme] :
        Detect(u) \in Seq(DetectedFinding) /\ ordered_and_disjoint(Detect(u), 0, n)

VARIABLES
    \* fields of the session
    state, retained, finalized_bytes, total_input_bytes, finding_count, placeholder_count,
    tracker, multiline_open, multiline_detected,
    \* frame of the append in progress
    calling, rest, emitted, unit_findings,
    \* the caller: the text it got accepted, what came back, and the error of the last call
    source, text, findings, error

counters == <<finalized_bytes, finding_count, placeholder_count>>
buffer == <<retained, tracker, multiline_open, multiline_detected>>
frame == <<calling, rest, emitted, unit_findings>>
received == <<text, findings>>
vars == <<state, total_input_bytes, counters, buffer, frame, received, source, error>>

SessionState == {"Accepting", "Finalized", "Aborted", "Failed"}
LimitErrors == {"InputLimitExceeded", "TokenLimitExceeded", "MultilineLimitExceeded",
                "BufferLimitExceeded"}
UnitErrors == {"PolicyFailure", "PlaceholderFailure", "InvalidPlaceholder"}
Finding ==
    [id : Nat, type : FindingType, action : {"Block", "Redact", "Warn"}, start : Nat, end : Nat]

Init ==
    /\ source = <<>>
    /\ state = "Accepting"
    /\ retained = <<>> /\ tracker = TrackerInit
    /\ multiline_open = FALSE /\ multiline_detected = FALSE
    /\ finalized_bytes = 0 /\ total_input_bytes = 0
    /\ finding_count = 0 /\ placeholder_count = 0
    /\ calling = FALSE /\ rest = <<>> /\ emitted = <<>> /\ unit_findings = <<>>
    /\ text = <<>> /\ findings = <<>> /\ error = "None"

---------------------------------------------------------------------------

discard_retained ==
    /\ retained' = <<>> /\ tracker' = TrackerInit
    /\ multiline_open' = FALSE /\ multiline_detected' = FALSE

leave_call == calling' = FALSE /\ rest' = <<>> /\ emitted' = <<>> /\ unit_findings' = <<>>

\* Mutant of fail_with: a failed session keeps its plaintext.
fail_with_retained(code) ==
    /\ UNCHANGED buffer
    /\ leave_call
    /\ state' = "Failed"
    /\ error' = code

\* The error unwinds the whole call: the units it had already closed are returned to nobody.
fail_with(code) ==
    /\ discard_retained
    /\ leave_call
    /\ state' = "Failed"
    /\ error' = code

require_accepting == state = "Accepting" /\ ~calling

---------------------------------------------------------------------------
(* process_unit over the unit u. *)

FindingsOf(u) == scan(Detect(u), finalized_bytes, finding_count)
Replaced(fs) == PlaceholderIndex(fs, Len(fs))
TextOf(u) == redact(u, FindingsOf(u), finalized_bytes, placeholder_count)

\* Mutant of process_unit: the ids start over with each unit.
process_unit_renumbers(u) ==
    /\ ~invalid_placeholder(u, FindingsOf(u), finalized_bytes, placeholder_count)
    /\ finding_count' = Len(FindingsOf(u))
    /\ placeholder_count' = placeholder_count + Replaced(FindingsOf(u))
    /\ finalized_bytes' = finalized_bytes + Len(u)
    /\ discard_retained

process_unit(u) ==
    /\ ~invalid_placeholder(u, FindingsOf(u), finalized_bytes, placeholder_count)
    /\ finding_count' = finding_count + Len(FindingsOf(u))
    /\ placeholder_count' = placeholder_count + Replaced(FindingsOf(u))
    /\ finalized_bytes' = finalized_bytes + Len(u)           \* finish_unit
    /\ discard_retained

\* A policy of the host may fail on any finding, a formatter on any replaced one; the default
\* placeholder fails when it reproduces a replaced value.
process_unit_fails(u) ==
    \E code \in UnitErrors :
        /\ IF code = "PolicyFailure"
             THEN \E k \in 1 .. Len(FindingsOf(u)) : finding_count' = finding_count + k - 1
             ELSE Replaced(FindingsOf(u)) > 0 /\ finding_count' = finding_count + Len(FindingsOf(u))
        /\ fail_with(code)
        /\ UNCHANGED <<finalized_bytes, placeholder_count>>

---------------------------------------------------------------------------
(* append *)

\* The chunk is refused as a whole when it would pass the input limit.
AppendRefused(chunk) ==
    /\ require_accepting
    /\ total_input_bytes + Len(chunk) > max_input_bytes
    /\ fail_with("InputLimitExceeded")
    /\ UNCHANGED <<total_input_bytes, counters, received, source>>

\* Mutant of BeginAppend: the count starts over with each chunk.
BeginAppend_counts_chunk(chunk) ==
    /\ require_accepting
    /\ total_input_bytes + Len(chunk) <= max_input_bytes
    /\ total_input_bytes' = Len(chunk)
    /\ source' = source \o chunk
    /\ calling' = TRUE
    /\ rest' = chunk
    /\ UNCHANGED <<state, counters, buffer, emitted, unit_findings, received, error>>

BeginAppend(chunk) ==
    /\ require_accepting
    /\ total_input_bytes + Len(chunk) <= max_input_bytes
    /\ total_input_bytes' = total_input_bytes + Len(chunk)
    /\ source' = source \o chunk
    /\ calling' = TRUE
    /\ rest' = chunk
    /\ UNCHANGED <<state, counters, buffer, emitted, unit_findings, received, error>>

\* The loop takes the first n lexemes of the chunk as its piece: up to the next line terminator,
\* or all that is left.
IsPiece(n) ==
    /\ calling
    /\ n = Len(rest) \/ rest[n] \in Terminators
    /\ \A k \in 1 .. (n - 1) : rest[k] \notin Terminators

Piece(n) == SubSeq(rest, 1, n)
Unit(n) == retained \o Piece(n)
ClosesLine(n) == rest[n] \in Terminators
Tracked(n) == tracker_append(tracker, Piece(n))
MultilineDetected(n) == multiline_detected \/ Tracked(n).has_begin

\* Mutant of construct_limit: a line that is no block gets the room of one.
construct_limit_of_block(multiline) == max_multiline_bytes

\* Mutant of construct_limit: an open block counts against the buffer only.
construct_limit_of_buffer(multiline) ==
    IF multiline THEN max_buffered_bytes ELSE max_token_bytes

construct_limit(multiline) == IF multiline THEN max_multiline_bytes ELSE max_token_bytes

\* The limit a retained text has reached, checked in this order: its open construct, not
\* counting the terminator that closes the line, then the buffer as a whole.
limit_reached(length, closes_line, multiline) ==
    LET open_length == IF closes_line THEN length - 1 ELSE length
    IN  CASE open_length > construct_limit(multiline) ->
                IF multiline THEN "MultilineLimitExceeded" ELSE "TokenLimitExceeded"
          [] open_length <= construct_limit(multiline) /\ length > max_buffered_bytes ->
                "BufferLimitExceeded"
          [] OTHER -> "None"
\* Mutant of LimitReached: the limit counts the rest of the chunk, not the piece.
LimitReached_by_chunk(n) ==
    limit_reached(Len(retained) + Len(rest), ClosesLine(n), MultilineDetected(n))

LimitReached(n) == limit_reached(Len(Unit(n)), ClosesLine(n), MultilineDetected(n))

has_open_single_line_construct(u) ==
    has_open_contextual_assignment(u) \/ has_open_bearer_authorization(u)

\* Mutant of closes_unit: a line inside an open block closes the unit.
closes_unit_in_block(u, closes_line, open_blocks) ==
    closes_line /\ ~has_open_single_line_construct(u)

\* A line terminator closes the unit when no block and no single-line construct is open.
closes_unit(u, closes_line, open_blocks) ==
    closes_line /\ open_blocks = <<>> /\ ~has_open_single_line_construct(u)
UnitCloses(n) == closes_unit(Unit(n), ClosesLine(n), Tracked(n).stack)

AppendReachesLimit(n) ==
    /\ IsPiece(n) /\ LimitReached(n) # "None"
    /\ fail_with(LimitReached(n))
    /\ UNCHANGED <<total_input_bytes, counters, received, source>>

AppendRetains(n) ==
    /\ IsPiece(n) /\ LimitReached(n) = "None" /\ ~UnitCloses(n)
    /\ retained' = Unit(n)
    /\ tracker' = Tracked(n)
    /\ multiline_detected' = MultilineDetected(n)
    /\ multiline_open' = (Tracked(n).stack # <<>>)
    /\ rest' = SubSeq(rest, n + 1, Len(rest))
    /\ UNCHANGED <<state, total_input_bytes, counters, calling, emitted, unit_findings,
                   received, source, error>>

AppendClosesUnit(n) ==
    /\ IsPiece(n) /\ LimitReached(n) = "None" /\ UnitCloses(n)
    /\ process_unit(Unit(n))
    /\ emitted' = emitted \o TextOf(Unit(n))
    /\ unit_findings' = unit_findings \o FindingsOf(Unit(n))
    /\ rest' = SubSeq(rest, n + 1, Len(rest))
    /\ UNCHANGED <<state, total_input_bytes, calling, received, source, error>>

AppendFailsUnit(n) ==
    /\ IsPiece(n) /\ LimitReached(n) = "None" /\ UnitCloses(n)
    /\ process_unit_fails(Unit(n))
    /\ UNCHANGED <<total_input_bytes, received, source>>

ReturnAppend ==
    /\ calling /\ rest = <<>>
    /\ text' = text \o emitted
    /\ findings' = findings \o unit_findings
    /\ error' = "None"
    /\ leave_call
    /\ UNCHANGED <<state, total_input_bytes, counters, buffer, source>>

---------------------------------------------------------------------------
(* finalize, abort *)

Finalize ==
    /\ require_accepting
    /\ process_unit(retained)
    /\ text' = text \o TextOf(retained)
    /\ findings' = findings \o FindingsOf(retained)
    /\ state' = "Finalized"
    /\ error' = "None"
    /\ UNCHANGED <<total_input_bytes, frame, source>>

FinalizeFails ==
    /\ require_accepting
    /\ process_unit_fails(retained)
    /\ UNCHANGED <<total_input_bytes, received, source>>

Abort ==
    /\ require_accepting
    /\ discard_retained
    /\ state' = "Aborted"
    /\ error' = "None"
    /\ UNCHANGED <<total_input_bytes, counters, frame, received, source>>

\* Any call outside `accepting` is refused and changes nothing.
RefusedCall ==
    /\ ~calling /\ state # "Accepting"
    /\ error' = "InvalidState"
    /\ UNCHANGED <<state, total_input_bytes, counters, buffer, frame, received, source>>

Next ==
    \/ \E chunk \in Chunks : AppendRefused(chunk) \/ BeginAppend(chunk)
    \/ \E n \in 1 .. Len(rest) : \/ AppendReachesLimit(n) \/ AppendRetains(n)
                                 \/ AppendClosesUnit(n) \/ AppendFailsUnit(n)
    \/ ReturnAppend
    \/ Finalize \/ FinalizeFails \/ Abort \/ RefusedCall

Spec == Init /\ [][Next]_vars

---------------------------------------------------------------------------
(* Properties. *)

TypeOK ==
    /\ source \in Seq(Lexeme)
    /\ state \in SessionState
    /\ retained \in Seq(Lexeme)
    /\ multiline_open \in BOOLEAN /\ multiline_detected \in BOOLEAN
    /\ total_input_bytes = Len(source)
    /\ finalized_bytes \in Nat /\ finding_count \in Nat /\ placeholder_count \in Nat
    /\ calling \in BOOLEAN
    /\ rest \in Seq(Lexeme)
    /\ emitted \in Seq(OutputUnit) /\ text \in Seq(OutputUnit)
    /\ unit_findings \in Seq(Finding) /\ findings \in Seq(Finding)
    /\ error \in {"None", "InvalidState"} \cup LimitErrors \cup UnitErrors

\* The detections ds of a text that begins at offset n.
Moved(ds, n) == [k \in 1 .. Len(ds) |-> [ds[k] EXCEPT !.start = @ + n, !.end = @ + n]]

\* A text that a session may close as a unit.
ClosedUnit(u) ==
    u # <<>> /\ closes_unit(u, u[Len(u)] \in Terminators, tracker_append(TrackerInit, u).stack)

\* Detection finds the same in the closed unit u and in what follows it whether it sees them
\* apart or together.
SettlesAt(u) ==
    ClosedUnit(u) =>
        \A n \in 0 .. (max_input_bytes - Len(u)) : \A v \in [1 .. n -> Lexeme] :
            Detect(u \o v) = Detect(u) \o Moved(Detect(v), Len(u))
DetectSettles == \A m \in 0 .. max_input_bytes : \A u \in [1 .. m -> Lexeme] : SettlesAt(u)

\* No default placeholder contains a text of the alphabet.
NothingReproduced == \A n \in Nat : Reproduces(n) \cap Lexeme = {}

\* The hints keep a unit open as long as detection needs what follows: wherever a session may
\* close a text as a unit, no continuation of the text changes what detection finds in it, nor it
\* what is found in the continuation (has_open_single_line_construct, the tracker).
HintsSettleUnits == SettlesAt(source)

\* For every partition of its text into chunks, a session that finalizes has returned what one
\* scan and redaction of all the text it was given returns: the same text, findings, actions,
\* ids, offsets and placeholder numbers (incremental.rs, "Partition invariance").
PartitionInvariance ==
    state = "Finalized" =>
        LET whole == scan_and_redact(source, Detect(source))
        IN  whole.ok /\ text = whole.text /\ findings = whole.findings

\* Text is released only when nothing that follows can change what it must hide: whatever was
\* returned so far, in a session that is still open, failed or aborted just as well, begins the
\* redaction of all the text taken in so far, and carries exactly the findings that start in it.
ReleasedTextIsSanitized ==
    LET whole == scan(Detect(source), 0, 0)
        masked == redact(source, whole, 0, 0)
    IN  /\ Len(text) <= Len(source) /\ Len(findings) <= Len(whole)
        /\ \A i \in 1 .. Len(text) : text[i] = masked[i]
        /\ \A k \in 1 .. Len(findings) : findings[k] = whole[k]
        /\ \A k \in 1 .. Len(whole) : k <= Len(findings) <=> whole[k].start < Len(text)

\* The session's buffer after position i of a text u that is taken in one append; `from` is where
\* the piece it is in began, and `ok` that no limit was reached.
FreshBuffer == [retained |-> <<>>, tracker |-> TrackerInit, multiline |-> FALSE,
                from |-> 1, ok |-> TRUE]
AtOnce(u, b, i) ==
    LET piece == SubSeq(u, b.from, i)
        closes_line == u[i] \in Terminators
        unit == b.retained \o piece
        tracked == tracker_append(b.tracker, piece)
        multiline == b.multiline \/ tracked.has_begin
    IN  IF ~closes_line /\ i < Len(u) THEN b
        ELSE IF limit_reached(Len(unit), closes_line, multiline) # "None"
          THEN [b EXCEPT !.ok = FALSE]
        ELSE IF closes_unit(unit, closes_line, tracked.stack)
          THEN [FreshBuffer EXCEPT !.from = i + 1, !.ok = b.ok]
        ELSE [retained |-> unit, tracker |-> tracked, multiline |-> multiline,
              from |-> i + 1, ok |-> b.ok]

\* Whether a session takes the whole of u in a single append.
AcceptedAtOnce(u) ==
    LET after[i \in 0 .. Len(u)] == IF i = 0 THEN FreshBuffer ELSE AtOnce(u, after[i - 1], i)
    IN  Len(u) <= max_input_bytes /\ after[Len(u)].ok

\* "Whole-input acceptance does not depend on how the caller partitions it into chunks"
\* (incremental.rs): when a token or multiline limit ends a session, one append of the same
\* text, whatever follows it, is refused as well.
LimitRefusalStands ==
    error \in {"TokenLimitExceeded", "MultilineLimitExceeded"} =>
        \A more \in Chunks : ~AcceptedAtOnce(source \o more)

InOrder(fs, released) ==
    \A k \in 1 .. Len(fs) :
        /\ fs[k].id = k
        /\ fs[k].start < fs[k].end /\ fs[k].end <= released
        /\ k > 1 => fs[k - 1].end <= fs[k].start

\* Over all the calls of a session, failed ones included, the findings returned are numbered
\* without gap or repetition, follow each other in the text without overlap, and end inside the
\* text returned with them.
ReportedInOrder == InOrder(findings, Len(text))

\* A session never holds more plaintext than the longest construct its limits allow and the
\* terminator that closes its line; so the buffer limit, which leaves room for more, is never
\* the limit that refuses a text (append_retained checks it last).
RetainedBounded ==
    /\ \/ Len(retained) <= max_token_bytes + 1
       \/ multiline_detected /\ Len(retained) <= max_multiline_bytes + 1
    /\ error # "BufferLimitExceeded"

\* Every byte taken in is in exactly one place while the session is open: settled, kept for the
\* caller, retained, or still in the chunk; and once it is over nothing of it is left anywhere.
Contract == INSTANCE SanitizerContract WITH
    phase <- state, taken <- total_input_bytes, settled <- Len(text),
    held <- Len(retained) + Len(rest) + Len(emitted)
ImplementsContract == Contract!ContractSpec
=============================================================================
