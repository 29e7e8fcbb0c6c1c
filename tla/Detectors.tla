------------------------------ MODULE Detectors ------------------------------
(***************************************************************************)
(* The built-in detectors, over lexemes: the PEM private-key delimiter     *)
(* stack, the contextual assignment, and the two structural detectors that *)
(* need no context; and the retention hints the incremental session asks.  *)
(***************************************************************************)
EXTENDS Lexemes, PemDelimiters, FiniteSets

Candidate(type, specificity, confidence, range) ==
    [type |-> type, specificity |-> specificity, confidence |-> confidence,
     start |-> range.start, end |-> range.end]

---------------------------------------------------------------------------
(* private_key.rs *)

\* A delimiter is one lexeme, so none is ever split.
Delimiter(u, i) ==
    [kind |-> IF u[i] \in Begin THEN "Begin" ELSE "End", label |-> LabelOf[u[i]],
     start |-> i, end |-> i]

\* The parser, started in s, over the delimiters of u.
scan_delimiters(s, u) ==
    LET after[i \in 0 .. Len(u)] ==
            IF i = 0 THEN s
            ELSE IF u[i] \notin Begin \cup End THEN after[i - 1]
            ELSE process_delimiter(after[i - 1], Delimiter(u, i))
    IN  after[Len(u)]

\* PrivateKeyRetentionTracker: only the stack and has_begin outlive a piece.
TrackerInit == [stack |-> <<>>, has_begin |-> FALSE]

\* Mutant of tracker_append: the open blocks do not outlive a piece.
tracker_append_forgets(tracker, piece) ==
    LET after == scan_delimiters([ParserState EXCEPT !.has_begin = tracker.has_begin], piece)
    IN  [stack |-> after.stack, has_begin |-> after.has_begin]

tracker_append(tracker, piece) ==
    LET after == scan_delimiters([ParserState EXCEPT !.stack = tracker.stack,
                                                     !.has_begin = tracker.has_begin], piece)
    IN  [stack |-> after.stack, has_begin |-> after.has_begin]

\* A body is key material when it holds a long base64 run.
has_encoded_body(u, from, to) == \E i \in from .. to : u[i] \in {"value", "bearer"}

\* A well-paired block needs an encoded body; a malformed one is taken whole, up to the end of
\* the input when its delimiters never resolve; a lone incomplete header is nothing.
private_key_candidates(u) ==
    LET s == scan_delimiters(ParserState, u)
        block(from, to) == Candidate("private_key", 4, 2, Range0(from, to))
        closed == {s.completed[k] : k \in 1 .. Len(s.completed)}
        reported == {span \in closed :
                        \/ span.malformed
                        \/ has_encoded_body(u, span.body_start, span.footer_start - 1)}
    IN  {block(span.start, span.end) : span \in reported}
          \cup IF s.stack # <<>> /\ s.malformed THEN {block(s.outer_start, Len(u))} ELSE {}

---------------------------------------------------------------------------
(* generic_token.rs: a listed name, an operator, a value. *)

Named == {"key", "name"}
is_line_start(u, i) == i = 1 \/ u[i - 1] \in Terminators

\* Position of the name an assignment prefix tried at c captures, 0 when it does not match:
\* a line start, or one boundary character that the match consumes.
prefix_name(u, c) ==
    CASE is_line_start(u, c) /\ u[c] \in Named -> c
      [] u[c] \in Whitespace /\ c < Len(u) /\ u[c + 1] \in Named -> c + 1
      [] OTHER -> 0

\* The value of a prefix that ends before v.  Quoted: one value lexeme that a boundary follows.
\* Unquoted: the run of names up to a boundary; at eight characters a listed name takes it.
assignment_value(u, v) ==
    LET run == SkipWhile(u, Named, v)
    IN  CASE v <= Len(u) /\ u[v] = "value" ->
                IF v = Len(u) \/ u[v + 1] \notin Named \cup {"value"}
                  THEN {Candidate("contextual_secret", 1, 2, Range0(v, v))} ELSE {}
          [] (\E i \in v .. (run - 1) : u[i] = "key") \/ run - v >= 4 ->
                {Candidate("contextual_secret", 1, 1, Range0(v, run - 1))}
          [] OTHER -> {}

\* The whitespace after the operator, line terminators included, belongs to the prefix.
assignment_candidates(u) ==
    LET scan[c \in 1 .. (Len(u) + 1)] ==
          IF c > Len(u) THEN {}
          ELSE LET at == prefix_name(u, c)
                   prefix_end == SkipWhile(u, Whitespace, at + 1)
               IN  IF at = 0 THEN scan[c + 1]
                   ELSE (IF u[at] = "key" THEN assignment_value(u, prefix_end) ELSE {})
                          \cup scan[prefix_end]
    IN  scan[1]

\* Mutant of has_open_contextual_assignment: the hint does not look behind trailing whitespace.
has_open_assignment_on_line(u) ==
    /\ u # <<>> /\ u[Len(u)] = "key"
    /\ Len(u) = 1 \/ u[Len(u) - 1] \in Whitespace

\* The retained text ends in a listed name with its operator, at a boundary.
has_open_contextual_assignment(u) ==
    LET last == SkipBack(u, Whitespace)
    IN  /\ last > 0
        /\ u[last] = "key"
        /\ last = 1 \/ u[last - 1] \in Whitespace

(* bearer_token.rs *)
has_open_bearer_authorization(u) ==
    LET last == SkipBack(u, Whitespace) IN last > 0 /\ u[last] = "auth"

---------------------------------------------------------------------------
(* Detectors whose match is one lexeme. *)

Structural(u, lexeme, type, confidence) ==
    {Candidate(type, 2, confidence, Range0(i, i)) : i \in {i \in 1 .. Len(u) : u[i] = lexeme}}

\* The password of dsn is too short for high confidence.
bearer_candidates(u) == Structural(u, "bearer", "bearer_token", 2)
connection_string_candidates(u) == Structural(u, "dsn", "connection_string_password", 1)

\* What the registry of the built-in detectors emits.  No two detectors agree in specificity and
\* confidence, so the order of registration decides nothing between them.
built_in_detectors(u) ==
    private_key_candidates(u) \cup bearer_candidates(u)
      \cup connection_string_candidates(u) \cup assignment_candidates(u)

=============================================================================
