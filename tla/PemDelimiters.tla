---------------------------- MODULE PemDelimiters ----------------------------
(***************************************************************************)
(* private_key.rs: the stack of open PEM blocks, fed one delimiter at a    *)
(* time.  A delimiter is a record of its kind, its label and the positions *)
(* of its first and last character.                                        *)
(***************************************************************************)
EXTENDS Integers, Sequences

ParserState ==
    [stack |-> <<>>, has_begin |-> FALSE, malformed |-> FALSE,
     outer_start |-> 1, body_start |-> 1, completed |-> <<>>]

\* `completed` collects the spans that closed.
process_delimiter(s, d) ==
    LET depth == Len(s.stack)
    IN  CASE d.kind = "Begin" /\ depth = 0 ->
                [s EXCEPT !.stack = <<d.label>>, !.has_begin = TRUE,
                          !.outer_start = d.start, !.body_start = d.end + 1]
          [] d.kind = "Begin" /\ depth > 0 ->
                [s EXCEPT !.stack = Append(@, d.label), !.has_begin = TRUE, !.malformed = TRUE]
          [] d.kind = "End" /\ depth > 0 /\ s.stack[depth] # d.label ->
                [s EXCEPT !.malformed = TRUE]
          [] d.kind = "End" /\ depth > 1 /\ s.stack[depth] = d.label ->
                [s EXCEPT !.stack = SubSeq(@, 1, depth - 1)]
          [] d.kind = "End" /\ depth = 1 /\ s.stack[depth] = d.label ->
                [s EXCEPT !.stack = <<>>, !.malformed = FALSE,
                          !.completed = Append(@, [start |-> s.outer_start, end |-> d.end,
                                                   body_start |-> s.body_start,
                                                   footer_start |-> d.start,
                                                   malformed |-> s.malformed])]
          [] OTHER -> s

process_delimiters(s, ds) ==
    LET after[k \in 0 .. Len(ds)] == IF k = 0 THEN s ELSE process_delimiter(after[k - 1], ds[k])
    IN  after[Len(ds)]
=============================================================================
