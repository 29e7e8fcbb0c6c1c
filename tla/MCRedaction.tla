----------------------------- MODULE MCRedaction -----------------------------
(* An instance of Redaction: lists of up to three findings over the spans of a short text. *)
EXTENDS Redaction

Of(action, start, end) == [action |-> action, start |-> start, end |-> end]

Some == {Of(action, span[1], span[2]) : action \in {"Redact", "Warn"},
            span \in {<<0, 1>>, <<0, 3>>, <<1, 3>>, <<3, 4>>, <<4, 6>>, <<2, 4>>, <<5, 7>>}}
            \cup {Of("Block", 4, 5), Of("Allow", 1, 2)}

UpToThree == UNION {[1 .. n -> Some] : n \in 0 .. 3}

\* p1 contains the text of the first byte, p2 that of the last two.
Texts == {<<"p1", 0, 1>>, <<"p2", 4, 6>>}
=============================================================================
