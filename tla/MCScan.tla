------------------------------- MODULE MCScan -------------------------------
(* An instance of ScanPipeline: detectors that emit up to two of a few spans of a short text. *)
EXTENDS ScanPipeline

Cand(type, specificity, confidence, start, end) ==
    [type |-> type, specificity |-> specificity, confidence |-> confidence,
     start |-> start, end |-> end]

\* Chains of overlaps, a span around all others, ties, a range past the end of the text, one
\* that splits a character, a type that is no identifier, one the text spells, and one that
\* reads like the other detector's id.
Sample == {Cand("a", 1, 2, 0, 2), Cand("b", 1, 2, 2, 4), Cand("a", 1, 1, 0, 6), Cand("b", 2, 1, 1, 3),
           Cand("a", 1, 2, 3, 6), Cand("a", 1, 1, 4, 8), Cand("b", 1, 2, 3, 5), Cand("B!", 1, 1, 0, 1),
           Cand("b", 0, 0, 0, 1), Cand("a", 0, 0, 0, 1)}

UpToTwo == {<<>>} \cup {<<c>> : c \in Sample} \cup {<<c, d>> : c \in Sample, d \in Sample}
Spelt == {<<"b", 0, 1>>}
=============================================================================
