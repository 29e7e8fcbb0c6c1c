------------------------------ MODULE Pipeline ------------------------------
(***************************************************************************)
(* The synchronous pipeline: collect the candidates of every detector,     *)
(* rank them, accept greedily, order by offset and number; then the policy *)
(* and the one-pass redaction.  A released text has one unit per byte of   *)
(* the text it stands for: the byte itself, or the number of the           *)
(* placeholder that replaces it.                                           *)
(***************************************************************************)
EXTENDS Detectors

\* RankedCandidate::priority, as "a goes before b": specificity, confidence, narrower span, then
\* the order of registration and emission (here the start: equal keys mean the same detector).
priority(a, b) ==
    LET width(c) == c.end - c.start
    IN  \/ a.specificity > b.specificity
        \/ /\ a.specificity = b.specificity
           /\ \/ a.confidence > b.confidence
              \/ /\ a.confidence = b.confidence
                 /\ \/ width(a) < width(b)
                    \/ width(a) = width(b) /\ a.start < b.start

\* The elements of S in the order of `before`, a set of pairs.
SortedBy(S, before) ==
    [k \in 1 .. Cardinality(S) |->
        CHOOSE x \in S : Cardinality({y \in S : <<y, x>> \in before}) = k - 1]

\* Accepted spans are disjoint, so only the last one that starts below the candidate's end can
\* overlap it.
try_accept(accepted, c) ==
    LET below == {a \in accepted : a.start < c.end}
        nearest == CHOOSE a \in below : \A b \in below : b.start <= a.start
    IN  IF below # {} /\ nearest.end > c.start THEN accepted ELSE accepted \cup {c}

accept_ranked(candidates) ==
    LET n == Cardinality(candidates)
        ranked == SortedBy(candidates, {p \in candidates \X candidates : priority(p[1], p[2])})
        accepted[k \in 0 .. n] == IF k = 0 THEN {} ELSE try_accept(accepted[k - 1], ranked[k])
    IN  SortedBy(accepted[n], {p \in accepted[n] \X accepted[n] : p[1].start < p[2].start})

run_detector_pipeline(u) == accept_ranked(built_in_detectors(u))

\* DefaultPolicy: block a key, redact a known credential or a high-confidence find, else warn.
AlwaysRedact == {"bearer_token", "connection_string_password"}

default_action(finding) ==
    IF finding.type = "private_key" THEN "Block"
    ELSE IF finding.type \in AlwaysRedact \/ finding.confidence = 2 THEN "Redact"
    ELSE "Warn"

replaces_text(action) == action \in {"Block", "Redact"}

---------------------------------------------------------------------------
(* redact.rs *)

Plain(lexeme) == [text |-> lexeme, placeholder |-> 0]
Placeholder(n) == [text |-> "SECRET", placeholder |-> n]
OutputUnit == [text : AllLexemes \cup {"SECRET"}, placeholder : Nat]

\* The matched texts the default placeholder <SECRET_n> contains: the password of dsn is "2".
Reproduces(n) == IF n = 2 THEN {"dsn"} ELSE {}

\* How many of fs[1..k] replace text.
PlaceholderIndex(fs, k) == Cardinality({j \in 1 .. k : replaces_text(fs[j].action)})

\* The findings of fs that replace the byte at position i of a text that starts at `offset`.
Covering(fs, offset, i) ==
    {k \in 1 .. Len(fs) :
        /\ replaces_text(fs[k].action)
        /\ fs[k].start - offset < i
        /\ i <= fs[k].end - offset}

ordered_and_disjoint(fs, from, to) ==
    \A k \in 1 .. Len(fs) :
        /\ from <= fs[k].start /\ fs[k].start < fs[k].end /\ fs[k].end <= to
        /\ k > 1 => fs[k - 1].end <= fs[k].start

\* A placeholder may reproduce none of the values this call replaces.
invalid_placeholder(u, fs, offset, numbered) ==
    LET forbidden == {u[fs[k].start - offset + 1] : k \in {k \in 1 .. Len(fs) :
                          replaces_text(fs[k].action) /\ fs[k].end - fs[k].start = 1}}
    IN  \E k \in 1 .. Len(fs) :
          /\ replaces_text(fs[k].action)
          /\ Reproduces(numbered + PlaceholderIndex(fs, k)) \cap forbidden # {}

\* The text with its findings replaced; `numbered` placeholders came before it.
redact(u, fs, offset, numbered) ==
    [i \in 1 .. Len(u) |->
        LET covering == Covering(fs, offset, i)
        IN  IF covering = {} THEN Plain(u[i])
            ELSE Placeholder(numbered + PlaceholderIndex(fs, CHOOSE k \in covering : TRUE))]

---------------------------------------------------------------------------
(* Findings: what detection found in a text that starts at `offset`, after `counted` findings. *)

scan(detected, offset, counted) ==
    [k \in 1 .. Len(detected) |->
        [id |-> counted + k, type |-> detected[k].type, action |-> default_action(detected[k]),
         start |-> offset + detected[k].start, end |-> offset + detected[k].end]]

\* The whole-input reference.
scan_and_redact(u, detected) ==
    LET findings == scan(detected, 0, 0)
    IN  [ok |-> ~invalid_placeholder(u, findings, 0, 0),
         findings |-> findings, text |-> redact(u, findings, 0, 0)]
=============================================================================
