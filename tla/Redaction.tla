------------------------------ MODULE Redaction ------------------------------
(***************************************************************************)
(* redact.rs: the one-pass reconstruction of a text from findings a caller *)
(* hands in, in any order and not necessarily sound, with a formatter that *)
(* returns what it likes.  The output is kept as the pieces it is pushed   *)
(* in: stretches of the text, and placeholders.                            *)
(***************************************************************************)
EXTENDS Integers, Sequences, FiniteSets

CONSTANTS
    input_len,
    Inside,        \* offsets that are no character boundary
    FindingLists,  \* what a caller may hand in
    Placeholder,   \* what a formatter may return
    Malformed,     \* those of them that are empty or longer than MAX_PLACEHOLDER_LENGTH
    Reproduces     \* <<p, start, end>>: p contains the text from start to end

\* A byte range is never empty: `ByteRange::new`.
Finding ==
    {f \in [action : {"Block", "Redact", "Warn", "Allow"}, start : Nat, end : Nat] :
        f.start < f.end}

ASSUME HostWorld ==
    /\ input_len \in Nat /\ Inside \subseteq Nat
    /\ FindingLists \subseteq Seq(Finding)
    /\ Malformed \subseteq Placeholder

VARIABLES findings, phase,
          pending,                            \* indices the loop has not come to
          cursor, placeholder_index, output, error

vars == <<findings, phase, pending, cursor, placeholder_index, output, error>>

Init ==
    /\ findings = <<>> /\ phase = "Idle" /\ pending = {}
    /\ cursor = 0 /\ placeholder_index = 0 /\ output = <<>> /\ error = "None"

---------------------------------------------------------------------------

replaces_text(f) == f.action \in {"Block", "Redact"}

\* The order the findings are sorted in; equal spans keep the caller's order.
sorts_before(fs, i, j) ==
    \/ fs[i].start < fs[j].start
    \/ fs[i].start = fs[j].start /\ fs[i].end < fs[j].end
    \/ fs[i].start = fs[j].start /\ fs[i].end = fs[j].end /\ i < j

SortedNeighbours(fs, i, j) ==
    /\ sorts_before(fs, i, j)
    /\ ~\E k \in DOMAIN fs : sorts_before(fs, i, k) /\ sorts_before(fs, k, j)

\* Mutant of ordered_and_disjoint: starts are compared with starts.
ordered_by_start(fs) ==
    /\ \A i \in DOMAIN fs : fs[i].end <= input_len /\ {fs[i].start, fs[i].end} \cap Inside = {}
    /\ \A i, j \in DOMAIN fs :
          SortedNeighbours(fs, i, j) => fs[i].start < fs[j].start

\* Each finding is compared with the one sorted directly before it.
ordered_and_disjoint(fs) ==
    /\ \A i \in DOMAIN fs : fs[i].end <= input_len /\ {fs[i].start, fs[i].end} \cap Inside = {}
    /\ \A i, j \in DOMAIN fs :
          SortedNeighbours(fs, i, j) => fs[i].end <= fs[j].start

RejectFindings(fs) ==
    /\ phase = "Idle"
    /\ ~ordered_and_disjoint(fs)
    /\ findings' = fs
    /\ phase' = "Done"
    /\ error' = "InvalidFindings"
    /\ UNCHANGED <<pending, cursor, placeholder_index, output>>

Redact(fs) ==
    /\ phase = "Idle"
    /\ ordered_and_disjoint(fs)
    /\ findings' = fs
    /\ phase' = "Loop"
    /\ pending' = DOMAIN fs
    /\ UNCHANGED <<cursor, placeholder_index, output, error>>

Text(from, to) == [kind |-> "text", from |-> from, to |-> to]
Placed(p, n, f) == [kind |-> "placeholder", is |-> p, number |-> n, from |-> f.start, to |-> f.end]

\* The loop has come to finding i.
IsNext(i) == phase = "Loop" /\ i \in pending
                /\ \A j \in pending \ {i} : sorts_before(findings, i, j)

\* Mutant of PassThrough: the cursor moves past a finding that is left in place.
PassThrough_skips(i) ==
    /\ IsNext(i) /\ ~replaces_text(findings[i])
    /\ pending' = pending \ {i}
    /\ cursor' = findings[i].end
    /\ UNCHANGED <<findings, phase, placeholder_index, output, error>>

\* Mutant of PassThrough: a finding that is left in place takes a number.
PassThrough_numbers(i) ==
    /\ IsNext(i) /\ ~replaces_text(findings[i])
    /\ pending' = pending \ {i}
    /\ placeholder_index' = placeholder_index + 1
    /\ UNCHANGED <<findings, phase, cursor, output, error>>

PassThrough(i) ==
    /\ IsNext(i) /\ ~replaces_text(findings[i])
    /\ pending' = pending \ {i}
    /\ UNCHANGED <<findings, phase, cursor, placeholder_index, output, error>>

\* Mutant of forbidden: only the values the loop has yet to replace count.
forbidden_ahead(p) ==
    \E i \in pending :
        replaces_text(findings[i]) /\ <<p, findings[i].start, findings[i].end>> \in Reproduces

\* ForbiddenMatchedText: the values of all the findings to be replaced, those the loop has yet to
\* come to included.
forbidden(p) ==
    \E i \in DOMAIN findings :
        replaces_text(findings[i]) /\ <<p, findings[i].start, findings[i].end>> \in Reproduces

valid_placeholder(p) == p \notin Malformed /\ ~forbidden(p)

\* Mutant of Replace: the cursor stays before the replaced text.
Replace_keeps_cursor(i, p) ==
    /\ IsNext(i) /\ replaces_text(findings[i])
    /\ valid_placeholder(p)
    /\ placeholder_index' = placeholder_index + 1
    /\ output' = output \o <<Text(cursor, findings[i].start),
                             Placed(p, placeholder_index + 1, findings[i])>>
    /\ cursor' = findings[i].start
    /\ pending' = pending \ {i}
    /\ UNCHANGED <<findings, phase, error>>

Replace(i, p) ==
    /\ IsNext(i) /\ replaces_text(findings[i])
    /\ valid_placeholder(p)
    /\ placeholder_index' = placeholder_index + 1
    /\ output' = output \o <<Text(cursor, findings[i].start),
                             Placed(p, placeholder_index + 1, findings[i])>>
    /\ cursor' = findings[i].end
    /\ pending' = pending \ {i}
    /\ UNCHANGED <<findings, phase, error>>

\* The formatter fails, or its placeholder is refused; the text built so far is dropped.
ReplaceFails(i) ==
    /\ IsNext(i) /\ replaces_text(findings[i])
    /\ \/ error' = "PlaceholderFailure"
       \/ (\E p \in Placeholder : ~valid_placeholder(p)) /\ error' = "InvalidPlaceholder"
    /\ phase' = "Done"
    /\ pending' = {}
    /\ output' = <<>>
    /\ UNCHANGED <<findings, cursor, placeholder_index>>

Return ==
    /\ phase = "Loop" /\ pending = {}
    /\ output' = Append(output, Text(cursor, input_len))
    /\ phase' = "Done"
    /\ UNCHANGED <<findings, pending, cursor, placeholder_index, error>>

Next ==
    \/ \E fs \in FindingLists : RejectFindings(fs) \/ Redact(fs)
    \/ \E i \in pending : \/ PassThrough(i) \/ ReplaceFails(i)
                          \/ \E p \in Placeholder : Replace(i, p)
    \/ Return

Spec == Init /\ [][Next]_vars

---------------------------------------------------------------------------
(* Properties. *)

Piece ==
    [kind : {"text"}, from : 0 .. input_len, to : 0 .. input_len]
      \cup [kind : {"placeholder"}, is : Placeholder, number : Nat \ {0},
            from : 0 .. input_len, to : 0 .. input_len]

TypeOK ==
    /\ findings \in Seq(Finding)
    /\ phase \in {"Idle", "Loop", "Done"}
    /\ pending \subseteq DOMAIN findings
    /\ cursor \in 0 .. input_len
    /\ placeholder_index \in Nat
    /\ output \in Seq(Piece)

\* Comparing sorted neighbours is enough: a list that is not refused has no two findings that
\* share a byte, given in whatever order.
OverlapsRefused ==
    phase = "Loop" =>
        \A i, j \in DOMAIN findings :
            i # j => findings[i].end <= findings[j].start \/ findings[j].end <= findings[i].start

\* The pieces of the output stand for the text from its start to the cursor, every byte once and
\* in order.
OutputIsComplete ==
    /\ \A k \in 1 .. Len(output) :
          /\ output[k].from <= output[k].to
          /\ output[k].from = IF k = 1 THEN 0 ELSE output[k - 1].to
    /\ phase = "Loop" => cursor = IF output = <<>> THEN 0 ELSE output[Len(output)].to
    /\ phase = "Done" /\ error = "None" => output[Len(output)].to = input_len

\* No byte of a finding that is to be replaced is passed through, in whatever order the findings
\* came and whatever other findings lie beside it.
ReplacedTextIsGone ==
    \A k \in 1 .. Len(output), i \in DOMAIN findings :
        output[k].kind = "text" /\ replaces_text(findings[i])
          => findings[i].end <= output[k].from \/ output[k].to <= findings[i].start

\* No placeholder brings back a value that the call replaces anywhere in the text, before or
\* after it ("a placeholder that reproduces any eligible matched value").
PlaceholdersRevealNothing ==
    \A k \in 1 .. Len(output), i \in DOMAIN findings :
        output[k].kind = "placeholder" /\ replaces_text(findings[i])
          => <<output[k].is, findings[i].start, findings[i].end>> \notin Reproduces

\* Placeholders are numbered from 1 in text order; findings that pass through consume no number.
PlaceholdersNumbered ==
    \A k \in 1 .. Len(output) :
        output[k].kind = "placeholder" =>
            output[k].number = Cardinality({i \in DOMAIN findings :
                replaces_text(findings[i]) /\ findings[i].start <= output[k].from})

\* The output is the text with each replaced range exchanged for its placeholder: every byte once
\* and in order, and the placeholders numbered by their place among those of the text.
RedactedInPlace == OutputIsComplete /\ PlaceholdersNumbered
=============================================================================
