---------------------------- MODULE ScanPipeline ----------------------------
(***************************************************************************)
(* A detector registry and the scans run over it, with detectors that emit *)
(* whatever they like: pipeline.rs step by step.  Detectors run in         *)
(* registration order, their candidates are validated and ranked, the      *)
(* accept loop takes them one at a time, best first, the survivors are     *)
(* numbered in text order, and the policy rules on each of them.  A sort   *)
(* is modelled by what the loop behind it sees: the next element is the    *)
(* least one not yet taken.                                                *)
(***************************************************************************)
EXTENDS Integers, Sequences, FiniteSets

CONSTANTS
    Id,           \* the names detectors and candidates come with
    Identifier,   \* those of them that `is_identifier` accepts
    InputLengths, \* lengths of the texts scanned
    Inside,       \* offsets that are no character boundary
    Spells,       \* <<name, start, end>>: the text reads `name` there
    Emissions,    \* what one detector may emit: sequences of candidates
    Actions       \* what the policy may answer

\* A byte range is never empty: `ByteRange::new`.
Candidate ==
    {c \in [type : Id, specificity : Nat, confidence : Nat, start : Nat, end : Nat] :
        c.start < c.end}

ASSUME DetectorWorld ==
    /\ Identifier \subseteq Id
    /\ InputLengths \subseteq Nat /\ Inside \subseteq Nat
    /\ Emissions \subseteq Seq(Candidate)

VARIABLES
    registry,        \* the ids, in registration order
    phase, input_len, per_detector,
    ranked,          \* the validated candidates
    accepted,        \* those the accept loop kept
    pending,         \* those the loop in progress has not come to
    detected, findings, error

resolution == <<ranked, accepted, pending>>
vars == <<registry, phase, input_len, per_detector, resolution, detected, findings, error>>

Init ==
    /\ registry = <<>> /\ phase = "Idle" /\ input_len = 0 /\ per_detector = <<>>
    /\ ranked = {} /\ accepted = {} /\ pending = {}
    /\ detected = <<>> /\ findings = <<>> /\ error = "None"

---------------------------------------------------------------------------
(* registry.rs: a scan borrows the registry, so `register` runs between scans. *)

contains(id) == \E k \in 1 .. Len(registry) : registry[k] = id

Register(id) ==
    /\ phase = "Idle"
    /\ id \in Identifier /\ ~contains(id)
    /\ registry' = Append(registry, id)
    /\ error' = "None"
    /\ UNCHANGED <<phase, input_len, per_detector, resolution, detected, findings>>

RegisterRefused(id) ==
    /\ phase = "Idle"
    /\ id \notin Identifier \/ contains(id)
    /\ error' = "InvalidDetector"
    /\ UNCHANGED <<registry, phase, input_len, per_detector, resolution, detected, findings>>

---------------------------------------------------------------------------
(* run_detector_pipeline *)

\* What a call starts from, and what an error leaves of it.
nothing_found ==
    /\ per_detector' = <<>>
    /\ ranked' = {} /\ accepted' = {} /\ pending' = {}
    /\ detected' = <<>> /\ findings' = <<>>

\* An empty text is answered without asking a detector.
BeginScan(n) ==
    /\ phase = "Idle"
    /\ input_len' = n
    /\ phase' = IF n = 0 THEN "Idle" ELSE "Collect"
    /\ error' = "None"
    /\ nothing_found
    /\ UNCHANGED registry

fail(code) ==
    /\ phase' = "Idle"
    /\ error' = code
    /\ nothing_found
    /\ UNCHANGED <<registry, input_len>>

Collect(emitted) ==
    /\ phase = "Collect" /\ Len(per_detector) < Len(registry)
    /\ per_detector' = Append(per_detector, emitted)
    /\ UNCHANGED <<registry, phase, input_len, resolution, detected, findings, error>>

DetectorFails ==
    /\ phase = "Collect" /\ Len(per_detector) < Len(registry)
    /\ fail("DetectorFailure")

\* Mutant of valid_candidate: the id of the detector is not compared.
valid_candidate_any_detector(c, id) ==
    /\ c.type \in Identifier
    /\ c.end <= input_len /\ {c.start, c.end} \cap Inside = {}
    /\ <<c.type, c.start, c.end>> \notin Spells

\* A match that reads like its own type or detector would put input into a public field.
valid_candidate(c, id) ==
    /\ c.type \in Identifier
    /\ c.end <= input_len /\ {c.start, c.end} \cap Inside = {}
    /\ {<<c.type, c.start, c.end>>, <<id, c.start, c.end>>} \cap Spells = {}

AllValid ==
    \A d \in 1 .. Len(per_detector) : \A k \in 1 .. Len(per_detector[d]) :
        valid_candidate(per_detector[d][k], registry[d])

RankedCandidate(d, k) ==
    LET c == per_detector[d][k]
    IN  [type |-> c.type, detector |-> registry[d], specificity |-> c.specificity,
         confidence |-> c.confidence, start |-> c.start, end |-> c.end,
         detector_order |-> d, candidate_order |-> k]

Collected ==
    UNION {{RankedCandidate(d, k) : k \in 1 .. Len(per_detector[d])}
              : d \in 1 .. Len(per_detector)}

\* Mutant of Validate: a bad candidate is left out and the scan goes on.
Validate_skips ==
    /\ phase = "Collect" /\ Len(per_detector) = Len(registry)
    /\ phase' = "Resolve"
    /\ ranked' = {c \in Collected : valid_candidate(c, c.detector)} /\ pending' = ranked'
    /\ UNCHANGED <<registry, input_len, per_detector, accepted, detected, findings, error>>

Validate ==
    /\ phase = "Collect" /\ Len(per_detector) = Len(registry)
    /\ AllValid
    /\ phase' = "Resolve"
    /\ ranked' = Collected /\ pending' = Collected
    /\ UNCHANGED <<registry, input_len, per_detector, accepted, detected, findings, error>>

ValidateFails ==
    /\ phase = "Collect" /\ Len(per_detector) = Len(registry)
    /\ ~AllValid
    /\ fail("InvalidCandidate")

\* "a goes before b": specificity, confidence, narrower span, registration, emission.
priority(a, b) ==
    LET width(c) == c.end - c.start
    IN  \/ a.specificity > b.specificity
        \/ /\ a.specificity = b.specificity
           /\ \/ a.confidence > b.confidence
              \/ /\ a.confidence = b.confidence
                 /\ \/ width(a) < width(b)
                    \/ /\ width(a) = width(b)
                       /\ \/ a.detector_order < b.detector_order
                          \/ /\ a.detector_order = b.detector_order
                             /\ a.candidate_order < b.candidate_order

\* Mutant of blocked: the neighbour is looked up by the start of the candidate.
blocked_from_before(c) ==
    LET below == {a \in accepted : a.start < c.start}
    IN  \E nearest \in below :
            /\ \A a \in below : a.start <= nearest.start
            /\ nearest.end > c.start

\* Accepted spans are disjoint, so only the last of those that start below the candidate's end
\* can overlap it; the others are not looked at.
blocked(c) ==
    LET below == {a \in accepted : a.start < c.end}
    IN  \E nearest \in below :
            /\ \A a \in below : a.start <= nearest.start
            /\ nearest.end > c.start

\* Mutant of TryAccept: the candidates are not sorted by priority.
TryAccept_unranked(c) ==
    /\ phase = "Resolve"
    /\ pending' = pending \ {c}
    /\ accepted' = IF blocked(c) THEN accepted ELSE accepted \cup {c}
    /\ UNCHANGED <<registry, phase, input_len, per_detector, ranked, detected, findings, error>>

TryAccept(c) ==
    /\ phase = "Resolve"
    /\ \A d \in pending \ {c} : priority(c, d)
    /\ pending' = pending \ {c}
    /\ accepted' = IF blocked(c) THEN accepted ELSE accepted \cup {c}
    /\ UNCHANGED <<registry, phase, input_len, per_detector, ranked, detected, findings, error>>

SortAccepted ==
    /\ phase = "Resolve" /\ pending = {}
    /\ phase' = "Number"
    /\ pending' = accepted
    /\ UNCHANGED <<registry, input_len, per_detector, ranked, accepted, detected, findings, error>>

\* Mutant of Number: the accepted candidates are not sorted by offset.
Number_unsorted(c) ==
    /\ phase = "Number"
    /\ pending' = pending \ {c}
    /\ detected' = Append(detected, [id |-> Len(detected) + 1, type |-> c.type,
                                     detector |-> c.detector, confidence |-> c.confidence,
                                     start |-> c.start, end |-> c.end])
    /\ UNCHANGED <<registry, phase, input_len, per_detector, ranked, accepted, findings, error>>

\* The survivors get their ids in text order.
Number(c) ==
    /\ phase = "Number"
    /\ \A d \in pending : c.start <= d.start
    /\ pending' = pending \ {c}
    /\ detected' = Append(detected, [id |-> Len(detected) + 1, type |-> c.type,
                                     detector |-> c.detector, confidence |-> c.confidence,
                                     start |-> c.start, end |-> c.end])
    /\ UNCHANGED <<registry, phase, input_len, per_detector, ranked, accepted, findings, error>>

---------------------------------------------------------------------------
(* scan: the policy rules on one finding after the other. *)

PolicyDecides ==
    /\ phase = "Number" /\ pending = {}
    /\ phase' = "Policy"
    /\ UNCHANGED <<registry, input_len, per_detector, resolution, detected, findings, error>>

Evaluate(action) ==
    /\ phase = "Policy" /\ Len(findings) < Len(detected)
    /\ LET f == detected[Len(findings) + 1]
       IN  findings' = Append(findings, [id |-> f.id, type |-> f.type, detector |-> f.detector,
                                         confidence |-> f.confidence, action |-> action,
                                         start |-> f.start, end |-> f.end])
    /\ UNCHANGED <<registry, phase, input_len, per_detector, resolution, detected, error>>

PolicyFails ==
    /\ phase = "Policy" /\ Len(findings) < Len(detected)
    /\ fail("PolicyFailure")

ReturnFindings ==
    /\ phase = "Policy" /\ Len(findings) = Len(detected)
    /\ phase' = "Idle"
    /\ UNCHANGED <<registry, input_len, per_detector, resolution, detected, findings, error>>

Next ==
    \/ \E id \in Id : Register(id) \/ RegisterRefused(id)
    \/ \E n \in InputLengths : BeginScan(n)
    \/ \E emitted \in Emissions : Collect(emitted)
    \/ DetectorFails \/ Validate \/ ValidateFails
    \/ \E c \in pending : TryAccept(c) \/ Number(c)
    \/ SortAccepted
    \/ PolicyDecides \/ PolicyFails \/ ReturnFindings
    \/ \E action \in Actions : Evaluate(action)

Spec == Init /\ [][Next]_vars

---------------------------------------------------------------------------
(* Properties. *)

overlaps(a, b) == a.start < b.end /\ b.start < a.end

RankedType ==
    [type : Identifier, detector : Identifier, specificity : Nat, confidence : Nat,
     start : Nat, end : Nat, detector_order : Nat, candidate_order : Nat]
DetectedType ==
    [id : Nat, type : Identifier, detector : Identifier, confidence : Nat,
     start : Nat, end : Nat]
FindingType ==
    [id : Nat, type : Identifier, detector : Identifier, confidence : Nat, action : Actions,
     start : Nat, end : Nat]

TypeOK ==
    /\ registry \in Seq(Identifier)
    /\ phase \in {"Idle", "Collect", "Resolve", "Number", "Policy"}
    /\ input_len \in Nat
    /\ per_detector \in Seq(Seq(Candidate))
    /\ ranked \subseteq RankedType
    /\ accepted \subseteq ranked /\ pending \subseteq ranked
    /\ detected \in Seq(DetectedType)
    /\ findings \in Seq(FindingType)

\* No two spans the accept loop has kept share a byte, whatever the detectors emitted: looking at
\* one neighbour only (try_accept) misses no overlap.
AcceptedDisjoint == \A a, b \in accepted : a # b => ~overlaps(a, b)

\* No candidate disappears without a reason: one that the loop has dropped overlaps one that it
\* kept and that goes before it ("Conflict precedence", RankedCandidate::priority).
DroppedForBetter ==
    phase \in {"Resolve", "Number", "Policy"} =>
        \A c \in ranked \ accepted :
            c \in pending \/ \E a \in accepted : overlaps(a, c) /\ priority(a, c)

InTextOrder(fs) ==
    \A k \in 1 .. Len(fs) :
        /\ fs[k].id = k
        /\ fs[k].start < fs[k].end /\ fs[k].end <= input_len
        /\ k > 1 => fs[k - 1].end <= fs[k].start

\* The findings of a scan come in text order without overlap, inside the text, numbered from 1
\* without gap: what the redaction and the incremental session rely on.
FindingsInTextOrder == InTextOrder(findings)

\* What a host may be told of a match c by the detector id: a range of whole characters of the
\* text, under names that do not spell what it matched.
Publishable(c, id) ==
    /\ c.type \in Identifier /\ id \in Identifier
    /\ c.start \notin Inside /\ c.end \notin Inside /\ c.end <= input_len
    /\ \A name \in {c.type, id} : <<name, c.start, c.end>> \notin Spells

\* One bad candidate of any detector, and nothing is reported: behind a finding stand only sound
\* candidates, those that lost to it included, and no public field of a finding reads like the
\* text it stands for (validate_candidate, collect_candidates).
OneBadCandidateFailsAll ==
    findings # <<>> =>
        /\ \A k \in 1 .. Len(findings) : Publishable(findings[k], findings[k].detector)
        /\ \A d \in 1 .. Len(per_detector) : \A k \in 1 .. Len(per_detector[d]) :
               Publishable(per_detector[d][k], registry[d])

\* Identical candidates give identical findings: whatever order the loops took, a scan that
\* succeeds reports exactly the candidates that no reported one both overlaps and goes before,
\* each under the id its detector was registered with.
Reported(c) ==
    \E k \in 1 .. Len(findings) :
        /\ findings[k].start = c.start /\ findings[k].end = c.end
        /\ findings[k].type = c.type /\ findings[k].detector = registry[c.detector_order]
FindingsAreTheKernel ==
    phase = "Policy" /\ Len(findings) = Len(detected) =>
        \A c \in ranked :
            Reported(c) \/ \E a \in ranked : Reported(a) /\ priority(a, c) /\ overlaps(a, c)
=============================================================================
