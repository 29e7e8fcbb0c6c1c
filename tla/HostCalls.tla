----------------------------- MODULE HostCalls -----------------------------
(***************************************************************************)
(* The bindings as a whole: a host program either uses a session, or the   *)
(* one-shot calls scan, redact and scan_and_redact.  A one-shot call holds *)
(* the text, converts every range with it, and keeps no state of its own   *)
(* between calls; the findings it returns are the host's, to reorder, to   *)
(* drop, to pass back with another text and, for Node, whose findings are  *)
(* plain objects, to edit.  Python and WebAssembly findings carry the      *)
(* core's byte range with them.                                            *)
(***************************************************************************)
EXTENDS HostSession

CONSTANT CallTexts          \* what the host may scan and redact

ASSUME HostCallTexts == CallTexts \subseteq Seq(Char)

VARIABLES
    using,              \* "session" or "calls"
    initialized,
    scanned,            \* the last scan: its text and the core's findings
    held,               \* the findings the host holds
    edited,             \* whether it changed any of them
    result              \* of the last redaction

call_vars == <<using, initialized, scanned, held, edited, result>>
vars == <<binding, session_vars, call_vars>>

NoResult == [input |-> <<>>, given |-> <<>>, replaced |-> {}, error |-> "None"]

Init ==
    /\ binding \in Bindings /\ using \in {"session", "calls"}
    /\ initialized = (binding # "wasm")
    /\ scanned = [input |-> <<>>, findings |-> <<>>]
    /\ held = <<>> /\ edited = FALSE /\ result = NoResult
    /\ SessionInit

---------------------------------------------------------------------------
(* Conversion with the text at hand. *)

\* Each binding's conversion of an offset of the core; Node's relies on its being a boundary.
char_offset(u, byte_offset) ==
    IF byte_offset \in Boundaries(u) THEN Reference("python", u, byte_offset) ELSE NoOffset
byte_to_utf16(u, byte_offset) == Reference("node", u, byte_offset)
to_utf16_offset(u, byte_offset) ==
    IF byte_offset \in Boundaries(u) THEN Reference("wasm", u, byte_offset) ELSE units("wasm", u)
to_host(u, byte_offset) ==
    CASE binding = "python" -> char_offset(u, byte_offset)
      [] binding = "node"   -> byte_to_utf16(u, byte_offset)
      [] binding = "wasm"   -> to_utf16_offset(u, byte_offset)

\* Mutant of utf16_to_byte: an offset inside a surrogate pair is taken for the character before.
utf16_to_byte_splitting(u, utf16_offset) ==
    IF \E k \in 0 .. Len(u) : units("node", SubSeq(u, 1, k)) >= utf16_offset
    THEN bytes(SubSeq(u, 1, CHOOSE k \in 0 .. Len(u) :
                   /\ units("node", SubSeq(u, 1, k)) >= utf16_offset
                   /\ \A j \in 0 .. k - 1 : units("node", SubSeq(u, 1, j)) < utf16_offset))
    ELSE NoOffset

\* Mutant of utf16_to_byte: code points are counted for code units.
utf16_to_byte_code_points(u, utf16_offset) ==
    IF utf16_offset <= Len(u) THEN bytes(SubSeq(u, 1, utf16_offset)) ELSE NoOffset

\* No byte offset for an offset out of bounds or inside a surrogate pair.
utf16_to_byte(u, utf16_offset) ==
    IF \E k \in 0 .. Len(u) : units("node", SubSeq(u, 1, k)) = utf16_offset
    THEN bytes(SubSeq(u, 1, CHOOSE k \in 0 .. Len(u) :
                                units("node", SubSeq(u, 1, k)) = utf16_offset))
    ELSE NoOffset

\* What the core is given for a finding of the host: Node converts the range with the text of
\* this call, the others hand on the core's finding they kept.
from_js_finding(u, f) ==
    [from |-> utf16_to_byte(u, f.start), to |-> utf16_to_byte(u, f.end), action |-> f.action]
into_inner(f) == [from |-> f.from, to |-> f.to, action |-> f.action]
to_core(u, f) == IF binding = "node" THEN from_js_finding(u, f) ELSE into_inner(f)

\* to_js_finding, FindingJs::new, findings_to_py
to_host_finding(u, f) ==
    [from |-> f.from, to |-> f.to, action |-> f.action,
     start |-> to_host(u, f.from), end |-> to_host(u, f.to)]

---------------------------------------------------------------------------
(* Scan and redact. *)

Actions == {"redact", "warn"}          \* block replaces like redact, allow passes like warn

\* What the pipeline may find: ranges of whole characters, in order, disjoint.
Detections(u) ==
    LET Ranges == {r \in [from : Boundaries(u), to : Boundaries(u)] : r.from < r.to}
    IN  {<<>>} \cup {<<r>> : r \in Ranges}
        \cup {p \in Ranges \X Ranges : p[1].to <= p[2].from}

\* The error a one-shot call reports for the answer of a policy, in each binding.
call_python_policy(answer) ==
    CASE answer \in Actions  -> "None"
      [] answer = "raises"   -> "POLICY_FAILURE"
      [] OTHER               -> "INVALID_POLICY_ACTION"
node_policy_error(answer) ==
    CASE answer \in Actions                        -> "None"
      [] answer \in {"raises", "not_a_string"}     -> "POLICY_FAILURE"
      [] OTHER                                     -> "INVALID_POLICY_ACTION"
JsPolicy(answer) == IF answer \in Actions THEN "None" ELSE "POLICY_FAILURE"
policy_error(answer) ==
    CASE binding = "python" -> call_python_policy(answer)
      [] binding = "node"   -> node_policy_error(answer)
      [] binding = "wasm"   -> JsPolicy(answer)

\* A formatter's: PyFormatterAdapter, JsFormatterAdapter and JsPlaceholderFormatter agree.
formatter_error(answer) == IF answer = "string" THEN "None" ELSE "PLACEHOLDER_FAILURE"

\* The first answer that fails ends the scan; there is none for the findings after it.
scan_error(answers) ==
    LET failed == {k \in DOMAIN answers : policy_error(answers[k]) # "None"}
    IN  IF failed = {} THEN "None"
        ELSE policy_error(answers[CHOOSE k \in failed : \A j \in failed : k <= j])

with_actions(detected, answers) ==
    [k \in DOMAIN detected |->
        [from |-> detected[k].from, to |-> detected[k].to, action |-> answers[k]]]

\* from_js_finding and ordered_and_disjoint: all findings are looked at before any formatter is called.
valid(u, fs) ==
    /\ \A k \in DOMAIN fs : fs[k].action \in Actions
    /\ \A k \in DOMAIN fs : fs[k].from < fs[k].to /\ {fs[k].from, fs[k].to} \subseteq Boundaries(u)
    /\ \A j, k \in DOMAIN fs : j # k => fs[j].to <= fs[k].from \/ fs[k].to <= fs[j].from

replaced_by(fs) == {[from |-> fs[k].from, to |-> fs[k].to] :
                        k \in {j \in DOMAIN fs : fs[j].action = "redact"}}

run_redact(u, fs, formatter_answer) ==
    LET error_is == IF ~valid(u, fs) THEN "INVALID_FINDINGS"
                    ELSE IF replaced_by(fs) # {} THEN formatter_error(formatter_answer)
                    ELSE "None"
    IN  [input |-> u, given |-> fs, error |-> error_is,
         replaced |-> IF error_is = "None" THEN replaced_by(fs) ELSE {}]

---------------------------------------------------------------------------
(* The calls. *)

host_calls == using = "calls" /\ UNCHANGED <<binding, session_vars, using>>

Fails(code) ==
    /\ result' = [NoResult EXCEPT !.error = code]
    /\ UNCHANGED <<scanned, held, edited>>

\* Python and Node have nothing to load.
Initialize ==
    /\ host_calls
    /\ initialized' = TRUE
    /\ UNCHANGED <<scanned, held, edited, result>>

NotInitialized ==
    /\ host_calls /\ ~initialized
    /\ Fails("NOT_INITIALIZED")
    /\ UNCHANGED initialized

\* Python's extract_text: not a str, or one that holds a lone surrogate.
NotText ==
    /\ host_calls /\ binding = "python"
    /\ Fails("INVALID_INPUT")
    /\ UNCHANGED initialized

\* Bound: one scan, as the calls keep nothing that a second one could find changed.
Fresh == scanned.input = <<>>

Scan(u, detected, answers) ==
    LET findings == with_actions(detected, answers)
    IN  /\ host_calls /\ initialized /\ Fresh
        /\ IF scan_error(answers) = "None"
           THEN /\ scanned' = [input |-> u, findings |-> findings]
                /\ held' = [k \in DOMAIN findings |-> to_host_finding(u, findings[k])]
                /\ edited' = FALSE
                /\ result' = NoResult
           ELSE Fails(scan_error(answers))
        /\ UNCHANGED initialized

Redact(u, formatter_answer) ==
    /\ host_calls /\ initialized
    /\ result' = run_redact(u, [k \in DOMAIN held |-> to_core(u, held[k])], formatter_answer)
    /\ UNCHANGED <<initialized, scanned, held, edited>>

\* The findings are not converted to the host's ranges in between.
ScanAndRedact(u, detected, answers, formatter_answer) ==
    LET findings == with_actions(detected, answers)
        redacted == run_redact(u, findings, formatter_answer)
    IN  /\ host_calls /\ initialized /\ Fresh
        /\ IF scan_error(answers) # "None" THEN Fails(scan_error(answers))
           ELSE IF redacted.error # "None" THEN Fails(redacted.error)
           ELSE /\ scanned' = [input |-> u, findings |-> findings]
                /\ held' = [k \in DOMAIN findings |-> to_host_finding(u, findings[k])]
                /\ edited' = FALSE
                /\ result' = redacted
        /\ UNCHANGED initialized

\* The host: another order, and for Node another range or an action that is none (bound: one edit).
HostReorders ==
    /\ host_calls /\ Len(held) = 2
    /\ held' = <<held[2], held[1]>>
    /\ result' = NoResult
    /\ UNCHANGED <<initialized, scanned, edited>>

HostEdits(k, start, end, action) ==
    /\ host_calls /\ binding = "node" /\ ~edited /\ k \in DOMAIN held
    /\ held' = [held EXCEPT ![k].start = start, ![k].end = end, ![k].action = action]
    /\ edited' = TRUE /\ result' = NoResult
    /\ UNCHANGED <<initialized, scanned>>

Answers(n) == [1 .. n -> Actions \cup {"unknown", "not_a_string", "raises"}]

Next ==
    \/ using = "session" /\ SessionNext /\ UNCHANGED <<binding, call_vars>>
    \/ Initialize \/ NotInitialized \/ NotText
    \/ \E u \in CallTexts : \E d \in Detections(u) : \E answers \in Answers(Len(d)) :
          Scan(u, d, answers)
    \/ \E u \in CallTexts, answer \in FormatterAnswers : Redact(u, answer)
    \/ \E u \in CallTexts : \E d \in Detections(u) :
          \E answers \in Answers(Len(d)), answer \in FormatterAnswers :
              ScanAndRedact(u, d, answers, answer)
    \/ HostReorders
    \/ \E k \in 1 .. 2, start, end \in 0 .. units(binding, scanned.input) + 1,
          action \in {"redact", "unknown"} : HostEdits(k, start, end, action)

Spec == Init /\ [][Next]_vars

---------------------------------------------------------------------------
(* Properties. *)

TypeOK ==
    /\ binding \in Bindings /\ using \in {"session", "calls"}
    /\ SessionTypeOK
    /\ initialized \in BOOLEAN /\ edited \in BOOLEAN
    /\ scanned.input \in CallTexts \cup {<<>>}
    /\ Len(held) <= 2

\* A session fails for a callback with the error a one-shot call of the same binding reports for
\* it, though the core between them has no room for the reason.  (An unknown action is where
\* WebAssembly differs: its one-shot adapter has no cell and reports POLICY_FAILURE.)
SameErrorEitherWay ==
    core_state = "Failed" /\ answered # Silent =>
        error = IF answered.of = "formatter" THEN formatter_error(answered.answer)
                ELSE IF binding = "wasm" /\ answered.answer = "unknown"
                     THEN "INVALID_POLICY_ACTION"
                ELSE policy_error(answered.answer)

\* What a redaction replaced is, in the host's own string, what the findings it passed name, and
\* all of it: whatever text it passes for Node, which converts the ranges back; the scanned text
\* for the others.
RedactsWhatTheHostNamed ==
    result.given # <<>> /\ result.error = "None"
    /\ held # <<>> /\ (binding = "node" \/ result.input = scanned.input) =>
        {<<Reference(binding, result.input, r.from), Reference(binding, result.input, r.to)>> :
             r \in result.replaced}
      = {<<held[k].start, held[k].end>> : k \in {j \in DOMAIN held : held[j].action = "redact"}}

\* The findings of a scan, in any order and over any boundary between host and core, redact the
\* text they are of: never INVALID_FINDINGS, and what is replaced is what the scan found.
ScannedFindingsRedact ==
    ~edited /\ result.given # <<>> /\ result.input = scanned.input =>
        /\ result.error # "INVALID_FINDINGS"
        /\ result.error = "None" => result.replaced = replaced_by(scanned.findings)
=============================================================================
