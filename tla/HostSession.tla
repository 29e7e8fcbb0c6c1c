---------------------------- MODULE HostSession ----------------------------
(***************************************************************************)
(* The incremental session as the Python, Node and WebAssembly bindings    *)
(* wrap it: the core's session, the offset index, the cell in which a      *)
(* policy adapter leaves the reason of a failure the core has no room for, *)
(* and Node's environment, which is there only while the core runs.  The   *)
(* core is what IncrementalSession shows it to be: it settles the text in  *)
(* order, calls policy and formatter for the findings of what it settles,  *)
(* stops at the first failure, and retains at most max_buffered_bytes.     *)
(***************************************************************************)
EXTENDS OffsetIndex

CONSTANT MaxText            \* bound on the characters of a session

VARIABLES
    core_state, settled,                        \* the core: bytes it has settled
    calling, core_error,                        \* the call the core runs, and how it ended
    answered,                                   \* what the host's callback did last in the call
    policy_failure, current_env,
    told,                                       \* the last range the host was told of
    error

session_vars == <<text, index, core_state, settled, calling, core_error, answered,
                  policy_failure, current_env, told, error>>

Nothing == [from |-> 0, to |-> 0, start |-> 0, end |-> 0]
Silent == [of |-> "neither", answer |-> "none"]

SessionInit ==
    /\ IndexInit
    /\ core_state = "None" /\ settled = 0
    /\ calling = "None" /\ core_error = "None" /\ answered = Silent
    /\ policy_failure = "None" /\ current_env = FALSE
    /\ told = Nothing /\ error = "None"

\* create_incremental_sanitizer, PyIncrementalSanitizer::new: the limits are those the core takes.
Create ==
    /\ core_state = "None"
    /\ core_state' = "Accepting" /\ error' = "None"
    /\ UNCHANGED <<text, index, settled, calling, core_error, answered, policy_failure,
                   current_env, told>>

\* IncrementalLimits::new refuses the limits: there is no session.
CreateRefused ==
    /\ core_state = "None"
    /\ error' = "INVALID_LIMITS"
    /\ UNCHANGED <<text, index, core_state, settled, calling, core_error, answered,
                   policy_failure, current_env, told>>

require_accepting == core_state = "Accepting" /\ calling = "None"

enter(call) ==
    /\ calling' = call
    /\ core_error' = "None" /\ answered' = Silent
    /\ current_env' = (binding = "node")
    /\ told' = Nothing

BeginAppend(chunk) ==
    /\ require_accepting
    /\ Len(text) + Len(chunk) <= MaxText
    /\ observe(chunk)
    /\ text' = text \o chunk
    /\ enter("append")
    /\ UNCHANGED <<core_state, settled, policy_failure, error>>

BeginFinalize ==
    /\ require_accepting
    /\ enter("finalize")
    /\ UNCHANGED <<text, index, core_state, settled, policy_failure, error>>

refuse(code) ==
    /\ error' = code
    /\ answered' = Silent /\ told' = Nothing
    /\ UNCHANGED <<text, index, core_state, settled, calling, core_error, policy_failure,
                   current_env>>

\* Python looks at the argument first, whatever the state: nothing is observed, nothing ends.
AppendNotText ==
    /\ binding = "python" /\ calling = "None" /\ core_state # "None"
    /\ refuse("INVALID_INPUT")

Refused ==
    /\ core_state \in {"Finalized", "Aborted", "Failed"}
    /\ refuse("INVALID_STATE")

---------------------------------------------------------------------------
(* Callbacks: the core is in the middle of a call. *)

core_runs == calling # "None" /\ core_error = "None"

\* The ranges a finding of this call may have: whole characters of text not settled before it.
FindingRanges ==
    {r \in [from : Boundaries(text), to : Boundaries(text)] :
        settled <= r.from /\ r.from < r.to}

tell(r) == [from |-> r.from, to |-> r.to, start |-> offset(r.from), end |-> offset(r.to)]
unconvertible(r) == NoOffset \in {offset(r.from), offset(r.to)}

PolicyAnswers == {"action", "unknown", "not_a_string", "raises"}
FormatterAnswers == {"string", "not_a_string", "raises"}

\* What each policy adapter records: the callback fails, its answer is no string or no action.
\* Node's has no environment to call with unless the session set it.
python_failure(answer) ==
    CASE answer = "raises"                     -> "POLICY_FAILURE"
      [] answer \in {"not_a_string", "unknown"} -> "INVALID_POLICY_ACTION"
      [] OTHER                                 -> "None"
node_failure(answer) ==
    CASE ~current_env \/ answer \in {"raises", "not_a_string"} -> "POLICY_FAILURE"
      [] current_env /\ answer = "unknown"                     -> "INVALID_POLICY_ACTION"
      [] OTHER                                                 -> "None"
wasm_failure(answer) ==
    CASE answer \in {"raises", "not_a_string"} -> "POLICY_FAILURE"
      [] answer = "unknown"                    -> "INVALID_POLICY_ACTION"
      [] OTHER                                 -> "None"
recorded_failure(answer) ==
    CASE binding = "python" -> python_failure(answer)
      [] binding = "node"   -> node_failure(answer)
      [] binding = "wasm"   -> wasm_failure(answer)

EvaluatePolicy(r, answer) ==
    LET failure == IF unconvertible(r) THEN "INVALID_CANDIDATE" ELSE recorded_failure(answer)
    IN  /\ core_runs
        /\ told' = tell(r) /\ answered' = [of |-> "policy", answer |-> answer]
        /\ policy_failure' = IF failure = "None" THEN policy_failure ELSE failure
        /\ core_error' = IF failure = "None" THEN "None" ELSE "POLICY_FAILURE"
        /\ UNCHANGED <<text, index, core_state, settled, calling, current_env, error>>

\* The formatter adapters have no room for a reason.
format_fails(answer) == answer # "string"
node_format_fails(answer) == ~current_env \/ answer # "string"

FormatPlaceholder(r, answer) ==
    LET fails == \/ unconvertible(r)
                 \/ IF binding = "node" THEN node_format_fails(answer) ELSE format_fails(answer)
    IN  /\ core_runs
        /\ told' = tell(r) /\ answered' = [of |-> "formatter", answer |-> answer]
        /\ core_error' = IF fails THEN "PLACEHOLDER_FAILURE" ELSE "None"
        /\ UNCHANGED <<text, index, core_state, settled, calling, policy_failure, current_env,
                       error>>

\* The core refuses for a reason of its own: a limit, or a placeholder it does not accept.
CoreRefuses(code) ==
    /\ core_runs
    /\ core_error' = code
    /\ answered' = Silent
    /\ UNCHANGED <<text, index, core_state, settled, calling, policy_failure, current_env, told,
                   error>>

---------------------------------------------------------------------------
(* Returns. *)

\* Mutant of finish: the index is pruned before the findings are converted.
finish_late(r, ended) ==
    /\ policy_failure' = "None" /\ error' = "None"
    /\ core_state' = IF ended THEN "Finalized" ELSE core_state
    /\ IF ended THEN clear ELSE prune
    /\ told' = IF r = Nothing THEN told ELSE tell(r)'

\* The findings of the call are converted before the index forgets; r is one of them.  One that
\* cannot be converted would end the session.
finish(r, ended) ==
    LET converts == r = Nothing \/ ~unconvertible(r)
    IN  /\ policy_failure' = "None"
        /\ told' = IF r = Nothing THEN told ELSE tell(r)
        /\ error' = IF converts THEN "None" ELSE "INVALID_CANDIDATE"
        /\ core_state' = CASE ended -> "Finalized"
                           [] ~ended /\ converts -> core_state
                           [] ~ended /\ ~converts -> "Aborted"
        /\ IF ended \/ ~converts THEN clear ELSE prune

leave == calling' = "None" /\ current_env' = FALSE

\* append returns: the core settled the text up to a boundary, and retains no more than it may.
FinishAppend(upto, r) ==
    /\ calling = "append" /\ core_runs
    /\ settled <= upto /\ total_bytes - upto <= max_buffered_bytes
    /\ r.to <= upto
    /\ settled' = upto
    /\ leave
    /\ finish(r, FALSE)
    /\ UNCHANGED <<text, core_error, answered>>

FinishFinalize(r) ==
    /\ calling = "finalize" /\ core_runs
    /\ settled' = total_bytes
    /\ leave
    /\ finish(r, TRUE)
    /\ UNCHANGED <<text, core_error, answered>>

\* Mutant of Fail: what the adapter recorded is not read back.
FailGeneric ==
    /\ calling # "None" /\ core_error # "None"
    /\ core_state' = "Failed"
    /\ error' = core_error
    /\ policy_failure' = "None"
    /\ clear
    /\ leave
    /\ UNCHANGED <<text, settled, core_error, answered, told>>

\* Mutant of Fail: the index is kept.
FailKeepingIndex ==
    /\ calling # "None" /\ core_error # "None"
    /\ core_state' = "Failed"
    /\ error' = IF core_error = "POLICY_FAILURE" /\ policy_failure # "None"
                THEN policy_failure ELSE core_error
    /\ policy_failure' = "None"
    /\ leave
    /\ UNCHANGED <<text, index, settled, core_error, answered, told>>

\* The core's error ends the session; a policy adapter's reason takes the place of the core's.
Fail ==
    /\ calling # "None" /\ core_error # "None"
    /\ core_state' = "Failed"
    /\ error' = IF core_error = "POLICY_FAILURE" /\ policy_failure # "None"
                THEN policy_failure ELSE core_error
    /\ policy_failure' = "None"
    /\ clear
    /\ leave
    /\ UNCHANGED <<text, settled, core_error, answered, told>>

\* abort, and Python's __exit__ of a session that still accepts.
Abort ==
    /\ require_accepting
    /\ core_state' = "Aborted"
    /\ policy_failure' = "None" /\ error' = "None"
    /\ clear
    /\ UNCHANGED <<text, settled, calling, core_error, answered, current_env, told>>

SessionNext ==
    \/ Create \/ CreateRefused
    \/ \E chunk \in Chunks : BeginAppend(chunk)
    \/ BeginFinalize
    \/ AppendNotText \/ Refused
    \/ \E r \in FindingRanges, answer \in PolicyAnswers : EvaluatePolicy(r, answer)
    \/ \E r \in FindingRanges, answer \in FormatterAnswers : FormatPlaceholder(r, answer)
    \/ \E code \in {"INPUT_LIMIT_EXCEEDED", "INVALID_PLACEHOLDER"} : CoreRefuses(code)
    \/ \E upto \in Boundaries(text), r \in FindingRanges \cup {Nothing} : FinishAppend(upto, r)
    \/ \E r \in FindingRanges \cup {Nothing} : FinishFinalize(r)
    \/ Fail \/ Abort

---------------------------------------------------------------------------
(* Properties. *)

SessionTypeOK ==
    /\ IndexTypeOK
    /\ core_state \in {"None", "Accepting", "Finalized", "Aborted", "Failed"}
    /\ settled \in 0 .. total_bytes
    /\ calling \in {"None", "append", "finalize"}
    /\ answered.answer \in PolicyAnswers \cup FormatterAnswers \cup {"none"}
    /\ current_env \in BOOLEAN

\* Every range a host is told of, in a callback or in a result, is the one its own string of the
\* whole text has there, wherever the chunks were cut and whatever was pruned in between.
OffsetsExact ==
    /\ told.start = Reference(binding, text, told.from)
    /\ told.end = Reference(binding, text, told.to)

\* Pruning forgets nothing that a later call may ask about: every boundary of text that is not
\* settled can still be converted, and exactly ("which the core's own bounds make unreachable").
PrunedInTime ==
    core_state = "Accepting" =>
        \A b \in Boundaries(text) : b >= settled => offset(b) = Reference(binding, text, b)

\* Between calls the index remembers offsets of the buffered window only, ascending; once the
\* session is over it remembers none.
IndexBounded ==
    /\ core_state = "Accepting" /\ calling = "None" =>
          \A k \in 1 .. Len(discounts) :
              /\ total_bytes - discounts[k] <= max_buffered_bytes
              /\ k > 1 => discounts[k - 1] <= discounts[k]
    /\ core_state # "Accepting" => discounts = <<>>
=============================================================================
