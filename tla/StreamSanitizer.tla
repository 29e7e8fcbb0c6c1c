-------------------------- MODULE StreamSanitizer --------------------------
(***************************************************************************)
(* adapters/shared.ts: one incremental session and one stateful, fatal     *)
(* UTF-8 decoder behind both stream adapters.  The session is opened with  *)
(* the runtime's binding.  Text is counted in chunks: what was appended,   *)
(* and how much of it the session has returned, together with its          *)
(* findings.                                                               *)
(***************************************************************************)
EXTENDS JsRuntime

VARIABLES
    session,
    mid,          \* the decoder holds the start of a character
    appended, released

sanitizer_vars == <<session, mid, appended, released>>

SanitizerInit == session = "none" /\ mid = FALSE /\ appended = 0 /\ released = 0

\* A chunk of whole characters, one that ends inside a character, and what is no text or no bytes.
\* The decoder completes with a chunk the character the chunk before broke off.
Chunk == {"text", "cut", "malformed", "not_bytes"}
Decodable == {"text", "cut"}

\* createIncrementalSanitizer: active() is the guard.
open_session == binding # 0 /\ session = "none" /\ session' = "accepting"

aborted == IF session = "accepting" THEN "aborted" ELSE session

AppendOk(chunk) ==
    /\ chunk \in Decodable /\ session = "accepting"
    /\ mid' = (chunk = "cut")
    /\ appended' = appended + 1
    /\ released' \in released .. appended + 1
    /\ UNCHANGED session

\* The chunk is refused, or the session refuses the text: it is over, or a limit ends it now.
AppendThrows(chunk) ==
    /\ session' = IF chunk \notin Decodable THEN aborted
                  ELSE IF session = "accepting" THEN "failed" ELSE session
    /\ UNCHANGED <<mid, appended, released>>

\* Mutant of FinalizeOk: the decoder is not flushed.
FinalizeOk_unflushed ==
    /\ session = "accepting"
    /\ session' = "finalized"
    /\ released' = appended
    /\ UNCHANGED <<mid, appended>>

FinalizeOk ==
    /\ ~mid /\ session = "accepting"
    /\ session' = "finalized"
    /\ released' = appended
    /\ UNCHANGED <<mid, appended>>

\* The input ends inside a character, the session is over already, or it fails in append or finalize;
\* nothing of what the two return is kept then.
FinalizeThrows ==
    /\ session' = IF mid THEN aborted ELSE IF session = "accepting" THEN "failed" ELSE session
    /\ UNCHANGED <<mid, appended, released>>
=============================================================================
