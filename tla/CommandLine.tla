----------------------------- MODULE CommandLine -----------------------------
(***************************************************************************)
(* One run of the redact-secret command: check or redact, over standard    *)
(* input, which is streamed through an incremental session, or over files, *)
(* which are read whole; a reader that fails or stops anywhere, a decoder  *)
(* that carries split characters, a pipe that may close, and the exit code *)
(* a hook keys off.  The session and the pipeline are what their own       *)
(* modules show them to be: text comes back in order, or nothing does.     *)
(***************************************************************************)
EXTENDS Integers, Sequences, FiniteSets, SequencesExt

CONSTANTS
    Inputs,            \* what standard input may hold, byte by byte
    ArgumentLists,     \* the command lines
    READ_CHUNK_BYTES,
    MaxFindings        \* bound on the findings of one result

\* Arguments that begin with a dash: help and version alike stand alone, "--verbose" is no option.
Dashed == {"--", "--redact", "--json", "--help", "--verbose"}

\* Bytes: a letter, a line terminator, the first byte of a two- and of a four-byte character, a
\* continuation, and one that no text contains.
Width == [a |-> 1, nl |-> 1, d |-> 2, q |-> 4]
Byte == DOMAIN Width \cup {"c", "x"}

ASSUME Streams ==
    /\ Inputs \subseteq Seq(Byte) /\ \A line \in ArgumentLists : line \in Seq(STRING)
    /\ READ_CHUNK_BYTES \in Nat \ {0} /\ MaxFindings \in Nat

VARIABLES
    args, mode, format, paths, input,    \* the command and its world
    phase, position,                     \* bytes of standard input read
    carry,                               \* Utf8Stream
    session_state, retained,             \* IncrementalSanitizer
    result,                              \* what its last call returned, not yet emitted
    collected,                           \* findings of this stream
    sources, failures,                   \* Report
    buffered, delivered, pipe_open,      \* standard output
    outcome, exit_code

command == <<args, mode, format, paths, input>>
session == <<session_state, retained>>
report == <<sources, failures>>
stdout == <<buffered, delivered, pipe_open>>
vars == <<command, phase, position, carry, session, result, collected, report, stdout,
          outcome, exit_code>>

---------------------------------------------------------------------------
(* parse: what the arguments ask for. *)

\* Mutant of options_end: "--" ends nothing.
options_end_never(line) == Len(line) + 1

\* Behind the first "--" every argument is a path, whatever it begins with.
options_end(line) == CHOOSE n \in 1 .. (Len(line) + 1) :
    /\ n <= Len(line) => line[n] = "--"
    /\ \A k \in 1 .. (n - 1) : line[k] # "--"
options(line) == ToSet(SubSeq(line, 1, options_end(line) - 1)) \cap Dashed
\* A path is the position of its argument.
paths_of(line) ==
    {k \in 1 .. (options_end(line) - 1) : line[k] \notin Dashed}
      \cup (options_end(line) + 1) .. Len(line)

usage_error(line) ==
    \/ {"--help", "--verbose"} \cap options(line) # {}
    \/ "--redact" \in options(line) /\ ("--json" \in options(line) \/ Cardinality(paths_of(line)) > 1)

parse(line) ==
    CASE line = <<"--help">>                       -> "help"
      [] line # <<"--help">> /\ usage_error(line)  -> "usage"
      [] line # <<"--help">> /\ ~usage_error(line) ->
           IF "--redact" \in options(line) THEN "redact" ELSE "check"

FromStdin == mode \in {"check", "redact"} /\ paths = {}

Init ==
    /\ args \in ArgumentLists
    /\ mode = parse(args) /\ paths = paths_of(args)
    /\ format = IF "--json" \in options(args) THEN "json" ELSE "text"
    /\ input \in Inputs
    /\ ~FromStdin => input = <<>>                               \* it would not be read
    /\ phase = CASE FromStdin                                -> "Read"
                 [] mode = "help"                            -> "Document"
                 [] mode = "usage"                           -> "Exit"
                 [] ~FromStdin /\ mode \in {"check", "redact"} -> "Files"
    /\ position = 0 /\ carry = <<>>
    /\ session_state = "Accepting" /\ retained = <<>>
    /\ result = <<>> /\ collected = 0
    /\ sources = <<>> /\ failures = <<>>
    /\ buffered = <<>> /\ delivered = <<>> /\ pipe_open = TRUE
    /\ outcome = IF mode = "usage" THEN "USAGE" ELSE "None"
    /\ exit_code = -1

---------------------------------------------------------------------------
(* Utf8Stream *)

\* Where the character that starts at i ends when all its bytes are there, 0 when they are not.
char_end(u, i) ==
    LET last == i + Width[u[i]] - 1
    IN  IF /\ last <= Len(u)
           /\ \A k \in (i + 1) .. last : u[k] = "c"
        THEN last ELSE 0

\* Length of the longest valid prefix.
valid_up_to(u) ==
    LET upto[i \in 1 .. (Len(u) + 1)] ==
          IF i > Len(u) \/ u[i] \notin DOMAIN Width THEN i - 1
          ELSE IF char_end(u, i) = 0 THEN i - 1 ELSE upto[char_end(u, i) + 1]
    IN  upto[1]

\* The text ends in the middle of a character that more bytes may complete.
incomplete(u) ==
    LET from == valid_up_to(u) + 1
    IN  /\ from <= Len(u) /\ u[from] \in DOMAIN Width
        /\ Len(u) < from + Width[u[from]] - 1
        /\ \A k \in (from + 1) .. Len(u) : u[k] = "c"

\* What `push` finds in the carried bytes and the new ones.
decodable(u) == valid_up_to(u) = Len(u) \/ incomplete(u)

---------------------------------------------------------------------------
(* Report::push_source gives findings ids that are unique across the report. *)

finding_count == Len(FlattenSeq(sources))
\* Mutant of push_source: each source keeps the ids of its own scan.
push_source_local_ids(found) == sources' = Append(sources, [k \in 1 .. found |-> k])

push_source(found) == sources' = Append(sources, [k \in 1 .. found |-> finding_count + k])

---------------------------------------------------------------------------
(* stream *)

\* Mutant of discard_stream: the session is left open.
discard_stream_without_abort(left) ==
    /\ UNCHANGED session
    /\ carry' = <<>> /\ result' = <<>> /\ collected' = 0

\* Whatever was read, decoded or collected is dropped.
discard_stream(left) ==
    /\ session_state' = left
    /\ retained' = <<>> /\ carry' = <<>> /\ result' = <<>> /\ collected' = 0

\* `?` behind the session's own errors, and abort_with behind the host's: the source has failed.
stream_fails(failure, left) ==
    /\ discard_stream(left)
    /\ IF mode = "check"
         THEN /\ failures' = Append(failures, failure)
              /\ phase' = "Report"
              /\ UNCHANGED outcome
         ELSE /\ outcome' = failure
              /\ phase' = "Exit"
              /\ UNCHANGED failures
    /\ UNCHANGED <<command, sources, exit_code>>

Refusals == {"INPUT_LIMIT_EXCEEDED", "TOKEN_LIMIT_EXCEEDED", "MULTILINE_LIMIT_EXCEEDED",
             "INVALID_PLACEHOLDER"}

Chunk(n) == SubSeq(input, position + 1, position + n)
Decoded(n) == SubSeq(carry \o Chunk(n), 1, valid_up_to(carry \o Chunk(n)))

CanRead(n) == phase = "Read" /\ n <= Len(input) - position

\* Mutant of session_append: the retained text is overwritten.
session_append_overwrites(decoded) ==
    LET ends == {i \in 1 .. Len(decoded) : decoded[i] = "nl"}
    IN  \E cut \in {0} \cup ends, found \in 0 .. MaxFindings :
            /\ cut = 0 => found = 0
            /\ result' = SubSeq(decoded, 1, cut)
            /\ retained' = SubSeq(decoded, cut + 1, Len(decoded))
            /\ collected' = collected + found

\* The session takes the decoded text and returns the units it closes, each up to a terminator.
session_append(decoded) ==
    LET unresolved == retained \o decoded
        ends == {i \in (Len(retained) + 1) .. Len(unresolved) : unresolved[i] = "nl"}
    IN  \E cut \in {0} \cup ends, found \in 0 .. MaxFindings :
            /\ cut = 0 => found = 0
            /\ result' = SubSeq(unresolved, 1, cut)
            /\ retained' = SubSeq(unresolved, cut + 1, Len(unresolved))
            /\ collected' = collected + found

\* A read may return fewer bytes than there are.
ReadAppends(n) ==
    /\ CanRead(n) /\ decodable(carry \o Chunk(n))
    /\ position' = position + n
    /\ carry' = SubSeq(carry \o Chunk(n), Len(Decoded(n)) + 1, Len(carry) + n)
    /\ session_append(Decoded(n))
    /\ phase' = "Emit"
    /\ UNCHANGED <<command, session_state, report, stdout, outcome, exit_code>>

ReadRefused(n) ==
    /\ CanRead(n) /\ decodable(carry \o Chunk(n)) /\ Decoded(n) # <<>>
    /\ position' = position + n
    /\ \E code \in Refusals : stream_fails(code, "Failed")
    /\ UNCHANGED stdout

ReadUndecodable(n) ==
    /\ CanRead(n) /\ ~decodable(carry \o Chunk(n))
    /\ position' = position + n
    /\ stream_fails("NOT_UTF8", "Aborted")
    /\ UNCHANGED stdout

ReadFails ==
    /\ phase = "Read"
    /\ stream_fails("READ_FAILED", "Aborted")
    /\ UNCHANGED <<position, stdout>>

\* End of input: the last unit is whatever was retained.
EndOfInput ==
    /\ phase = "Read" /\ position = Len(input)
    /\ carry = <<>>
    /\ session_state' = "Finalized"
    /\ result' = retained /\ retained' = <<>>
    /\ \E found \in 0 .. (IF retained = <<>> THEN 0 ELSE MaxFindings) :
          collected' = collected + found
    /\ phase' = "Emit"
    /\ UNCHANGED <<command, position, carry, report, stdout, outcome, exit_code>>

EndRefused ==
    /\ phase = "Read" /\ position = Len(input)
    /\ carry = <<>> /\ retained # <<>>
    /\ stream_fails("INVALID_PLACEHOLDER", "Failed")
    /\ UNCHANGED <<position, stdout>>

EndIncomplete ==
    /\ phase = "Read" /\ position = Len(input)
    /\ carry # <<>>
    /\ stream_fails("NOT_UTF8", "Aborted")
    /\ UNCHANGED <<position, stdout>>

\* write_text into the buffered standard output: bytes may reach the pipe now or later.
Emit ==
    /\ phase = "Emit"
    /\ IF mode = "check" THEN UNCHANGED stdout
       ELSE /\ buffered' = buffered \o result
            /\ UNCHANGED <<delivered, pipe_open>>
    /\ result' = <<>>
    /\ IF session_state = "Accepting"
         THEN phase' = "Read" /\ UNCHANGED <<collected, sources, outcome>>
       ELSE IF mode = "check"
         THEN /\ phase' = "Report"
              /\ push_source(collected)
              /\ collected' = 0 /\ UNCHANGED outcome
       ELSE phase' = "Exit" /\ outcome' = "Clean" /\ UNCHANGED <<collected, sources>>
    /\ UNCHANGED <<command, position, carry, session, failures, exit_code>>

\* A write the buffer cannot hold meets a closed pipe.
EmitFails ==
    /\ phase = "Emit" /\ mode = "redact"
    /\ ~pipe_open /\ result # <<>>
    /\ stream_fails("WRITE_FAILED", IF session_state = "Accepting" THEN "Aborted" ELSE session_state)
    /\ UNCHANGED <<position, stdout>>

Spill ==
    /\ pipe_open /\ buffered # <<>> /\ phase = "Emit"
    /\ delivered' = delivered \o buffered
    /\ buffered' = <<>>
    /\ UNCHANGED <<command, phase, position, carry, session, result, collected, report,
                   pipe_open, outcome, exit_code>>

PipeCloses ==
    /\ pipe_open /\ exit_code = -1
    /\ pipe_open' = FALSE
    /\ UNCHANGED <<command, phase, position, carry, session, result, collected, report,
                   buffered, delivered, outcome, exit_code>>

---------------------------------------------------------------------------
(* Files: each is read whole and scanned or redacted in one call. *)

FileFailures == {"READ_FAILED", "NOT_UTF8", "INPUT_LIMIT_EXCEEDED", "INVALID_PLACEHOLDER"}

\* Mutant of last_file: the file being read is not counted.
last_file_counted_late == Len(sources) + Len(failures) = Cardinality(paths)

\* The file being read is the last one.
last_file == Len(sources) + Len(failures) + 1 = Cardinality(paths)

CheckFile ==
    /\ phase = "Files" /\ mode = "check"
    /\ Len(sources) + Len(failures) < Cardinality(paths)
    /\ \/ (\E found \in 0 .. MaxFindings : push_source(found)) /\ UNCHANGED failures
       \/ /\ \E code \in FileFailures : failures' = Append(failures, code)
          /\ UNCHANGED sources
    /\ phase' = IF last_file THEN "Report" ELSE "Files"
    /\ UNCHANGED <<command, position, carry, session, result, collected, stdout, outcome,
                   exit_code>>

RedactFile ==
    /\ phase = "Files" /\ mode = "redact"
    /\ \/ outcome' = "Clean" /\ buffered' = <<"file">>
       \/ (\E code \in FileFailures : outcome' = code) /\ UNCHANGED buffered
    /\ phase' = "Exit"
    /\ UNCHANGED <<command, position, carry, session, result, collected, report, delivered,
                   pipe_open, exit_code>>

---------------------------------------------------------------------------
(* run, main *)

\* Mutant of verdict: findings outrank failed sources.
verdict_of_findings(reported) ==
    CASE ~reported -> "WRITE_FAILED"
      [] reported /\ finding_count > 0 -> "Findings"
      [] reported /\ finding_count = 0 -> IF failures # <<>> THEN "Failed" ELSE "Clean"

\* A report that nobody could read fails the run, findings or not, and so does a failed source.
verdict(reported) ==
    CASE ~reported -> "WRITE_FAILED"
      [] reported /\ failures # <<>> -> "Failed"
      [] reported /\ failures = <<>> -> IF finding_count > 0 THEN "Findings" ELSE "Clean"

\* The text report is flushed before its summary goes to the diagnostics; the JSON one is left
\* to main, unless it overflows the buffer.
WriteReport(stderr_open, overflows) ==
    LET lines == IF format = "json" \/ finding_count > 0 THEN <<"report">> ELSE <<>>
        flushed == format = "text" /\ pipe_open
        written == IF format = "json" THEN pipe_open \/ ~overflows
                   ELSE (pipe_open \/ lines = <<>>) /\ stderr_open
        diagnosed == failures = <<>> \/ stderr_open
    IN  /\ phase = "Report"
        /\ buffered' = IF flushed THEN <<>> ELSE lines
        /\ delivered' = IF flushed THEN lines ELSE <<>>
        /\ outcome' = verdict(written /\ diagnosed)
        /\ phase' = "Exit"
        /\ UNCHANGED <<command, position, carry, session, result, collected, report, pipe_open,
                       exit_code>>

\* The usage document or the version, into the buffer.
WriteDocument ==
    /\ phase = "Document"
    /\ buffered' = <<"document">>
    /\ outcome' = "Clean"
    /\ phase' = "Exit"
    /\ UNCHANGED <<command, position, carry, session, result, collected, report, delivered,
                   pipe_open, exit_code>>

ExitCode == [Clean |-> 0, Findings |-> 1]

flushes == buffered = <<>> \/ pipe_open

\* Mutant of final_outcome: a flush that fails is ignored.
final_outcome_unflushed == outcome

\* The last flush may still fail the run.
final_outcome ==
    IF ~flushes /\ outcome \in {"Clean", "Findings", "Failed"} THEN "WRITE_FAILED" ELSE outcome

Exit ==
    /\ phase = "Exit"
    /\ IF flushes THEN delivered' = delivered \o buffered /\ buffered' = <<>>
       ELSE UNCHANGED <<delivered, buffered>>
    /\ outcome' = final_outcome
    /\ exit_code' = IF final_outcome \in DOMAIN ExitCode THEN ExitCode[final_outcome] ELSE 2
    /\ phase' = "Ended"
    /\ UNCHANGED <<command, position, carry, session, result, collected, report, pipe_open>>

Step ==
    \/ \E n \in 1 .. READ_CHUNK_BYTES : ReadAppends(n) \/ ReadRefused(n) \/ ReadUndecodable(n)
    \/ ReadFails \/ EndOfInput \/ EndRefused \/ EndIncomplete
    \/ Emit \/ EmitFails
    \/ CheckFile \/ RedactFile \/ WriteDocument
    \/ \E stderr_open, overflows \in BOOLEAN : WriteReport(stderr_open, overflows)
    \/ Exit

Next == Step \/ Spill \/ PipeCloses

\* The process runs until it ends; a reader that blocks for ever is not considered.
Spec == Init /\ [][Next]_vars /\ WF_vars(Step)

---------------------------------------------------------------------------
(* Properties. *)

TypeOK ==
    /\ phase \in {"Read", "Emit", "Files", "Report", "Document", "Exit", "Ended"}
    /\ position \in 0 .. Len(input)
    /\ Len(carry) <= 3
    /\ session_state \in {"Accepting", "Finalized", "Aborted", "Failed"}
    /\ exit_code \in {-1, 0, 1, 2}

\* Nothing a read split is lost, repeated or reordered on its way through the decoder, the
\* session and the buffers: as long as the stream is sound, what left, what waits and what is
\* retained or carried add up to what was read.
NoByteLost ==
    FromStdin /\ mode = "redact" /\ session_state \in {"Accepting", "Finalized"}
        /\ phase \in {"Read", "Emit"}
      => delivered \o buffered \o result \o retained \o carry = SubSeq(input, 1, position)

\* Exit code 0 of a redaction is a promise about the pipe: the whole input was valid text and the
\* whole of it, redacted, has reached the other end ("a redaction whose tail never reached the
\* pipe is not a redaction").
RedactedInFull ==
    exit_code = 0 /\ mode = "redact"
      => delivered = IF FromStdin THEN input ELSE <<"file">>

\* A check that exits 0 or 1 has scanned every source it was asked for to its end, the arguments
\* behind "--" that look like options included, and its report has arrived; 0 says that there were
\* no findings, 1 that there were.  A failure outranks both.
Requested == {k \in DOMAIN args : args[k] \notin Dashed \/ "--" \in ToSet(SubSeq(args, 1, k - 1))}
CheckedInFull ==
    exit_code \in {0, 1} /\ mode = "check"
      => /\ failures = <<>>
         /\ IF Requested = {} THEN session_state = "Finalized" /\ position = Len(input)
            ELSE Len(sources) = Cardinality(Requested)
         /\ exit_code = IF finding_count > 0 THEN 1 ELSE 0
         /\ (finding_count > 0 \/ format = "json") => delivered = <<"report">>

\* A consumer can key findings by id: across all the sources of a report no id comes twice and
\* none is left out.
IdsUnique ==
    LET ids == FlattenSeq(sources) IN \A k \in 1 .. Len(ids) : ids[k] = k

\* However a stream ends, the session is over and neither it nor the decoder holds plaintext
\* ("Every one of them leaves the session holding nothing").
NothingHeld ==
    FromStdin /\ phase \in {"Report", "Exit", "Ended"}
      => session_state # "Accepting" /\ retained = <<>> /\ carry = <<>> /\ result = <<>>

\* The run ends with an exit code, whatever the reader, the pipe and the sources do.
Ends == <>(exit_code # -1)
=============================================================================
