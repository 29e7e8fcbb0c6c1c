# secret-scan in TLA+

secret-scan finds credentials in text and replaces them. Its core is a Rust
library (`crates/secret-scan-core`) with a one-shot pipeline, scan and redact,
and an incremental session that gives the same answer for a text that arrives
in chunks. A command (`crates/secret-scan-cli`), three bindings (Python, Node,
WebAssembly) and a JavaScript package with stream adapters stand on it. This
directory holds the specifications of that code, the TLC runs that check them
and the TLAPS proofs about them.

    tlc -config SessionPem.cfg MCSession          a run
    tlapm IncrementalSessionProofs.tla            a proof module

## 1. Inventory

| Component | State | Operations | Talks to | What makes it correct | Model |
|---|---|---|---|---|---|
| Incremental session (`incremental.rs`) | lifecycle, retained text, PEM tracker, two multiline flags, byte / finding / placeholder counters | `append`, `finalize`, `abort` | pipeline and redaction per unit, hints of the detectors, host policy and formatter | any partition gives the whole-input result; nothing released too early; bounded plaintext; nothing held once over | `IncrementalSession`, `SanitizerContract` |
| Detection pipeline (`pipeline.rs`), registry (`registry.rs`) | registered ids; candidates, accepted spans | `register`, `scan`, `scan_and_redact` | detectors, policy | a total precedence, no overlap, ids in text order, one bad candidate fails all | `ScanPipeline`; as operators in `Pipeline` |
| Redaction (`redact.rs`) | cursor, numbering, forbidden values | `redact` | formatter | overlaps refused, nothing replaced survives, no placeholder brings a value back | `Redaction`; as operators in `Pipeline` |
| Private-key detector (`private_key.rs`) | delimiter stack; tracker with lookbehind | `detect`, `append`, `reset` | session | the tracker agrees with a whole scan however delimiters are split | `PemDelimiters`, `DelimiterTracker`, `Detectors` |
| Other built-in detectors | the cursor of a scan | `detect`, retention hints | pipeline, session | whole credentials that stand alone, all of them, no loop; a hint holds open what its detector continues | `Providers`, `StructuralDetectors`, `ContextualSecrets`, `ConnectionStrings`, `DetectorScan`, `DetectorGrammar`; for the session, over lexemes, `Detectors` |
| Default policy (`policy.rs`) | none | `evaluate` | pipeline | | `Pipeline` |
| Command (`crates/secret-scan-cli`) | decoder carry, session, report, buffered output | `check`, `redact`, `--help`, `--version` | session, pipeline, pipes, files | the exit code says only what is true | `CommandLine` |
| Sessions of the bindings | offset index, recorded policy failure, Node's environment | create, `append`, `finalize`, `abort`, callbacks | core session, host | host offsets exact, index bounded, the promised error | `OffsetIndex`, `HostSession` |
| One-shot calls of the bindings | WebAssembly: whether it is initialized | `scan`, `redact`, `scan_and_redact` | core, host | a finding comes back to the span it names | `HostCalls` |
| JavaScript runtime (`runtime.ts`) | loaded binding, pending load | `initialize` | bindings | one load at a time, a failure is not kept, every call settles | `JsRuntime` |
| Stream adapters (`adapters/*.ts`) | decoder, session, queues of the platform's streams | open, write, close, read, cancel, abort, destroy | session, Web and Node streams | the end of the output means all of it; nothing held once over | `StreamSanitizer`, `StreamAdapters` |
| Conformance, assessment, scripts, workflows | none of the program's | | | | not modelled |

The code is single-threaded within a session. What is hard in it is order and
boundaries: where the caller cuts the text (every partition must do), which
line closes a unit, what a failure in the middle of a call leaves behind, a
read that splits a character, a pipe that closes before the last flush, a
callback that runs after the text was observed and before the index is pruned,
a stream that is cancelled at one end while the other waits, two callers that
load one runtime. There is no persistence and no network, so no crash recovery;
the only retry is that of a failed `initialize`. `PROJECT.json` lists each
hazard at its line with the properties that cover it.

## 2. Modules

    MCSession -> IncrementalSession -> Pipeline -> Detectors -> Lexemes, PemDelimiters
                 IncrementalSession implements SanitizerContract (INSTANCE)
    MCTracker -> DelimiterTracker -> PemDelimiters
    MCScan -> ScanPipeline           MCRedaction -> Redaction
    MCDetectors -> DetectorGrammar -> DetectorScan -> ContextualSecrets, ConnectionStrings
                   -> StructuralDetectors -> Providers
    MCCommandLine -> CommandLine
    MCHost -> HostCalls -> HostSession -> OffsetIndex
    MCStreams -> StreamAdapters -> StreamSanitizer -> JsRuntime
    IncrementalSessionProofs -> IncrementalSession, SequenceLemmas
    DetectionProofs -> DetectorGrammar, ScanPipeline, SequenceLemmas
    RedactionProofs -> Redaction
    DelimiterTrackerProofs -> DelimiterTracker, SequenceLemmas
    CommandLineProofs -> CommandLine, SequenceLemmas
    HostProofs -> HostCalls, SequenceLemmas
    StreamAdaptersProofs -> StreamAdapters

A definition called "Mutant of X" in a module is a plausible bug in X; no
specification uses it. The matching property of `PROJECT.json` fails when X is
replaced by it.

**IncrementalSession** has one variable per field of `IncrementalSanitizer`,
the frame of the append in progress (`calling`, `rest`, `emitted`,
`unit_findings`) and what the caller has (`source`, the text accepted;
`text`, `findings`, `error`). `append` is several steps because its loop
settles one unit after another and may fail in between: `AppendRefused` or
`BeginAppend`, then per piece (up to a line terminator) `AppendReachesLimit`,
`AppendRetains`, `AppendClosesUnit` or `AppendFailsUnit`, then `ReturnAppend`.
No other call runs while one is in progress, as `&mut self` has it. `finalize`
and `abort` are single steps. A failing policy or formatter is
`AppendFailsUnit` / `FinalizeFails`. `Detect`, the pipeline, is a constant
with an assumption: findings inside the text, ordered, disjoint. The theorem
`BuiltInContract` is that assumption of the operators of `Pipeline` and
`Detectors`, for every text, and TextOrder of `DetectionProofs` the same
statement about the pipeline step by step.
`valid_limits` is what `IncrementalLimits::new` lets through. Its overflow
check has no counterpart: numbers here do not overflow.

**Lexemes, Detectors, Pipeline** are the text of a session and what is found in
it. A text is a sequence of lexemes; each stands for one fixed piece of text and
counts as one byte. The lexemes are chosen so that two adjacent ones form no
construct beyond those the definitions name. A chunk ends between lexemes;
delimiters split by chunk boundaries are the subject of `DelimiterTracker`, at
the level of the parts of a delimiter. A released text has one unit per byte of
the original (the byte, or the number of the placeholder over it), so two texts
are equal exactly if the program's are. Candidates are a set: registration
order would decide only between two detectors of equal specificity,
confidence and width, and no two of these agree in the first two.

**ScanPipeline** runs registration, collection, validation, the accept loop,
numbering and policy as steps, with detectors that emit whatever `Emissions`
contains. A sort is the choice of the least element not yet taken. A detector
that fails, an invalid candidate and a failing policy end the scan with nothing.

**Redaction** is the same for `redact`, with findings in any order and a
formatter that returns any placeholder of the instance. Whether a placeholder
contains the text of a range is the constant `Reproduces`.

**DelimiterTracker** keeps the tracker's four fields. A symbol is a run of
characters of a delimiter, so the longest delimiter has five of them;
`wide, more` are the bytes of one character, which no piece splits.
`scan_delimiters` skips what ends inside the text already processed; the rest
goes through `process_delimiter` of `PemDelimiters`.

**Providers, StructuralDetectors, ContextualSecrets, ConnectionStrings** are the
`detect` methods as what one attempt at one position yields: nothing, or a match
with the ranges it reports and the place where the loop resumes. `DetectorScan`
is the loop, one pass after another, one step per attempt. `DetectorGrammar`
says of each pass which stretches of a text have the shape of its credential,
without cursors and without what was skipped before. The two are compared, both
ways. A symbol is a keyword, a prefix part or a single character, never a
string taken apart. Required lengths are scaled down by `Lengths` and the
`MAX_` and `MIN_` constants; entropy is a property of a run, not computed. Both
sides share the vocabulary of references and placeholder words
(`is_non_secret_reference`), so these runs check how it is applied, not which
words it holds.

**CommandLine** is one run of the process: the arguments and `parse`, the read
loop, the decoder's carry, the session as what it retains and returns, the
report, the buffered standard output, `main`. Bytes are letters, terminators,
first bytes of two- and four-byte characters, continuations and one byte no
text contains. `Spill` (the buffer writes through) and `PipeCloses` are the
environment. A read that is interrupted is retried by the code and is no step
here. The decoder's rule about which truncated prefixes may still be completed
is Rust's.

**OffsetIndex** is the table from byte offsets to the host's own: code points in
Python, UTF-16 code units in Node and WebAssembly; observe, prune, clear.
**HostSession** is a session of a binding around it: create, enter, the core's
call with callbacks in the middle of it (`EvaluatePolicy`,
`FormatPlaceholder`), conversion, return. The core appears as what
IncrementalSession shows: it settles text in order, stops at the first failure,
and what it retains between calls is at most `max_buffered_bytes`. The three
bindings differ in how an adapter reads a callback's answer, in what the core's
generic error is turned into, and in Node's environment, which is set only while
a call runs. **HostCalls** adds the one-shot calls and a host program that keeps
findings, reorders and edits them and passes them back, with the same text or
another.

**JsRuntime** has a step for each of: a call of `initialize`, the end of a
load, its `finally` handler, the caller that resumes. **StreamSanitizer** is
`adapters/shared.ts`, text counted in chunks. **StreamAdapters** are the Web and
the Node adapter with the platform's streams as far as the code relies on them.
The environment is what the streams specification says of a transform that
waits for its reader, a flush, an abort that waits for the chunk in flight; it
is marked external in the map.

**SanitizerContract** is the abstract promise about plaintext, without lines,
units or limits: text taken in is held until it is settled or dropped. The
refinement maps `settled` to the text returned and `held` to everything of the
text that the session has in retained, the rest of the chunk, and the units
waiting for the call to return. So a failing call may drop closed units (the
code does), but may not keep them.

## 3. Runs

| Run | Instance | Shows |
|---|---|---|
| `session_pem` | 7 bytes in chunks of up to 3; `line value BEGIN_A END_A BEGIN_B`; token 3, multiline 5 | partition invariance for key blocks: nested, mismatched, unclosed, without body; early release; retention; the contract |
| `session_context` | 6 bytes in chunks of up to 2; `line blank key value auth bearer`; token 4 | the same for values on a later line; a closed unit is settled, whatever may follow; ids and offsets over units; limit refusals |
| `tracker` | texts of 8 symbols in pieces of any cut | split delimiters |
| `scan` | 2 detectors, up to 2 of 10 candidates each, registered in either order | accept loop, precedence, validation: one bad candidate fails all |
| `detector_grammars` | every text of 3 to 5 blocks for each detector, 119,745 texts | a scan reports what the grammar describes, no more and no less, and never stands still |
| `redaction` | up to 3 of 16 findings, 4 placeholders | adjacency, numbering, forbidden values |
| `command_line` | every input of 3 bytes, five longer ones; reads of 1 to 3; every command line of two arguments, six longer ones; up to 3 files | arguments, decoder, exit codes, termination |
| `bindings` | sessions of 3 characters of 1 to 4 bytes, window of 5 bytes; three texts for the calls; three bindings | offsets there and back, pruning, error mapping |
| `javascript` | 2 callers, 2 loads, 3 chunks, either adapter | initialization, completeness, nothing held, all calls settle, an abort waits for the reader only |
| `session_limits` | 6 bytes in chunks of up to 2; the lexemes of `session_pem` without a second label; token 3, multiline 5 | a disagreement with the documentation |
| `session_cross_line` | `line blank name key value` | the same |
| `stream_abort` | as `javascript`, 1 caller, 1 load, 2 chunks | the same |

The bounds are the smallest at which the cases happen. Six lexemes hold a block
with a body and text after it, a block inside a block, two units in one call,
or a name, an empty line and a value; three per chunk put a whole unit and the
start of the next in one call. The limits are set so that a token limit and
an accepted text of full length occur, and in `session_pem` a multiline limit
too: its seventh lexeme makes the limit of a block and its terminator (5 + 1)
less than the input limit, so a session that held a longer block would be seen. Three
overlapping spans already make the chains that a one-neighbour check could miss. The blocks
of `detector_grammars` are the parts of a credential, whole and broken, and what
may stand around them: three of them make a credential with a neighbour on each
side, four or five a credential behind a failed attempt. A window of five bytes
is smaller than the text and cuts inside a four-byte character. Two loads are
one failure and its retry; three chunks fill every place of a Web stream (with
the reader, in flight, queued).

Every module with state of its own has a `TypeOK` (`DetectTypeOK` in
`DetectorGrammar`). All of them are proved; only that of `IncrementalSession` is
part of a run too (name one in the .cfg to check it).

`CHECK_DEADLOCK FALSE` is set where the program ends: a process
(`command_line`), one call (`redaction`), one scan (`detector_grammars`), a
stream (`javascript`).

**Fairness.** `command_line` assumes `WF_vars(Step)`, the process keeps
running, and shows that every run ends with an exit code; a reader that never
returns is not considered, as the code has no timeout for it. `javascript`
assumes that a load settles and the microtasks behind it run (the event loop
gives no promise reaction up) and that the platform moves what can move. Nothing
is assumed of the host: it need not write, read, close, cancel or retry. So
`AbortWaitsForReaderOnly` says what holds without a reader: an abort of the
writer ends the session, or waits for ever for a chunk behind a piece that nobody
reads. That it ends the session in any case is what the documentation says and
`stream_abort` refutes, under the same fairness. `EveryCallSettles` and
`AbortWaitsForReaderOnly` are the liveness properties. No other component moves
on its own: a session does nothing unless it is called.

### Disagreements with the documentation

`incremental.rs` says of the session that "whole-input acceptance does not
depend on how the caller partitions it into chunks" (lines 10-11) and that a
result is identical to the whole-input reference at every partition (21-25).

1. `session_limits`: which limit applies to an open text is decided on the
   pieces so far. A long line counts against the token limit until its BEGIN
   has arrived; in one append it has arrived at once. (In `session_context`,
   whose texts contain no block, the statement holds.)
2. `session_cross_line`: the assignment scan takes whitespace after the
   operator, newlines included, whatever the name; the hint keeps a line open
   for listed names only. An unlisted `p:` before a line break and a listed
   assignment behind it are found differently.
3. `stream_abort`: `web-stream.ts` says (15-20) that a writer's `abort()` aborts
   the session before the stream is torn down. The platform calls the sink's
   `abort` when no write is in flight, and a write is in flight until the inner
   stream has taken its chunk, which it does when the readable side is read. If
   nobody reads, the session keeps its plaintext. A reader's `cancel()` and the
   adapter's own `abort()` do not wait.

Three more were met on the way and have no run of their own. The docstring of the
Python session's `append` calls every listed error terminal, `InvalidInputError`
among them; the argument is looked at first, and the session goes on, as a test
of the binding expects. The values a placeholder may not reproduce are those of
one `redact` call, and the session redacts per unit, so a default placeholder
that equals a credential elsewhere in the text is refused in one call and
accepted by the session. Two delimiters can
share the dashes between them: a whole scan gives them to the first, the tracker
may in a later piece give them to the second too. The passing session runs leave
out the lexemes behind 2 and the second of these (`name`, `dsn`), and
`TrackerMatchesScan` leaves out texts with shared dashes.

Smaller remarks, none of which a property is about:

- The IPv6 check takes the group written last for the dotted quad, so
  `1.2.3.5::` passes; the grammar says so too.
- A match that a boundary check drops is skipped whole:
  `x-authorization: Bearer ...` hides its token, `-xoxe.xoxb-...` the inner one.
  `NoCredentialMissed` excepts what lies in a longer shape that begins before.
- Of two `AccountKey` fields of one connection string the first is reported.
- `openai.rs:52` says the scan reproduces a regular expression whose second
  branch would be tried after the first; the code commits to the infix, and the
  conformance fixtures agree with the code.
- An unknown policy action is `INVALID_POLICY_ACTION` everywhere
  (`docs/troubleshooting.md:15`) but in the one-shot calls of WebAssembly, which
  report `POLICY_FAILURE`, as `callbacks.rs` documents. `SameErrorEitherWay`
  leaves this case out.
- A finding of Python or WebAssembly carries the core's byte range, so with
  another text it is these bytes that are replaced; Node converts its offsets
  with the text of the call. `RedactsWhatTheHostNamed` is stated accordingly.
- The adapters' `TextDecoder` drops a leading byte order mark, so offsets count
  from behind it.
- The WebAssembly module keeps a failed initialization for good, while the
  runtime above it lets a failed attempt be retried.
- The bearer hint is modelled, but a bearer token is found without its header,
  so a session that ignored that hint would pass the session runs.

## 4. Proofs

Everything below holds for all values of the constants that satisfy the
assumptions.

**IncrementalSessionProofs** assumes `ValidLimits` (what
`IncrementalLimits::new` accepts, with a lookaround of at least one byte),
`TextChunks`, and `DetectContract` (above). The lemma `LimitFacts` says what
`ValidLimits` gives: positive limits and the room for a construct and a
terminator.
`IInv` strengthens `TypeOK`, `ReportedInOrder` and `RetainedBounded` by what
ties the pieces of a session together: that `finalized_bytes` is the text
returned plus the text emitted in this call, that the finding
counter is the number of findings returned plus those of the call, that the
findings of the call follow those returned, and that what is finalized,
retained and left in the chunk adds up to what was taken in (all while the
session is open). None of the properties is
inductive without this: a unit's offsets start at `finalized_bytes` and its ids
at `finding_count`, which nothing in the properties relates to the caller's
text. One lemma per action shows that it preserves `IInv`. From it follow
`TypeCorrect`, `RetentionBound`, `FindingsInOrder` and, with a step-by-step
simulation, `ContractImplemented`.

`RetentionBound` includes that `BUFFER_LIMIT_EXCEEDED` is never reported:
`IncrementalLimits::new` reserves more room than the construct limits allow to
fill.

`PartitionInvariant` and `ReleasedIsSanitized` take two hypotheses of their own.
`DetectSettles` is what the hints are for: where a unit may be closed, detection
finds in the whole what it finds in the unit and, moved, in what follows.
`NothingReproduced` (for the first of the two only) says that no default
placeholder reads like a text of the alphabet. From the first, scan, numbering
and redaction split at a closed unit (`ScanSplits`, `RedactSplits`), and
`SettledInv` carries it through a session: the text taken in is a settled part,
then what is retained and the rest of the chunk; the counters stand where the
settled part ends; text and findings are what the pipeline yields for it. A
failed or aborted session returns less, which is why the invariant also names
the part that the caller holds.

`BuiltInSettles` discharges `DetectSettles` when `Detect` is the pipeline over
the detectors of `Detectors` (`DetectsBuiltIn`). What is accepted is
characterised first: the ranking is a strict total order on candidates, so
`SortedBy` lists them in one way, and greedy acceptance keeps a candidate
exactly if no better kept one overlaps it; a set has one such subset, and it
goes with shifts and with the union of candidates that lie apart
(`AcceptedSplits`). So it is enough that each detector's candidates in the whole
are those of the two parts. For keys: an empty stack at the cut makes the parser
behind it one that begins anew (`PrivateKeysSplit`). For bearer tokens and
connection strings: one lexeme is one match. For assignments: a closed unit ends
in a terminator that the hint found not to follow an open listed name, so the
scan of the unit comes to the cut, and no value crosses it (`ScanKept`,
`ScanCrosses`). Texts with a name the hint does not list (`name`) are excluded:
there the code fails (`session_cross_line`). `BuiltInReleased` and
`BuiltInPartition` are the two theorems without their hypotheses, for alphabets
without `name` and, the second, without `dsn`, whose password a default
placeholder may equal. Both exclusions are disagreements of section 3 and cannot
be dropped.

`RefusalStandsAtOnce` compares a session with one append of the same text.
`Walk` is that append as a function of the position; `WalkInv` says that the
session's buffer is the walk's, of every text that begins with what was taken
in. The one difference is the end of a chunk, where the session checks the limit
of a piece that is not a whole line: a limit once reached stays reached as the
line grows (`LimitStays`), unless a BEGIN changes which limit applies. So the
theorem speaks of alphabets without BEGIN, `MultilineRefusalStands` of the
multiline limit over every alphabet, and what is left is `session_limits`.

**DetectionProofs** is about the detectors and the pipeline behind them. On the
detectors it assumes that texts are sequences (`TextsAssumption`), that required
lengths are positive (`LengthsAssumption`) and that limits are natural numbers
(`ContextAssumption`, `BoundsAssumption`, the latter with an Azure key of at
least one character). The loop of `DetectorScan` is cut from its attempts by two
statements about one attempt on one text. `Sensible`: it resumes behind its
start and at most behind the end, and reports non-empty ranges of the text. It
is proved of every pass of all 23 detectors, and `DetectTypeCorrect` and
`Advances` follow. `Agrees`: an attempt that succeeds stands at a shape of the
grammar, resumes at its end and reports values of shapes that stand alone, and an
attempt at a shape that stands alone succeeds and reports all of its values.
Where it holds, `GrammarInv` is inductive: what is reported are values of shapes
(`SoundSoFar`), and every shape the loop has gone by was reported or begins
within a longer one (`CompleteSoFar`, which is where it matters that an attempt
resumes at the end of a shape and not behind it). `Agrees` is proved of the
passes of 21 detectors (`AgreedDetectors`): those of a prefix and a run in one
argument (`RunPass`), the fine-grained GitHub token, OpenAI keys, JWTs, bearer
tokens and `otpauth` addresses each in its own. Two ideas carry these: the place
where a greedy cursor stops is the only end a maximal run can have (`WholeRun`),
and a query is the concatenation of its parameters in one way only, so the
cursor that goes from `&` to `&` meets all of them. So `ReportsCredentials` and
`MissesNone` state `CandidatesAreCredentials` and `NoCredentialMissed` of these
detectors, on every text.

On the pipeline it assumes only `DetectorWorld`. The invariant is `TypeOK`,
`AcceptedDisjoint`, `DroppedForBetter` and: the ranked candidates lie in
the text and name the detector registered at their place (`Ranked`), where the phases stand (`Progress`), accepted
candidates go before pending ones (`Ahead`), what was numbered lies before what
is pending (`Numbering`), findings copy what was detected (`Ruled`). The two
lemmas that carry it are `LastStart` (a nonempty set of accepted spans
has one that starts last) and `NotBlocked` (if that one ends before the
candidate starts, all do, since they are disjoint): the justification of
`try_accept`'s binary search. From it follow `TypeCorrect`, `Disjointness`,
`Precedence`, `TextOrder` and `Kernel`. `Validated` says what validation leaves
behind, from the step that validates until the next scan, while the registry may
grow; with `IInv` it is inductive and gives `NothingOfABadScan`.

**RedactionProofs** assumes `HostWorld`, which gives the constants their types and nothing else. `IInv` adds to the
five properties: how far the call has come and what an error leaves behind
(`Progress`), that the loop goes up the sorted list (`Sweep`), that the cursor
lies between what was replaced and what is still to be (`CursorBetween`), and
that `placeholder_index` counts the replaced findings (`Counted`). The heart is
`NeighboursSuffice`: in a sorted list, if no two neighbours overlap, no two
findings do. It is the justification of comparing neighbours in
`ordered_and_disjoint`, and is proved by taking the closest overlapping pair. The
theorems are `TypeCorrect`, `RefusalIsComplete`, `NothingLost`,
`SecretsReplaced` and `PlaceholdersSafe`: every property of the run.

**DelimiterTrackerProofs** assumes that pieces are sequences of symbols
(`TrackerPieces`) and that `MAX_DELIMITER_LEN` is at least the length of every
delimiter (`LongestDelimiter`). `TInv` says that the lookbehind is the end of the
text and reaches back to the last character boundary within
`MAX_DELIMITER_LEN - 1` bytes, and contains `TrackerMatchesScan`. The argument
compares two scans by position (`ScansAgree`): if they meet the same delimiters
at the same positions from some position on, and agree there, they agree
behind it. The scan of the longer text agrees with that of the text up to its
end, and from there on with the scan of lookbehind and piece, since a delimiter
that ends in the piece begins in the lookbehind or behind it. `Lists` is what
`find_next_delimiter`, called again and again, finds: delimiters in order, and
all of them if none share dashes. It is proved downwards from the end of the
text. The theorems are `TypeCorrect`, `LookbehindSuffices` and
`TrackerIsRight`: both properties of the run.

**CommandLineProofs** assumes `Streams` (inputs and argument lists have their types, a
read may return a byte). `IInv` adds to the properties: which phases a run of each kind goes through
(`Phases`), what the session's state says of the text it holds
(`SessionHolds`), that a redaction that may still exit with 0 has its whole
text in the pipe or on the way to it (`RedactionWritten`), that a check has as
many sources and failures as it was asked for (`Accounted`), and that its
outcome is what it found (`Verdict`). `CheckedInFull` speaks of the ended
process; without `Accounted` and `Verdict` nothing connects the exit code to
the files. Two lemmas cut a read: `DecoderCuts`, at the last complete character,
and `SessionCuts`, at the last settled byte. The theorems are `TypeCorrect`,
`StreamConserved`, `ZeroIsAPromise`, `VerdictIsComplete`, `IdsCount` and
`OverHoldsNothing`: every property of the run but `Ends`.

**HostProofs** assumes `HostText` and `HostCallTexts` (texts are sequences of
characters, and the window of the buffer is positive). The invariant of a
session, `SInv`: only a session that accepts text runs a call or remembers an
offset (`Idle`); the index holds in order the places where a byte is not a
unit, from the floor on, and counts those below it, so that for every boundary
not pruned the units up to it can be told (`IndexCovers`); the floor trails the
end of the text by the window and never passes what is settled (`FloorFollows`);
a callback that failed has left the reason an adapter recorded
(`CallbackFails`). `Leading`, the number of offsets below a limit, is the
binary search of the indexes: what `Joined` and `Dropped` prove of it is that
appending and pruning keep it exact. The theorems are `OffsetsAreExact`,
`PruningIsInTime`, `IndexStaysBounded` and `SameError`. For the one-shot calls
`CInv` says that what the host holds are the findings of the scan in some order,
with the ranges of its own string (`HeldAreFound`), and that a result is that of
redacting with what it holds (`ResultIsHeld`). From it follow `FindingsRedact`
(a scan of the model has up to two findings) and `NamedIsRedacted`, and with
`SInv` `TypeCorrect`.

**StreamAdaptersProofs** assumes `RuntimeWorld` (a load may be tried). For the
runtime, `RuntimeInv`: the one attempt that has not settled is the last and the
pending one, what has loaded is the binding, and a caller waits for an attempt
begun after the failure it had seen. For the streams, `StreamInv`: what the
state of one side tells of the other and of the session (`Sides`), no chunk is
lost on its way to an open session (`ChunksCounted`), the pieces on their way
out take up where the reader is and end where the session is
(`PiecesInOrder`), and the inner stream is closed by a finalize that succeeded
and by nothing else (`ClosedComplete`). The theorems are `TypeCorrect`,
`OneLoad`, `FailureForgotten`, `EndIsComplete` and `OverMeansOver`: every safety
property of the run.

**SequenceLemmas** are the facts several proofs cite. `LeastElement` stands in
for induction: where a property of all positions is to be shown, the least
position without it is taken, and it is not the least. Recursive functions are
written `f[n]` and shown to exist that way too, once each.

Every inductive invariant was checked by TLC on the instance of its component's
run before it was proved.

Model-checked only:

- `CandidatesAreCredentials` and `NoCredentialMissed` of `connection_string` and
  `generic_token`, whose grammars speak of expansions of IPv6 addresses, encoded
  user names, normalised names and the parity of quotes; `detector_grammars`
  covers them on its texts.
- `Ends`, `EveryCallSettles` and `AbortWaitsForReaderOnly` are liveness under
  fairness.
- The three disagreements, which are refuted and not proved.

## 5. Not modelled

Conformance fixtures, benchmarks, examples, scripts and workflows have no state
of the program. Left out of the components above: detectors written in a host
language and registered by it; a call into a session from that session's own
callback; `DETECTOR_FAILURE` and `INVALID_CANDIDATE` of built-in detectors; the
entropy computation and the true lengths of tokens; error wording, safe
formatting and rendering of reports; accessors of findings. Limits that
JavaScript names in code units are passed on as bytes, as its documentation
says, and are bytes here.

The default policy appears for the finding types of the session model only, and
the lexeme-level detectors of the session are a selection: `detector_grammars`
checks the detectors, `scan` what the pipeline makes of whatever they emit, and
the session runs those whose values may lie on another line than their names.

## 6. Plan

What a further proof would add is `Agrees` for the four passes of
`connection_string` and `generic_token` (`PassesAre` lists them); `GrammarInv`
and the theorems behind it need no change for that.
