--------------------------- MODULE StreamAdapters ---------------------------
(***************************************************************************)
(* web-stream.ts and node-stream.ts: the same sanitizer between the        *)
(* writable and the readable side of a Web TransformStream, whose two      *)
(* sides are wrapped in streams of their own, or of a Node Transform.  The *)
(* platform's streams are modelled as far as the adapters rely on them:    *)
(* one chunk in flight, a transform that waits until the readable side is  *)
(* read, a flush that does not, an abort of the writable side that waits   *)
(* for the chunk in flight.                                                *)
(***************************************************************************)
EXTENDS StreamSanitizer

CONSTANT MaxChunks           \* bound on what is written to a stream

VARIABLES
    kind,                    \* "web" or "node"
    written, queue,          \* chunks written, and those not yet handed to the sink
    in_flight,               \* Web: the chunk the inner stream has not transformed
    writable, readable,      \* the sides the host has
    inner, inner_queue,      \* Web: the TransformStream inside; Node: its ended readable side
    reading,                 \* Web: a pull waits for the inner stream
    out, received            \* pieces to be read, and how far the host has read

stream_vars == <<written, queue, in_flight, writable, readable, inner, inner_queue, reading,
                 out, received>>
vars == <<runtime_vars, sanitizer_vars, kind, stream_vars>>

Init ==
    /\ RuntimeInit /\ SanitizerInit
    /\ kind \in {"web", "node"}
    /\ written = 0 /\ queue = <<>> /\ in_flight = "None"
    /\ writable = "unopened" /\ readable = "unopened"
    /\ inner = "open" /\ inner_queue = <<>> /\ reading = FALSE
    /\ out = <<>> /\ received = 0

\* createWebStreamSanitizer, createNodeStreamSanitizer
Open ==
    /\ open_session
    /\ writable' = "writable" /\ readable' = "readable"
    /\ UNCHANGED <<runtime_vars, kind, mid, appended, released, written, queue, in_flight, inner,
                   inner_queue, reading, out, received>>

piece == [from |-> released, to |-> released']
push(q) == IF released' > released THEN Append(q, piece) ELSE q

---------------------------------------------------------------------------
(* The host, at either side. *)

Write(chunk) ==
    /\ writable = "writable" /\ written < MaxChunks
    /\ kind = "node" => chunk # "not_bytes"          \* refused by the platform
    /\ written' = written + 1 /\ queue' = Append(queue, chunk)
    /\ UNCHANGED <<runtime_vars, sanitizer_vars, kind, in_flight, writable, readable, inner,
                   inner_queue, reading, out, received>>

Close ==
    /\ writable = "writable"
    /\ writable' = "closing"
    /\ UNCHANGED <<runtime_vars, sanitizer_vars, kind, written, queue, in_flight, readable, inner,
                   inner_queue, reading, out, received>>

Read ==
    /\ readable = "readable" /\ out # <<>>
    /\ received' = IF Head(out).from = received THEN Head(out).to ELSE -1
    /\ out' = Tail(out)
    /\ UNCHANGED <<runtime_vars, sanitizer_vars, kind, written, queue, in_flight, writable,
                   readable, inner, inner_queue, reading>>

\* WebStreamSanitizer.abort(): the session only.
AbortSession ==
    /\ kind = "web" /\ session = "accepting"
    /\ session' = aborted
    /\ UNCHANGED <<runtime_vars, mid, appended, released, kind, stream_vars>>

---------------------------------------------------------------------------
(* Web. *)

web_unchanged == UNCHANGED <<runtime_vars, kind, written>>

sink_write ==
    /\ kind = "web" /\ queue # <<>> /\ in_flight = "None"
    /\ writable \in {"writable", "closing"}
    /\ in_flight' = Head(queue) /\ queue' = Tail(queue)
    /\ web_unchanged
    /\ UNCHANGED <<sanitizer_vars, writable, readable, inner, inner_queue, reading, out, received>>

transform ==
    /\ kind = "web" /\ in_flight # "None" /\ inner = "open" /\ reading
    /\ in_flight' = "None"
    /\ \/ /\ AppendOk(in_flight)
          /\ out' = push(out)
          /\ reading' = (out' = out)
          /\ UNCHANGED <<inner, writable, readable>>
       \/ /\ AppendThrows(in_flight)
          /\ inner' = "errored" /\ writable' = "errored" /\ readable' = "errored"
          /\ out' = <<>> /\ reading' = FALSE
    /\ web_unchanged
    /\ UNCHANGED <<queue, inner_queue, received>>

\* The inner stream has been errored from its readable side.
sink_rejects ==
    /\ kind = "web" /\ inner = "errored" /\ writable \in {"writable", "closing"}
    /\ in_flight # "None" \/ (queue = <<>> /\ writable = "closing")
    /\ in_flight' = "None" /\ writable' = "errored"
    /\ web_unchanged
    /\ UNCHANGED <<sanitizer_vars, queue, readable, inner, inner_queue, reading, out, received>>

\* Mutant of flush: an error of finalize is swallowed.
flush_swallows ==
    /\ kind = "web" /\ writable = "closing" /\ queue = <<>> /\ in_flight = "None" /\ inner = "open"
    /\ \/ FinalizeOk /\ inner_queue' = push(inner_queue)
       \/ FinalizeThrows /\ UNCHANGED inner_queue
    /\ inner' = "closed" /\ writable' = "closed"
    /\ web_unchanged
    /\ UNCHANGED <<queue, in_flight, readable, reading, out, received>>

flush ==
    /\ kind = "web" /\ writable = "closing" /\ queue = <<>> /\ in_flight = "None" /\ inner = "open"
    /\ \/ /\ FinalizeOk
          /\ inner_queue' = push(inner_queue)
          /\ inner' = "closed" /\ writable' = "closed"
       \/ /\ FinalizeThrows
          /\ inner_queue' = <<>>
          /\ inner' = "errored" /\ writable' = "errored"
    /\ web_unchanged
    /\ UNCHANGED <<queue, in_flight, readable, reading, out, received>>

pull ==
    /\ kind = "web" /\ readable = "readable" /\ out = <<>> /\ ~reading
    /\ reading' = TRUE
    /\ web_unchanged
    /\ UNCHANGED <<sanitizer_vars, queue, in_flight, writable, readable, inner, inner_queue, out,
                   received>>

\* source.read() settles: a piece the flush left, the end, or the error.
pulled ==
    /\ kind = "web" /\ reading
    /\ \/ /\ inner_queue # <<>>
          /\ out' = Append(out, Head(inner_queue)) /\ inner_queue' = Tail(inner_queue)
          /\ UNCHANGED readable
       \/ /\ inner_queue = <<>> /\ inner # "open"
          /\ readable' = inner
          /\ UNCHANGED <<out, inner_queue>>
    /\ reading' = FALSE
    /\ web_unchanged
    /\ UNCHANGED <<sanitizer_vars, queue, in_flight, writable, inner, received>>

torn == IF inner = "open" THEN "errored" ELSE inner

\* Mutant of cancel: the session is left to the platform.
cancel_source_only ==
    /\ kind = "web" /\ readable = "readable"
    /\ readable' = "cancelled"
    /\ inner' = torn /\ inner_queue' = <<>> /\ out' = <<>> /\ reading' = FALSE
    /\ web_unchanged
    /\ UNCHANGED <<sanitizer_vars, queue, in_flight, writable, received>>

cancel ==
    /\ kind = "web" /\ readable = "readable"
    /\ session' = aborted
    /\ readable' = "cancelled"
    /\ inner' = torn /\ inner_queue' = <<>> /\ out' = <<>> /\ reading' = FALSE
    /\ web_unchanged
    /\ UNCHANGED <<mid, appended, released, queue, in_flight, writable, received>>

\* A writer's abort(): the sink's comes when no chunk is in flight.
abort_requested ==
    /\ kind = "web" /\ writable \in {"writable", "closing"}
    /\ writable' = "aborting" /\ queue' = <<>>
    /\ web_unchanged
    /\ UNCHANGED <<sanitizer_vars, in_flight, readable, inner, inner_queue, reading, out, received>>

\* Mutant of abort: the session is left to the platform.
abort_sink_only ==
    /\ kind = "web" /\ writable = "aborting"
    /\ in_flight = "None" \/ inner = "errored"
    /\ in_flight' = "None" /\ writable' = "errored" /\ inner' = torn
    /\ web_unchanged
    /\ UNCHANGED <<sanitizer_vars, queue, readable, inner_queue, reading, out, received>>

abort ==
    /\ kind = "web" /\ writable = "aborting"
    /\ in_flight = "None" \/ inner = "errored"
    /\ session' = aborted
    /\ in_flight' = "None" /\ writable' = "errored" /\ inner' = torn
    /\ web_unchanged
    /\ UNCHANGED <<mid, appended, released, queue, readable, inner_queue, reading, out, received>>

---------------------------------------------------------------------------
(* Node. *)

node_unchanged == UNCHANGED <<runtime_vars, kind, written, in_flight, inner_queue, reading>>

destroyed == writable' = "errored" /\ readable' = "errored" /\ queue' = <<>> /\ out' = <<>>

\* One piece fills the readable side; _transform's callback waits until it is read.
_transform ==
    /\ kind = "node" /\ queue # <<>> /\ out = <<>> /\ writable \in {"writable", "closing"}
    /\ \/ /\ AppendOk(Head(queue))
          /\ queue' = Tail(queue) /\ out' = push(out)
          /\ UNCHANGED <<writable, readable>>
       \/ AppendThrows(Head(queue)) /\ destroyed
    /\ node_unchanged
    /\ UNCHANGED <<inner, received>>

_flush ==
    /\ kind = "node" /\ writable = "closing" /\ queue = <<>>
    /\ \/ /\ FinalizeOk
          /\ out' = push(out)
          /\ inner' = "closed" /\ writable' = "closed"
          /\ UNCHANGED <<readable, queue>>
       \/ FinalizeThrows /\ destroyed /\ UNCHANGED inner
    /\ node_unchanged
    /\ UNCHANGED received

end_event ==
    /\ kind = "node" /\ readable = "readable" /\ inner = "closed" /\ out = <<>>
    /\ readable' = "closed"
    /\ node_unchanged
    /\ UNCHANGED <<sanitizer_vars, queue, writable, inner, out, received>>

\* destroy(), a failed pipeline, or an error downstream.
_destroy ==
    /\ kind = "node" /\ readable = "readable"
    /\ session' = aborted
    /\ destroyed
    /\ node_unchanged
    /\ UNCHANGED <<mid, appended, released, inner, received>>

---------------------------------------------------------------------------

Platform ==
    \/ sink_write \/ transform \/ sink_rejects \/ flush \/ pull \/ pulled \/ abort
    \/ _transform \/ _flush \/ end_event

OpenOrUse ==
    \/ Open
    \/ \E chunk \in Chunk : Write(chunk)
    \/ Close \/ Read \/ AbortSession \/ cancel \/ abort_requested \/ _destroy
    \/ Platform

\* Bound: nobody calls initialize() once the stream is open, when it would resolve at once.
Next ==
    \/ \E c \in Callers : session = "none" /\ Initialize(c) /\ UNCHANGED <<sanitizer_vars, kind, stream_vars>>
    \/ \E n \in 1 .. MaxAttempts : Settle(n) /\ UNCHANGED <<sanitizer_vars, kind, stream_vars>>
    \/ \E c \in Callers : CallerResumes(c) /\ UNCHANGED <<sanitizer_vars, kind, stream_vars>>
    \/ OpenOrUse

\* The loader's promise settles and the microtask queue runs, and the platform moves what it can.
\* The host need not do anything, read least of all.
Fairness ==
    /\ WF_vars(\E n \in 1 .. MaxAttempts :
                  Settle(n) /\ UNCHANGED <<sanitizer_vars, kind, stream_vars>>)
    /\ \A c \in Callers :
          WF_vars(CallerResumes(c) /\ UNCHANGED <<sanitizer_vars, kind, stream_vars>>)
    /\ WF_vars(Platform)

Spec == Init /\ [][Next]_vars /\ Fairness

---------------------------------------------------------------------------
(* Properties. *)

TypeOK ==
    /\ RuntimeTypeOK
    /\ session \in {"none", "accepting", "finalized", "aborted", "failed"}
    /\ released \in 0 .. appended /\ appended \in 0 .. written
    /\ in_flight \in Chunk \cup {"None"}
    /\ writable \in {"unopened", "writable", "closing", "aborting", "closed", "errored"}
    /\ readable \in {"unopened", "readable", "closed", "errored", "cancelled"}
    /\ Len(out) <= 2 /\ Len(inner_queue) <= 1

\* A reader that is told of the end has read the whole sanitized text, in order: the session was
\* finalized, after every chunk written, at the end of a character.  A stream that was cut short
\* never looks complete.
EndMeansComplete ==
    readable = "closed" =>
        /\ session = "finalized" /\ ~mid
        /\ appended = written /\ received = appended

\* "Every termination that is not a normal finalization aborts the session": once either side is
\* closed, errored or cancelled, no session still holds plaintext.
NothingHeldOnceOver ==
    writable \in {"closed", "errored"} \/ readable \in {"closed", "errored", "cancelled"} =>
        session # "accepting"

\* "A reader's cancel() and a writer's abort() ... abort the session first, discarding the plaintext
\* it was still deciding about" (web-stream.ts:15-20).
AbortTakesEffect == writable = "aborting" ~> session # "accepting"

\* A chunk in flight that the inner stream transforms only after the piece before it is read.
behind_unread == in_flight # "None" /\ out # <<>>

\* A writer's abort ends the session, or waits for ever for a chunk that waits for a piece nobody
\* reads.  Nothing else holds it up: with a reader that goes on reading, or cancels, every abort
\* takes effect.
AbortWaitsForReaderOnly ==
    writable = "aborting" ~> (session # "accepting" \/ []behind_unread)
=============================================================================
