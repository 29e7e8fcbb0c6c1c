------------------------ MODULE StreamAdaptersProofs ------------------------
(***************************************************************************)
(* The JavaScript runtime and the two stream adapters, for any number of   *)
(* callers, loads and chunks.                                              *)
(***************************************************************************)
EXTENDS StreamAdapters, SequenceTheorems, TLAPS

---------------------------------------------------------------------------
(* The inductive invariant: the runtime. *)

RuntimeShape ==
    /\ RuntimeTypeOK
    /\ callers \in [Callers -> [state : {"idle", "waiting", "resolved", "rejected"},
                                on : Nat, after : Nat]]
    /\ known_failed \in 0 .. Len(attempts)

\* The attempt that has not settled is the last one and the pending one; what has loaded is the
\* binding, and is the last one too.
OneAtATime ==
    /\ pending \in {0, Len(attempts)} /\ binding \in {0, Len(attempts)}
    /\ \A n \in DOMAIN attempts :
          /\ n = pending <=> attempts[n] \in {"loading", "loaded", "failed"}
          /\ n = binding <=> attempts[n] \in {"loaded", "fulfilled"}
    /\ known_failed # 0 => attempts[known_failed] = "rejected"

Calls ==
    \A c \in Callers :
        /\ callers[c].state = "waiting" =>
              callers[c].on \in DOMAIN attempts /\ callers[c].after < callers[c].on
        /\ callers[c].state = "resolved" => binding # 0

RuntimeInv == RuntimeShape /\ OneAtATime /\ Calls

---------------------------------------------------------------------------
(* The inductive invariant: the streams. *)

Piece == [from : Nat, to : Nat]
StreamShape ==
    /\ TypeOK
    /\ kind \in {"web", "node"} /\ mid \in BOOLEAN /\ reading \in BOOLEAN
    /\ written \in Nat /\ appended \in Nat /\ released \in Nat /\ received \in Int
    /\ queue \in Seq(Chunk) /\ inner \in {"open", "closed", "errored"}
    /\ out \in Seq(Piece) /\ inner_queue \in Seq(Piece)

\* A stream is opened once, and nothing has happened to it before.
Unopened ==
    /\ session = "none" <=> writable = "unopened"
    /\ readable = "unopened" <=> writable = "unopened"
    /\ writable = "unopened" =>
          /\ ~mid /\ appended = 0 /\ released = 0 /\ written = 0 /\ received = 0
          /\ queue = <<>> /\ in_flight = "None" /\ inner = "open"

\* What a side tells of the other one and of the session.
Sides ==
    /\ kind = "node" => in_flight = "None" /\ inner_queue = <<>> /\ ~reading
    /\ inner = "open" => inner_queue = <<>>
    /\ reading => out = <<>> /\ readable = "readable"
    /\ out # <<>> => readable = "readable"
    /\ kind = "web" \/ inner = "open" => Len(out) <= 1
    /\ inner # "open" => session # "accepting"
    /\ inner = "closed" => writable \in {"closed", "errored"}

\* No chunk is lost between the host and the session of an open stream.
InTransit == Len(queue) + (IF in_flight = "None" THEN 0 ELSE 1)
ChunksCounted ==
    /\ appended + InTransit <= written
    /\ session = "accepting" /\ writable \in {"writable", "closing"} =>
          appended + InTransit = written

\* The pieces on their way take up where the reader is and end where the session is.
Chain(pieces, from, to) ==
    /\ \A k \in 1 .. Len(pieces) : pieces[k].from = IF k = 1 THEN from ELSE pieces[k - 1].to
    /\ to = IF pieces = <<>> THEN from ELSE pieces[Len(pieces)].to
Unread == out \o inner_queue
PiecesInOrder ==
    readable \in {"unopened", "readable", "closed"} => Chain(Unread, received, released)

\* The inner stream is closed by a finalize that succeeded, and only by it; the reader is told of
\* the end behind the last piece.
ClosedComplete ==
    /\ inner = "closed" =>
          session = "finalized" /\ ~mid /\ appended = written /\ released = appended
    /\ readable = "closed" => inner = "closed" /\ Unread = <<>>

StreamInv ==
    /\ StreamShape /\ Unopened /\ Sides /\ ChunksCounted /\ PiecesInOrder /\ ClosedComplete
    /\ NothingHeldOnceOver

IInv == RuntimeInv /\ StreamInv

---------------------------------------------------------------------------
(* The runtime. *)

LEMMA RuntimeInitHolds == RuntimeInit => RuntimeInv
  BY DEF RuntimeInit, RuntimeInv, RuntimeShape, RuntimeTypeOK, OneAtATime, Calls, Idle

\* initialize() of a caller, in its three cases.
LEMMA InitializePreserves ==
    ASSUME RuntimeInv, NEW c \in Callers, Initialize(c)
    PROVE  RuntimeInv'
  <1> USE DEF RuntimeInv
  <1>1. CASE InitializeDone(c)
    BY <1>1 DEF InitializeDone, RuntimeShape, RuntimeTypeOK, OneAtATime, Calls
  <1>2. CASE InitializeJoins(c)
    <2>1. RuntimeShape' /\ OneAtATime'
      BY <1>2 DEF InitializeJoins, waits_on, RuntimeShape, RuntimeTypeOK, OneAtATime
    <2>2. pending \in DOMAIN attempts /\ known_failed < pending
      BY <1>2 DEF InitializeJoins, RuntimeShape, RuntimeTypeOK, OneAtATime
    <2>3. Calls'
      BY <1>2, <2>2 DEF InitializeJoins, waits_on, RuntimeShape, Calls
    <2> QED BY <2>1, <2>3
  <1>3. CASE InitializeLoads(c)
    <2> DEFINE n == Len(attempts)
    <2>1. /\ n \in Nat /\ attempts' = Append(attempts, "loading") /\ Len(attempts') = n + 1
          /\ \A k \in 1 .. n : attempts'[k] = attempts[k]
          /\ attempts'[n + 1] = "loading" /\ pending' = n + 1 /\ binding' = 0
          /\ binding = 0 /\ pending = 0
          /\ known_failed' = known_failed /\ known_failed \in 0 .. n
          /\ attempts' \in Seq({"loading", "loaded", "failed", "fulfilled", "rejected"})
      BY <1>3 DEF InitializeLoads, RuntimeShape, RuntimeTypeOK
    <2>2. callers' = [callers EXCEPT ![c] = [state |-> "waiting", on |-> n + 1,
                                             after |-> known_failed]]
      BY <1>3 DEF InitializeLoads, waits_on
    <2>3. RuntimeShape'
      BY <2>1, <2>2 DEF RuntimeShape, RuntimeTypeOK
    <2>4. OneAtATime'
      <3> SUFFICES ASSUME NEW k \in 1 .. n + 1
                   PROVE  /\ k = n + 1 <=> attempts'[k] \in {"loading", "loaded", "failed"}
                          /\ k = 0 <=> attempts'[k] \in {"loaded", "fulfilled"}
        BY <2>1 DEF OneAtATime
      <3>1. CASE k \in 1 .. n
        BY <2>1, <3>1 DEF OneAtATime
      <3>2. CASE k = n + 1
        BY <2>1, <3>2
      <3> QED BY <2>1, <3>1, <3>2
    <2>5. Calls'
      BY <2>1, <2>2 DEF Calls, RuntimeShape
    <2> QED BY <2>3, <2>4, <2>5
  <1> QED BY <1>1, <1>2, <1>3 DEF Initialize

\* A promise reaction of the load.
LEMMA SettlePreserves ==
    ASSUME RuntimeInv, NEW n \in 1 .. MaxAttempts, Settle(n)
    PROVE  RuntimeInv'
  <1> USE DEF RuntimeInv
  <1>1. CASE LoadSucceeds(n)
    BY <1>1 DEF LoadSucceeds, RuntimeShape, RuntimeTypeOK, OneAtATime, Calls
  <1>2. CASE LoadFails(n)
    BY <1>2 DEF LoadFails, RuntimeShape, RuntimeTypeOK, OneAtATime, Calls
  <1>3. CASE Finally(n)
    BY <1>3 DEF Finally, Finished, RuntimeShape, RuntimeTypeOK, OneAtATime, Calls
  <1> QED BY <1>1, <1>2, <1>3 DEF Settle

LEMMA CallerResumesPreserves ==
    ASSUME RuntimeInv, NEW c \in Callers, CallerResumes(c)
    PROVE  RuntimeInv'
  <1> USE DEF RuntimeInv
  <1>1. callers[c].on \in DOMAIN attempts
    BY DEF CallerResumes, Calls
  <1>2. RuntimeShape' /\ OneAtATime'
    <2>1. /\ known_failed' \in {known_failed, callers[c].on}
          /\ known_failed' # known_failed => attempts[known_failed'] = "rejected"
          /\ UNCHANGED <<binding, pending, attempts>>
      BY DEF CallerResumes
    <2>2. \E state \in {"resolved", "rejected"} : callers' = [callers EXCEPT ![c].state = state]
      BY DEF CallerResumes
    <2>3. /\ callers' \in [Callers -> [state : {"idle", "waiting", "resolved", "rejected"},
                                       on : Nat, after : Nat]]
          /\ \A d \in Callers : callers'[d].state \in {"idle", "waiting", "resolved", "rejected"}
      BY <2>2 DEF RuntimeShape
    <2>4. known_failed' \in 0 .. Len(attempts)
      BY <1>1, <2>1 DEF RuntimeShape, RuntimeTypeOK
    <2>5. RuntimeShape'
      BY <2>1, <2>3, <2>4 DEF RuntimeShape, RuntimeTypeOK
    <2>6. known_failed' # 0 => attempts[known_failed'] = "rejected"
      BY <2>1 DEF OneAtATime
    <2> QED BY <2>1, <2>5, <2>6 DEF OneAtATime
  <1>3. Calls'
    BY <1>1 DEF CallerResumes, RuntimeShape, OneAtATime, Calls
  <1> QED BY <1>2, <1>3

LEMMA RuntimeUnchanged == RuntimeInv /\ UNCHANGED runtime_vars => RuntimeInv'
  BY DEF runtime_vars, RuntimeInv, RuntimeShape, RuntimeTypeOK, OneAtATime, Calls

---------------------------------------------------------------------------
(* Chains of pieces. *)

\* A piece that takes up where the chain ends makes it longer.
LEMMA ChainPush ==
    ASSUME NEW q \in Seq(Piece), NEW a, NEW b, NEW c, Chain(q, a, b)
    PROVE  Chain(Append(q, [from |-> b, to |-> c]), a, c)
  <1> DEFINE r == [from |-> b, to |-> c]
             n == Len(q)
  <1>1. /\ n \in Nat /\ Len(Append(q, r)) = n + 1 /\ Append(q, r)[n + 1] = r
        /\ \A k \in 1 .. n : Append(q, r)[k] = q[k]
        /\ q = <<>> <=> n = 0
        /\ Append(q, r) # <<>>
    OBVIOUS
  <1>2. ASSUME NEW k \in 1 .. n + 1
        PROVE  Append(q, r)[k].from = IF k = 1 THEN a ELSE Append(q, r)[k - 1].to
    <2>1. CASE k \in 1 .. n
      BY <1>1, <2>1 DEF Chain
    <2>2. CASE k = n + 1
      BY <1>1, <2>2 DEF Chain
    <2> QED BY <1>1, <2>1, <2>2
  <1> QED BY <1>1, <1>2 DEF Chain

\* What is behind the first piece of a chain is a chain from where that piece ends.
LEMMA ChainPop ==
    ASSUME NEW q \in Seq(Piece), q # <<>>, NEW a, NEW b, Chain(q, a, b)
    PROVE  Head(q).from = a /\ Chain(Tail(q), Head(q).to, b)
  <1> DEFINE n == Len(q)
  <1>1. /\ n \in Nat /\ n >= 1 /\ Head(q) = q[1] /\ Len(Tail(q)) = n - 1
        /\ \A k \in 1 .. n - 1 : Tail(q)[k] = q[k + 1]
        /\ Tail(q) = <<>> <=> n = 1
    <2>1. n \in Nat /\ n >= 1 /\ Head(q) = q[1]
      OBVIOUS
    <2>2. /\ Len(Tail(q)) = n - 1 /\ Tail(q) \in Seq(Piece)
          /\ \A k \in 1 .. n - 1 : Tail(q)[k] = q[k + 1]
      BY HeadTailProperties
    <2>3. \A t \in Seq(Piece) : t = <<>> <=> Len(t) = 0
      OBVIOUS
    <2>4. Tail(q) = <<>> <=> n - 1 = 0
      BY <2>2, <2>3
    <2> QED BY <2>1, <2>2, <2>4
  <1>2. ASSUME NEW k \in 1 .. n - 1
        PROVE  Tail(q)[k].from = IF k = 1 THEN Head(q).to ELSE Tail(q)[k - 1].to
    <2>1. q[k + 1].from = q[k].to
      BY <1>1 DEF Chain
    <2>2. CASE k = 1
      BY <1>1, <2>1, <2>2
    <2>3. CASE k # 1
      BY <1>1, <2>1, <2>3
    <2> QED BY <2>2, <2>3
  <1>3. b = IF n = 1 THEN q[1].to ELSE Tail(q)[n - 1].to
    BY <1>1 DEF Chain
  <1> QED BY <1>1, <1>2, <1>3 DEF Chain

\* What the session returns goes to the end of the chain, whichever queue it is pushed to.
LEMMA PushPreserves ==
    ASSUME StreamShape, Chain(Unread, received, released),
           released' \in Nat, received' = received, Unread' = push(Unread),
           released' >= released
    PROVE  Chain(Unread, received, released)'
  <1>1. Unread \in Seq(Piece)
    BY DEF StreamShape, Unread
  <1>2. CASE released' > released
    <2>1. Unread' = Append(Unread, [from |-> released, to |-> released'])
      BY <1>2 DEF push, piece
    <2>2. Chain(Append(Unread, [from |-> released, to |-> released']), received, released')
      BY <1>1, ChainPush
    <2> QED BY <2>1, <2>2 DEF Chain
  <1>3. CASE ~(released' > released)
    <2>1. Unread' = Unread /\ released' = released
      BY <1>3 DEF push, StreamShape
    <2> QED BY <2>1 DEF Chain
  <1> QED BY <1>2, <1>3

---------------------------------------------------------------------------
(* The streams: one lemma per action. *)

LEMMA StreamInitHolds == Init => StreamInv
  <1> SUFFICES ASSUME Init PROVE StreamInv
    OBVIOUS
  <1> USE DEF Init, SanitizerInit
  <1>1. StreamShape
    <2>1. RuntimeTypeOK
      BY RuntimeInitHolds DEF RuntimeInv, RuntimeShape
    <2>2. TypeOK
      BY <2>1 DEF TypeOK
    <2>3. <<>> \in Seq(Chunk) /\ <<>> \in Seq(Piece)
      OBVIOUS
    <2>4. kind \in {"web", "node"} /\ mid \in BOOLEAN /\ reading \in BOOLEAN
      OBVIOUS
    <2>5. /\ written \in Nat /\ appended \in Nat /\ released \in Nat /\ received \in Int
          /\ queue \in Seq(Chunk) /\ inner \in {"open", "closed", "errored"}
          /\ out \in Seq(Piece) /\ inner_queue \in Seq(Piece)
      BY <2>3
    <2> QED BY <2>2, <2>4, <2>5 DEF StreamShape
  <1>2. Unread = <<>>
    BY DEF Unread
  <1>3. PiecesInOrder
    BY <1>2 DEF PiecesInOrder, Chain
  <1> QED BY <1>1, <1>2, <1>3 DEF StreamInv, Unopened, Sides, ChunksCounted, InTransit,
             ClosedComplete, NothingHeldOnceOver

\* A step that moves no piece.
LEMMA StillPieces ==
    ASSUME PiecesInOrder, UNCHANGED <<out, inner_queue, received, released>>,
           readable \in {"unopened", "readable", "closed"}
    PROVE  PiecesInOrder' /\ Unread' = Unread
  BY DEF PiecesInOrder, Unread, Chain

LEMMA OpenPreserves ==
    ASSUME StreamInv, RuntimeTypeOK', Open
    PROVE  StreamInv'
  <1> USE DEF StreamInv, Open, open_session
  <1>1. writable = "unopened" /\ readable = "unopened"
    BY DEF Unopened
  <1>2. StreamShape'
    BY DEF StreamShape, TypeOK
  <1>3. PiecesInOrder' /\ Unread' = Unread
    BY <1>1, StillPieces
  <1> QED BY <1>1, <1>2, <1>3 DEF Unopened, Sides, ChunksCounted, InTransit, ClosedComplete,
             NothingHeldOnceOver

LEMMA WritePreserves ==
    ASSUME StreamInv, RuntimeTypeOK', NEW chunk \in Chunk, Write(chunk)
    PROVE  StreamInv'
  <1> USE DEF StreamInv, Write, sanitizer_vars
  <1>1. /\ queue \in Seq(Chunk) /\ queue' = Append(queue, chunk) /\ written' = written + 1
        /\ writable = "writable" /\ writable' = "writable" /\ readable' = readable
    BY DEF StreamShape
  <1>2. queue' \in Seq(Chunk) /\ Len(queue') = Len(queue) + 1 /\ Len(queue) \in Nat
    BY <1>1
  <1>3. StreamShape'
    BY <1>1, <1>2 DEF StreamShape, TypeOK
  <1>4. PiecesInOrder' /\ Unread' = Unread
    BY DEF PiecesInOrder, Unread, Chain
  <1>5. ChunksCounted'
    <2>1. appended \in Nat /\ written \in Nat /\ UNCHANGED <<appended, session, in_flight>>
      BY DEF StreamShape
    <2>2. InTransit \in Nat /\ InTransit' = InTransit + 1
      BY <1>2, <2>1 DEF InTransit
    <2> QED BY <1>1, <2>1, <2>2 DEF ChunksCounted
  <1> QED BY <1>1, <1>3, <1>4, <1>5 DEF Unopened, Sides, ClosedComplete, NothingHeldOnceOver

LEMMA ClosePreserves ==
    ASSUME StreamInv, RuntimeTypeOK', Close
    PROVE  StreamInv'
  <1> USE DEF StreamInv, Close, sanitizer_vars
  <1>1. StreamShape'
    BY DEF StreamShape, TypeOK
  <1>2. PiecesInOrder' /\ Unread' = Unread
    BY DEF PiecesInOrder, Unread, Chain
  <1> QED BY <1>1, <1>2 DEF Unopened, Sides, ChunksCounted, InTransit, ClosedComplete,
             NothingHeldOnceOver

LEMMA ReadPreserves ==
    ASSUME StreamInv, RuntimeTypeOK', Read
    PROVE  StreamInv'
  <1> USE DEF StreamInv, Read, sanitizer_vars
  <1>1. /\ out \in Seq(Piece) /\ out # <<>> /\ out' = Tail(out) /\ inner_queue' = inner_queue
        /\ inner_queue \in Seq(Piece)
    BY DEF StreamShape
  <1>2. /\ Head(out) \in Piece /\ Tail(out) \in Seq(Piece) /\ Len(Tail(out)) = Len(out) - 1
        /\ Len(out) \in Nat
    BY <1>1, HeadTailProperties
  <1>3. Unread \in Seq(Piece) /\ Unread # <<>> /\ Head(Unread) = Head(out) /\ Unread' = Tail(Unread)
    BY <1>1, <1>2 DEF Unread
  <1>4. Chain(Unread, received, released)
    BY DEF PiecesInOrder
  <1>5. received' = Head(out).to /\ Chain(Unread', received', released')
    <2>1. Head(Unread).from = received /\ Chain(Tail(Unread), Head(Unread).to, released)
      BY <1>3, <1>4, ChainPop
    <2>2. received' = Head(out).to /\ released' = released
      BY <1>3, <2>1
    <2> QED BY <1>3, <2>1, <2>2
  <1>6. received' \in Nat
    BY <1>2, <1>5 DEF Piece
  <1>7. StreamShape'
    BY <1>1, <1>2, <1>6 DEF StreamShape, TypeOK
  <1>8. PiecesInOrder'
    BY <1>5 DEF PiecesInOrder, Chain
  <1>9. Sides'
    BY <1>1, <1>2 DEF Sides
  <1> QED BY <1>7, <1>8, <1>9 DEF Unopened, ChunksCounted, InTransit, ClosedComplete,
             NothingHeldOnceOver

LEMMA AbortSessionPreserves ==
    ASSUME StreamInv, RuntimeTypeOK', AbortSession
    PROVE  StreamInv'
  <1> USE DEF StreamInv, AbortSession, stream_vars, aborted
  <1>1. StreamShape'
    BY DEF StreamShape, TypeOK
  <1>2. PiecesInOrder' /\ Unread' = Unread
    BY DEF PiecesInOrder, Unread, Chain
  <1> QED BY <1>1, <1>2 DEF Unopened, Sides, ChunksCounted, InTransit, ClosedComplete,
             NothingHeldOnceOver

LEMMA SinkRejectsPreserves ==
    ASSUME StreamInv, RuntimeTypeOK', sink_rejects
    PROVE  StreamInv'
  <1> USE DEF StreamInv, sink_rejects, web_unchanged, sanitizer_vars
  <1>1. StreamShape'
    BY DEF StreamShape, TypeOK
  <1>2. PiecesInOrder' /\ Unread' = Unread
    BY DEF PiecesInOrder, Unread, Chain
  <1>3. ChunksCounted'
    <2>1. Len(queue) \in Nat /\ appended \in Nat /\ written \in Nat
      BY DEF StreamShape
    <2> QED BY <2>1 DEF ChunksCounted, InTransit
  <1> QED BY <1>1, <1>2, <1>3 DEF Unopened, Sides, ClosedComplete, NothingHeldOnceOver

LEMMA PullPreserves ==
    ASSUME StreamInv, RuntimeTypeOK', pull
    PROVE  StreamInv'
  <1> USE DEF StreamInv, pull, web_unchanged, sanitizer_vars
  <1>1. StreamShape'
    BY DEF StreamShape, TypeOK
  <1>2. PiecesInOrder' /\ Unread' = Unread
    BY DEF PiecesInOrder, Unread, Chain
  <1> QED BY <1>1, <1>2 DEF Unopened, Sides, ChunksCounted, InTransit, ClosedComplete,
             NothingHeldOnceOver

LEMMA SinkWritePreserves ==
    ASSUME StreamInv, RuntimeTypeOK', sink_write
    PROVE  StreamInv'
  <1> USE DEF StreamInv, sink_write, web_unchanged, sanitizer_vars
  <1>1. queue \in Seq(Chunk) /\ queue # <<>> /\ queue' = Tail(queue) /\ in_flight' = Head(queue)
    BY DEF StreamShape
  <1>2. /\ queue' \in Seq(Chunk) /\ Len(queue') = Len(queue) - 1 /\ Len(queue) \in Nat
        /\ in_flight' \in Chunk /\ in_flight' # "None"
    BY <1>1, HeadTailProperties DEF Chunk
  <1>3. StreamShape'
    BY <1>1, <1>2 DEF StreamShape, TypeOK
  <1>4. PiecesInOrder' /\ Unread' = Unread
    BY DEF PiecesInOrder, Unread, Chain
  <1>5. ChunksCounted'
    <2>1. InTransit' = InTransit
      BY <1>2 DEF InTransit
    <2> QED BY <2>1 DEF ChunksCounted
  <1> QED BY <1>3, <1>4, <1>5 DEF Unopened, Sides, ClosedComplete, NothingHeldOnceOver

LEMMA AbortRequestedPreserves ==
    ASSUME StreamInv, RuntimeTypeOK', abort_requested
    PROVE  StreamInv'
  <1> USE DEF StreamInv, abort_requested, web_unchanged, sanitizer_vars
  <1>1. StreamShape'
    BY DEF StreamShape, TypeOK
  <1>2. PiecesInOrder' /\ Unread' = Unread
    BY DEF PiecesInOrder, Unread, Chain
  <1>3. ChunksCounted'
    <2>1. Len(queue) \in Nat /\ Len(queue') = 0 /\ appended \in Nat /\ written \in Nat
      BY DEF StreamShape
    <2> QED BY <2>1 DEF ChunksCounted, InTransit
  <1> QED BY <1>1, <1>2, <1>3 DEF Unopened, Sides, ClosedComplete, NothingHeldOnceOver

\* What leaves an open session is over.
LEMMA AbortedIsOver ==
    ASSUME StreamInv, writable # "unopened"
    PROVE  /\ aborted \in {"finalized", "aborted", "failed"}
           /\ session \in {"finalized", "aborted", "failed"} => aborted = session
  BY DEF StreamInv, Unopened, StreamShape, TypeOK, aborted

LEMMA CancelPreserves ==
    ASSUME StreamInv, RuntimeTypeOK', cancel
    PROVE  StreamInv'
  <1> USE DEF StreamInv, cancel, web_unchanged, torn
  <1>1. writable # "unopened" /\ session' = aborted /\ readable' = "cancelled"
    BY DEF Unopened
  <1>2. StreamShape'
    <2>1. <<>> \in Seq(Piece) /\ Len(<<>>) = 0
      OBVIOUS
    <2>2. session' \in {"none", "accepting", "finalized", "aborted", "failed"}
      BY <1>1, AbortedIsOver
    <2>3. reading' \in BOOLEAN
      OBVIOUS
    <2>4. TypeOK'
      BY <2>1, <2>2 DEF StreamShape, TypeOK
    <2> QED BY <2>1, <2>3, <2>4 DEF StreamShape
  <1>3. PiecesInOrder'
    BY DEF PiecesInOrder
  <1> QED BY <1>1, <1>2, <1>3, AbortedIsOver DEF Unopened, Sides, ChunksCounted, InTransit,
             StreamShape, ClosedComplete, NothingHeldOnceOver

LEMMA AbortPreserves ==
    ASSUME StreamInv, RuntimeTypeOK', abort
    PROVE  StreamInv'
  <1> USE DEF StreamInv, abort, web_unchanged, torn
  <1>1. writable # "unopened" /\ session' = aborted /\ writable' = "errored" /\ in_flight' = "None"
    OBVIOUS
  <1>2. StreamShape'
    BY <1>1, AbortedIsOver DEF StreamShape, TypeOK
  <1>3. PiecesInOrder' /\ Unread' = Unread
    BY DEF PiecesInOrder, Unread, Chain
  <1>4. ChunksCounted'
    <2>1. Len(queue) \in Nat /\ appended \in Nat /\ written \in Nat
      BY DEF StreamShape
    <2> QED BY <1>1, <2>1 DEF ChunksCounted, InTransit
  <1> QED BY <1>1, <1>2, <1>3, <1>4, AbortedIsOver DEF Unopened, Sides, StreamShape,
             ClosedComplete, NothingHeldOnceOver

LEMMA DestroyPreserves ==
    ASSUME StreamInv, RuntimeTypeOK', _destroy
    PROVE  StreamInv'
  <1> USE DEF StreamInv, _destroy, node_unchanged, destroyed
  <1>1. /\ writable # "unopened" /\ session' = aborted
        /\ writable' = "errored" /\ readable' = "errored"
    BY DEF Unopened
  <1>2. StreamShape'
    BY <1>1, AbortedIsOver DEF StreamShape, TypeOK
  <1>3. PiecesInOrder'
    BY DEF PiecesInOrder
  <1>4. ChunksCounted'
    <2>1. Len(queue) \in Nat /\ Len(queue') = 0 /\ appended \in Nat /\ written \in Nat
      BY DEF StreamShape
    <2> QED BY <1>1, <2>1 DEF ChunksCounted, InTransit
  <1> QED BY <1>1, <1>2, <1>3, <1>4, AbortedIsOver DEF Unopened, Sides, StreamShape,
             ClosedComplete, NothingHeldOnceOver

\* source.read() settles; the piece of the flush moves from one queue to the next.
LEMMA PulledPreserves ==
    ASSUME StreamInv, RuntimeTypeOK', pulled
    PROVE  StreamInv'
  <1>1. out = <<>> /\ readable = "readable" /\ inner_queue \in Seq(Piece) /\ out \in Seq(Piece)
    BY DEF StreamInv, pulled, Sides, StreamShape
  <1>2. /\ kind = "web" /\ reading' = FALSE
        /\ UNCHANGED <<kind, written, session, mid, appended, released, queue, in_flight, writable,
                       inner, received>>
    BY DEF pulled, web_unchanged, sanitizer_vars
  <1>3. CASE /\ inner_queue # <<>> /\ readable' = readable
             /\ out' = Append(out, Head(inner_queue)) /\ inner_queue' = Tail(inner_queue)
    <2>1. /\ Head(inner_queue) \in Piece /\ Tail(inner_queue) \in Seq(Piece)
          /\ Len(Tail(inner_queue)) = Len(inner_queue) - 1 /\ Len(inner_queue) \in Nat
      BY <1>1, <1>3, HeadTailProperties
    <2>2. out' = <<Head(inner_queue)>>
      BY <1>1, <1>3
    <2>3. \A x \in Piece : <<x>> \in Seq(Piece) /\ Len(<<x>>) = 1
      OBVIOUS
    <2>4. out' \in Seq(Piece) /\ Len(out') = 1
      BY <2>1, <2>2, <2>3
    <2>5. Unread' = Unread
      <3>1. inner_queue = <<Head(inner_queue)>> \o Tail(inner_queue)
        BY <1>1, <1>3, <2>1
      <3>2. Unread = inner_queue
        BY <1>1 DEF Unread
      <3> QED BY <1>3, <2>2, <3>1, <3>2 DEF Unread
    <2>6. StreamShape'
      <3>1. reading' \in BOOLEAN
        BY <1>2
      <3>2. TypeOK'
        BY <1>2, <1>3, <2>1, <2>4 DEF StreamInv, StreamShape, TypeOK
      <3> QED BY <1>2, <1>3, <2>1, <2>4, <3>1, <3>2 DEF StreamInv, StreamShape
    <2>7. PiecesInOrder'
      BY <1>1, <1>2, <1>3, <2>5 DEF StreamInv, PiecesInOrder
    <2>8. Sides'
      BY <1>1, <1>2, <1>3, <2>4 DEF StreamInv, Sides
    <2> QED BY <1>1, <1>2, <1>3, <2>6, <2>7, <2>8 DEF StreamInv, Unopened, ChunksCounted, InTransit,
               ClosedComplete, NothingHeldOnceOver
  <1>4. CASE inner_queue = <<>> /\ inner # "open" /\ readable' = inner /\ UNCHANGED <<out, inner_queue>>
    <2>1. StreamShape'
      BY <1>2, <1>4 DEF StreamInv, StreamShape, TypeOK
    <2>2. Unread' = Unread /\ Unread = <<>>
      BY <1>1, <1>4 DEF Unread
    <2>3. PiecesInOrder'
      BY <1>1, <1>2, <1>4, <2>2 DEF StreamInv, PiecesInOrder
    <2> QED BY <1>1, <1>2, <1>4, <2>1, <2>2, <2>3 DEF StreamInv, Unopened, Sides, ChunksCounted,
               InTransit, ClosedComplete, NothingHeldOnceOver, StreamShape
  <1> QED BY <1>3, <1>4 DEF pulled

LEMMA EndEventPreserves ==
    ASSUME StreamInv, RuntimeTypeOK', end_event
    PROVE  StreamInv'
  <1> USE DEF StreamInv, end_event, node_unchanged, sanitizer_vars
  <1>1. StreamShape'
    BY DEF StreamShape, TypeOK
  <1>2. Unread' = Unread /\ Unread = <<>>
    BY DEF Unread, Sides
  <1>3. PiecesInOrder'
    BY <1>2 DEF PiecesInOrder
  <1> QED BY <1>1, <1>2, <1>3 DEF Unopened, Sides, ChunksCounted, InTransit, ClosedComplete,
             NothingHeldOnceOver

---------------------------------------------------------------------------
(* The session at work: append and finalize. *)

\* transform of the Web adapter.
LEMMA TransformPreserves ==
    ASSUME StreamInv, RuntimeTypeOK', transform
    PROVE  StreamInv'
  <1>1. /\ kind = "web" /\ in_flight # "None" /\ inner = "open" /\ reading /\ in_flight' = "None"
        /\ UNCHANGED <<kind, written, queue, inner_queue, received>>
    BY DEF transform, web_unchanged
  <1>2. /\ out = <<>> /\ inner_queue = <<>> /\ readable = "readable" /\ writable # "unopened"
        /\ session # "none" /\ Unread = <<>>
    BY <1>1 DEF StreamInv, Sides, Unopened, Unread
  <1>3. Len(queue) \in Nat /\ appended \in Nat /\ written \in Nat /\ released \in 0 .. appended
    BY DEF StreamInv, StreamShape, TypeOK
  <1>4. CASE /\ AppendOk(in_flight) /\ out' = push(out) /\ reading' = (out' = out)
             /\ UNCHANGED <<inner, writable, readable>>
    <2>1. /\ session = "accepting" /\ session' = "accepting" /\ appended' = appended + 1
          /\ released' \in released .. appended + 1 /\ mid' = (in_flight = "cut")
      BY <1>4 DEF AppendOk
    <2>2. released' \in Nat /\ released' >= released /\ released' \in 0 .. appended'
      BY <1>3, <2>1
    <2>3. out' \in Seq(Piece) /\ Len(out') <= 1
      <3>1. \A x \in Piece : Append(<<>>, x) \in Seq(Piece) /\ Len(Append(<<>>, x)) = 1
        OBVIOUS
      <3>2. piece \in Piece
        BY <1>3, <2>2 DEF piece, Piece
      <3>3. <<>> \in Seq(Piece) /\ Len(<<>>) = 0
        OBVIOUS
      <3> QED BY <1>2, <1>4, <3>1, <3>2, <3>3 DEF push
    <2>4. Unread' = push(Unread)
      <3>1. \A x \in Seq(Piece) : x \o <<>> = x
        OBVIOUS
      <3> QED BY <1>1, <1>2, <1>4, <2>3, <3>1 DEF Unread
    <2>5. PiecesInOrder'
      BY <1>1, <1>2, <2>2, <2>4, PushPreserves DEF StreamInv, PiecesInOrder
    <2>6. appended + InTransit <= written /\ appended' + InTransit' = appended + InTransit
      BY <1>1, <1>3, <2>1 DEF StreamInv, ChunksCounted, InTransit
    <2>7. ChunksCounted' /\ appended' <= written
      BY <1>1, <1>3, <1>4, <2>1, <2>6 DEF StreamInv, ChunksCounted, InTransit
    <2>8. StreamShape'
      <3>1. TypeOK'
        BY <1>1, <1>2, <1>3, <1>4, <2>1, <2>2, <2>3, <2>7 DEF StreamInv, StreamShape, TypeOK
      <3>2. mid' \in BOOLEAN /\ reading' \in BOOLEAN
        BY <1>4, <2>1
      <3> QED BY <1>1, <1>3, <1>4, <2>1, <2>2, <2>3, <3>1, <3>2 DEF StreamInv, StreamShape
    <2>9. Sides'
      <3>1. reading' => out' = <<>>
        BY <1>2, <1>4
      <3> QED BY <1>1, <1>2, <1>4, <2>1, <2>3, <3>1 DEF StreamInv, Sides
    <2> QED BY <1>1, <1>2, <1>4, <2>1, <2>5, <2>7, <2>8, <2>9 DEF StreamInv, Unopened,
               ClosedComplete, NothingHeldOnceOver
  <1>5. CASE /\ AppendThrows(in_flight) /\ inner' = "errored" /\ writable' = "errored"
             /\ readable' = "errored" /\ out' = <<>> /\ reading' = FALSE
    <2>1. /\ session' \in {"finalized", "aborted", "failed"}
          /\ UNCHANGED <<mid, appended, released>>
      BY <1>2, <1>5 DEF AppendThrows, aborted, StreamInv, StreamShape, TypeOK
    <2>2. StreamShape'
      <3>1. <<>> \in Seq(Piece) /\ Len(<<>>) = 0
        OBVIOUS
      <3>2. TypeOK'
        BY <1>1, <1>5, <2>1, <3>1 DEF StreamInv, StreamShape, TypeOK
      <3>3. reading' \in BOOLEAN
        BY <1>5
      <3> QED BY <1>1, <1>5, <2>1, <3>1, <3>2, <3>3 DEF StreamInv, StreamShape
    <2>3. ChunksCounted'
      BY <1>1, <1>3, <2>1 DEF StreamInv, ChunksCounted, InTransit
    <2> QED BY <1>1, <1>2, <1>5, <2>1, <2>2, <2>3 DEF StreamInv, Unopened, Sides, PiecesInOrder,
               ClosedComplete, NothingHeldOnceOver
  <1> QED BY <1>4, <1>5 DEF transform

\* flush of the Web adapter: finalize, and what it returns waits in the inner stream.
LEMMA FlushPreserves ==
    ASSUME StreamInv, RuntimeTypeOK', flush
    PROVE  StreamInv'
  <1>1. /\ kind = "web" /\ writable = "closing" /\ queue = <<>> /\ in_flight = "None"
        /\ inner = "open" /\ inner_queue = <<>>
        /\ UNCHANGED <<kind, written, queue, in_flight, readable, reading, out, received>>
    BY DEF flush, web_unchanged, StreamInv, Sides
  <1>2. appended \in Nat /\ written \in Nat /\ released \in 0 .. appended /\ Len(queue) = 0
    BY <1>1 DEF StreamInv, StreamShape, TypeOK
  <1>3. CASE FinalizeOk /\ inner_queue' = push(inner_queue) /\ inner' = "closed" /\ writable' = "closed"
    <2>1. /\ session = "accepting" /\ session' = "finalized" /\ released' = appended
          /\ ~mid /\ UNCHANGED <<mid, appended>> /\ appended = written
          /\ readable = "readable"
      BY <1>1, <1>2, <1>3 DEF FinalizeOk, StreamInv, ChunksCounted, InTransit, Unopened,
         NothingHeldOnceOver, StreamShape, TypeOK
    <2>2. inner_queue' \in Seq(Piece) /\ Len(inner_queue') <= 1
      <3>1. \A x \in Piece : Append(<<>>, x) \in Seq(Piece) /\ Len(Append(<<>>, x)) = 1
        OBVIOUS
      <3>2. piece \in Piece
        BY <1>2, <2>1 DEF piece, Piece
      <3>3. <<>> \in Seq(Piece) /\ Len(<<>>) = 0
        OBVIOUS
      <3> QED BY <1>1, <1>3, <3>1, <3>2, <3>3 DEF push
    <2>3. Unread' = push(Unread)
      <3>1. out \in Seq(Piece) /\ piece \in Piece
        BY <1>2, <2>1 DEF StreamInv, StreamShape, piece, Piece
      <3>2. \A x \in Seq(Piece), y \in Piece :
                x \o <<>> = x /\ x \o Append(<<>>, y) = Append(x, y)
        OBVIOUS
      <3> QED BY <1>1, <1>3, <3>1, <3>2 DEF Unread, push
    <2>4. PiecesInOrder'
      <3>1. released' \in Nat /\ released' >= released
        BY <1>2, <2>1
      <3> QED BY <1>1, <2>1, <2>3, <3>1, PushPreserves DEF StreamInv, PiecesInOrder
    <2>5. StreamShape'
      <3>1. TypeOK'
        BY <1>1, <1>2, <1>3, <2>1, <2>2 DEF StreamInv, StreamShape, TypeOK
      <3> QED BY <1>1, <1>2, <1>3, <2>1, <2>2, <3>1 DEF StreamInv, StreamShape
    <2> QED BY <1>1, <1>2, <1>3, <2>1, <2>4, <2>5 DEF StreamInv, Unopened, Sides, ChunksCounted,
               InTransit, ClosedComplete, NothingHeldOnceOver
  <1>4. CASE FinalizeThrows /\ inner_queue' = <<>> /\ inner' = "errored" /\ writable' = "errored"
    <2>1. /\ session' \in {"finalized", "aborted", "failed"}
          /\ UNCHANGED <<mid, appended, released>>
      BY <1>1, <1>4 DEF FinalizeThrows, aborted, StreamInv, StreamShape, TypeOK, Unopened
    <2>2. StreamShape'
      BY <1>1, <1>4, <2>1 DEF StreamInv, StreamShape, TypeOK
    <2>3. PiecesInOrder' /\ Unread' = Unread
      BY <1>1, <1>4, <2>1 DEF StreamInv, PiecesInOrder, Unread, Chain
    <2> QED BY <1>1, <1>2, <1>4, <2>1, <2>2, <2>3 DEF StreamInv, Unopened, Sides, ChunksCounted,
               InTransit, ClosedComplete, NothingHeldOnceOver
  <1> QED BY <1>3, <1>4 DEF flush

\* An error destroys both sides of a Node stream at once.
LEMMA DestroyedPreserves ==
    ASSUME StreamInv, RuntimeTypeOK', destroyed, kind = "node", writable # "unopened",
           UNCHANGED <<kind, written, in_flight, inner_queue, reading, mid, appended, released,
                       inner, received>>,
           session' \in {"finalized", "aborted", "failed"},
           session = "finalized" => session' = "finalized"
    PROVE  StreamInv'
  <1>1. writable' = "errored" /\ readable' = "errored" /\ queue' = <<>> /\ out' = <<>>
    BY DEF destroyed
  <1>2. StreamShape'
    <2>1. <<>> \in Seq(Piece) /\ <<>> \in Seq(Chunk) /\ Len(<<>>) = 0
      OBVIOUS
    <2> QED BY <1>1, <2>1 DEF StreamInv, StreamShape, TypeOK
  <1>3. ChunksCounted'
    <2>1. Len(queue) \in Nat /\ Len(queue') = 0 /\ appended \in Nat /\ written \in Nat
      BY <1>1 DEF StreamInv, StreamShape
    <2> QED BY <1>1, <2>1 DEF StreamInv, ChunksCounted, InTransit
  <1> QED BY <1>1, <1>2, <1>3 DEF StreamInv, Unopened, Sides, PiecesInOrder, ClosedComplete,
             NothingHeldOnceOver

\* _transform of the Node adapter.
LEMMA NodeTransformPreserves ==
    ASSUME StreamInv, RuntimeTypeOK', _transform
    PROVE  StreamInv'
  <1>1. /\ kind = "node" /\ queue # <<>> /\ out = <<>> /\ writable \in {"writable", "closing"}
        /\ UNCHANGED <<kind, written, in_flight, inner_queue, reading, inner, received>>
    BY DEF _transform, node_unchanged
  <1>2. in_flight = "None" /\ inner_queue = <<>> /\ ~reading /\ inner # "closed" /\ session # "none"
    BY <1>1 DEF StreamInv, Sides, Unopened
  <1>3. /\ queue \in Seq(Chunk) /\ Len(queue) \in Nat /\ appended \in Nat /\ written \in Nat
        /\ released \in 0 .. appended
    BY DEF StreamInv, StreamShape, TypeOK
  <1>4. /\ Head(queue) \in Chunk /\ Tail(queue) \in Seq(Chunk) /\ Len(Tail(queue)) = Len(queue) - 1
    BY <1>1, <1>3, HeadTailProperties
  <1>5. CASE /\ AppendOk(Head(queue)) /\ queue' = Tail(queue) /\ out' = push(out)
             /\ UNCHANGED <<writable, readable>>
    <2>1. /\ session = "accepting" /\ session' = "accepting" /\ appended' = appended + 1
          /\ released' \in released .. appended + 1 /\ mid' = (Head(queue) = "cut")
      BY <1>5 DEF AppendOk
    <2>2. released' \in Nat /\ released' >= released /\ released' \in 0 .. appended'
      BY <1>3, <2>1
    <2>3. readable = "readable"
      BY <1>1, <2>1 DEF StreamInv, Unopened, NothingHeldOnceOver, StreamShape, TypeOK
    <2>4. out' \in Seq(Piece) /\ Len(out') <= 1
      <3>1. \A x \in Piece : Append(<<>>, x) \in Seq(Piece) /\ Len(Append(<<>>, x)) = 1
        OBVIOUS
      <3>2. piece \in Piece
        BY <1>3, <2>2 DEF piece, Piece
      <3>3. <<>> \in Seq(Piece) /\ Len(<<>>) = 0
        OBVIOUS
      <3> QED BY <1>1, <1>5, <3>1, <3>2, <3>3 DEF push
    <2>5. Unread' = push(Unread)
      <3>1. \A x \in Seq(Piece) : x \o <<>> = x
        OBVIOUS
      <3>2. Unread = out /\ Unread' = out'
        BY <1>1, <1>2, <2>4, <3>1 DEF Unread, StreamInv, StreamShape
      <3> QED BY <1>5, <3>2
    <2>6. PiecesInOrder'
      BY <1>1, <2>2, <2>3, <2>5, PushPreserves DEF StreamInv, PiecesInOrder
    <2>7. ChunksCounted' /\ appended' <= written
      BY <1>1, <1>2, <1>3, <1>4, <1>5, <2>1 DEF StreamInv, ChunksCounted, InTransit
    <2>8. StreamShape'
      <3>1. TypeOK'
        BY <1>1, <1>2, <1>5, <2>1, <2>2, <2>4, <2>7 DEF StreamInv, StreamShape, TypeOK
      <3>2. mid' \in BOOLEAN
        BY <2>1
      <3> QED BY <1>1, <1>3, <1>4, <1>5, <2>1, <2>2, <2>4, <3>1, <3>2 DEF StreamInv, StreamShape
    <2> QED BY <1>1, <1>2, <1>5, <2>1, <2>3, <2>4, <2>6, <2>7, <2>8 DEF StreamInv, Unopened, Sides,
               ClosedComplete, NothingHeldOnceOver
  <1>6. CASE AppendThrows(Head(queue)) /\ destroyed
    <2>1. /\ session' \in {"finalized", "aborted", "failed"}
          /\ session = "finalized" => session' = "finalized"
          /\ UNCHANGED <<mid, appended, released>>
      BY <1>2, <1>6 DEF AppendThrows, aborted, StreamInv, StreamShape, TypeOK
    <2> QED BY <1>1, <1>6, <2>1, DestroyedPreserves
  <1> QED BY <1>5, <1>6 DEF _transform

\* _flush of the Node adapter.
LEMMA NodeFlushPreserves ==
    ASSUME StreamInv, RuntimeTypeOK', _flush
    PROVE  StreamInv'
  <1>1. /\ kind = "node" /\ queue = <<>> /\ writable = "closing"
        /\ UNCHANGED <<kind, written, in_flight, inner_queue, reading, received>>
    BY DEF _flush, node_unchanged
  <1>2. in_flight = "None" /\ inner_queue = <<>> /\ ~reading /\ inner # "closed" /\ session # "none"
    BY <1>1 DEF StreamInv, Sides, Unopened
  <1>3. /\ Len(queue) = 0 /\ appended \in Nat /\ written \in Nat /\ released \in 0 .. appended
        /\ out \in Seq(Piece) /\ Len(out) \in Nat
    BY <1>1 DEF StreamInv, StreamShape, TypeOK
  <1>4. CASE /\ FinalizeOk /\ out' = push(out) /\ inner' = "closed" /\ writable' = "closed"
             /\ UNCHANGED <<readable, queue>>
    <2>1. /\ session = "accepting" /\ session' = "finalized" /\ released' = appended
          /\ ~mid /\ UNCHANGED <<mid, appended>> /\ appended = written
          /\ readable = "readable"
      BY <1>1, <1>2, <1>3, <1>4 DEF FinalizeOk, StreamInv, ChunksCounted, InTransit, Unopened,
         NothingHeldOnceOver, StreamShape, TypeOK
    <2>2. Len(out) <= 1
      BY <1>2, <2>1 DEF StreamInv, Sides, StreamShape
    <2>3. out' \in Seq(Piece) /\ Len(out') <= 2
      <3>1. piece \in Piece
        BY <1>3, <2>1 DEF piece, Piece
      <3>2. \A q \in Seq(Piece), x \in Piece :
                Append(q, x) \in Seq(Piece) /\ Len(Append(q, x)) = Len(q) + 1
        OBVIOUS
      <3> QED BY <1>3, <1>4, <2>2, <3>1, <3>2 DEF push
    <2>4. Unread' = push(Unread)
      <3>1. \A x \in Seq(Piece) : x \o <<>> = x
        OBVIOUS
      <3>2. Unread = out /\ Unread' = out'
        BY <1>1, <1>2, <1>3, <2>3, <3>1 DEF Unread
      <3> QED BY <1>4, <3>2
    <2>5. PiecesInOrder'
      <3>1. released' \in Nat /\ released' >= released
        BY <1>3, <2>1
      <3> QED BY <1>1, <1>4, <2>1, <2>4, <3>1, PushPreserves DEF StreamInv, PiecesInOrder
    <2>6. StreamShape'
      <3>1. TypeOK'
        BY <1>1, <1>3, <1>4, <2>1, <2>3 DEF StreamInv, StreamShape, TypeOK
      <3> QED BY <1>1, <1>3, <1>4, <2>1, <2>3, <3>1 DEF StreamInv, StreamShape
    <2>7. Sides'
      BY <1>1, <1>2, <1>4, <2>1, <2>3 DEF StreamInv, Sides
    <2> QED BY <1>1, <1>2, <1>3, <1>4, <2>1, <2>5, <2>6, <2>7 DEF StreamInv, Unopened, ChunksCounted,
               InTransit, ClosedComplete, NothingHeldOnceOver
  <1>5. CASE FinalizeThrows /\ destroyed /\ UNCHANGED inner
    <2>1. /\ session' \in {"finalized", "aborted", "failed"}
          /\ session = "finalized" => session' = "finalized"
          /\ UNCHANGED <<mid, appended, released>>
      BY <1>2, <1>5 DEF FinalizeThrows, aborted, StreamInv, StreamShape, TypeOK
    <2> QED BY <1>1, <1>5, <2>1, DestroyedPreserves
  <1> QED BY <1>4, <1>5 DEF _flush

---------------------------------------------------------------------------

LEMMA OpenOrUsePreserves ==
    ASSUME RuntimeInv, StreamInv, OpenOrUse
    PROVE  RuntimeInv' /\ StreamInv'
  <1>1. UNCHANGED runtime_vars
    BY DEF OpenOrUse, Platform, Open, Write, Close, Read, AbortSession, cancel, abort_requested,
           _destroy, sink_write, transform, sink_rejects, flush, pull, pulled, abort, _transform,
           _flush, end_event, web_unchanged, node_unchanged
  <1>2. RuntimeInv' /\ RuntimeTypeOK'
    BY <1>1, RuntimeUnchanged DEF RuntimeInv, RuntimeShape
  <1>3. ASSUME NEW chunk \in Chunk, Write(chunk) PROVE StreamInv'
    BY <1>2, <1>3, WritePreserves
  <1>4. CASE Platform
    BY <1>2, <1>4, SinkWritePreserves, TransformPreserves, SinkRejectsPreserves, FlushPreserves,
       PullPreserves, PulledPreserves, AbortPreserves, NodeTransformPreserves, NodeFlushPreserves,
       EndEventPreserves DEF Platform
  <1> QED BY <1>2, <1>3, <1>4, OpenPreserves, ClosePreserves, ReadPreserves, AbortSessionPreserves,
             CancelPreserves, AbortRequestedPreserves, DestroyPreserves DEF OpenOrUse

\* The streams do not see a step of the runtime.
LEMMA StreamUnchanged ==
    ASSUME StreamInv, RuntimeTypeOK', UNCHANGED <<sanitizer_vars, kind, stream_vars>>
    PROVE  StreamInv'
  <1> USE DEF sanitizer_vars, stream_vars
  <1>1. StreamShape'
    BY DEF StreamInv, StreamShape, TypeOK
  <1>2. PiecesInOrder' /\ Unread' = Unread
    BY DEF StreamInv, PiecesInOrder, Unread, Chain
  <1> QED BY <1>1, <1>2 DEF StreamInv, Unopened, Sides, ChunksCounted, InTransit, ClosedComplete,
             NothingHeldOnceOver

LEMMA InitHolds == Init => IInv
  BY RuntimeInitHolds, StreamInitHolds DEF Init, IInv

LEMMA NextPreserves == IInv /\ [Next]_vars => IInv'
  <1> SUFFICES ASSUME IInv, [Next]_vars PROVE IInv'
    OBVIOUS
  <1>1. RuntimeInv' => RuntimeTypeOK'
    BY DEF RuntimeInv, RuntimeShape
  <1>2. ASSUME NEW c \in Callers, Initialize(c), UNCHANGED <<sanitizer_vars, kind, stream_vars>>
        PROVE  IInv'
    BY <1>1, <1>2, InitializePreserves, StreamUnchanged DEF IInv
  <1>3. ASSUME NEW n \in 1 .. MaxAttempts, Settle(n),
               UNCHANGED <<sanitizer_vars, kind, stream_vars>>
        PROVE  IInv'
    BY <1>1, <1>3, SettlePreserves, StreamUnchanged DEF IInv
  <1>4. ASSUME NEW c \in Callers, CallerResumes(c), UNCHANGED <<sanitizer_vars, kind, stream_vars>>
        PROVE  IInv'
    BY <1>1, <1>4, CallerResumesPreserves, StreamUnchanged DEF IInv
  <1>5. CASE OpenOrUse
    BY <1>5, OpenOrUsePreserves DEF IInv
  <1>6. CASE UNCHANGED vars
    BY <1>1, <1>6, RuntimeUnchanged, StreamUnchanged DEF IInv, vars
  <1> QED BY <1>2, <1>3, <1>4, <1>5, <1>6 DEF Next

\* The invariant above holds of every interleaving of callers, promise reactions, host and platform.
THEOREM Invariant == Spec => []IInv
  BY InitHolds, NextPreserves, PTL DEF Spec

\* createRedactSecretRuntime and the adapters keep their types and the bounds of their queues.
THEOREM TypeCorrect == Spec => []TypeOK
  <1>1. IInv => TypeOK
    BY DEF IInv, StreamInv, StreamShape
  <1> QED BY <1>1, Invariant, PTL

\* initialize() loads once at a time and never again once it has loaded, for any number of callers.
THEOREM OneLoad == Spec => []LoadsOnce
  <1>1. IInv => LoadsOnce
    BY DEF IInv, RuntimeInv, RuntimeShape, RuntimeTypeOK, OneAtATime, Calls, LoadsOnce
  <1> QED BY <1>1, Invariant, PTL

\* initialize() hands out the promise of a failed attempt to nobody who could have known it failed.
THEOREM FailureForgotten == Spec => []FailureNotCached
  <1>1. IInv => FailureNotCached
    BY DEF IInv, RuntimeInv, RuntimeShape, RuntimeTypeOK, Calls, FailureNotCached
  <1> QED BY <1>1, Invariant, PTL

\* A stream that ends, Web or Node, has delivered the whole sanitized text.
THEOREM EndIsComplete == Spec => []EndMeansComplete
  <1>1. IInv => EndMeansComplete
    <2> SUFFICES ASSUME IInv, readable = "closed"
                 PROVE  /\ session = "finalized" /\ ~mid
                        /\ appended = written /\ received = appended
      BY DEF EndMeansComplete
    <2>1. session = "finalized" /\ ~mid /\ appended = written /\ released = appended /\ Unread = <<>>
      BY DEF IInv, StreamInv, ClosedComplete
    <2>2. released = received
      BY <2>1 DEF IInv, StreamInv, PiecesInOrder, Chain
    <2> QED BY <2>1, <2>2
  <1> QED BY <1>1, Invariant, PTL

\* However a stream ends, the adapters leave no session behind that still holds text.
THEOREM OverMeansOver == Spec => []NothingHeldOnceOver
  <1>1. IInv => NothingHeldOnceOver
    BY DEF IInv, StreamInv
  <1> QED BY <1>1, Invariant, PTL

=============================================================================
