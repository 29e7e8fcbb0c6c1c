----------------------------- MODULE JsRuntime -----------------------------
(***************************************************************************)
(* createRedactSecretRuntime of packages/javascript: any number of call    *)
(* sites await initialize(), one load runs at a time, a failed load may be *)
(* tried again.  Promise reactions are steps of their own: load() settles, *)
(* then its finally handler runs, then the callers that await it resume.   *)
(***************************************************************************)
EXTENDS Integers, Sequences, FiniteSets

CONSTANTS Callers,
          MaxAttempts        \* bound on the loads

ASSUME RuntimeWorld == MaxAttempts \in Nat \ {0}

VARIABLES
    binding,          \* the attempt that loaded it, 0 for undefined
    pending,          \* the attempt whose promise it is, 0 for undefined
    attempts,         \* what became of each load()
    callers,
    known_failed      \* the last attempt whose failure a caller has seen

runtime_vars == <<binding, pending, attempts, callers, known_failed>>

\* after: what was known to have failed when the caller called.
Idle == [state |-> "idle", on |-> 0, after |-> 0]

RuntimeInit ==
    /\ binding = 0 /\ pending = 0 /\ attempts = <<>>
    /\ callers = [c \in Callers |-> Idle]
    /\ known_failed = 0

\* A settled promise of initialize() does not wait for the next call.
free(c) == callers[c].state # "waiting"

waits_on(c, n) ==
    callers' = [callers EXCEPT ![c] = [state |-> "waiting", on |-> n, after |-> known_failed]]

InitializeDone(c) ==
    /\ free(c) /\ binding # 0
    /\ callers' = [callers EXCEPT ![c] = [state |-> "resolved", on |-> 0, after |-> known_failed]]
    /\ UNCHANGED <<binding, pending, attempts, known_failed>>

\* Mutant of InitializeJoins: every call loads.
InitializeLoadsAgain(c) ==
    /\ free(c) /\ binding = 0 /\ pending # 0
    /\ Len(attempts) < MaxAttempts
    /\ attempts' = Append(attempts, "loading")
    /\ pending' = Len(attempts) + 1
    /\ waits_on(c, Len(attempts) + 1)
    /\ UNCHANGED <<binding, known_failed>>

InitializeJoins(c) ==
    /\ free(c) /\ binding = 0 /\ pending # 0
    /\ waits_on(c, pending)
    /\ UNCHANGED <<binding, pending, attempts, known_failed>>

InitializeLoads(c) ==
    /\ free(c) /\ binding = 0 /\ pending = 0
    /\ Len(attempts) < MaxAttempts
    /\ attempts' = Append(attempts, "loading")
    /\ pending' = Len(attempts) + 1
    /\ waits_on(c, Len(attempts) + 1)
    /\ UNCHANGED <<binding, known_failed>>

\* The module loads, reports this version, and its own initialize() returns.
LoadSucceeds(n) ==
    /\ n \in DOMAIN attempts /\ attempts[n] = "loading"
    /\ attempts' = [attempts EXCEPT ![n] = "loaded"]
    /\ binding' = n
    /\ UNCHANGED <<pending, callers, known_failed>>

\* The loader rejects, the version is another, or initialize() throws.
LoadFails(n) ==
    /\ n \in DOMAIN attempts /\ attempts[n] = "loading"
    /\ attempts' = [attempts EXCEPT ![n] = "failed"]
    /\ UNCHANGED <<binding, pending, callers, known_failed>>

Finished == [loaded |-> "fulfilled", failed |-> "rejected"]

\* Mutant of Finally: the promise of a failed attempt stays.
FinallyOfSuccess(n) ==
    /\ n \in DOMAIN attempts /\ attempts[n] \in DOMAIN Finished
    /\ attempts' = [attempts EXCEPT ![n] = Finished[@]]
    /\ pending' = IF attempts[n] = "loaded" THEN 0 ELSE pending
    /\ UNCHANGED <<binding, callers, known_failed>>

\* Mutant of Finally: the handler runs only when load() was fulfilled, and nobody settles after it.
FinallySkipsFailure(n) ==
    /\ n \in DOMAIN attempts /\ attempts[n] = "loaded"
    /\ attempts' = [attempts EXCEPT ![n] = Finished[@]]
    /\ pending' = 0
    /\ UNCHANGED <<binding, callers, known_failed>>

Finally(n) ==
    /\ n \in DOMAIN attempts /\ attempts[n] \in DOMAIN Finished
    /\ attempts' = [attempts EXCEPT ![n] = Finished[@]]
    /\ pending' = 0
    /\ UNCHANGED <<binding, callers, known_failed>>

CallerResumes(c) ==
    /\ callers[c].state = "waiting"
    /\ LET n == callers[c].on
       IN  \/ /\ attempts[n] = "fulfilled"
              /\ callers' = [callers EXCEPT ![c].state = "resolved"]
              /\ UNCHANGED known_failed
           \/ /\ attempts[n] = "rejected"
              /\ callers' = [callers EXCEPT ![c].state = "rejected"]
              /\ known_failed' = IF n > known_failed THEN n ELSE known_failed
    /\ UNCHANGED <<binding, pending, attempts>>

Initialize(c) == InitializeDone(c) \/ InitializeJoins(c) \/ InitializeLoads(c)
Settle(n) == LoadSucceeds(n) \/ LoadFails(n) \/ Finally(n)

---------------------------------------------------------------------------
(* Properties. *)

RuntimeTypeOK ==
    /\ binding \in 0 .. Len(attempts) /\ pending \in 0 .. Len(attempts)
    /\ attempts \in Seq({"loading", "loaded", "failed", "fulfilled", "rejected"})
    /\ \A c \in Callers : callers[c].state \in {"idle", "waiting", "resolved", "rejected"}

\* However the callers interleave with the promise reactions, one load runs at a time, none after
\* one has succeeded, and a caller whose promise is fulfilled can scan.
LoadsOnce ==
    /\ \A n \in DOMAIN attempts : attempts[n] = "loading" => n = Len(attempts) /\ binding = 0
    /\ \A n \in DOMAIN attempts :
          n # binding => attempts[n] \in {"loading", "failed", "rejected"}
    /\ \A c \in Callers : callers[c].state = "resolved" => binding # 0

\* "A failed attempt is not cached: a caller may retry": who calls after anybody has seen an attempt
\* fail waits for a later one.
FailureNotCached ==
    \A c \in Callers : callers[c].state = "waiting" => callers[c].on > callers[c].after

\* Every promise of initialize() settles, if the loader's does.
EveryCallSettles ==
    \A c \in Callers : callers[c].state = "waiting" ~> callers[c].state # "waiting"
=============================================================================
