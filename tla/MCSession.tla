------------------------------ MODULE MCSession ------------------------------
(***************************************************************************)
(* Instances of IncrementalSession: a caller with every chunk up to one    *)
(* length.                                                                 *)
(***************************************************************************)
EXTENDS IncrementalSession

CONSTANT ChunkLength

TextsUpTo(n) == UNION {[1 .. k -> Lexeme] : k \in 0 .. n}
AllChunks == TextsUpTo(ChunkLength)

\* The pipeline tabulated, so that a text is scanned once.
Scanned == [u \in TextsUpTo(max_input_bytes) |-> run_detector_pipeline(u)]
Tabulated(u) == Scanned[u]
=============================================================================
