------------------------------ MODULE MCStreams ------------------------------
(* An instance of StreamAdapters: two call sites, streams of up to three chunks. *)
EXTENDS StreamAdapters
=============================================================================
