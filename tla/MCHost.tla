-------------------------------- MODULE MCHost --------------------------------
(* An instance of HostCalls: chunks of up to two characters, a few texts for the calls. *)
EXTENDS HostCalls

UpToTwo == UNION {[1 .. n -> Char] : n \in 0 .. 2}

\* Every kind of character at the front, in the middle and at the end.
FewTexts == {<<"w", "a">>, <<"e", "w", "k">>, <<"a", "w">>}
=============================================================================
