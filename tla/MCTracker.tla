------------------------------ MODULE MCTracker ------------------------------
(* An instance of DelimiterTracker: parts of delimiters, whole ones and a two-byte character. *)
EXTENDS DelimiterTracker

Parts == {<<"dash">>, <<"begin">>, <<"end">>, <<"pk">>, <<"rsa">>, <<"dash", "begin">>, <<"pk", "dash">>}
Entire == {Form(k, l) : k \in DOMAIN KindOf, l \in LABELS}

AllFragments == Parts \cup Entire \cup {<<"wide", "more">>}
=============================================================================
