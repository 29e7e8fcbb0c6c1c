--------------------------- MODULE MCCommandLine ---------------------------
(* An instance of CommandLine: every short standard input and some longer texts; every command *)
(* line of up to two arguments and some longer ones, with up to three files.                   *)
EXTENDS CommandLine

CONSTANT InputLength

Longer == {<<"q", "c", "c", "c", "nl">>, <<"a", "nl", "d", "c", "a">>, <<"d", "c", "nl", "q", "c">>,
           <<"nl", "a", "q", "c", "c", "c">>, <<"a", "q", "c", "c", "nl">>}
AllInputs == Longer \cup UNION {[1 .. n -> Byte] : n \in 0 .. InputLength}

Argument == Dashed \cup {"f"}
UpToTwo == {<<>>} \cup {<<a>> : a \in Argument} \cup {<<a, b>> : a, b \in Argument}
Lines == UpToTwo \cup
    {<<"f", "g", "h">>, <<"--json", "f", "g">>, <<"f", "--json", "--", "--json">>,
     <<"--redact", "f", "g">>, <<"--redact", "--", "--redact">>, <<"--", "f", "--", "--help">>}
=============================================================================
