------------------------------- MODULE Lexemes -------------------------------
(***************************************************************************)
(* The text the detectors read, one lexeme at a time.  A lexeme stands for *)
(* one fixed piece of text, the same in every module, and counts as one    *)
(* byte:                                                                   *)
(*                                                                         *)
(*   line    a line terminator             blank   a space                 *)
(*   key     password:                     name    p:                      *)
(*   auth    ]authorization:               value   "+..." (quoted, random) *)
(*   bearer  ]bearer +...==                dsn     ]redis://:2@h/          *)
(*   text    ]                                                             *)
(*   BEGIN_x ]-----BEGIN x PRIVATE KEY-----          (END_x alike)         *)
(*                                                                         *)
(* The leading ] ends an unquoted value and is no assignment boundary, so  *)
(* that two adjacent lexemes never join into a construct of their own      *)
(* beyond the ones the definitions below name.                             *)
(***************************************************************************)
EXTENDS Integers, Sequences

Begin == {"BEGIN_A", "BEGIN_B"}
End == {"END_A", "END_B"}

AllLexemes == {"line", "blank", "text", "key", "name", "auth", "value", "bearer", "dsn"}
                \cup Begin \cup End

\* The label of a delimiter.
LabelOf == [BEGIN_A |-> "A", END_A |-> "A", BEGIN_B |-> "B", END_B |-> "B"]

\* A line is closed by a line terminator: `find_next_newline`.
Terminators == {"line"}

\* What `is_js_whitespace` accepts.
Whitespace == {"line", "blank"}

\* First position at or after i whose lexeme is outside S; Len(u) + 1 when there is none.
SkipWhile(u, S, i) ==
    CHOOSE j \in i .. (Len(u) + 1) :
        /\ j = Len(u) + 1 \/ u[j] \notin S
        /\ \A k \in i .. (j - 1) : u[k] \in S

\* Last position whose lexeme is outside S; 0 when there is none.
SkipBack(u, S) ==
    CHOOSE j \in 0 .. Len(u) :
        /\ j = 0 \/ u[j] \notin S
        /\ \A k \in (j + 1) .. Len(u) : u[k] \in S

\* The half-open range of the lexemes from..to, in offsets counted from 0.
Range0(from, to) == [start |-> from - 1, end |-> to]
=============================================================================
