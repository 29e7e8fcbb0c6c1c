-------------------------- MODULE ContextualSecrets --------------------------
(***************************************************************************)
(* generic_token.rs on symbols: contextual assignments, and Basic and      *)
(* Token authorization.  (Detectors has the assignments again, on lexemes, *)
(* for the sessions.)  Names are made of the segments of the listed names, *)
(* in lower case, capitalised or in capitals.                              *)
(***************************************************************************)
EXTENDS StructuralDetectors, SequencesExt

CONSTANTS MIN_CONTEXT_VALUE_LENGTH, MIN_HIGH_ENTROPY_LENGTH, MAX_CONTEXT_VALUE_LENGTH

ASSUME ContextAssumption ==
    /\ MIN_CONTEXT_VALUE_LENGTH \in Nat \ {0} /\ MIN_HIGH_ENTROPY_LENGTH \in Nat
    /\ MAX_CONTEXT_VALUE_LENGTH \in Nat

LowerCase == [Key |-> "key", KEY |-> "key", API |-> "api", Token |-> "token", Auth |-> "auth"]
Capitals == {"KEY", "API"}
NameSegments == {"key", "access", "refresh", "session", "aws", "password", "passwd", "private",
                 "client", "webhook", "auth", "credential", "credentials", "signing"}
                  \cup DOMAIN LowerCase

HIGH_SIGNAL_NAMES ==
    {<<"api", "_", "key">>, <<"api", "key">>, <<"secret">>, <<"secret", "_", "key">>,
     <<"access", "_", "token">>, <<"refresh", "_", "token">>, <<"session", "_", "token">>,
     <<"aws", "_", "secret", "_", "access", "_", "key">>, <<"aws", "_", "session", "_", "token">>,
     <<"password">>, <<"passwd">>, <<"private", "_", "key">>, <<"client", "_", "secret">>,
     <<"webhook", "_", "secret">>}
AMBIGUOUS_NAMES ==
    {<<"auth">>, <<"auth", "_", "token">>, <<"credential">>, <<"credentials">>, <<"signing", "_", "key">>}

is_name_char == is_alnum_dash_dot \cup NameSegments
is_name_start == is_name_char \ (Digit \cup {"_", "-", "."})
is_quote == {"quote", "apos"}

\* Mutant of normalize_name: capitals start a word only behind capitals.
normalize_name_keeps_camel(name) ==
    LET lower(x) == IF x \in DOMAIN LowerCase THEN LowerCase[x] ELSE IF x \in {".", "-"} THEN "_" ELSE x
    IN  [i \in DOMAIN name |-> lower(name[i])]

\* Lower case, an underscore for each dot and dash, and one between a lower-case letter or a digit
\* and the capital behind it.
normalize_name(name) ==
    LET lower(x) == IF x \in DOMAIN LowerCase THEN LowerCase[x] ELSE IF x \in {".", "-"} THEN "_" ELSE x
        ends_low(x) == x \in is_name_char \ (Capitals \cup Upper \cup {"_", "-", "."})
        starts_capital(x) == x \in DOMAIN LowerCase \cup Upper
    IN  FlattenSeq([i \in DOMAIN name |->
                      IF i > 1 /\ ends_low(name[i - 1]) /\ starts_capital(name[i])
                        THEN <<"_", lower(name[i])>> ELSE <<lower(name[i])>>])

-----------------------------------------------------------------------------
(* values that are no secrets *)

generic_placeholder_words == {"changeme", "password", "secret"}

\* A placeholder word, a literal or a number, a reference to the environment, a path, a key file.
is_non_secret_reference(v) ==
    LET second == at_or_none(v, 2)
        closing == {i \in DOMAIN v : v[i] = ">"}
    IN  \/ Len(v) = 1 /\ v[1] \in generic_placeholder_words \cup {"true"}
        \/ v # <<>> /\ \A i \in DOMAIN v : v[i] \in Digit
        \/ v # <<>> /\ v[1] \in {"process.env.", "/", "./"}
        \/ v # <<>> /\ v[1] = "$" /\ second \in is_name_start \cup {"_", "{"}
        \/ v # <<>> /\ v[1] = "<" /\ closing # {} /\ Min(closing) > 2
        \/ v # <<>> /\ Last(v) = ".key"

\* A fill character stands for varied text; only a value that has some reaches the thresholds.
has_entropy(v) == \E i \in DOMAIN v : v[i] = "a"

\* Mutant of assignment_is_secret: an ambiguous name is as good as a listed one.
assignment_is_secret_by_name(name, v) ==
    /\ Len(v) \in MIN_CONTEXT_VALUE_LENGTH .. MAX_CONTEXT_VALUE_LENGTH
    /\ ~is_non_secret_reference(v)
    /\ name \in HIGH_SIGNAL_NAMES \cup AMBIGUOUS_NAMES

\* A listed name suffices; an ambiguous one needs a long value of high entropy.
assignment_is_secret(name, v) ==
    /\ Len(v) \in MIN_CONTEXT_VALUE_LENGTH .. MAX_CONTEXT_VALUE_LENGTH
    /\ ~is_non_secret_reference(v)
    /\ \/ name \in HIGH_SIGNAL_NAMES
       \/ name \in AMBIGUOUS_NAMES /\ Len(v) >= MIN_HIGH_ENTROPY_LENGTH /\ has_entropy(v)

-----------------------------------------------------------------------------
(* name, operator, value *)

is_value_boundary == Blank \cup LineEnd \cup {",", ";", "}", "]"}
at_boundary(t, i, boundary) == i > Len(t) \/ t[i] \in boundary

\* Mutant of quoted_assignment_value: any quote ends the value, escaped or not.
quoted_assignment_value_unescaped(t, opening) ==
    LET quotes == {i \in (opening + 1) .. Len(t) : t[i] = t[opening]}
        close == Min(quotes)
    IN  IF /\ quotes # {}
           /\ \A i \in opening .. close : t[i] \notin LineEnd
           /\ close - (opening + 1) <= MAX_CONTEXT_VALUE_LENGTH
           /\ at_boundary(t, close + 1, is_value_boundary)
          THEN {ByteRange(opening + 1, close)} ELSE {}

\* The closing quote is the first with an even number of backslashes before it, on the same line.
quoted_assignment_value(t, opening) ==
    LET backslashes[i \in opening .. Len(t)] ==
          IF i > opening /\ t[i] = "backslash" THEN backslashes[i - 1] + 1 ELSE 0
        quotes == {i \in (opening + 1) .. Len(t) : t[i] = t[opening] /\ backslashes[i - 1] % 2 = 0}
        close == Min(quotes)
    IN  IF /\ quotes # {}
           /\ \A i \in opening .. close : t[i] \notin LineEnd
           /\ close - (opening + 1) <= MAX_CONTEXT_VALUE_LENGTH
           /\ at_boundary(t, close + 1, is_value_boundary)
          THEN {ByteRange(opening + 1, close)} ELSE {}

unquoted_assignment_value(t, start) ==
    LET end == Min({i \in start .. (Len(t) + 1) : at_boundary(t, i, is_value_boundary \cup is_quote)})
    IN  IF end = start \/ end - start > MAX_CONTEXT_VALUE_LENGTH THEN {} ELSE {ByteRange(start, end)}

assignment_value(t, start) ==
    IF at_or_none(t, start) \in is_quote
      THEN quoted_assignment_value(t, start) ELSE unquoted_assignment_value(t, start)

skip_quote(t, i) == IF at_or_none(t, i) \in is_quote THEN i + 1 ELSE i

\* The name, quoted or not, and where the value starts.
parse_name_and_operator(t, start) ==
    LET from == skip_quote(t, start)
        to == run_end(t, from, is_name_char)
        operator == run_end(t, skip_quote(t, to), is_js_whitespace)
    IN  IF at_or_none(t, from) \in is_name_start /\ at_or_none(t, operator) \in {"=", ":"}
          THEN {[name |-> SubSeq(t, from, to - 1), end |-> run_end(t, operator + 1, is_js_whitespace)]}
          ELSE {}

\* At the start of a line, or else behind white space or a separator.
try_match_assignment_prefix(t, at) ==
    LET here == IF at = 1 \/ t[at - 1] \in is_js_line_terminator
                  THEN parse_name_and_operator(t, at) ELSE {}
    IN  IF here # {} THEN here
        ELSE IF t[at] \in is_js_whitespace \cup {"{", ",", ";"}
               THEN parse_name_and_operator(t, at + 1) ELSE {}

\* The scan resumes at the value, reported or not: another assignment may begin in it.
scan_assignment(t, at) ==
    {LET secrets == {v \in assignment_value(t, prefix.end) :
                       assignment_is_secret(normalize_name(prefix.name), SubSeq(t, v.start, v.end - 1))}
     IN  Raw(prefix.end, IF secrets = {} THEN <<>> ELSE <<CHOOSE v \in secrets : TRUE>>)
     : prefix \in try_match_assignment_prefix(t, at)}

-----------------------------------------------------------------------------
(* authorization: Basic or Token, at the start of a line *)

is_authorization_value_byte == is_alnum_dash \cup {"+", "/", "="}

parse_authorization_from(t, start) ==
    LET keyword == run_end(t, start, Blank)
        colon == run_end(t, keyword + 1, Blank)
        scheme == run_end(t, colon + 1, Blank)
        from == run_end(t, scheme + 1, Blank)
        end == run_end(t, from, is_authorization_value_byte)
    IN  IF /\ at_or_none(t, keyword) = "authorization"
           /\ at_or_none(t, colon) = ":"
           /\ at_or_none(t, scheme) \in {"basic", "token"}
           /\ from > scheme + 1
           /\ end - from >= Lengths.authorization
          THEN {Raw(end, IF is_non_secret_reference(SubSeq(t, from, end - 1))
                           THEN <<>> ELSE <<ByteRange(from, end)>>)}
          ELSE {}

\* Mutant of scan_authorization: a line that starts the text is not tried.
scan_authorization_after_line(t, at) ==
    IF t[at] \in LineEnd THEN parse_authorization_from(t, at + 1) ELSE {}

scan_authorization(t, at) ==
    LET here == IF at = 1 \/ t[at - 1] \in is_js_line_terminator THEN parse_authorization_from(t, at) ELSE {}
    IN  IF here # {} THEN here
        ELSE IF t[at] \in LineEnd THEN parse_authorization_from(t, at + 1) ELSE {}
=============================================================================
