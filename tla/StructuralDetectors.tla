-------------------------- MODULE StructuralDetectors --------------------------
(***************************************************************************)
(* The detectors that go by structure: jwt.rs, bearer_token.rs,            *)
(* otpauth.rs.  Each scan_ operator is one position of the detector's scan.*)
(* The keywords stand for any spelling in case, lf, cr and ls are line     *)
(* ends (ls is U+2028), otpauth: and //totp/ together are one of the two   *)
(* prefixes otpauth://totp/ and otpauth://hotp/.                           *)
(***************************************************************************)
EXTENDS Providers

at_or_none(t, i) == IF i \in DOMAIN t THEN t[i] ELSE "end of text"

-----------------------------------------------------------------------------
(* JWT: two segments that begin with eyJ and a signature *)

is_base64_url == is_alnum_dash
is_token_byte == is_base64_url \cup {"."}

\* The dot behind a segment of base64url that begins with eyJ and has a tail.
segment_end(t, at) ==
    LET dot == run_end(t, at + 1, is_base64_url)
    IN  IF at_or_none(t, at) = "eyJ" /\ dot - (at + 1) >= Lengths.tail /\ at_or_none(t, dot) = "."
          THEN {dot} ELSE {}

\* Mutant of match_jwt_at: the payload may be any base64url text.
match_jwt_at_any_payload(t, at) ==
    {end \in 1 .. (Len(t) + 1) :
       \E one \in segment_end(t, at) :
         \E two \in {run_end(t, one + 1, is_base64_url)} :
            /\ at_or_none(t, two) = "."
            /\ end = run_end(t, two + 1, is_base64_url)
            /\ end - (two + 1) >= Lengths.signature}

match_jwt_at(t, at) ==
    {end \in 1 .. (Len(t) + 1) :
       \E one \in segment_end(t, at) :
         \E two \in segment_end(t, one + 1) :
            /\ end = run_end(t, two + 1, is_base64_url)
            /\ end - (two + 1) >= Lengths.signature}

scan_jwt(t, at) == UNION {bounded(t, at, end, is_token_byte) : end \in match_jwt_at(t, at)}

-----------------------------------------------------------------------------
(* authorization: bearer, or bearer alone, blanks, the token and its padding *)

Blank == {" ", "tab"}
LineEnd == {"lf", "cr"}
is_js_line_terminator == LineEnd \cup {"ls"}
is_js_whitespace == Blank \cup is_js_line_terminator
is_token_char == is_alnum_dash_dot \cup {"~", "+", "/"}

\* The end of the keyword: white space, line ends too, may stand around the colon.
match_scheme_at(t, at) ==
    LET colon == run_end(t, at + 1, is_js_whitespace)
        keyword == run_end(t, colon + 1, is_js_whitespace)
    IN  IF at_or_none(t, at) = "authorization"
          THEN IF at_or_none(t, colon) = ":" /\ at_or_none(t, keyword) = "bearer"
                 THEN {keyword + 1} ELSE {}
          ELSE IF at_or_none(t, at) = "bearer" THEN {at + 1} ELSE {}

\* Up to two equals signs belong to the value.
padding_end(t, at) ==
    IF at_or_none(t, at) # "=" THEN at ELSE IF at_or_none(t, at + 1) # "=" THEN at + 1 ELSE at + 2

\* Mutant of scan_bearer: a line end separates the keyword and the token too.
scan_bearer_over_lines(t, at) ==
    UNION {LET from == run_end(t, scheme, is_js_whitespace)
               token == run_end(t, from, is_token_char)
               end == padding_end(t, token)
               blocked == at > 1 /\ t[at - 1] \in is_alnum_dash
           IN  IF from = scheme \/ token - from < Lengths.bearer THEN {}
               ELSE {Raw(end, IF blocked THEN <<>> ELSE <<ByteRange(from, end)>>)}
           : scheme \in match_scheme_at(t, at)}

scan_bearer(t, at) ==
    UNION {LET from == run_end(t, scheme, Blank)
               token == run_end(t, from, is_token_char)
               end == padding_end(t, token)
               blocked == at > 1 /\ t[at - 1] \in is_alnum_dash
           IN  IF from = scheme \/ token - from < Lengths.bearer THEN {}
               ELSE {Raw(end, IF blocked THEN <<>> ELSE <<ByteRange(from, end)>>)}
           : scheme \in match_scheme_at(t, at)}

-----------------------------------------------------------------------------
(* otpauth: a label, a query, its secret parameter, base32 *)

PREFIX == <<"otpauth:", "//totp/">>
is_uri_terminator == Blank \cup LineEnd \cup {"quote", "<", ">", "backslash", "#"}
is_label_stop == is_uri_terminator \cup {"?", "/", "//totp/"}
is_query_stop == is_uri_terminator \cup {"/", "//totp/"}
is_base32_char == Upper \cup {"2", "3", "5", "6"}

\* The end of a stretch without stops, unless it is longer than the bound.
scan_bounded(t, from, bound, stops) ==
    LET end == Min({i \in from .. (Len(t) + 1) : i > Len(t) \/ t[i] \in stops})
    IN  IF end - from > bound THEN {} ELSE {end}

\* The value of the first parameter whose whole key is secret: up to & or the query's end.
find_secret_value(t, from, to) ==
    LET keys == {i \in from .. (to - 2) :
                   t[i] = "secret" /\ t[i + 1] = "=" /\ (i = from \/ t[i - 1] = "&")}
        start == Min(keys) + 2
    IN  IF keys = {} THEN {}
        ELSE {ByteRange(start, Min({i \in start .. to : i = to \/ t[i] = "&"}))}

\* Mutant of base32_secret_range: the length counts the padding.
base32_secret_range_padded(t, v) ==
    LET core == run_end(SubSeq(t, 1, v.end - 1), v.start, is_base32_char)
        stop == run_end(SubSeq(t, 1, v.end - 1), core, {"="})
    IN  IF stop # v.end \/ stop - v.start < Lengths.base32 THEN <<>> ELSE <<ByteRange(v.start, stop)>>

\* The whole value is base32 and padding, and its base32 part is long enough.
base32_secret_range(t, v) ==
    LET core == run_end(SubSeq(t, 1, v.end - 1), v.start, is_base32_char)
        stop == run_end(SubSeq(t, 1, v.end - 1), core, {"="})
    IN  IF stop # v.end \/ core - v.start < Lengths.base32 THEN <<>> ELSE <<ByteRange(v.start, stop)>>

\* The scan resumes behind the prefix, whatever follows it.
scan_otpauth(t, at) ==
    LET values == UNION {UNION {find_secret_value(t, label + 1, query) :
                                  query \in scan_bounded(t, label + 1, Lengths.query, is_query_stop)} :
                         label \in {l \in scan_bounded(t, at + 2, Lengths.label, is_label_stop) :
                                      at_or_none(t, l) = "?"}}
        blocked == at > 1 /\ t[at - 1] \in is_alnum_dash
    IN  IF ~starts_with(t, at, PREFIX) THEN {}
        ELSE IF blocked \/ values = {} THEN {Raw(at + 2, <<>>)}
        ELSE {Raw(at + 2, base32_secret_range(t, v)) : v \in values}
=============================================================================
