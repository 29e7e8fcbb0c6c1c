---------------------------- MODULE DetectorGrammar ----------------------------
(***************************************************************************)
(* What each pass of DetectorScan looks for, as a grammar: which stretches *)
(* of a text have its shape, and what value they hold.  A shape says       *)
(* nothing of cursors, of the order of attempts, or of what is skipped.    *)
(***************************************************************************)
EXTENDS DetectorScan

\* All of a stretch is in an alphabet, and it ends where the alphabet does.
All(t, i, j, alphabet) == \A k \in i .. (j - 1) : t[k] \in alphabet
WholeRun(t, i, j, alphabet) == All(t, i, j, alphabet) /\ (j > Len(t) \/ t[j] \notin alphabet)
Ends(t, i) == i .. (Len(t) + 1)
At(t, symbol) == {i \in DOMAIN t : t[i] = symbol}

Shape(start, end, values) == [start |-> start, end |-> end, values |-> values]
Token(start, end) == Shape(start, end, {ByteRange(start, end)})

-----------------------------------------------------------------------------

RunShapes(s, t) ==
    LET fits(from, j) == IF s.exact THEN j - from = s.length /\ All(t, from, j, s.alphabet)
                                    ELSE j - from >= s.length /\ WholeRun(t, from, j, s.alphabet)
    IN  UNION {{Token(x[1], j) : j \in {j \in Ends(t, x[1] + Len(x[2])) : fits(x[1] + Len(x[2]), j)}} :
               x \in {x \in (DOMAIN t) \X s.prefixes : starts_with(t, x[1], x[2])}}

\* The two runs begin at first and at second.
FineGrainedFits(t, i, first, second, end) ==
    /\ end <= Len(t) + 1
    /\ SubSeq(t, i, i + 3) = <<"github", "_", "pat", "_">>
    /\ All(t, first, second - 1, is_alnum)
    /\ t[second - 1] = "_"
    /\ All(t, second, end, is_alnum)

FineGrainedEnd(i) == i + 5 + Lengths.first + Lengths.second
FineGrainedShapes(t) ==
    {Token(i, FineGrainedEnd(i)) :
       i \in {i \in DOMAIN t : FineGrainedFits(t, i, i + 4, i + 5 + Lengths.first, FineGrainedEnd(i))}}

Reserved == {<<"proj", "-">>, <<"svcacct", "-">>, <<"ant", "-">>}

OpenAIShapes(t) ==
    LET prefixes == {<<"sk", "-">>, <<"sk", "-", "proj", "-">>, <<"sk", "-", "svcacct", "-">>}
        fits(i, p, j) == /\ j - (i + Len(p)) >= Lengths.opaque
                         /\ WholeRun(t, i + Len(p), j, is_alnum_dash)
                         /\ Len(p) = 2 => ~\E r \in Reserved : starts_with(t, i + 2, r)
    IN  UNION {{Token(x[1], j) : j \in {j \in Ends(t, x[1] + Len(x[2])) : fits(x[1], x[2], j)}} :
               x \in {x \in (DOMAIN t) \X prefixes : starts_with(t, x[1], x[2])}}

JwtShapes(t) ==
    UNION {{Token(x[1], j) : j \in {j \in Ends(t, x[3] + 1) :
              /\ j - (x[3] + 1) >= Lengths.signature
              /\ WholeRun(t, x[3] + 1, j, is_base64_url)}} :
           x \in {x \in At(t, "eyJ") \X At(t, ".") \X At(t, ".") :
                    /\ x[1] < x[2] /\ x[2] + 1 < x[3] /\ t[x[2] + 1] = "eyJ"
                    /\ x[2] - (x[1] + 1) >= Lengths.tail /\ All(t, x[1], x[2], is_base64_url)
                    /\ x[3] - (x[2] + 2) >= Lengths.tail /\ All(t, x[2] + 1, x[3], is_base64_url)}}

\* The keyword alone, or behind authorization and a colon, white space around that.
Heads(t, k) ==
    {k} \cup {s \in At(t, "authorization") :
               \E c \in At(t, ":") : /\ s < c /\ c < k
                                    /\ All(t, s + 1, c, is_js_whitespace) /\ All(t, c + 1, k, is_js_whitespace)}
\* The token is from..to, and what is up to end belongs to its padding.
BearerToken(t, k, from, to) ==
    /\ k + 1 < from /\ WholeRun(t, k + 1, from, Blank)
    /\ to - from >= Lengths.bearer /\ WholeRun(t, from, to, is_token_char)
Paddings(t, to) ==
    {e \in to .. (to + 2) : /\ e <= Len(t) + 1 /\ All(t, to, e, {"="})
                            /\ e < to + 2 => at_or_none(t, e) # "="}
BearerShapes(t) ==
    UNION {UNION {{Shape(s, e, {ByteRange(x[2], e)}) : e \in Paddings(t, x[3])} : s \in Heads(t, x[1])} :
           x \in {x \in At(t, "bearer") \X (DOMAIN t) \X (1 .. (Len(t) + 1)) : BearerToken(t, x[1], x[2], x[3])}}

\* A label up to its question mark at q, and the query behind it.
Symbols(t) == UNION {{t[k]} : k \in DOMAIN t}
Queries(t, i) ==
    {q \in At(t, "?") : /\ i + 2 <= q /\ q - (i + 2) <= Lengths.label
                        /\ ~\E k \in (i + 2) .. (q - 1) : t[k] \in is_label_stop}
QueryStop(t, q) == CHOOSE e \in Ends(t, q + 1) : WholeRun(t, q + 1, e, Symbols(t) \ is_query_stop)
\* The parameters secret of the query, and where the value v of one ends.
Secrets(t, q) ==
    {k \in At(t, "secret") : /\ q < k /\ k + 1 < QueryStop(t, q) /\ t[k + 1] = "="
                             /\ t[k - 1] \in {"?", "&"} /\ (t[k - 1] = "?" => k = q + 1)}
ValueCloses(t, q, v, e) ==
    /\ v <= e /\ e <= QueryStop(t, q) /\ (e = QueryStop(t, q) \/ t[e] = "&")
    /\ ~\E o \in v .. (e - 1) : t[o] = "&"
Base32(t, v, e) ==
    \E c \in v .. e : c - v >= Lengths.base32 /\ All(t, v, c, is_base32_char) /\ All(t, c, e, {"="})
QueryValues(t, q) ==
    UNION {{ByteRange(k + 2, e) : e \in {e \in 1 .. (Len(t) + 1) : ValueCloses(t, q, k + 2, e) /\ Base32(t, k + 2, e)}} :
           k \in {k \in Secrets(t, q) : \A o \in Secrets(t, q) : k <= o}}
UriValues(t, i) ==
    UNION {QueryValues(t, q) : q \in {q \in Queries(t, i) : QueryStop(t, q) - (q + 1) <= Lengths.query}}
OtpauthShapes(t) ==
    {Shape(i, i + 2, UriValues(t, i)) : i \in {i \in DOMAIN t : starts_with(t, i, PREFIX)}}

-----------------------------------------------------------------------------
(* An IPv6 address denotes eight units: written out, or after :: has been expanded.  The last two *)
(* may be a dotted quad; the code takes the last group written for it, and so accepts a quad that *)
(* a final :: follows, which is no address (LooseQuad).                                           *)

Zeros(k) == [j \in 1 .. (2 * k - 1) |-> IF j % 2 = 1 THEN "0" ELSE ":"]
Linked(a, b) == IF a = <<>> THEN b ELSE IF b = <<>> THEN a ELSE a \o <<":">> \o b
Expansions(v) ==
    {v} \cup {Linked(Linked(SubSeq(v, 1, i - 1), Zeros(k)), SubSeq(v, i + 2, Len(v))) :
                i \in {i \in 1 .. (Len(v) - 1) : v[i] = ":" /\ v[i + 1] = ":"}, k \in 1 .. 8}
FullAddress(v) ==
    LET hex(g) == g.end - g.start \in 1 .. 4 /\ All(v, g.start, g.end, is_ascii_hexdigit)
        groups == split(v, ":")
        last == {g \in groups : g.end = Len(v) + 1}
    IN  \/ Cardinality(groups) = 8 /\ \A g \in groups : hex(g)
        \/ /\ Cardinality(groups) = 7 /\ \A g \in groups \ last : hex(g)
           /\ \A g \in last : is_valid_ipv4(slice(v, g))
LooseQuad(v) ==
    /\ Len(v) > 2 /\ SubSeq(v, Len(v) - 1, Len(v)) = <<":", ":">>
    /\ \E n \in 1 .. 6 : FullAddress(Zeros(n) \o <<":">> \o SubSeq(v, 1, Len(v) - 2))

\* A name: letters and digits, dots and dashes between them, a dot never next to one or the other.
Name(v) ==
    /\ v # <<>> /\ All(v, 1, Len(v) + 1, is_host_alnum \cup {".", "-"})
    /\ v[1] \in is_host_alnum /\ Last(v) \in is_host_alnum
    /\ \A i \in 1 .. (Len(v) - 1) : "." \in {v[i], v[i + 1]} =>
         {v[i], v[i + 1]} \cap is_host_alnum # {}
Port(v) == v = <<>> \/ (v[1] = ":" /\ is_valid_port(Tail(v)))
Host(v) ==
    \E i \in 1 .. Len(v) :
      /\ Port(SubSeq(v, i + 1, Len(v)))
      /\ \/ Name(SubSeq(v, 1, i))
         \/ /\ i > 2 /\ v[1] = "[" /\ v[i] = "]"
            /\ \/ LooseQuad(SubSeq(v, 2, i - 1))
               \/ \E x \in Expansions(SubSeq(v, 2, i - 1)) : FullAddress(x)
Hosts(scheme, v) ==
    CASE scheme = <<"mongodb">> -> \A h \in split(v, ",") : Host(slice(v, h))
      [] scheme = <<"mongodb", "+", "srv">> -> Name(v) /\ Cardinality(At(v, ".")) >= 2
      [] OTHER -> Host(v)

Encoded(v) ==
    \A i \in DOMAIN v :
      \/ v[i] \in is_userinfo_char
      \/ v[i] = "%" /\ \A k \in 1 .. 2 : at_or_none(v, i + k) \in is_ascii_hexdigit

\* user:password@host up to the end of the authority; redis may do without the user.
Passwords(t, scheme, m) ==
    LET ending == Min({e \in Ends(t, m) : e > Len(t) \/ t[e] \in is_authority_terminator})
        ats == {a \in m .. (ending - 1) : t[a] = "@"}
        colons == {c \in m .. (ending - 1) : t[c] = ":"}
        good(c, a) ==
           /\ c + 1 < a /\ ats = {a}
           /\ \A k \in colons : c <= k
           /\ c = m => scheme[1] = "redis"
           /\ a - (c + 1) <= MAX_PASSWORD_LENGTH /\ SubSeq(t, c + 1, a - 1) # <<"changeme">>
           /\ Encoded(SubSeq(t, m, a - 1))
           /\ ending - m <= MAX_AUTHORITY_LENGTH
           /\ Hosts(scheme, SubSeq(t, a + 1, ending - 1))
    IN  UNION {{ByteRange(c + 1, a) : a \in {a \in ats : good(c, a)}} : c \in colons}
AuthorityShapes(t) ==
    {LET m == x[1] + Len(x[2]) + 2 IN Shape(x[1], m, Passwords(t, x[2], m)) :
       x \in {x \in (DOMAIN t) \X SCHEMES : starts_with(t, x[1], x[2] \o <<":", "//">>)}}

\* The four fields somewhere in one stretch without white space, each the first of its name.
AzureShapes(t) ==
    LET same(i, j) == All(t, IF i < j THEN i ELSE j, IF i < j THEN j ELSE i,
                          UNION {{t[k]} : k \in DOMAIN t} \ is_azure_segment_terminator)
        begins(a, i) == same(a, i) /\ (i = 1 \/ t[i - 1] \in is_azure_segment_terminator \cup {";"})
        keyed(a, key) == {i \in At(t, key) : begins(a, i) /\ at_or_none(t, i + 1) = "="}
        first(a, key) == {i \in keyed(a, key) : \A o \in keyed(a, key) : i <= o}
        ending(i) == CHOOSE e \in Ends(t, i) :
                       /\ \A k \in i .. (e - 1) : t[k] \notin is_azure_segment_terminator \cup {";"}
                       /\ e > Len(t) \/ t[e] \in is_azure_segment_terminator \cup {";"}
        value(i) == SubSeq(t, i + 2, ending(i) - 1)
        key(v) == /\ Len(v) >= MIN_AZURE_ACCOUNT_KEY_LENGTH /\ \E q \in 1 .. Len(v) : Len(v) = 4 * q
                  /\ \E pad \in 0 .. 2 : /\ All(v, 1, Len(v) + 1 - pad, is_base64)
                                         /\ All(v, Len(v) + 1 - pad, Len(v) + 1, {"="})
        near(a) == /\ Cardinality({i \in 1 .. (a - 1) : same(a, i)}) <= MAX_AZURE_SEGMENT_LENGTH
                   /\ Cardinality({i \in a .. Len(t) : same(a, i + 1)}) <= MAX_AZURE_SEGMENT_LENGTH
        values(a) == {ByteRange(i + 2, ending(i)) : i \in {i \in first(a, "AccountKey") :
                        /\ near(a) /\ key(value(i))
                        /\ \E p \in first(a, "DefaultEndpointsProtocol") : value(p) = <<"https">>
                        /\ \E n \in first(a, "AccountName") : value(n) # <<>>
                        /\ \E s \in first(a, "EndpointSuffix") : value(s) = <<"core.windows.net">>}}
    IN  {Shape(a, a + 1, values(a)) : a \in {a \in At(t, "AccountKey") : at_or_none(t, a + 1) = "="}}
-----------------------------------------------------------------------------
(* name = value behind a line's start or a separator; authorization at a line's start *)

LineStart(t, i) == i = 1 \/ t[i - 1] \in is_js_line_terminator
\* Where a construct may begin, and the position it is found at.
Openings(t, separators) ==
    {<<i, i>> : i \in {i \in DOMAIN t : LineStart(t, i)}}
      \cup {<<i, i + 1>> : i \in {i \in DOMAIN t : t[i] \in separators}}

\* A quote that no odd number of backslashes precedes.
Closes(t, open, i) ==
    /\ t[i] = t[open]
    /\ \E k \in (open + 1) .. i : /\ All(t, k, i, {"backslash"}) /\ (i - k) % 2 = 0
                                 /\ (t[k - 1] # "backslash" \/ k = open + 1)
Value(t, v) ==
    IF at_or_none(t, v) \in is_quote
      THEN {ByteRange(v + 1, e) : e \in {e \in (v + 1) .. Len(t) :
              /\ Closes(t, v, e) /\ ~\E i \in (v + 1) .. (e - 1) : Closes(t, v, i) \/ t[i] \in LineEnd
              /\ e = Len(t) \/ t[e + 1] \in is_value_boundary}}
      ELSE {ByteRange(v, e) : e \in {e \in Ends(t, v) :
              /\ v < e /\ All(t, v, e, (UNION {{t[k]} : k \in DOMAIN t}) \ (is_value_boundary \cup is_quote))
              /\ e > Len(t) \/ t[e] \in is_value_boundary \cup is_quote}}

\* The names, written in any case, their words joined by a separator or by a capital.
Cased(word) == {<<word>>} \cup {<<w>> : w \in {w \in DOMAIN LowerCase : LowerCase[w] = word}}
Capital(a, b) == Last(a) \notin Capitals /\ Head(b) \in DOMAIN LowerCase
Joined(A, B) ==
    {a \o <<j>> \o b : a \in A, b \in B, j \in {"_", "-", "."}}
      \cup {x[1] \o x[2] : x \in {x \in A \X B : Capital(x[1], x[2])}}
Fused(A, B) == {x[1] \o x[2] : x \in {x \in A \X B : ~Capital(x[1], x[2])}}
Words(words) == UNION {Cased(w) : w \in words}
SecretNames ==
    Words({"secret", "password", "passwd"})
      \cup Joined(Words({"api", "secret", "private"}), Words({"key"})) \cup Fused(Words({"api"}), Words({"key"}))
      \cup Joined(Words({"access", "refresh", "session"}), Words({"token"}))
      \cup Joined(Words({"client", "webhook"}), Words({"secret"}))
      \cup Joined(Words({"aws"}), Joined(Words({"secret"}), Joined(Words({"access"}), Words({"key"}))))
      \cup Joined(Words({"aws"}), Joined(Words({"session"}), Words({"token"})))
OtherNames ==
    Words({"auth", "credential", "credentials"}) \cup Joined(Words({"auth"}), Words({"token"}))
      \cup Joined(Words({"signing"}), Words({"key"}))
Secret(name, v) ==
    /\ Len(v) >= MIN_CONTEXT_VALUE_LENGTH /\ Len(v) <= MAX_CONTEXT_VALUE_LENGTH
    /\ ~is_non_secret_reference(v)
    /\ \/ name \in SecretNames
       \/ name \in OtherNames /\ Len(v) >= MIN_HIGH_ENTROPY_LENGTH /\ has_entropy(v)

AssignmentShapes(t) ==
    LET quoted(i) == {i} \cup {i + 1 : k \in {i} \cap (At(t, "quote") \cup At(t, "apos"))}
        names(i) == {n \in quoted(i) \X (DOMAIN t) :
                       n[1] < n[2] /\ t[n[1]] \in is_name_start /\ WholeRun(t, n[1], n[2], is_name_char)}
        operators(e) == {o \in At(t, "=") \cup At(t, ":") :
                           e <= o /\ \E q \in quoted(e) : q <= o /\ All(t, q, o, is_js_whitespace)}
        end(o) == CHOOSE v \in Ends(t, o + 1) : WholeRun(t, o + 1, v, is_js_whitespace)
        values(n, o) == {v \in Value(t, end(o)) :
                           Secret(SubSeq(t, n[1], n[2] - 1), SubSeq(t, v.start, v.end - 1))}
    IN  UNION {UNION {UNION {{Shape(x[1], end(o), values(n, o)) : o \in operators(n[2])} : n \in names(x[2])} :
               x \in Openings(t, is_js_whitespace \cup {"{", ",", ";"})}}

AuthorizationShapes(t) ==
    LET words == (At(t, "basic") \cup At(t, "token"))
        value(k, v, e) == /\ k + 1 < v /\ All(t, k + 1, v, Blank) /\ t[v] \notin Blank
                          /\ e - v >= Lengths.authorization /\ WholeRun(t, v, e, is_authorization_value_byte)
        values(k) == UNION {{ByteRange(v, e) : e \in {e \in 1 .. (Len(t) + 1) : value(k, v, e)}} :
                            v \in DOMAIN t}
        heads(k) == {x \in Openings(t, LineEnd) : \E a \in At(t, "authorization"), c \in At(t, ":") :
                       /\ x[2] <= a /\ a < c /\ c < k
                       /\ All(t, x[2], a, Blank) /\ All(t, a + 1, c, Blank) /\ All(t, c + 1, k, Blank)}
    IN  UNION {UNION {{Shape(x[1], v.end, IF is_non_secret_reference(SubSeq(t, v.start, v.end - 1)) THEN {} ELSE {v}) :
                        v \in values(k)} : x \in heads(k)} : k \in words}

-----------------------------------------------------------------------------

Shapes(s, t) ==
    CASE s.kind = "run" -> RunShapes(s, t)
      [] s.kind = "fine_grained" -> FineGrainedShapes(t)
      [] s.kind = "openai" -> OpenAIShapes(t)
      [] s.kind = "jwt" -> JwtShapes(t)
      [] s.kind = "bearer" -> BearerShapes(t)
      [] s.kind = "authority" -> AuthorityShapes(t)
      [] s.kind = "azure" -> AzureShapes(t)
      [] s.kind = "otpauth" -> OtpauthShapes(t)
      [] s.kind = "assignment" -> AssignmentShapes(t)
      [] s.kind = "authorization" -> AuthorizationShapes(t)

\* What may not stand before a shape of the pass, and what not behind it.
Before(s) ==
    CASE s.kind = "run" -> s.boundary
      [] s.kind = "fine_grained" -> is_alnum_underscore
      [] s.kind = "jwt" -> is_token_byte
      [] s.kind = "authority" -> is_scheme_char
      [] s.kind = "azure" -> is_identifier_byte
      [] s.kind \in {"openai", "bearer", "otpauth"} -> is_alnum_dash
      [] s.kind \in {"assignment", "authorization"} -> {}
Behind(s) == IF s.kind \in {"run", "fine_grained", "openai", "jwt"} THEN Before(s) ELSE {}

StandsAlone(s, t, shape) ==
    /\ shape.start = 1 \/ t[shape.start - 1] \notin Before(s)
    /\ shape.end > Len(t) \/ t[shape.end] \notin Behind(s)

Found == ToSet(candidates)

\* Type invariant: the cursor stays in the text or right behind it, and every range is a non-empty
\* part of the text.
DetectTypeOK ==
    /\ detector \in DOMAIN Passes
    /\ pass \in DOMAIN Passes[detector]
    /\ cursor \in 1 .. (Len(text) + 1)
    /\ \A r \in Found : 1 <= r.start /\ r.start < r.end /\ r.end <= Len(text) + 1

\* What a detector returns are credentials of its grammar that stand alone: not a slice of a longer
\* run, not a host or a label, with the whole of its value and no more (every detector's loop, its
\* boundary checks and length limits).
CandidatesAreCredentials ==
    Done =>
      \A r \in Found :
        \E p \in DOMAIN Passes[detector] :
          \E shape \in Shapes(Passes[detector][p], text) :
            r \in shape.values /\ StandsAlone(Passes[detector][p], text, shape)

\* And none is missed: a credential that stands alone has been reported, wherever it is in the text
\* and whatever a failed attempt before it consumed, unless it lies in a longer shape that begins
\* before it (which a scan skips as one match).
NoCredentialMissed ==
    Done =>
      \A p \in DOMAIN Passes[detector] :
        LET s == Passes[detector][p]
            shapes == Shapes(s, text)
        IN  \A shape \in shapes :
              StandsAlone(s, text, shape) =>
                \/ shape.values \subseteq Found
                \/ \E longer \in shapes : longer.start < shape.start /\ shape.start < longer.end

\* Every detector returns, for each step brings it nearer the end of its last pass: whatever it meets,
\* the cursor advances, behind empty values, blocked matches and abandoned ones too.
AlwaysAdvances == [][pass' > pass \/ cursor' > cursor]_detect_vars

=============================================================================
