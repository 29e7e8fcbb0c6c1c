--------------------------- MODULE ConnectionStrings ---------------------------
(***************************************************************************)
(* connection_string.rs: credential-bearing authorities of URLs, and Azure *)
(* Storage connection strings.  Symbols as in Providers; // is two         *)
(* slashes, a scheme is one or more segments in any spelling, and digits   *)
(* are themselves, so that octets and ports have their values.             *)
(***************************************************************************)
EXTENDS StructuralDetectors, SequencesExt

CONSTANTS MAX_PASSWORD_LENGTH, MAX_AUTHORITY_LENGTH,
          MAX_AZURE_SEGMENT_LENGTH, MIN_AZURE_ACCOUNT_KEY_LENGTH

ASSUME BoundsAssumption ==
    /\ MAX_PASSWORD_LENGTH \in Nat /\ MAX_AUTHORITY_LENGTH \in Nat
    /\ MAX_AZURE_SEGMENT_LENGTH \in Nat /\ MIN_AZURE_ACCOUNT_KEY_LENGTH \in Nat \ {0}

\* The slices between the occurrences of a separator, as ranges.
split_range(v, whole, separator) ==
    LET cuts == {whole.start - 1, whole.end} \cup {i \in whole.start .. (whole.end - 1) : v[i] = separator}
    IN  {ByteRange(i + 1, Min({j \in cuts : j > i})) : i \in cuts \ {whole.end}}
split(v, separator) == split_range(v, ByteRange(1, Len(v) + 1), separator)
slice(v, range) == SubSeq(v, range.start, range.end - 1)
occurrences(v, symbol) == {i \in DOMAIN v : v[i] = symbol}

-----------------------------------------------------------------------------
(* hosts *)

DigitValue == [d \in Digit |-> CASE d = "0" -> 0 [] d = "1" -> 1 [] d = "2" -> 2 [] d = "3" -> 3
                                 [] d = "5" -> 5 [] d = "6" -> 6 [] d = "9" -> 9]
decimal(v) ==
    LET value[i \in 0 .. Len(v)] == IF i = 0 THEN 0 ELSE 10 * value[i - 1] + DigitValue[v[i]]
    IN  value[Len(v)]
is_digits(v) == \A i \in DOMAIN v : v[i] \in Digit

is_ascii_hexdigit == Digit \cup {"f"}
is_host_alnum == is_alnum \cup {"f"}

is_valid_ipv4_octet(v) ==
    Len(v) \in 1 .. 3 /\ is_digits(v) /\ (Len(v) > 1 => v[1] # "0") /\ decimal(v) <= 255

is_valid_ipv4(v) ==
    LET parts == split(v, ".")
    IN  Cardinality(parts) = 4 /\ \A p \in parts : is_valid_ipv4_octet(slice(v, p))

is_hex_group(g) == Len(g) \in 1 .. 4 /\ \A i \in DOMAIN g : g[i] \in is_ascii_hexdigit

\* Mutant of is_valid_ipv6: the compression may stand for no unit at all.
is_valid_ipv6_empty_compression(v) ==
    LET doubles == {i \in 1 .. (Len(v) - 1) : v[i] = ":" /\ v[i + 1] = ":"}
        sides == IF doubles = {} THEN {ByteRange(1, Len(v) + 1)}
                 ELSE LET at == CHOOSE i \in doubles : TRUE
                      IN  {ByteRange(1, at), ByteRange(at + 2, Len(v) + 1)}
        groups == UNION {split_range(v, s, ":") : s \in {s \in sides : s.start < s.end}}
        quads == {g \in groups : occurrences(slice(v, g), ".") # {}}
        last(g) == \A h \in groups : h.start <= g.start
        units == Cardinality(groups) + Cardinality(quads)
    IN  /\ occurrences(v, ":") # {}
        /\ Cardinality(doubles) <= 1
        /\ \A g \in groups : IF g \in quads THEN last(g) /\ is_valid_ipv4(slice(v, g))
                                             ELSE is_hex_group(slice(v, g))
        /\ IF doubles = {} THEN units = 8 ELSE units <= 8

\* Eight units of hexadecimal digits; the last group written may be a dotted quad, for two of them,
\* and one :: may stand for what is missing.
is_valid_ipv6(v) ==
    LET doubles == {i \in 1 .. (Len(v) - 1) : v[i] = ":" /\ v[i + 1] = ":"}
        sides == IF doubles = {} THEN {ByteRange(1, Len(v) + 1)}
                 ELSE LET at == CHOOSE i \in doubles : TRUE
                      IN  {ByteRange(1, at), ByteRange(at + 2, Len(v) + 1)}
        groups == UNION {split_range(v, s, ":") : s \in {s \in sides : s.start < s.end}}
        quads == {g \in groups : occurrences(slice(v, g), ".") # {}}
        last(g) == \A h \in groups : h.start <= g.start
        units == Cardinality(groups) + Cardinality(quads)
    IN  /\ occurrences(v, ":") # {}
        /\ Cardinality(doubles) <= 1
        /\ \A g \in groups : IF g \in quads THEN last(g) /\ is_valid_ipv4(slice(v, g))
                                             ELSE is_hex_group(slice(v, g))
        /\ IF doubles = {} THEN units = 8 ELSE units < 8

is_valid_port(v) == Len(v) \in 1 .. 5 /\ is_digits(v) /\ decimal(v) <= 65535

is_reg_name_label(l) ==
    /\ l # <<>>
    /\ l[1] \in is_host_alnum /\ Last(l) \in is_host_alnum
    /\ \A i \in DOMAIN l : l[i] \in is_host_alnum \cup {"-"}
is_reg_name(v) == \A l \in split(v, ".") : is_reg_name_label(slice(v, l))

has_valid_host_and_port(v) ==
    LET closing == occurrences(v, "]")
        colons == occurrences(v, ":")
        close == Min(closing)
        separator == Max(colons)
    IN  IF v # <<>> /\ v[1] = "["
          THEN /\ closing # {}
               /\ is_valid_ipv6(SubSeq(v, 2, close - 1))
               /\ LET suffix == SubSeq(v, close + 1, Len(v))
                  IN  suffix = <<>> \/ (suffix[1] = ":" /\ is_valid_port(Tail(suffix)))
        ELSE IF colons = {} THEN is_reg_name(v)
        ELSE /\ is_reg_name(SubSeq(v, 1, separator - 1))
             /\ is_valid_port(SubSeq(v, separator + 1, Len(v)))

has_valid_mongo_host_list(v) ==
    \A h \in split(v, ",") : has_valid_host_and_port(slice(v, h))

has_valid_srv_host(v) ==
    occurrences(v, ",") = {} /\ occurrences(v, ":") = {} /\ is_reg_name(v) /\ Cardinality(split(v, ".")) >= 3

has_valid_host_for_scheme(scheme, v) ==
    CASE scheme = <<"mongodb">> -> has_valid_mongo_host_list(v)
      [] scheme = <<"mongodb", "+", "srv">> -> has_valid_srv_host(v)
      [] OTHER -> has_valid_host_and_port(v)

-----------------------------------------------------------------------------
(* scheme :// userinfo @ host *)

SCHEMES == {<<"postgres", "ql">>, <<"postgres">>, <<"mysql">>, <<"mariadb">>,
            <<"mongodb", "+", "srv">>, <<"mongodb">>, <<"redis">>, <<"redis", "s">>,
            <<"amqp">>, <<"amqp", "s">>}
SchemeSegments == {"postgres", "ql", "mysql", "mariadb", "mongodb", "srv", "redis", "s", "amqp"}

is_scheme_char == is_host_alnum \cup SchemeSegments \cup {"+", ".", "-"}
is_authority_terminator == Blank \cup LineEnd \cup {"/", "//", "?", "#", "quote", "<", ">", "backslash"}
is_userinfo_char == is_host_alnum \cup SchemeSegments \cup {"changeme"}
                      \cup {".", "_", "~", "!", "$", "&", ",", ";", "=", ":", "-", "+"}

\* Mutant of has_valid_userinfo_encoding: the digits of an escape may be cut off.
has_valid_userinfo_encoding_cut(v) ==
    LET end[i \in 1 .. (Len(v) + 3)] ==
          IF i > Len(v) THEN TRUE
          ELSE IF v[i] = "%" THEN at_or_none(v, i + 1) \in is_ascii_hexdigit /\ end[i + 2]
          ELSE v[i] \in is_userinfo_char /\ end[i + 1]
    IN  end[1]

\* Allowed characters, and escapes of two hexadecimal digits.
has_valid_userinfo_encoding(v) ==
    LET valid[i \in 1 .. (Len(v) + 3)] ==
          IF i > Len(v) THEN TRUE
          ELSE IF v[i] = "%"
                 THEN /\ at_or_none(v, i + 1) \in is_ascii_hexdigit
                      /\ at_or_none(v, i + 2) \in is_ascii_hexdigit
                      /\ valid[i + 3]
          ELSE v[i] \in is_userinfo_char /\ valid[i + 1]
    IN  valid[1]

\* A placeholder: a word, or a reference in braces (which no user information may contain).
is_placeholder(v) == v = <<"changeme">>

\* The ends of a scheme's :// at a position; two schemes never both have theirs.
find_next_scheme(t, at) ==
    {[scheme |-> s, end |-> at + Len(s) + 2] :
       s \in {s \in SCHEMES : starts_with(t, at, s \o <<":", "//">>)}}

authority_end(t, from) ==
    scan_bounded(t, from, MAX_AUTHORITY_LENGTH, is_authority_terminator)

\* The @ of an authority that has one, and does not begin with it.
single_at(v) == LET ats == occurrences(v, "@") IN IF Cardinality(ats) # 1 \/ 1 \in ats THEN {} ELSE ats

\* The password: behind the first colon, with a user before it except for redis, and not empty.
PasswordOf(scheme, authority, at) ==
    LET user_info == SubSeq(authority, 1, at - 1)
        colons == occurrences(user_info, ":")
        separator == Min(colons)
        password == SubSeq(user_info, separator + 1, Len(user_info))
    IN  IF /\ colons # {}
           /\ separator = 1 => scheme \in {<<"redis">>, <<"redis", "s">>}
           /\ separator # Len(user_info)
           /\ Len(password) <= MAX_PASSWORD_LENGTH /\ ~is_placeholder(password)
           /\ has_valid_userinfo_encoding(user_info)
           /\ has_valid_host_for_scheme(scheme, SubSeq(authority, at + 1, Len(authority)))
          THEN {ByteRange(separator + 1, at)} ELSE {}

\* One scheme of the first pass; the scan resumes behind its ://.
scan_authority(t, position) ==
    UNION {LET m == scheme_match.end
               blocked == position > 1 /\ t[position - 1] \in is_scheme_char
               passwords ==
                 UNION {LET authority == SubSeq(t, m, stop - 1)
                        IN  UNION {PasswordOf(scheme_match.scheme, authority, at) :
                                     at \in single_at(authority)}
                        : stop \in authority_end(t, m)}
           IN  IF blocked \/ passwords = {} THEN {Raw(m, <<>>)}
               ELSE {Raw(m, <<ByteRange(m + p.start - 1, m + p.end - 1)>>) : p \in passwords}
           : scheme_match \in find_next_scheme(t, position)}

-----------------------------------------------------------------------------
(* Azure Storage: fields joined by semicolons, in any order *)

AzureSegments == {"AccountKey", "AccountName", "DefaultEndpointsProtocol", "EndpointSuffix", "https"}
is_identifier_byte == is_alnum_underscore \cup AzureSegments
is_azure_segment_terminator == Blank \cup LineEnd \cup {"quote", "<", ">", "backslash"}
KNOWN_AZURE_ENDPOINT_SUFFIXES == {<<"core.windows.net">>}

\* The run around the anchor; too long a one, to either side, is abandoned.
azure_segment_bounds(t, anchor) ==
    LET start == Max({i \in 1 .. anchor : i = 1 \/ t[i - 1] \in is_azure_segment_terminator})
    IN  IF anchor - start > MAX_AZURE_SEGMENT_LENGTH THEN {}
        ELSE {ByteRange(start, end) :
                end \in scan_bounded(t, anchor, MAX_AZURE_SEGMENT_LENGTH, is_azure_segment_terminator)}

\* The fields as ranges of their values, by the position of their key; a pair without = is none.
parse_azure_fields(t, segment) ==
    LET starts == {segment.start} \cup {i + 1 : i \in {i \in segment.start .. (segment.end - 1) : t[i] = ";"}}
        end(k) == Min({i \in k .. segment.end : i = segment.end \/ t[i] = ";"})
        equals(k) == {i \in k .. (end(k) - 1) : t[i] = "="}
    IN  {[at |-> k, key |-> SubSeq(t, k, Min(equals(k)) - 1), value |-> ByteRange(Min(equals(k)) + 1, end(k))] :
           k \in {k \in starts : equals(k) # {}}}

is_base64 == is_alnum \cup AzureSegments \cup {"+", "/"}

\* Mutant of is_valid_azure_account_key: padding may stand in the middle.
is_valid_azure_account_key_padded(v) ==
    /\ Len(v) >= MIN_AZURE_ACCOUNT_KEY_LENGTH /\ Len(v) % 4 = 0
    /\ \A i \in DOMAIN v : v[i] \in is_base64 \cup {"="}

\* Whole quanta of base64, padded in the last two places only.
is_valid_azure_account_key(v) ==
    /\ Len(v) >= MIN_AZURE_ACCOUNT_KEY_LENGTH /\ Len(v) % 4 = 0
    /\ \A i \in DOMAIN v :
         \/ v[i] \in is_base64 /\ \A j \in 1 .. i : v[j] # "="
         \/ v[i] = "=" /\ i > Len(v) - 2

\* The account key of a segment whose first fields of each name are all good.
azure_storage_candidate(t, anchor) ==
    UNION {LET fields == parse_azure_fields(t, segment)
               first(key) == {f \in fields : f.key = <<key>> /\
                                \A g \in fields : g.key = f.key => f.at <= g.at}
               text(f) == SubSeq(t, f.value.start, f.value.end - 1)
           IN  IF /\ \E f \in first("DefaultEndpointsProtocol") : text(f) = <<"https">>
                  /\ \E f \in first("AccountName") : text(f) # <<>>
                  /\ \E f \in first("EndpointSuffix") : text(f) \in KNOWN_AZURE_ENDPOINT_SUFFIXES
                 THEN {f.value : f \in {f \in first("AccountKey") : is_valid_azure_account_key(text(f))}}
                 ELSE {}
           : segment \in azure_segment_bounds(t, anchor)}

\* One anchor of the second pass.
scan_azure(t, anchor) ==
    LET blocked == anchor > 1 /\ t[anchor - 1] \in is_identifier_byte
        keys == azure_storage_candidate(t, anchor)
    IN  IF ~starts_with(t, anchor, <<"AccountKey", "=">>) THEN {}
        ELSE IF blocked \/ keys = {} THEN {Raw(anchor + 1, <<>>)}
        ELSE {Raw(anchor + 1, <<k>>) : k \in keys}
=============================================================================
