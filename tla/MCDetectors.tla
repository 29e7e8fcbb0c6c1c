----------------------------- MODULE MCDetectors -----------------------------
(***************************************************************************)
(* Instances of DetectorGrammar: texts made of up to a few blocks, the     *)
(* blocks of each detector being parts of its credentials, whole and       *)
(* broken, and what may stand around them.                                 *)
(***************************************************************************)
EXTENDS DetectorGrammar

Scaled == [n \in LengthNames |->
             IF n \in {"opaque", "label"} THEN 3 ELSE IF n \in {"tail", "pypi"} THEN 1
             ELSE IF n = "query" THEN 8 ELSE 2]

\* The texts of up to n blocks.
Texts(blocks, n) ==
    LET texts[k \in 0 .. n] ==
          IF k = 0 THEN {<<>>} ELSE texts[k - 1] \cup {u \o b : u \in texts[k - 1], b \in blocks}
    IN  texts[n]
Around == {<<"a">>, <<"a", "a", "a">>, <<"-">>, <<"_">>, <<" ">>}
OpaqueTexts(prefixes) == Texts(prefixes \cup {<<"a">>, <<"a", "a", "a">>, <<"-">>, <<" ">>}, 3)

OpenAITexts ==
    Texts({<<"sk", "-">>, <<"sk", "-", "proj", "-">>, <<"svcacct", "-">>, <<"ant", "-">>, <<"a">>,
           <<"a", "a", "a">>, <<" ">>}, 4)

ProviderTexts ==
    [ aws |-> Texts({<<"AKIA">>, <<"U">>, <<"U", "U">>, <<"a">>, <<"_">>, <<" ">>}, 4),
      github |-> Texts({<<"ghp", "_">>, <<"ghs", "_">>, <<"a">>, <<"a", "a">>, <<"_">>, <<".">>, <<" ">>}, 4)
                   \cup Texts({<<"github", "_", "pat", "_">>, <<"a">>, <<"a", "a">>, <<"_">>, <<"-">>}, 5),
      gitlab |-> OpaqueTexts({<<"glrt", "-">>, <<"glrtr", "-">>, <<"glpat">>}),
      openai |-> OpenAITexts,
      anthropic |-> OpaqueTexts({<<"sk", "-", "ant", "-", "api03", "-">>, <<"sk", "-", "ant", "-">>}),
      shopify |-> OpaqueTexts({<<"shpat", "_">>, <<"shppa", "_">>}),
      vault |-> Texts({<<"hvs", ".">>, <<"hvb">>, <<"a">>, <<"a", "a">>, <<"-">>, <<".">>, <<" ">>}, 4),
      stripe |-> Texts({<<"sk", "_", "live", "_">>, <<"sk", "_">>, <<"whsec", "_">>} \cup Around, 3),
      slack |-> Texts({<<"xoxe">>, <<".">>, <<"xoxb", "-">>, <<"a", "a", "a">>, <<"-">>, <<" ">>}, 5),
      pypi |-> OpaqueTexts({<<"pypi", "-">>}), huggingface |-> OpaqueTexts({<<"hf", "_">>}),
      docker |-> OpaqueTexts({<<"dckr", "_", "pat", "_">>, <<"dckr", "_">>}),
      cloudflare |-> OpaqueTexts({<<"cfut", "_">>}),
      digitalocean |-> OpaqueTexts({<<"dop", "_", "v1", "_">>, <<"v1", "_">>}),
      linear |-> OpaqueTexts({<<"lin", "_", "api", "_">>, <<"lin", "_">>}),
      supabase |-> OpaqueTexts({<<"sb", "_", "secret", "_">>}),
      vercel |-> OpaqueTexts({<<"vcp", "_">>, <<"vck", "_">>}),
      npm |-> Texts({<<"npm", "_">>} \cup Around, 4) ]

-----------------------------------------------------------------------------
(* connection strings: every user information with one host, every host with one user *)

Address(l, sep, r, quad) ==
    LET groups(n) == IF n = 0 THEN <<>> ELSE [k \in 1 .. (2 * n - 1) |-> IF k % 2 = 1 THEN "f" ELSE ":"]
    IN  <<"[">> \o groups(l) \o sep \o groups(r)
          \o (IF quad = <<>> THEN <<>> ELSE (IF r = 0 THEN <<>> ELSE <<":">>) \o quad) \o <<"]">>
Quads == {<<>>, <<"1", ".", "2", "5", "5", ".", "0", ".", "9">>, <<"1", ".", "2", "5", "6", ".", "0", ".", "9">>}
Addresses ==
    {Address(l, sep, r, quad) : l \in 0 .. 8, r \in 0 .. 8,
       sep \in {<<>>, <<":">>, <<":", ":">>}, quad \in Quads}
      \cup {Address(l, <<":", ":", ":">>, 1, <<>>) : l \in 0 .. 2}
      \cup {<<"[", ":", ":">>, <<"[", "f", ":", ":", "f", ":", ":", "f", "]">>,
            <<"[", "f", "f", "f", "f", "f", ":", ":", "]">>, <<"[", "1", ".", "2", ".", "3", ".", "5", ":", ":", "]">>}
PortTexts == {<<>>, <<":">>, <<":", "9">>, <<":", "6", "5", "5", "3", "5">>, <<":", "6", "5", "5", "3", "6">>,
              <<":", "0", "0", "0", "0", "0", "1">>, <<":", "f">>}
NameTexts == Texts({<<"a">>, <<"-">>, <<".">>, <<",">>, <<"a", ":", "9">>}, 5)

URL(scheme, user, host) == scheme \o <<":", "//">> \o user \o <<"@">> \o host
UserTexts == Texts({<<"a">>, <<":">>, <<"%", "f", "9">>, <<"%", "f">>, <<"@">>, <<"/">>, <<"changeme">>}, 4)
               \cup {<<"a", ":">> \o [k \in 1 .. n |-> "a"] : n \in 5 .. 8}
User == <<"a", ":", "a">>
AuthorityTexts ==
    {URL(<<"postgres">>, u, <<"a">>) : u \in UserTexts}
      \cup {URL(<<"redis", "s">>, u, <<"a">>) : u \in Texts({<<"a">>, <<":">>}, 3)}
      \cup {URL(<<"mysql">>, User, <<"[", "f", ":", ":", "]">> \o p) : p \in PortTexts}
      \cup {URL(<<"mysql">>, User, <<"a", ".", "a">> \o p) : p \in PortTexts}
      \cup {URL(<<"amqp">>, User, a) : a \in Addresses}
      \cup {URL(s, User, h) : s \in {<<"mongodb">>, <<"mongodb", "+", "srv">>, <<"mariadb">>}, h \in NameTexts}
      \cup {URL(<<"postgres">>, User, [k \in 1 .. n |-> "a"]) : n \in 28 .. 34}
      \cup {x \o URL(<<"postgres", "ql">>, User, <<"a">>) \o y \o URL(<<"redis">>, User, <<"a">>) :
              x \in {<<>>, <<"a">>, <<" ">>, <<"-">>}, y \in {<<>>, <<" ">>, <<"/">>, <<"?">>, <<"changeme">>}}

Fields == [ protocol |-> <<"DefaultEndpointsProtocol", "=", "https">>,
            name |-> <<"AccountName", "=", "a">>,
            suffix |-> <<"EndpointSuffix", "=", "core.windows.net">>,
            key |-> <<"AccountKey", "=", "a", "a", "=", "=">> ]
OtherFields ==
    {<<"a">>, <<"AccountName", "=">>, <<"EndpointSuffix", "=", "a">>, <<"AccountKey", "=", "a", "a", "a", "=">>,
     <<"AccountKey", "=", "a", "=", "=", "a">>, <<"AccountKey", "=", "a", "a">>, <<"a", "AccountKey", "=", "a", "a", "a", "a">>,
     <<"DefaultEndpointsProtocol", "=", "a">>, <<" ">>, <<"quote">>, [k \in 1 .. 6 |-> "a"], [k \in 1 .. 7 |-> "a"]}
JoinedBy(parts) == FlattenSeq([k \in DOMAIN parts |-> IF k = 1 THEN parts[k] ELSE <<";">> \o parts[k]])
Orders == {p \in [1 .. 4 -> DOMAIN Fields] : \A i, j \in 1 .. 4 : p[i] = p[j] => i = j}
AzureTexts ==
    {JoinedBy(InsertAt([k \in 1 .. 4 |-> Fields[p[k]]], i, o)) : p \in Orders, i \in 1 .. 5, o \in OtherFields}
      \cup {JoinedBy(ReplaceAt([k \in 1 .. 4 |-> Fields[p[k]]], i, o)) : p \in Orders, i \in 1 .. 4, o \in OtherFields}

-----------------------------------------------------------------------------

StructuralTexts ==
    [ jwt |-> Texts({<<"eyJ", "a">>, <<"eyJ">>, <<".">>, <<"a", "a">>, <<" ">>}, 6),
      bearer |-> Texts({<<"authorization", ":">>, <<"authorization", " ", ":", "lf">>, <<"bearer", " ">>, <<"bearer">>,
                        <<"a", "a">>, <<"a">>, <<"=">>, <<"-">>, <<"lf">>}, 4)
                   \cup {<<"bearer", "tab", "a", "a">> \o [k \in 1 .. n |-> "="] : n \in 0 .. 3},
      connection_string |-> AuthorityTexts \cup AzureTexts,
      otpauth |-> {x \o <<"otpauth:", "//totp/">> \o y : x \in {<<>>, <<"a">>, <<" ">>},
                   y \in Texts({<<"a">>, <<"?">>, <<"?", "secret", "=">>, <<"&", "secret", "=">>, <<"U", "2">>, <<"U", "=">>,
                                <<"/">>, <<"otpauth:", "//totp/">>}, 3)
                         \cup {<<"?">> \o q : q \in Texts({<<"secret", "=">>, <<"&">>, <<"U", "U">>, <<"a">>, <<"=">>, <<"#">>}, 4)}},
      generic_token |->
        Texts({<<"authorization", ":">>, <<"authorization", " ", ":", " ">>, <<"basic", " ">>, <<"token">>, <<"a", "9">>,
               <<"9", "9">>, <<"/">>, <<" ">>, <<"lf">>, <<"ls">>}, 4)
          \cup {n \o x \o v : n \in Texts({<<"api">>, <<"API">>, <<"Key">>, <<"-">>, <<"auth">>, <<"Token">>, <<"a">>}, 4),
                  x \in {<<"=">>}, v \in {<<"a", "a">>}}
          \cup {x \o <<"password">> \o y \o v : x \in {<<>>, <<"a">>, <<" ">>, <<"{", "quote">>, <<"a", ":", "lf">>, <<"-", "lf">>},
                  y \in {<<"=">>, <<"quote", " ", ":", "lf">>, <<" ">>},
                  v \in Texts({<<"a">>, <<"9">>, <<"quote">>, <<"backslash">>, <<",">>, <<"lf">>}, 4)
                          \cup Texts({<<"$">>, <<"<">>, <<">">>, <<"{">>, <<"process.env.">>, <<"a">>, <<".key">>, <<"changeme">>, <<"./">>}, 2)}
          \cup {<<"auth", "=">> \o v : v \in Texts({<<"a">>, <<"9">>, <<"f">>}, 4)} ]

AllTexts == ProviderTexts @@ StructuralTexts
=============================================================================
