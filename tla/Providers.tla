------------------------------ MODULE Providers ------------------------------
(***************************************************************************)
(* The matching engine of pattern.rs and the provider detectors built on   *)
(* it.  A text is a sequence of symbols.  A symbol is a delimiter, one     *)
(* character of a class (a, U, 9) or a literal segment of a prefix, made   *)
(* of letters and digits only; each counts as one byte, so the lengths of  *)
(* the formats are constants to be scaled down.  A match is a record:      *)
(* where the scan resumes, and the range it reports, if any.               *)
(***************************************************************************)
EXTENDS Integers, Sequences, FiniteSetsExt

CONSTANT Lengths    \* the lengths of the formats, by the name of the format

LengthNames == {"aws", "github", "vault", "opaque", "pypi", "npm", "first", "second",
                "tail", "signature", "bearer", "base32", "label", "query", "authorization"}
ASSUME LengthsAssumption == Lengths \in [LengthNames -> Nat \ {0}]

Upper == {"U", "AKIA", "ASIA"}
Digit == {"0", "1", "2", "3", "5", "6", "9"}
Segments == {"gho", "ghp", "ghu", "ghr", "ghs", "github", "pat", "glpat", "gloas", "gldt", "glrt",
             "glrtr", "glcbt", "glptt", "glft", "glimt", "glagent", "glwt", "sk", "proj",
             "svcacct", "ant", "api03", "shpat", "shppa", "hvs", "hvb", "hvr", "live", "test", "rk",
             "org", "whsec", "xoxb", "xoxp", "xapp", "xwfp", "xoxe", "pypi", "hf", "dckr", "oat",
             "cfut", "dop", "doo", "dor", "v1", "lin", "api", "oauth", "sb", "secret", "vcp", "vci",
             "vca", "vcr", "vck", "npm", "eyJ", "bearer", "authorization", "basic", "token"}

is_upper_alnum == Upper \cup Digit
is_alnum == is_upper_alnum \cup {"a"} \cup Segments
is_alnum_underscore == is_alnum \cup {"_"}
is_alnum_dash == is_alnum_underscore \cup {"-"}
is_alnum_dash_dot == is_alnum_dash \cup {"."}

starts_with(t, at, literal) ==
    /\ at + Len(literal) - 1 <= Len(t)
    /\ SubSeq(t, at, at + Len(literal) - 1) = literal

ByteRange(start, end) == [start |-> start, end |-> end]
Raw(resume, found) == [resume |-> resume, found |-> found]

\* Mutant of run_end: the last byte of the text belongs to no run.
run_end_stops_short(t, at, alphabet) ==
    Min({i \in at .. (Len(t) + 1) : i >= Len(t) \/ t[i] \notin alphabet} \cup {Len(t) + 1})

\* The end of the maximal run of the alphabet that starts at a position.
run_end(t, at, alphabet) ==
    Min({i \in at .. (Len(t) + 1) : i > Len(t) \/ t[i] \notin alphabet})

\* Mutant of boundary_ok: a byte before the span is not looked at.
boundary_ok_after_only(t, start, end, boundary) ==
    end > Len(t) \/ t[end] \notin boundary

\* The span is not a slice of a longer run.
boundary_ok(t, start, end, boundary) ==
    /\ start = 1 \/ t[start - 1] \notin boundary
    /\ end > Len(t) \/ t[end] \notin boundary

\* A raw match is skipped as a whole, whether or not its boundaries let it be reported.
bounded(t, start, end, boundary) ==
    {Raw(end, IF boundary_ok(t, start, end, boundary) THEN <<ByteRange(start, end)>> ELSE <<>>)}

-----------------------------------------------------------------------------
(* prefix, then a run of an alphabet: exactly or at least a length *)

Prefixed(prefixes, exact, length, alphabet, boundary) ==
    [kind |-> "run", prefixes |-> prefixes, exact |-> exact, length |-> length,
     alphabet |-> alphabet, boundary |-> boundary]

\* Mutant of scan_prefixed_runs: an exact run ends where the run does, not at its length.
scan_prefixed_runs_maximal(s, t, at) ==
    LET fits == {p \in s.prefixes : starts_with(t, at, p)}
        prefix == CHOOSE p \in fits : \A q \in fits : Len(q) <= Len(p)
        suffix == at + Len(prefix)
        available == run_end(t, suffix, s.alphabet) - suffix
    IN  IF fits = {} \/ available < s.length THEN {} ELSE bounded(t, at, suffix + available, s.boundary)

\* One position of the scan: the longest prefix that matches there decides.
scan_prefixed_runs(s, t, at) ==
    LET fits == {p \in s.prefixes : starts_with(t, at, p)}
        prefix == CHOOSE p \in fits : \A q \in fits : Len(q) <= Len(p)
        suffix == at + Len(prefix)
        available == run_end(t, suffix, s.alphabet) - suffix
        matched == IF s.exact THEN s.length ELSE available
    IN  IF fits = {} \/ available < s.length THEN {} ELSE bounded(t, at, suffix + matched, s.boundary)

Opaque(prefixes) == Prefixed(prefixes, FALSE, Lengths.opaque, is_alnum_dash, is_alnum_dash)
With(delimiter, segments) == {<<s, delimiter>> : s \in segments}

AwsAccessKeyDetector == Prefixed({<<"AKIA">>, <<"ASIA">>}, TRUE, Lengths.aws, is_upper_alnum, is_alnum)
GitHubClassic ==
    Prefixed(With("_", {"gho", "ghp", "ghu", "ghr"}), TRUE, Lengths.github, is_alnum, is_alnum_underscore)
GitHubInstallation ==
    Prefixed(With("_", {"ghs"}), FALSE, Lengths.github, is_alnum_dash_dot, is_alnum_dash_dot)
GitlabTokenDetector ==
    Opaque(With("-", {"glpat", "gloas", "gldt", "glrt", "glrtr", "glcbt", "glptt", "glft", "glimt",
                      "glagent", "glwt"}))
AnthropicTokenDetector == Opaque({<<"sk", "-", "ant", "-", "api03", "-">>})
ShopifyTokenDetector == Opaque(With("_", {"shpat", "shppa"}))
VaultTokenDetector ==
    Prefixed(With(".", {"hvs", "hvb", "hvr"}), FALSE, Lengths.vault, is_alnum_dash, is_alnum_dash_dot)
STRIPE ==
    Prefixed({<<"sk", "_", m, "_">> : m \in {"test", "live", "org"}}
               \cup {<<"rk", "_", m, "_">> : m \in {"test", "live"}} \cup {<<"whsec", "_">>},
             FALSE, Lengths.opaque, is_alnum, is_alnum_dash)
SLACK ==
    Opaque(With("-", {"xoxb", "xoxp", "xapp", "xwfp", "xoxe"})
             \cup {<<"xoxe", ".", s, "-">> : s \in {"xoxb", "xoxp"}})
PYPI == Prefixed({<<"pypi", "-">>}, FALSE, Lengths.pypi, is_alnum_dash, is_alnum_dash)
HUGGING_FACE == Opaque({<<"hf", "_">>})
DOCKER == Opaque({<<"dckr", "_", s, "_">> : s \in {"pat", "oat"}})
CLOUDFLARE == Opaque({<<"cfut", "_">>})
DIGITALOCEAN == Opaque({<<s, "_", "v1", "_">> : s \in {"dop", "doo", "dor"}})
LINEAR == Opaque({<<"lin", "_", s, "_">> : s \in {"api", "oauth"}})
SUPABASE == Opaque({<<"sb", "_", "secret", "_">>})
VERCEL == Opaque(With("_", {"vcp", "vci", "vca", "vcr", "vck"}))
NPM == Prefixed({<<"npm", "_">>}, TRUE, Lengths.npm, is_alnum, is_alnum_dash)

-----------------------------------------------------------------------------
(* github_pat_: two exact runs and the underscore between them *)

exact_run(t, start, length) ==
    start + length - 1 <= Len(t) /\ \A i \in start .. (start + length - 1) : t[i] \in is_alnum

FINE_GRAINED_PREFIX == <<"github", "_", "pat", "_">>

scan_fine_grained(t, at) ==
    LET first == at + Len(FINE_GRAINED_PREFIX)
        separator == first + Lengths.first
    IN  IF /\ starts_with(t, at, FINE_GRAINED_PREFIX)
           /\ exact_run(t, first, Lengths.first)
           /\ separator <= Len(t) /\ t[separator] = "_"
           /\ exact_run(t, separator + 1, Lengths.second)
          THEN bounded(t, at, separator + 1 + Lengths.second, is_alnum_underscore)
          ELSE {}

-----------------------------------------------------------------------------
(* openai.rs: a project or service-account key, or a bare one that is not Anthropic's *)

LongInfixes == {<<"proj", "-">>, <<"svcacct", "-">>}

\* Mutant of branch_end: Anthropic's namespace is not excluded.
branch_end_of_any(t, rest) ==
    LET long == {p \in LongInfixes : starts_with(t, rest, p)}
        from == IF long = {} THEN rest ELSE rest + Len(CHOOSE p \in long : TRUE)
        available == run_end(t, from, is_alnum_dash) - from
    IN  IF available < Lengths.opaque THEN {} ELSE {from + available}

\* An infix commits the match: a project key that is too short is not tried as a bare one.
branch_end(t, rest) ==
    LET long == {p \in LongInfixes : starts_with(t, rest, p)}
        from == IF long = {} THEN rest ELSE rest + Len(CHOOSE p \in long : TRUE)
        available == run_end(t, from, is_alnum_dash) - from
    IN  IF (long = {} /\ starts_with(t, rest, <<"ant", "-">>)) \/ available < Lengths.opaque
          THEN {} ELSE {from + available}

scan_openai(t, at) ==
    IF starts_with(t, at, <<"sk", "-">>)
      THEN UNION {bounded(t, at, end, is_alnum_dash) : end \in branch_end(t, at + 2)}
      ELSE {}
=============================================================================
