----------------------------- MODULE DetectorScan -----------------------------
(***************************************************************************)
(* Detector::detect of the built-in detectors, as the loop it is: a cursor *)
(* runs over the text, once for each pass of the detector; where an        *)
(* attempt finds nothing it advances by one character, else it resumes     *)
(* where the match says.  Texts are any the instance chooses.              *)
(***************************************************************************)
EXTENDS ContextualSecrets, ConnectionStrings

CONSTANT TextsOf     \* the texts each detector of the instance is given, by its id

VARIABLES detector, text,     \* what runs, and on what
          pass, cursor,       \* the loop it is in, and where that is
          candidates          \* the ranges reported so far

detect_vars == <<detector, text, pass, cursor, candidates>>

Kind(k) == [kind |-> k]

\* The passes of each detector.
Passes ==
    [ aws |-> <<AwsAccessKeyDetector>>,
      github |-> <<GitHubClassic, GitHubInstallation, Kind("fine_grained")>>,
      gitlab |-> <<GitlabTokenDetector>>,
      openai |-> <<Kind("openai")>>,
      anthropic |-> <<AnthropicTokenDetector>>,
      shopify |-> <<ShopifyTokenDetector>>,
      vault |-> <<VaultTokenDetector>>,
      stripe |-> <<STRIPE>>, slack |-> <<SLACK>>, pypi |-> <<PYPI>>, huggingface |-> <<HUGGING_FACE>>,
      docker |-> <<DOCKER>>, cloudflare |-> <<CLOUDFLARE>>, digitalocean |-> <<DIGITALOCEAN>>,
      linear |-> <<LINEAR>>, supabase |-> <<SUPABASE>>, vercel |-> <<VERCEL>>, npm |-> <<NPM>>,
      jwt |-> <<Kind("jwt")>>,
      bearer |-> <<Kind("bearer")>>,
      connection_string |-> <<Kind("authority"), Kind("azure")>>,
      otpauth |-> <<Kind("otpauth")>>,
      generic_token |-> <<Kind("assignment"), Kind("authorization")>> ]

ASSUME TextsAssumption ==
    /\ DOMAIN TextsOf \subseteq DOMAIN Passes
    /\ \A d \in DOMAIN TextsOf : TextsOf[d] \subseteq Seq(STRING)

\* What an attempt of a pass at a position comes to: nothing, or a raw match.
attempt(s, t, at) ==
    CASE s.kind = "run" -> scan_prefixed_runs(s, t, at)
      [] s.kind = "fine_grained" -> scan_fine_grained(t, at)
      [] s.kind = "openai" -> scan_openai(t, at)
      [] s.kind = "jwt" -> scan_jwt(t, at)
      [] s.kind = "bearer" -> scan_bearer(t, at)
      [] s.kind = "authority" -> scan_authority(t, at)
      [] s.kind = "azure" -> scan_azure(t, at)
      [] s.kind = "otpauth" -> scan_otpauth(t, at)
      [] s.kind = "assignment" -> scan_assignment(t, at)
      [] s.kind = "authorization" -> scan_authorization(t, at)

Scan == Passes[detector][pass]

DetectInit ==
    /\ detector \in DOMAIN TextsOf /\ text \in TextsOf[detector]
    /\ pass = 1 /\ cursor = 1 /\ candidates = <<>>

Advance ==
    /\ cursor <= Len(text) /\ attempt(Scan, text, cursor) = {}
    /\ cursor' = cursor + 1
    /\ UNCHANGED <<detector, text, pass, candidates>>

\* Mutant of Match: the scan resumes where what it reports begins.
MatchStays ==
    /\ cursor <= Len(text)
    /\ \E m \in attempt(Scan, text, cursor) :
         /\ cursor' = IF m.found = <<>> THEN m.resume ELSE m.found[1].start
         /\ candidates' = candidates \o m.found
    /\ UNCHANGED <<detector, text, pass>>

Match ==
    /\ cursor <= Len(text)
    /\ \E m \in attempt(Scan, text, cursor) :
         /\ cursor' = m.resume
         /\ candidates' = candidates \o m.found
    /\ UNCHANGED <<detector, text, pass>>

NextPass ==
    /\ cursor > Len(text) /\ pass < Len(Passes[detector])
    /\ pass' = pass + 1 /\ cursor' = 1
    /\ UNCHANGED <<detector, text, candidates>>

DetectNext == Advance \/ Match \/ NextPass

DetectSpec == DetectInit /\ [][DetectNext]_detect_vars

Done == pass = Len(Passes[detector]) /\ cursor > Len(text)
=============================================================================
