--------------------------- MODULE ProviderProbes ---------------------------
(***************************************************************************)
(* One call of a provider script from the credentials it finds to what the *)
(* runtime makes of its lines: every script that ships with the app, every *)
(* combination of credentials and replies, every shape of figures.  The    *)
(* scripts of LoginProviders are followed from an answered request on: how *)
(* they get there is the subject of LoginProbe, as CopilotToken is for     *)
(* copilot.                                                                *)
(***************************************************************************)
EXTENDS LoginProviders, KeyProviders, AppProviders

VARIABLES
    script,  \* the script that runs
    setting, \* the credentials it finds and the replies it meets
    stage,   \* "called", "answered" or "done"
    outcome, \* what the script has thrown or returned
    output   \* what the runtime has made of it

scriptVars == <<script, setting, stage, outcome, output>>

LoginScripts == {"claude", "codex", "cursor", "factory", "grok", "kimi", "kiro", "copilot", "mock"}

Script == LoginScripts \cup
    {"amp", "zai", "synthetic", "openrouter", "ollama", "opencode-go", "minimax", "cline-pass",
     "antigravity", "devin", "perplexity", "jetbrains-ai-assistant"}

Setting(p) ==
    CASE p \in LoginScripts -> {"signed in"}
      [] p = "amp" -> OneRequest({"secrets"})
      [] p = "zai" -> OneRequest({"ZAI_API_KEY", "GLM_API_KEY"})
      [] p = "synthetic" -> OneRequest({"pi auth", "pi models", "factory settings", "opencode auth",
                                        "SYNTHETIC_API_KEY"})
      [] p = "openrouter" -> [places : SUBSET {"config", "OPENROUTER_API_KEY"}, reply : Reply, key : Reply]
      [] p = "ollama" -> OneRequest({"OLLAMA_API_KEY", "config"})
      [] p = "opencode-go" -> OneRequest({"account key", "config", "opencode auth", "OPENCODE_API_KEY"})
      [] p = "minimax" -> MinimaxSetting
      [] p = "cline-pass" -> ClineSetting
      [] p = "antigravity" -> AntigravitySetting
      [] p = "devin" -> DevinSetting
      [] p = "perplexity" -> PerplexitySetting
      [] p = "jetbrains-ai-assistant" -> [files : Listed(QuotaFile, 0, MaxFiles)]

Fetched(p, s) ==
    CASE p \in LoginScripts -> "body"
      [] p = "amp" -> amp_fetch(s)
      [] p = "zai" -> zai_fetch(s)
      [] p = "synthetic" -> synthetic_fetch(s)
      [] p = "openrouter" -> openrouter_fetch(s)
      [] p = "ollama" -> ollama_fetch(s)
      [] p = "opencode-go" -> opencode_fetch(s)
      [] p = "minimax" -> minimax_fetch(s)
      [] p = "cline-pass" -> cline_fetch(s)
      [] p = "antigravity" -> antigravity_fetch(s)
      [] p = "devin" -> devin_fetch(s)
      [] p = "perplexity" -> perplexity_fetch(s)
      [] p = "jetbrains-ai-assistant" -> jetbrains_fetch(s)

\* What the lines still depend on when the figures are there.
Remembered(p, s) ==
    CASE p = "minimax" -> minimax_endpoint(s)
      [] p \in {"openrouter", "cline-pass", "perplexity"} -> [s EXCEPT !.places = {}]
      [] p = "jetbrains-ai-assistant" -> s
      [] OTHER -> "any"

Outcomes(p, s) ==
    CASE p = "claude" -> {claude_lines(d) : d \in ClaudeData}
      [] p = "codex" -> {codex_lines(d) : d \in CodexData}
      [] p = "cursor" -> {cursor_lines(d) : d \in CursorData}
      [] p = "factory" -> {factory_lines(d) : d \in FactoryData}
      [] p = "grok" -> {grok_lines(d) : d \in GrokData}
      [] p = "kimi" -> {kimi_lines(d) : d \in KimiData}
      [] p = "kiro" -> {kiro_lines(d) : d \in KiroData}
      [] p = "copilot" -> {copilot_lines(d) : d \in CopilotData}
      [] p = "mock" -> {mock_lines}
      [] p = "amp" -> {amp_lines(d) : d \in AmpData}
      [] p = "zai" -> {zai_lines(d) : d \in ZaiData}
      [] p = "synthetic" -> {synthetic_lines(d) : d \in SyntheticData}
      [] p = "openrouter" -> {openrouter_lines(s, d) : d \in OpenrouterData}
      [] p = "ollama" -> {ollama_lines(d) : d \in OllamaData}
      [] p = "opencode-go" -> {opencode_lines(d) : d \in OpencodeData}
      [] p = "minimax" -> {minimax_lines(s, d) : d \in MinimaxData(s)}
      [] p = "cline-pass" -> {cline_lines(s, d) : d \in ClineData}
      [] p = "antigravity" -> {antigravity_lines(d) : d \in AntigravityData}
      [] p = "devin" -> {Lines(buildOutput(d)) : d \in DevinData}
      [] p = "perplexity" -> {perplexity_lines(s, d) : d \in PerplexityData}
      [] p = "jetbrains-ai-assistant" -> {jetbrains_lines(s)}

ScriptInit ==
    /\ \E p \in Script : script = p /\ setting \in Setting(p)
    /\ stage = "called" /\ outcome = Thrown("none") /\ output = <<>>

\* The script has its figures, or gives up.
Fetch ==
    /\ stage = "called"
    /\ LET fetched == Fetched(script, setting)
       IN  IF fetched = "body"
           THEN /\ stage' = "answered" /\ setting' = Remembered(script, setting)
                /\ UNCHANGED <<outcome, output>>
           ELSE /\ stage' = "done" /\ outcome' = Thrown(fetched)
                /\ output' = run_probe_with_timeout(Thrown(fetched), FALSE)
                /\ UNCHANGED setting
    /\ UNCHANGED script

\* The script builds its lines, in time or late.
Return ==
    /\ stage = "answered" /\ stage' = "done"
    /\ outcome' \in Outcomes(script, setting)
    /\ \E late \in BOOLEAN : output' = run_probe_with_timeout(outcome', late)
    /\ UNCHANGED <<script, setting>>

ScriptNext == Fetch \/ Return

ScriptSpec == ScriptInit /\ [][ScriptNext]_scriptVars

(***************************************************************************)
(* Properties                                                              *)
(***************************************************************************)
NoCredential(p, s) ==
    CASE p = "antigravity" -> s.ls = "none" /\ {s.db, s.cached, s.agy} = {"none"}
      [] p = "devin" -> {s.env, s.file, s.app, s.next} \subseteq {"none", "seen"}
      [] p = "jetbrains-ai-assistant" -> s.files = <<>>
      [] OTHER -> s.places = {}

RefusedBy(p, s) ==
    CASE p = "antigravity" -> {s.db, s.cached, s.agy, s.refresh} \cap {"auth", "refused"} # {}
      [] p = "devin" -> "auth" \in {s.env, s.file, s.app, s.next}
      [] p = "minimax" -> \E i \in 1..2 : {s.CN[i], s.GLOBAL[i]} \cap {"401", "refused"} # {}
      [] p = "cline-pass" -> isAuthStatus(s.me)
      [] p = "jetbrains-ai-assistant" -> FALSE
      [] OTHER -> isAuthStatus(s.reply)

\* antigravity takes a login without models, and a renewal that got no
\* answer or could not be asked for, as signed out.
AntigravityGuess(p, s) ==
    p = "antigravity" /\ ("empty" \in {s.db, s.cached, s.refresh, s.agy}
                          \/ (s.db = "expired" /\ s.refresh \in {"none", "unanswered"}))

\* An outage does not read as signed out (antigravity/plugin.js:778): a
\* script asks for a login or a key only if it found none, or if a server
\* refused the one it found; never because a server failed or was silent.
OutageIsNotLogout ==
    (stage = "done" /\ script \notin LoginScripts /\ outcome.thrown = "login") =>
        \/ NoCredential(script, setting) \/ RefusedBy(script, setting)
        \/ AntigravityGuess(script, setting)

\* The scripts that pass on a limit of 0 that a service reports.
PassesZero == {"cursor", "factory", "synthetic", "zai"}

\* The scripts that pass on a count that a service left out.
PassesMissing == {"synthetic"}

\* Whatever figures a service reports, the runtime accepts the lines a script
\* makes of them: no amount is negative or missing, and a percentage is out of
\* 100.  One line that is not accepted hides the figures of all the others.
\* The limits of 0 that some scripts pass on, the counts of requests that
\* synthetic passes on when they are left out, and the sample lines of mock,
\* are not accepted.
FiguresSurvive ==
    \A i \in DOMAIN outcome.lines :
        \/ Accepted(outcome.lines[i])
        \/ outcome.lines[i].limit = 0 /\ script \in PassesZero
        \/ outcome.lines[i].used = Missing /\ script \in PassesMissing
        \/ script = "mock"
=============================================================================
