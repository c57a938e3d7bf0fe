---------------------------- MODULE AppProviders ----------------------------
(***************************************************************************)
(* The scripts that read their usage with what another program keeps: the  *)
(* login of an editor or of a command-line tool, a cached session, a quota *)
(* file.  Settings, ..._fetch and ..._lines are as in KeyProviders.        *)
(***************************************************************************)
EXTENDS PluginRuntime

\* What some services report in the place of a number.
Unlimited == -2

(***************************************************************************)
(* antigravity asks a running editor, then a running tool, then the        *)
(* service with each login it finds.  A login is met by figures, by an     *)
(* answer without any, by a refusal or by silence; "expired" is a login    *)
(* whose access token has run out.  With flaky, the first of the two       *)
(* addresses of the service fails before the second answers.               *)
(***************************************************************************)
CloudReply == {"models", "empty", "auth", "down"}

AntigravitySetting ==
    [ls : {"none", "editor", "tool"}, db : {"none", "expired"} \cup CloudReply,
     cached : {"none"} \cup CloudReply, agy : {"none"} \cup CloudReply,
     refresh : {"none", "refused", "unanswered"} \cup CloudReply, flaky : BOOLEAN]

Answering(replies) == \E i \in DOMAIN replies : replies[i] \in {"models", "empty"}

\* The logins that are tried as they are, up to the first that is answered.
antigravity_tokens(s) ==
    LET first == When(s.db \in CloudReply, s.db)
    IN  IF Answering(first) THEN first ELSE first \o When(s.cached \in CloudReply, s.cached)

\* A login is renewed only when one was refused or there was none to try.
refreshTokens(s) ==
    LET tried == antigravity_tokens(s)
    IN  When(/\ s.db # "none" /\ ~Answering(tried) /\ s.refresh \in CloudReply
             /\ tried = <<>> \/ \E i \in DOMAIN tried : tried[i] = "auth",
             s.refresh)

\* The tool's login comes last.
loadAgyTokens(s) ==
    When(~Answering(antigravity_tokens(s) \o refreshTokens(s)) /\ s.agy \in CloudReply, s.agy)

antigravity_fetch(s) ==
    LET asked == antigravity_tokens(s) \o refreshTokens(s) \o loadAgyTokens(s)
        sawTransportFailure ==
            asked # <<>> /\ (s.flaky \/ \E i \in DOMAIN asked : asked[i] = "down")
    IN  CASE s.ls # "none" \/ \E i \in DOMAIN asked : asked[i] = "models" -> "body"
          [] s.ls = "none" /\ (\A i \in DOMAIN asked : asked[i] # "models") /\ sawTransportFailure -> "error"
          [] OTHER -> "login"

\* Percentages that are left of the models, pools first.  A pool and a model
\* of several variants show the one with the least; a model that is named
\* like a pool is not repeated.
AntigravityModel == [label : {"Gemini 3 Pro", "Gemini 2 Pro", "Gemini Flash", "GPT"}, left : Amounts \cup Limits]

AntigravityData == [models : Listed(AntigravityModel, 1, MaxList)]

poolLabel(label) ==
    CASE label \in {"Gemini 3 Pro", "Gemini 2 Pro"} -> "Gemini Pro"
      [] label = "Gemini Flash" -> "Gemini Flash"
      [] OTHER -> "Claude"

keepWorst(models, Label(_), label) ==
    CHOOSE left \in {models[i].left : i \in {j \in DOMAIN models : Label(models[j].label) = label}} :
        \A i \in DOMAIN models : Label(models[i].label) = label => left <= models[i].left

modelLine(models, Label(_), label) ==
    When(\E i \in DOMAIN models : Label(models[i].label) = label,
         Percent(label, 100 - Clamp(keepWorst(models, Label, label), 0, 100)))

ownLabel(label) == label

antigravity_lines(d) ==
    Lines(modelLine(d.models, poolLabel, "Gemini Pro")
          \o modelLine(d.models, poolLabel, "Gemini Flash")
          \o modelLine(d.models, poolLabel, "Claude")
          \o modelLine(d.models, ownLabel, "Gemini 2 Pro")
          \o modelLine(d.models, ownLabel, "Gemini 3 Pro")
          \o modelLine(d.models, ownLabel, "GPT"))

(***************************************************************************)
(* devin tries each key it finds until one is answered with quotas.  A key *)
(* that was tried already ("seen") is not tried again, and a quota that    *)
(* makes no sense ("invalid") ends the probe.                              *)
(***************************************************************************)
DevinReply == {"none", "ok", "auth", "silent", "invalid"}

DevinSetting == [env : DevinReply, file : DevinReply, app : DevinReply \cup {"seen"},
                 next : DevinReply \cup {"seen"}]

devin_fetch(s) ==
    LET attempts == <<s.env, s.file, s.app, s.next>>
        tried == {i \in 1..4 : attempts[i] \notin {"none", "seen"}}
        ended == {i \in tried : attempts[i] \in {"ok", "invalid"}}
        sawAuthFailure == \E i \in tried : attempts[i] = "auth"
    IN  CASE ended # {} -> IF attempts[First(ended)] = "ok" THEN "body" ELSE "error"
          [] ended = {} /\ tried # {} /\ ~sawAuthFailure -> "error"
          [] OTHER -> "login"

Credit == [used : Some(Limits \cup {Unlimited}), available : Some(Limits \cup {Unlimited})]

buildCreditLine(label, c) ==
    LET total == IF c.used >= 0 /\ c.available >= 0 THEN c.used + c.available ELSE 0
    IN  CASE Unlimited \in {c.used, c.available} -> <<Badge(label)>>
          [] Unlimited \notin {c.used, c.available} /\ total > 0 ->
                <<Percent(label, Clamp((c.used * 100) \div total, 0, 100))>>
          [] OTHER -> When(c.used > 0 \/ c.available > 0, Text(label))

buildAcuLine(d) ==
    LET consumed == IF d.consumed = Missing THEN 0 ELSE d.consumed
    IN  IF d.limit > 0 THEN <<Percent("ACU used", Clamp((consumed * 100) \div d.limit, 0, 100))>>
        ELSE When(d.consumed > 0, Text("ACU used"))

DevinReport ==
    [daily : Some(Amounts), hideDaily : BOOLEAN, weekly : Some(Amounts), weeklyReset : BOOLEAN,
     consumed : Some(Amounts), limit : Some(Limits), credit : Credit, overage : BOOLEAN, pace : BOOLEAN]

\* A weekly quota without a number but with a reset is used up; without
\* either it is the daily one, if the service hides that.
buildOutput(d) ==
    LET week == IF d.weekly # Missing THEN d.weekly ELSE IF d.weeklyReset THEN 0
                ELSE IF d.hideDaily THEN d.daily ELSE Missing
        paced == week # Missing \/ (d.limit > 0)
    IN  buildAcuLine(d)
        \o When(week # Missing, Percent("Weekly quota", Clamp(100 - week, 0, 100)))
        \o When(~d.hideDaily /\ d.daily # Missing, Percent("Daily quota", Clamp(100 - d.daily, 0, 100)))
        \o buildCreditLine("Prompt credits", d.credit) \o buildCreditLine("Flow credits", d.credit)
        \o buildCreditLine("On-demand credits", d.credit)
        \o When(d.overage, Text("Extra usage balance")) \o When(d.pace /\ paced, Badge("Pace"))

\* A report without quotas is no answer: the next key is tried.
DevinData == {d \in DevinReport : buildOutput(d) # <<>>}

(***************************************************************************)
(* perplexity reads everything it can with the session of its application *)
(***************************************************************************)
PerplexitySetting == [places : SUBSET {"container", "caches"}, user : BOOLEAN, groups : BOOLEAN,
                      group : BOOLEAN, analytics : BOOLEAN, rates : BOOLEAN]

loadLocalSession(s) == FirstOf(<<"container", "caches">>, s.places)

fetchRestState(s) == s.user \/ (s.groups /\ s.group) \/ s.rates

perplexity_fetch(s) ==
    IF loadLocalSession(s) = "none" THEN "login" ELSE IF fetchRestState(s) THEN "body" ELSE "error"

PerplexityData == [balance : Some(Limits), cost : Some(Amounts),
                   rates : SUBSET {"Queries", "Deep Research", "Labs", "Agentic Research"}]

buildRateLimitLines(rates) ==
    When("Queries" \in rates, Text("Queries"))
    \o When("Deep Research" \in rates, Text("Deep Research"))
    \o When("Labs" \in rates, Text("Labs"))
    \o When("Agentic Research" \in rates, Text("Agentic Research"))

perplexity_lines(s, d) ==
    LET balance == IF s.groups /\ s.group THEN d.balance ELSE Missing
        lines == When(balance > 0 /\ s.analytics /\ d.cost # Missing,
                      Progress("API credits", d.cost, balance, "dollars"))
                 \o (IF s.rates THEN buildRateLimitLines(d.rates) ELSE <<>>)
    IN  IF lines = <<>> THEN Thrown("error") ELSE Lines(lines)

(***************************************************************************)
(* jetbrains reads the quota files of every editor it finds, and shows the *)
(* quota that ends last, or else the one that is used most.                *)
(***************************************************************************)
QuotaFile == [maximum : Some(Limits), tariff : Some(Parts), topUp : Some(Parts),
              current : Some(Amounts), tariffCurrent : Some(Parts), until : Some({1, 2})]

SumOf(whole, part, other) ==
    CASE whole # Missing -> whole
      [] whole = Missing /\ part = Missing -> other
      [] whole = Missing /\ part # Missing /\ other = Missing -> part
      [] OTHER -> part + other

\* A quota without a maximum or without its use is no quota.
normalizeQuota(file) ==
    LET maximum == SumOf(file.maximum, file.tariff, file.topUp)
        used == SumOf(file.current, file.tariffCurrent, Missing)
    IN  [usable |-> maximum > 0 /\ used # Missing, maximum |-> maximum,
         used |-> Clamp(used, 0, maximum), until |-> file.until]

\* The files that hold a quota.
jetbrains_states(files) == {i \in DOMAIN files : normalizeQuota(files[i]).usable}

jetbrains_fetch(s) ==
    IF s.files = <<>> THEN "login" ELSE IF jetbrains_states(s.files) = {} THEN "error" ELSE "body"

\* The quota of file i is preferred to that of file j.
Preferred(files, i, j) ==
    LET a == normalizeQuota(files[i])
        b == normalizeQuota(files[j])
        ratio == a.used * b.maximum - b.used * a.maximum
    IN  \/ a.until > b.until
        \/ a.until = b.until /\ ratio > 0
        \/ a.until = b.until /\ ratio = 0 /\ a.used > b.used
        \/ a.until = b.until /\ ratio = 0 /\ a.used = b.used /\ i <= j

pickBestState(files) ==
    CHOOSE i \in jetbrains_states(files) : \A j \in jetbrains_states(files) : Preferred(files, i, j)

jetbrains_lines(s) ==
    LET quota == normalizeQuota(s.files[pickBestState(s.files)])
    IN  Lines(<<Percent("Quota", (quota.used * 100) \div quota.maximum), Text("Used"), Text("Remaining")>>)

(***************************************************************************)
(* copilot's figures; how it finds its token is in CopilotToken.           *)
(***************************************************************************)
Snapshot == [entitlement : Some(Limits \cup {Unlimited}), remaining : Some(Amounts), percent : Some(Amounts)]

CopilotData == [premium : Snapshot, other : Snapshot, overage : BOOLEAN, free : Some(Limits),
                billed : BOOLEAN]

creditsLine_Unclamped(q) ==
    When(q.entitlement > 0 /\ q.remaining # Missing,
         Progress("Credits", q.entitlement - q.remaining, q.entitlement, "count"))

creditsLine(q) ==
    CASE q.entitlement = Unlimited -> <<>>
      [] q.entitlement > 0 /\ q.remaining # Missing ->
            <<Progress("Credits", Clamp(q.entitlement - q.remaining, 0, q.entitlement), q.entitlement, "count")>>
      [] OTHER -> When(q.percent # Missing, Percent("Credits", Clamp(100 - q.percent, 0, 100)))

snapshotLine(label, q) ==
    CASE q.entitlement \in {Unlimited, 0} -> <<>>
      [] q.entitlement \notin {Unlimited, 0} /\ q.percent # Missing ->
            <<Percent(label, Clamp(100 - q.percent, 0, 100))>>
      [] OTHER -> When(q.entitlement > 0 /\ q.remaining # Missing,
                       Percent(label, Clamp(100 - (q.remaining * 100) \div q.entitlement, 0, 100)))

makeLimitedProgressLine(label, total) == When(total > 0, Percent(label, 50))

\* The figures of a paid plan, or else those of the free one, or else a sum.
copilot_lines(d) ==
    LET paid == creditsLine(d.premium) \o When(d.overage, Text("Additional Usage"))
                \o snapshotLine("Chat", d.other) \o snapshotLine("Completions", d.other)
        free == makeLimitedProgressLine("Chat", d.free) \o makeLimitedProgressLine("Completions", d.free)
    IN  CASE paid # <<>> -> Lines(paid)
          [] paid = <<>> /\ free # <<>> -> Lines(free)
          [] OTHER -> Lines(OrStatus(When(d.billed, Text("Credits"))))

(***************************************************************************)
(* mock shows every kind of line.                                          *)
(***************************************************************************)
mock_lines ==
    Lines(<<Percent("Behind pace", 65), Progress("Empty bar", 0, 500, "dollars"),
            Progress("Over limit!", 1337, 1000, "count"), Progress("Tiny sliver", 1, 10000, "percent"),
            Text("Status"), Badge("Tier")>>)
=============================================================================
