--------------------------- MODULE LoginProviders ---------------------------
(***************************************************************************)
(* The lines of the seven scripts whose logins LoginProbe is about: what   *)
(* each makes of the answer d to its usage request, whose status is        *)
(* success.  A set "has" names the simple percentages an answer reports.   *)
(***************************************************************************)
EXTENDS PluginRuntime

(***************************************************************************)
(* claude: a refused rate shows what was fetched last, between two notes.  *)
(***************************************************************************)
ClaudeData ==
    [has : SUBSET {"Session", "Weekly", "Sonnet", "Claude Design", "Fable"},
     extraUsed : Some(Amounts), extraLimit : Some(Limits), limited : BOOLEAN]

claude_lines(d) ==
    LET lines == PercentOf("Session", d.has) \o PercentOf("Weekly", d.has)
            \o PercentOf("Sonnet", d.has) \o PercentOf("Claude Design", d.has)
            \o PercentOf("Fable", d.has)
            \o When(d.extraUsed >= 0 /\ d.extraLimit > 0,
                    Progress("Extra usage spent", d.extraUsed, d.extraLimit, "dollars"))
            \o When(d.extraUsed > 0 /\ d.extraLimit <= 0, Text("Extra usage spent"))
    IN  IF d.limited THEN Lines(<<Badge("Status")>> \o lines \o <<Text("Note")>>)
        ELSE Lines(OrStatus(lines))

(***************************************************************************)
(* codex: the headers of the answer win over its body.                     *)
(***************************************************************************)
CodexData ==
    [headers : SUBSET {"Session", "Weekly"}, has : SUBSET {"Session", "Weekly"},
     models : SUBSET {"Spark", "Spark Weekly"}, review : BOOLEAN, resets : BOOLEAN,
     balance : Some(Amounts), noCredits : BOOLEAN,
     used : Some(Amounts), limit : Some(Limits)]

readMonthlyCreditLimit(d) == d.limit > 0 /\ d.used >= 0

readCreditsRemaining(d) == d.balance >= 0 \/ d.noCredits

codex_lines(d) ==
    LET windows == IF d.headers # {} THEN d.headers ELSE d.has
    IN  Lines(OrStatus(
            PercentOf("Session", windows) \o PercentOf("Weekly", windows)
            \o PercentOf("Spark", d.models) \o PercentOf("Spark Weekly", d.models)
            \o When(d.review, Percent("Reviews", 50))
            \o When(d.resets, Text("Rate Limit Resets"))
            \o When(readCreditsRemaining(d), Text("Credits"))
            \o When(readMonthlyCreditLimit(d),
                    Progress("Monthly Credit Limit", d.used, d.limit, "count"))))

(***************************************************************************)
(* cursor: plan usage, or for accounts billed by request the figures of an *)
(* older interface.  requests is the limit that interface reports.         *)
(***************************************************************************)
CursorData ==
    [enabled : BOOLEAN, plan : {"", "pro", "team", "enterprise"}, planDown : BOOLEAN,
     planUsage : BOOLEAN, limit : Some(Limits), total : Some(Amounts), spent : Amounts,
     requests : Some(Limits), credits : Limits, spendLimit : {"none", "pooled", "own"}]

buildRequestBasedResult(d) ==
    IF d.requests > 0 THEN Lines(<<Progress("Requests", 50, d.requests, "count")>>)
    ELSE Thrown("error")

cursor_planLines(d) ==
    LET team == d.plan = "team" \/ d.spendLimit = "pooled"
        computed == IF d.limit > 0 THEN (d.spent * 100) \div d.limit ELSE 0
    IN  CASE d.limit = Missing /\ d.total = Missing -> Thrown("error")
          [] team /\ d.limit = Missing /\ d.total # Missing -> buildRequestBasedResult(d)
          [] OTHER -> Lines(
                When(d.credits > 0, Progress("Credits", 0, d.credits, "dollars"))
                \o <<IF team THEN Progress("Total usage", d.spent, d.limit, "dollars")
                     ELSE Percent("Total usage", IF d.total # Missing THEN d.total ELSE computed)>>
                \o When(d.spendLimit # "none", Progress("On-demand", 0, 50, "dollars")))

cursor_lines(d) ==
    LET incomplete == d.enabled /\ (~d.planUsage \/ d.limit = Missing)
        noFigures == incomplete /\ (~d.planUsage \/ d.total = Missing)
        onPlan == IF ~d.enabled \/ ~d.planUsage THEN Thrown("error") ELSE cursor_planLines(d)
    IN  CASE incomplete /\ d.plan \in {"enterprise", "team"} -> buildRequestBasedResult(d)
          [] noFigures /\ d.plan = "" /\ d.planDown -> buildRequestBasedResult(d)
          [] noFigures /\ d.planUsage /\ d.requests > 0 -> buildRequestBasedResult(d)
          [] OTHER -> onPlan

(***************************************************************************)
(* factory and grok                                                        *)
(***************************************************************************)
FactoryData == [usage : BOOLEAN, standard : Some(Limits), premium : Some(Limits)]

factory_lines(d) ==
    IF ~d.usage THEN Thrown("error")
    ELSE Lines(OrStatus(
        When(d.standard # Missing, Progress("Standard", 50, d.standard, "count"))
        \o When(d.premium > 0, Progress("Premium", 50, d.premium, "count"))))

GrokData == [config : BOOLEAN, used : Some(Amounts), limit : Some(Limits), ends : BOOLEAN]

clampPercent(n) == IF n > 100 THEN 100 ELSE n

grok_lines(d) ==
    LET pool == d.used # Missing /\ d.limit > 0
    IN  IF ~d.config \/ (pool /\ ~d.ends) THEN Thrown("error")
        ELSE Lines(When(pool, Percent("Credits used", clampPercent((d.used * 100) \div d.limit)))
                   \o <<Badge("Pay as you go")>>)

(***************************************************************************)
(* kimi reports windows without names: the shortest is the session, and    *)
(* the week is the overall usage or the longest of the other windows.      *)
(***************************************************************************)
Window == [period : Some({5, 168}), quota : {1, 2}]

KimiData == [limits : Listed(Window, 0, MaxList), usage : 0..2]

pickSessionCandidate(limits) ==
    CHOOSE i \in DOMAIN limits : \A j \in DOMAIN limits :
        \/ /\ limits[i].period # Missing
           /\ \/ limits[j].period = Missing
              \/ limits[i].period < limits[j].period
        \/ limits[i].period = limits[j].period /\ i <= j

pickLargestByPeriod(limits, others) ==
    CHOOSE i \in others : \A j \in others :
        \/ limits[i].period > limits[j].period
        \/ limits[i].period = limits[j].period /\ i <= j

\* The quotas shown as the session and as the week; 0 is none.
kimi_quotas(d) ==
    LET session == pickSessionCandidate(d.limits)
        others == DOMAIN d.limits \ {session}
        week == IF d.usage # 0 THEN d.usage
                ELSE IF Len(d.limits) < 2 THEN 0
                ELSE d.limits[pickLargestByPeriod(d.limits, others)].quota
        first == IF d.limits = <<>> THEN 0 ELSE d.limits[session].quota
    IN  [session |-> first, week |-> IF week = first THEN 0 ELSE week]

kimi_lines(d) ==
    LET q == kimi_quotas(d)
    IN  Lines(OrStatus(When(q.session # 0, Percent("Session", 50))
                       \o When(q.week # 0, Percent("Weekly", 50))))

(***************************************************************************)
(* kiro: the state its editor keeps, its log, and the service, which is    *)
(* asked unless the other two are there and recent.                        *)
(***************************************************************************)
KiroData ==
    [local : BOOLEAN, logged : {"none", "empty", "full"}, loggedPlan : BOOLEAN, stale : BOOLEAN,
     live : {"none", "empty", "full", "refused"}, bonus : BOOLEAN, overage : BOOLEAN]

shouldTryLive(d) == ~d.local \/ d.logged = "none" \/ ~d.loggedPlan \/ d.stale

\* The first snapshot that has figures.
mergeSnapshots(d) == (shouldTryLive(d) /\ d.live = "full") \/ d.local \/ d.logged = "full"

kiro_buildOutput(d) ==
    Lines(<<Progress("Credits", 50, 50, "count")>>
          \o When(d.bonus, Progress("Bonus Credits", 0, 50, "count"))
          \o When(d.overage, Badge("Overages")))

kiro_lines(d) ==
    IF mergeSnapshots(d) THEN kiro_buildOutput(d)
    ELSE Thrown(IF shouldTryLive(d) /\ d.live = "refused" THEN "login" ELSE "error")
=============================================================================
