---------------------------- MODULE KeyProviders ----------------------------
(***************************************************************************)
(* The eight scripts that read their usage with a key.  A setting s says   *)
(* which places hold a key and what each request of the script meets;      *)
(* ..._fetch is "body" if the script gets as far as the figures, and       *)
(* otherwise what it throws; ..._lines is what it makes of the figures d.  *)
(***************************************************************************)
EXTENDS PluginRuntime

\* Scripts with one request: no key and a refused key ask for a key.
FetchWithKey(key, reply) == IF key = "none" THEN "login" ELSE Required(reply)

OneRequest(places) == [places : SUBSET places, reply : Reply]

(***************************************************************************)
(* amp answers in prose: what is left of two allowances, and the credits.  *)
(***************************************************************************)
AmpData == [tier : BOOLEAN, agent : Some(Amounts \cup Limits), orb : Some(Amounts \cup Limits),
            credits : Some(Amounts)]

amp_fetch(s) == FetchWithKey(FirstOf(<<"secrets">>, s.places), s.reply)

amp_lines(d) ==
    LET plan == d.tier /\ d.agent # Missing /\ d.orb # Missing
    IN  IF d.tier /\ ~plan THEN Thrown("error")
        ELSE Lines(When(plan, Percent("Agent Usage", Clamp(100 - d.agent, 0, 100)))
                   \o When(plan, Percent("Orb Usage", Clamp(100 - d.orb, 0, 100)))
                   \o When(d.credits > 0 \/ ~plan, Text("Credits")))

(***************************************************************************)
(* zai reports limits in a list; unit 3 is the session, 6 the week.        *)
(***************************************************************************)
ZaiLimit ==
    [type : {"credit"}, unit : Some({3, 6}), usage : {Missing}]
        \cup [type : {"time"}, unit : {Missing}, usage : Some(Limits)]

ZaiData == [limits : Listed(ZaiLimit, 0, MaxList)]

zai_loadApiKey(places) == FirstOf(<<"ZAI_API_KEY", "GLM_API_KEY">>, places)

zai_fetch(s) == FetchWithKey(zai_loadApiKey(s.places), s.reply)

\* The first limit of the type with that unit, or else the first without one;
\* 0 is none.
zai_findLimit(limits, type, unit) ==
    LET exact == {i \in DOMAIN limits : limits[i].type = type /\ limits[i].unit = unit}
        fallback == {i \in DOMAIN limits : limits[i].type = type /\ limits[i].unit = Missing}
    IN  IF exact # {} THEN First(exact) ELSE IF fallback # {} THEN First(fallback) ELSE 0

zai_lines(d) ==
    LET time == zai_findLimit(d.limits, "time", Missing)
        webTotal == IF time = 0 \/ d.limits[time].usage = Missing THEN 0 ELSE d.limits[time].usage
    IN  IF zai_findLimit(d.limits, "credit", 3) = 0 THEN Lines(<<Badge("Session")>>)
        ELSE Lines(<<Percent("Session", 50)>>
                   \o When(zai_findLimit(d.limits, "credit", 6) # 0, Percent("Weekly", 50))
                   \o When(time # 0, Progress("Web Searches", 0, webTotal, "count")))

(***************************************************************************)
(* synthetic: the limits of its third version hide those of the second.    *)
(* Beside a limit of a number of requests stands their count (requests),   *)
(* which is passed on as it comes, or as nothing where it is missing.      *)
(***************************************************************************)
SyntheticData ==
    [max : Some(Limits), remaining : Some(Amounts), limited : BOOLEAN,
     mana : Some(Amounts), subscription : Some(Limits), tools : Some(Limits),
     search : Some(Limits),
     requests : [{"subscription", "tools", "search"} -> Some(Amounts)]]

synthetic_loadApiKey(places) ==
    FirstOf(<<"pi auth", "pi models", "factory settings", "opencode auth", "SYNTHETIC_API_KEY">>,
            places)

synthetic_fetch(s) == FetchWithKey(synthetic_loadApiKey(s.places), s.reply)

synthetic_lines(d) ==
    LET rolling == d.max # Missing /\ d.remaining # Missing
        onV3 == rolling \/ d.mana # Missing
    IN  Lines(When(rolling, Progress("5h Rate Limit", Clamp(d.max - d.remaining, 0, d.max),
                                     d.max, "count"))
              \o When(d.mana # Missing, Percent("Mana Bar", Clamp(100 - d.mana, 0, 100)))
              \o When(d.limited, Badge("Rate Limited"))
              \o When(~onV3 /\ d.subscription # Missing,
                      Progress("Subscription", d.requests["subscription"], d.subscription, "count"))
              \o When(~onV3 /\ d.tools > 0,
                      Progress("Free Tool Calls", d.requests["tools"], d.tools, "count"))
              \o When(d.search # Missing,
                      Progress("Search", d.requests["search"], d.search, "count")))

(***************************************************************************)
(* openrouter needs the credits; what the key itself may spend is best     *)
(* effort.  A body without figures is not an error.                        *)
(***************************************************************************)
OpenrouterData ==
    [usage : Some(Amounts), total : Some(Limits), has : SUBSET {"This Week", "Today", "Last 30 Days"},
     limit : Some(Limits), left : Some(Amounts)]

openrouter_loadApiKey(places) == FirstOf(<<"config", "OPENROUTER_API_KEY">>, places)

fetchCredits(reply) == IF reply = "garbled" THEN "body" ELSE Required(reply)

openrouter_fetch(s) ==
    IF openrouter_loadApiKey(s.places) = "none" THEN "login" ELSE fetchCredits(s.reply)

creditsLines(d) ==
    When(d.usage # Missing /\ d.total > 0, Progress("Credits", d.usage, d.total, "dollars"))
    \o When(d.usage # Missing, Text("Balance"))

appendShareGraphLines(d) ==
    When("Today" \in d.has, Text("Today")) \o <<Text("Yesterday")>>
    \o When("Last 30 Days" \in d.has, Text("Last 30 Days")) \o <<Text("OpenRouter")>>

keyMetrics(d) ==
    LET left == Clamp(d.left, 0, d.left)
    IN  When("This Week" \in d.has, Text("This Week")) \o appendShareGraphLines(d)
        \o When(d.limit > 0, Progress("Key Limit", Clamp(d.limit - left, 0, d.limit), d.limit, "dollars"))

openrouter_lines(s, d) ==
    LET lines == (IF s.reply = "ok" THEN creditsLines(d) ELSE <<>>)
                 \o (IF s.key = "ok" THEN keyMetrics(d) ELSE <<>>)
    IN  Lines(IF lines = <<>> THEN <<Badge("Balance")>> ELSE lines)

(***************************************************************************)
(* ollama and opencode-go                                                  *)
(***************************************************************************)
OllamaData == [session : Some(Amounts \cup Limits), weekly : Some(Amounts \cup Limits),
               allowance : Some(Limits), balance : Some(Amounts), purchased : BOOLEAN]

ollama_loadApiKey(places) == FirstOf(<<"OLLAMA_API_KEY", "config">>, places)

ollama_fetch(s) == FetchWithKey(ollama_loadApiKey(s.places), s.reply)

ollama_lines(d) ==
    LET balance == IF d.balance = Missing THEN 0 ELSE d.balance
        lines == When(d.session # Missing, Percent("Session", 100 - Clamp(d.session, 0, 100)))
            \o When(d.weekly # Missing, Percent("Weekly", 100 - Clamp(d.weekly, 0, 100)))
            \o When(d.allowance > 0, Progress("Included Credits",
                    Clamp(d.allowance - balance, 0, d.allowance), d.allowance, "dollars"))
            \o When(d.purchased, Text("Purchased Credits"))
    IN  Lines(IF lines = <<>> THEN <<Badge("Balance")>> ELSE lines)

OpencodeData == [rolling : Some(Amounts), weekly : Some(Amounts), monthly : Some(Amounts)]

opencode_loadApiKey(places) ==
    FirstOf(<<"account key", "config", "opencode auth", "OPENCODE_API_KEY">>, places)

\* A key whose owner has no subscription is not a refused key.
opencode_fetch(s) ==
    IF s.reply = "403" THEN FetchWithKey(opencode_loadApiKey(s.places), "status")
    ELSE FetchWithKey(opencode_loadApiKey(s.places), s.reply)

parseUsage(d) == \A period \in DOMAIN d : d[period] # Missing

opencode_lines(d) ==
    IF ~parseUsage(d) THEN Thrown("error")
    ELSE Lines(<<Percent("Session", d.rolling), Percent("Weekly", d.weekly),
                 Percent("Monthly", d.monthly)>>)

(***************************************************************************)
(* minimax has two endpoints, each with its own order of keys, and asks    *)
(* each twice.  A reply may also be a body without figures ("empty") or    *)
(* one that says that the login is not good ("refused").                   *)
(***************************************************************************)
MinimaxReply == {"ok", "empty", "refused", "garbled", "401", "status", "down"}

MinimaxSetting ==
    [places : SUBSET {"MINIMAX_CN_API_KEY", "MINIMAX_API_KEY", "MINIMAX_API_TOKEN"},
     CN : [1..2 -> MinimaxReply], GLOBAL : [1..2 -> MinimaxReply]]

endpointAttempts(s) ==
    IF "MINIMAX_CN_API_KEY" \in s.places THEN <<"CN", "GLOBAL">> ELSE <<"GLOBAL", "CN">>

minimax_loadApiKey(s, endpoint) ==
    FirstOf(IF endpoint = "CN"
            THEN <<"MINIMAX_CN_API_KEY", "MINIMAX_API_KEY", "MINIMAX_API_TOKEN">>
            ELSE <<"MINIMAX_API_KEY", "MINIMAX_API_TOKEN">>, s.places)

tryUrls_LastWins(replies) ==
    CASE replies[2] \in {"ok", "empty", "refused"} -> replies[2]
      [] replies[2] \in {"401", "status"} -> "login"
      [] OTHER -> "error"

\* The first answer that can be read; otherwise a refusal is reported only if
\* nothing else went wrong.
tryUrls(replies) ==
    LET read == {i \in 1..2 : replies[i] \in {"ok", "empty", "refused"}}
        failed == {replies[i] : i \in 1..2}
    IN  CASE read # {} -> replies[First(read)]
          [] read = {} /\ "401" \in failed /\ failed \cap {"status", "down"} = {} -> "login"
          [] OTHER -> "error"

\* What one endpoint comes to; "none" is an endpoint without a key.
minimax_attempt(s, endpoint) ==
    IF minimax_loadApiKey(s, endpoint) = "none" THEN "none"
    ELSE CASE tryUrls(s[endpoint]) = "ok" -> "body"
           [] tryUrls(s[endpoint]) = "refused" -> "login"
           [] tryUrls(s[endpoint]) = "empty" -> "error"
           [] OTHER -> tryUrls(s[endpoint])

\* The first error is the one that is thrown.
minimax_fetch(s) ==
    LET first == minimax_attempt(s, endpointAttempts(s)[1])
        second == minimax_attempt(s, endpointAttempts(s)[2])
    IN  CASE {first, second} = {"none"} -> "login"
          [] "body" \in {first, second} -> "body"
          [] OTHER -> IF first = "none" THEN second ELSE first

minimax_endpoint(s) ==
    LET attempts == endpointAttempts(s)
    IN  IF minimax_attempt(s, attempts[1]) = "body" THEN attempts[1] ELSE attempts[2]

\* The Chinese endpoint counts model calls, fifteen to a prompt.
Prompts(n, endpoint) == IF endpoint = "CN" THEN (2 * n + 15) \div 30 ELSE n

MinimaxModel == [total : Limits \cup Parts, percent : Some(Amounts \cup Limits), left : Amounts,
                 general : BOOLEAN]

\* The model that is shown: the first with a count, or else the general one
\* or the first with a percentage that makes sense; 0 is none.
parsePayloadShape(models, endpoint) ==
    LET counted == {i \in DOMAIN models : Prompts(models[i].total, endpoint) > 0}
        percent == {i \in DOMAIN models : models[i].percent \in 0..100}
        general == {i \in percent : models[i].general}
    IN  CASE counted # {} -> First(counted)
          [] counted = {} /\ general # {} -> First(general)
          [] counted = {} /\ general = {} /\ percent # {} -> First(percent)
          [] OTHER -> 0

MinimaxData(endpoint) ==
    {d \in [models : Listed(MinimaxModel, 1, MaxList)] :
        parsePayloadShape(d.models, endpoint) # 0}

minimax_lines(endpoint, d) ==
    LET chosen == d.models[parsePayloadShape(d.models, endpoint)]
        used == Clamp(chosen.total - chosen.left, 0, chosen.total)
    IN  IF Prompts(chosen.total, endpoint) = 0 THEN Lines(<<Percent("Session", 100 - chosen.percent)>>)
        ELSE Lines(<<Progress("Session", Prompts(used, endpoint), Prompts(chosen.total, endpoint), "count")>>)

(***************************************************************************)
(* cline-pass prefers the login of the editor.  Renewing it never succeeds:*)
(* the script hands the form to the host as "body", and the host sends     *)
(* only what it is given as "bodyText", so the service is sent nothing.    *)
(***************************************************************************)
ClineSetting == [places : SUBSET {"cline", "usagepal", "CLINE_API_KEY"}, expired : BOOLEAN,
                 me : Reply, limits : Reply]

resolveToken(s) ==
    CASE "cline" \in s.places /\ ~s.expired -> "cline"
      [] "cline" \in s.places /\ s.expired -> FirstOf(<<"CLINE_API_KEY", "cline">>, s.places)
      [] OTHER -> FirstOf(<<"usagepal", "CLINE_API_KEY">>, s.places)

cline_fetch(s) == FetchWithKey(resolveToken(s), s.me)

ClineData == [session : Some(Amounts), weekly : Some(Amounts), monthly : Some(Amounts)]

cline_lines(s, d) ==
    LET ShownOr(label, used, otherwise) ==
            IF s.limits = "ok" /\ used # Missing THEN <<Percent(label, Clamp(used, 0, 100))>>
            ELSE otherwise
    IN  Lines(ShownOr("Session", d.session, <<Text("Session")>>)
              \o ShownOr("Weekly", d.weekly, <<Text("Weekly")>>)
              \o ShownOr("Monthly", d.monthly, <<>>))
=============================================================================
