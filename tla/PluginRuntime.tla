--------------------------- MODULE PluginRuntime ---------------------------
(***************************************************************************)
(* What the runtime makes of one call of a script (runtime.rs), and the    *)
(* words in which the scripts are written down here.  A script returns     *)
(* metric lines or throws; the runtime checks every line and puts an error *)
(* line in the place of one it does not accept; a single error line makes  *)
(* the probe a failed one, which is neither cached nor shown as figures    *)
(* (lib.rs).                                                               *)
(*                                                                         *)
(* Of a line only its label and its amounts are kept.  Amounts that a      *)
(* service reports are natural numbers, or Missing; those a script derives *)
(* from them may be negative.  A line with a Missing amount is one whose   *)
(* amount is undefined or not a number.                                    *)
(***************************************************************************)
EXTENDS Integers, Sequences

CONSTANTS
    Amounts,  \* the amounts a service may report as used or as left,
    Limits,   \* as a limit,
    Parts,    \* and as a part of one
    MaxList,  \* bound: how many limits or models are listed
    MaxFiles  \* bound: how many editors have a quota file

ASSUME FigureAssumption ==
    /\ Amounts \subseteq Nat /\ Limits \subseteq Nat /\ Parts \subseteq Nat
    /\ MaxList \in Nat /\ MaxFiles \in Nat

Missing == -1
Some(S) == S \cup {Missing}

Line(kind, label, used, limit, format) ==
    [kind |-> kind, label |-> label, used |-> used, limit |-> limit, format |-> format]

Text(label) == Line("text", label, 0, 0, "none")
Badge(label) == Line("badge", label, 0, 0, "none")
BarChart(label) == Line("barChart", label, 0, 0, "none")
Progress(label, used, limit, format) == Line("progress", label, used, limit, format)
Percent(label, used) == Progress(label, used, 100, "percent")

When(condition, line) == IF condition THEN <<line>> ELSE <<>>

\* A line in percent for a label that is reported.
PercentOf(label, reported) == When(label \in reported, Percent(label, 50))

\* The lists of low to high members.
Listed(S, low, high) == UNION {[1..n -> S] : n \in low..high}

Clamp(n, low, high) == IF n < low THEN low ELSE IF n > high THEN high ELSE n

First(S) == CHOOSE i \in S : \A j \in S : i <= j

OrStatus(lines) == IF lines = <<>> THEN <<Badge("Status")>> ELSE lines

\* The outcome of probe(): lines, or what was thrown.  "login" stands for
\* every message that asks the user to sign in or to give a key, "error" for
\* the others.
Lines(lines) == [thrown |-> "none", lines |-> lines]
Thrown(kind) == [thrown |-> kind, lines |-> <<>>]

\* What a request meets: a body that can be read, one that cannot, a refusal,
\* another failing status, or no answer.
Reply == {"ok", "garbled", "401", "403", "status", "down"}

isAuthStatus(reply) == reply \in {"401", "403"}

\* A request that a script cannot do without.
Required(reply) ==
    IF reply = "ok" THEN "body" ELSE IF isAuthStatus(reply) THEN "login" ELSE "error"

\* The first of the places that hold a key or a login.
FirstOf(order, held) ==
    LET found == {i \in DOMAIN order : order[i] \in held}
    IN  IF found = {} THEN "none" ELSE order[First(found)]

(***************************************************************************)
(* runtime.rs                                                              *)
(***************************************************************************)
error_line == Badge("Error")

Accepted(line) ==
    line.kind = "progress" =>
        /\ line.used >= 0 /\ line.limit > 0
        /\ line.format = "percent" => line.limit = 100

parse_lines(lines) ==
    [i \in DOMAIN lines |-> IF Accepted(lines[i]) THEN lines[i] ELSE error_line]

\* A probe that outlasts its deadline fails whatever it returns.
run_probe_with_timeout(outcome, late) ==
    IF late \/ outcome.thrown # "none" \/ outcome.lines = <<>> THEN <<error_line>>
    ELSE parse_lines(outcome.lines)

has_error(output) == \E i \in DOMAIN output : output[i].kind = "badge" /\ output[i].label = "Error"
=============================================================================
