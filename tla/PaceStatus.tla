----------------------------- MODULE PaceStatus -----------------------------
(***************************************************************************)
(* The arithmetic of src/lib/pace-status.ts and the reading of a meter in  *)
(* src/lib/pace-notifications.ts.  Amounts and instants are integers; the  *)
(* comparisons of rates are multiplied out, so that nothing is divided.    *)
(*                                                                         *)
(* A reading is what a progress line shows: [used, limit, resetsAt,        *)
(* period], with NoReset for a line that names no reset instant.           *)
(***************************************************************************)
EXTENDS Integers

NoReset == 0

\* Whether `now` lies inside the period that ends at resetsAt.
Calculable(limit, resetsAt, period, now) ==
  limit > 0 /\ period > 0 /\ resetsAt - period < now /\ now < resetsAt

Elapsed(resetsAt, period, now) == now - (resetsAt - period)

\* Less than 5 % of the period has passed: too early to predict.
TooEarly(resetsAt, period, now) == 20 * Elapsed(resetsAt, period, now) < period

\* Projected usage, times the elapsed time.
Projected(used, period) == used * period

calculatePaceStatus(used, limit, resetsAt, period, now) ==
  LET budget == limit * Elapsed(resetsAt, period, now)
  IN  IF ~Calculable(limit, resetsAt, period, now) THEN "none"
      ELSE IF used = 0 THEN "ahead"
      ELSE IF used >= limit THEN "behind"
      ELSE IF TooEarly(resetsAt, period, now) THEN "none"
      ELSE IF 10 * Projected(used, period) <= 8 * budget THEN "ahead"
      ELSE IF Projected(used, period) <= budget THEN "on-track"
      ELSE "behind"

\* The usage above the linear pace, times the period; 0 stands for null.
calculateDeficit(used, limit, resetsAt, period, now) ==
  LET deficit == used * period - Elapsed(resetsAt, period, now) * limit
  IN  IF /\ Calculable(limit, resetsAt, period, now)
         /\ ~(TooEarly(resetsAt, period, now) /\ used < limit)
         /\ deficit > 0
      THEN deficit ELSE 0

-----------------------------------------------------------------------------
Buckets == {"untracked", "healthy", "close", "runningOut"}

SEVERITY == [untracked |-> -1, healthy |-> 0, close |-> 1, runningOut |-> 2]

BucketOf(status) ==
  CASE status = "ahead" -> "healthy"
    [] status = "on-track" -> "close"
    [] status = "behind" -> "runningOut"
    [] OTHER -> "untracked"

\* An observation keeps of the two fractions what `transitions` asks of them:
\* nothing used, under 10 % remaining, and 99 % used.
Observation ==
  [bucket : Buckets \cup {"noData"}, zero : BOOLEAN, under : BOOLEAN,
   exhausted : BOOLEAN, resetsAt : Nat]

NoData == [bucket |-> "noData", zero |-> TRUE, under |-> FALSE,
           exhausted |-> FALSE, resetsAt |-> NoReset]

deriveObservation(reading, now) ==
  IF reading.limit <= 0 THEN NoData
  ELSE [bucket |-> IF reading.used >= reading.limit THEN "runningOut"
                   ELSE IF reading.resetsAt = NoReset THEN "untracked"
                   ELSE BucketOf(calculatePaceStatus(reading.used, reading.limit,
                                   reading.resetsAt, reading.period, now)),
        zero |-> reading.used <= 0,
        under |-> 10 * (reading.limit - reading.used) < reading.limit,
        exhausted |-> 100 * reading.used >= 99 * reading.limit,
        resetsAt |-> reading.resetsAt]
=============================================================================
