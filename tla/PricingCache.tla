---------------------------- MODULE PricingCache ----------------------------
(***************************************************************************)
(* The price list of plugin_engine/pricing_cache.rs.  One thread fetches   *)
(* it when it is due and keeps it in a file, whose modification time is    *)
(* the time of the fetch; readers use what is in memory, or the list that  *)
(* is built in.  The file is read once, when the application starts, and   *)
(* may by then have been damaged or dated anew; the machine may be         *)
(* suspended, which only the wall clock notices, and its clock corrected.  *)
(* The steps of the thread take no time compared with REFRESH_TICK.        *)
(***************************************************************************)
EXTENDS Integers

CONSTANTS
    CACHE_TTL, RETRY_AFTER_FAILURE, REFRESH_TICK,
    FileDate,   \* dates that a file may be given from outside
    Gaps,       \* how much the wall clock gains over the time awake, or loses
    LastTime    \* bound: the instants looked at

\* A retry comes no later than a renewal, as 30 minutes do not exceed 24 hours.
ASSUME PriceAssumption ==
    /\ CACHE_TTL \in Nat /\ RETRY_AFTER_FAILURE \in Nat /\ REFRESH_TICK \in Nat \ {0}
    /\ RETRY_AFTER_FAILURE <= CACHE_TTL
    /\ FileDate \subseteq Int /\ Gaps \subseteq Int /\ LastTime \in Nat

VARIABLES
    time,         \* SystemTime::now()
    priceFile,    \* litellm-pricing.json: [holds, mtime]
    overlay,      \* the list in memory: "none" or "prices"
    next_attempt, \* the earliest time of the next fetch
    ticker,       \* the thread: off, look, fetch, write, install, or asleep
    nap,          \* what is left of its sleep
    quiet,        \* history: time awake since the start or the last fetch, until
                  \*   the clock is corrected
    corrected     \* history: the clock was set back since the start

priceVars == <<time, priceFile, overlay, next_attempt, ticker, nap, quiet, corrected>>

PriceFile == [holds : {"nothing", "garbage", "prices"}, mtime : FileDate]

PriceInit ==
    /\ time = 0
    /\ priceFile \in PriceFile
    /\ overlay = "none" /\ next_attempt = 0
    /\ ticker = "off" /\ nap = 0 /\ quiet = 0 /\ corrected = FALSE

\* A file that does not hold a list of prices counts as none.
read_cache == priceFile.holds = "prices"

Earlier(a, b) == IF a < b THEN a ELSE b

StartsDue(at) ==
    /\ ticker = "off" /\ ticker' = "look"
    /\ overlay' = IF read_cache THEN "prices" ELSE "none"
    /\ next_attempt' = IF read_cache THEN at ELSE time
    /\ quiet' = 0 /\ corrected' = FALSE
    /\ UNCHANGED <<time, priceFile, nap>>

\* The date of the file is believed.
with_endpoint_Unclamped == StartsDue(priceFile.mtime + CACHE_TTL)

with_endpoint == StartsDue(Earlier(priceFile.mtime + CACHE_TTL, time + CACHE_TTL))

Sleeps == ticker' = "asleep" /\ nap' = REFRESH_TICK

spawn_refresh_ticker ==
    /\ ticker = "look"
    /\ IF time >= next_attempt THEN ticker' = "fetch" /\ quiet' = 0 /\ UNCHANGED nap
       ELSE Sleeps /\ UNCHANGED quiet
    /\ UNCHANGED <<time, priceFile, overlay, next_attempt, corrected>>

ListFetched ==
    /\ ticker = "fetch" /\ ticker' = "write"
    /\ UNCHANGED <<time, priceFile, overlay, next_attempt, nap, quiet, corrected>>

\* No answer, or one that is not a list of prices.
ListMissed ==
    /\ ticker = "fetch" /\ Sleeps
    /\ next_attempt' = time + RETRY_AFTER_FAILURE
    /\ UNCHANGED <<time, priceFile, overlay, quiet, corrected>>

\* The file is replaced whole; an error is only logged.
write_cache ==
    /\ ticker = "write" /\ ticker' = "install"
    /\ priceFile' \in {priceFile, [holds |-> "prices", mtime |-> time]}
    /\ UNCHANGED <<time, overlay, next_attempt, nap, quiet, corrected>>

install ==
    /\ ticker = "install" /\ Sleeps
    /\ overlay' = "prices"
    /\ next_attempt' = time + CACHE_TTL
    /\ UNCHANGED <<time, priceFile, quiet, corrected>>

-----------------------------------------------------------------------------
Awake ==
    /\ ticker = "asleep" /\ time < LastTime
    /\ time' = time + 1
    /\ quiet' = IF corrected THEN quiet ELSE quiet + 1
    /\ nap' = nap - 1
    /\ ticker' = IF nap = 1 THEN "look" ELSE "asleep"
    /\ UNCHANGED <<priceFile, overlay, next_attempt, corrected>>

\* A suspension, or a correction of the clock.
Gap(n) ==
    /\ time + n \in 0..LastTime
    /\ time' = time + n /\ corrected' = (corrected \/ n < 0)
    /\ UNCHANGED <<priceFile, overlay, next_attempt, ticker, nap, quiet>>

\* The application ends at any step.  Before it starts again a power loss, a
\* backup or a tool that synchronizes may have changed the file.
EndPrices ==
    /\ ticker # "off" /\ ticker' = "off"
    /\ priceFile' \in {priceFile} \cup PriceFile
    /\ overlay' = "none" /\ nap' = 0 /\ quiet' = 0 /\ corrected' = FALSE
    /\ UNCHANGED <<time, next_attempt>>

PriceNext ==
    \/ with_endpoint \/ spawn_refresh_ticker
    \/ ListFetched \/ ListMissed \/ write_cache \/ install
    \/ Awake \/ (\E n \in Gaps : Gap(n)) \/ EndPrices

PriceSpec == PriceInit /\ [][PriceNext]_priceVars

(***************************************************************************)
(* However the file was damaged or dated before the start, and however     *)
(* long the machine is suspended, a fetch is tried again at most CACHE_TTL *)
(* after the last, and while there are no prices but the built-in ones at  *)
(* most RETRY_AFTER_FAILURE after it, give or take a tick.  Excepted is a  *)
(* clock that is set back while the application runs.                      *)
(***************************************************************************)
PricesAreRenewed ==
    ~corrected => /\ quiet <= CACHE_TTL + REFRESH_TICK
                  /\ overlay = "none" => quiet <= RETRY_AFTER_FAILURE + REFRESH_TICK
=============================================================================
