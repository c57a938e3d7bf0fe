----------------------------- MODULE HttpServer -----------------------------
(***************************************************************************)
(* The connections of the local HTTP API, server.rs.  One thread accepts   *)
(* them and takes a slot for each from a counter without a lock; a thread  *)
(* of its own answers each and gives the slot back when it ends, also by a *)
(* time limit or a panic.  What the routes answer is read from the usage   *)
(* cache and left out.                                                     *)
(***************************************************************************)
EXTENDS FiniteSets, Naturals

CONSTANTS
    Connection,
    MAX_CONCURRENT_CONNECTIONS

ASSUME HttpAssumption == MAX_CONCURRENT_CONNECTIONS \in Nat

VARIABLES
    listener,   \* the accepting thread: accepts, loads, swaps, turns away, spawns
    newcomer,   \* the connection it has at hand
    seen,       \* what acquire loaded
    active,     \* ConnectionLimiter.active
    connection  \* connection -> none, accepted, busy, held, read, closed

httpVars == <<listener, newcomer, seen, active, connection>>

HttpInit ==
    /\ listener = "accepts" /\ newcomer \in Connection
    /\ seen = 0 /\ active = 0
    /\ connection = [c \in Connection |-> "none"]

Turns(c, what) == connection' = [connection EXCEPT ![c] = what]

start_server ==
    /\ listener = "accepts" /\ listener' = "loads"
    /\ \E c \in Connection :
          connection[c] \in {"none", "busy", "closed"} /\ newcomer' = c /\ Turns(c, "accepted")
    /\ UNCHANGED <<seen, active>>

load ==
    /\ listener = "loads" /\ seen' = active
    /\ listener' = IF active >= MAX_CONCURRENT_CONNECTIONS THEN "turns away" ELSE "swaps"
    /\ UNCHANGED <<newcomer, active, connection>>

Takes ==
    /\ listener' = "spawns" /\ active' = seen + 1
    /\ Turns(newcomer, "held")
    /\ UNCHANGED <<newcomer, seen>>

\* The counter is stored whatever became of it since it was loaded.
compare_exchange_Store == listener = "swaps" /\ Takes

compare_exchange ==
    /\ listener = "swaps"
    /\ IF active = seen THEN Takes
       ELSE listener' = "loads" /\ UNCHANGED <<newcomer, seen, active, connection>>

response_service_unavailable ==
    /\ listener = "turns away" /\ listener' = "accepts"
    /\ Turns(newcomer, "busy")
    /\ UNCHANGED <<newcomer, seen, active>>

spawn ==
    /\ listener = "spawns" /\ listener' = "accepts"
    /\ UNCHANGED <<newcomer, seen, active, connection>>

Serves(c) == ~(listener = "spawns" /\ newcomer = c)

\* The request is read, or its time runs out and the handler returns.
handle_connection(c) ==
    /\ connection[c] = "held" /\ Serves(c)
    /\ Turns(c, "read")
    /\ UNCHANGED <<listener, newcomer, seen, active>>

\* The answer is written or not; the permit is dropped either way.
drop(c) ==
    /\ connection[c] \in {"held", "read"} /\ Serves(c)
    /\ Turns(c, "closed") /\ active' = active - 1
    /\ UNCHANGED <<listener, newcomer, seen>>

HttpNext ==
    \/ start_server \/ load \/ compare_exchange \/ response_service_unavailable \/ spawn
    \/ \E c \in Connection : handle_connection(c) \/ drop(c)

HttpSpec == HttpInit /\ [][HttpNext]_httpVars

(***************************************************************************)
(* However the ends of connections interleave with the taking of a slot,   *)
(* none is lost or given out twice: as many are taken as connections hold  *)
(* one, never more than there are, so that the server is busy only while   *)
(* it serves, and not for the rest of the session.                         *)
(***************************************************************************)
SlotsAreGivenBack ==
    /\ active = Cardinality({c \in Connection : connection[c] \in {"held", "read"}})
    /\ active <= MAX_CONCURRENT_CONNECTIONS
=============================================================================
