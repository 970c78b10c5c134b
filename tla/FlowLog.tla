------------------------------ MODULE FlowLog ------------------------------
(***************************************************************************)
(* What either traffic generator client promises about the flows it logs:  *)
(* requests are started in order and each of their flows once, a flow is   *)
(* logged as finished once and only after it was started, and when the log *)
(* is written it is final and, unless a connection was lost, complete.     *)
(***************************************************************************)
EXTENDS Naturals

CONSTANT
    Flow     \* the flow IDs, 1 .. n

VARIABLES
    owner,              \* the request each flow is made for, 0 for none yet
    started, stopped,   \* flows with a start time, with a stop time
    open,               \* the log is still written to
    lossy               \* a connection with a flow on it was lost

logVars == <<owner, started, stopped, open, lossy>>

Init ==
    /\ owner \in [Flow -> Nat]
    /\ started = {}
    /\ stopped = {}
    /\ open = TRUE
    /\ lossy = FALSE

\* Flows that are not started yet are made for requests.
Make ==
    /\ open
    /\ owner' \in [Flow -> Nat]
    /\ \A f \in started : owner'[f] = owner[f]
    /\ UNCHANGED <<started, stopped, open, lossy>>

Start(f) ==
    /\ open
    /\ f \notin started
    /\ owner[f] # 0
    /\ \A g \in started : owner[g] <= owner[f]
    /\ started' = started \cup {f}
    /\ UNCHANGED <<owner, stopped, open, lossy>>

Stop(f) ==
    /\ open
    /\ f \in started \ stopped
    /\ stopped' = stopped \cup {f}
    /\ UNCHANGED <<owner, started, open, lossy>>

\* A connection is lost.
Lose ==
    /\ open
    /\ lossy' = TRUE
    /\ UNCHANGED <<owner, started, stopped, open>>

Close ==
    /\ open
    /\ lossy \/ started = stopped
    /\ open' = FALSE
    /\ UNCHANGED <<owner, started, stopped, lossy>>

Next == Make \/ Lose \/ Close \/ \E f \in Flow : Start(f) \/ Stop(f)

Spec == Init /\ [][Next]_logVars
=============================================================================
