--------------------------- MODULE TrafficClient ---------------------------
(***************************************************************************)
(* The traffic generator's client (client.c): requests of one flow each,   *)
(* made by the main thread over the connection pool.                       *)
(***************************************************************************)
EXTENDS ConnPool

CONSTANTS
    NReq,          \* req_total_num
    ReqServer      \* ReqServer[r]: req_server_id, drawn before the run

ASSUME RequestAssumption ==
    /\ NReq \in Nat
    /\ ReqServer \in [1 .. NReq -> Server]

VARIABLES
    cur,           \* the request run_request works on
    conn,          \* the connection it uses
    started,       \* requests with a start time
    stopped        \* requests with a stop time

reqVars == <<cur, conn, started, stopped>>
vars == <<poolVars, reqVars>>

NoConn == <<0, 0>>

-----------------------------------------------------------------------------
(* run_requests and run_request.                                           *)

\* search_conn_list first looks at available_len, without the lock.
BeginSearch ==
    /\ mpc = "request"
    /\ cur <= NReq
    /\ mpc' = IF availableLen[ReqServer[cur]] = 0 THEN "grow" ELSE "search"
    /\ UNCHANGED <<list, node, wire, breaks, si, xi, reqVars>>

\* It then walks the list, while the listeners go on.
SearchNode ==
    LET n == <<ReqServer[cur], xi>>
    IN /\ mpc = "search"
       /\ Exists(n)
       /\ IF Idle(n)
            THEN conn' = n /\ mpc' = "mark" /\ xi' = 1
            ELSE xi' = xi + 1 /\ UNCHANGED <<conn, mpc>>
       /\ UNCHANGED <<list, node, wire, breaks, si, cur, started, stopped>>

SearchMisses ==
    /\ mpc = "search"
    /\ xi > len[ReqServer[cur]]
    /\ mpc' = "grow"
    /\ xi' = 1
    /\ UNCHANGED <<list, node, wire, breaks, si, reqVars>>

\* None was found: insert_conn_list makes one and a listener starts on it.
Grow ==
    LET s == ReqServer[cur]
    IN /\ mpc = "grow"
       /\ AddNode(s, TRUE)
       /\ conn' = <<s, len[s] + 1>>
       /\ mpc' = "mark"
       /\ UNCHANGED <<si, xi, cur, started, stopped>>

\* None can be made either: the request is given up.
GiveUp ==
    /\ mpc = "grow"
    /\ ConnectRefused
    /\ cur' = cur + 1
    /\ mpc' = "request"
    /\ UNCHANGED <<si, xi, conn, started, stopped>>

MarkBusy ==
    /\ mpc = "mark"
    /\ started' = started \cup {cur}
    /\ busy' = [busy EXCEPT ![conn] = TRUE]
    /\ mpc' = "take"
    /\ UNCHANGED <<list, connected, lpc, got, wire, breaks, si, xi, cur, conn, stopped>>

TakeAvailable ==
    /\ mpc = "take"
    /\ availableLen' = [availableLen EXCEPT ![conn[1]] = UInt(@ - 1)]
    /\ mpc' = "write"
    /\ UNCHANGED <<len, flowFinished, node, wire, breaks, si, xi, reqVars>>

\* A failed write is reported and otherwise ignored.
WriteRequest ==
    /\ mpc = "write"
    /\ \/ /\ WriteSent(conn, cur) \/ WriteLost(conn)
          /\ mpc' = "request"
          /\ cur' = cur + 1
          /\ UNCHANGED <<list, node, breaks, si, xi>>
       \/ WriteKills(conn) /\ UNCHANGED cur
    /\ UNCHANGED <<conn, started, stopped>>

RequestsDone ==
    /\ mpc = "request"
    /\ cur > NReq
    /\ mpc' = "exit"
    /\ UNCHANGED <<list, node, wire, breaks, si, xi, reqVars>>

\* Faulty variant: the stop time goes to the request made last.
ListenStampLast(n) ==
    /\ ListenStamped(n)
    /\ stopped' = stopped \cup {CHOOSE r \in started : \A q \in started : q <= r}
    /\ UNCHANGED <<cur, conn, started>>

\* The listener records the stop time of the request the flow belongs to.
ListenStamp(n) ==
    /\ ListenStamped(n)
    /\ stopped' = stopped \cup {got[n]}
    /\ UNCHANGED <<cur, conn, started>>

-----------------------------------------------------------------------------
MainPool ==
    \/ OpenFirst \/ OpenFirstFails \/ SpawnListeners
    \/ ExitNode(FALSE) \/ ExitWrite \/ ExitAllSent \/ WaitNode \/ WaitAllDone

MainRequest ==
    \/ BeginSearch \/ SearchNode \/ SearchMisses \/ Grow \/ GiveUp
    \/ MarkBusy \/ TakeAvailable \/ WriteRequest \/ RequestsDone

Init ==
    /\ PoolInit
    /\ cur = 1
    /\ conn = NoConn
    /\ started = {}
    /\ stopped = {}

Main == MainRequest \/ (MainPool /\ UNCHANGED reqVars)

\* exit() and a fatal signal end every thread of the client at once; the
\* server's thread sees the connection close.
Next ==
    \/ /\ Running
       /\ \/ Main
          \/ Others /\ UNCHANGED reqVars
          \/ \E n \in Node : ListenStamp(n)
    \/ \E n \in Node : ~Running /\ ServeEnd(n) /\ UNCHANGED reqVars

ListenStep(n) == Running /\ ((Listen(n) /\ UNCHANGED reqVars) \/ ListenStamp(n))
ServeStep(n) == ((Running /\ Serve(n)) \/ ServeEnd(n)) /\ UNCHANGED reqVars

\* The scheduler runs every thread that can run; connections need not break.
Fairness ==
    /\ WF_vars(Running /\ Main)
    /\ \A n \in Node : WF_vars(ListenStep(n)) /\ WF_vars(ServeStep(n))

Spec == Init /\ [][Next]_vars /\ Fairness

-----------------------------------------------------------------------------
(* Properties.                                                             *)

MainPc == {"open", "spawn", "request", "search", "grow", "mark", "take",
           "write", "exit", "exitWrite", "wait", "done", "failed", "killed"}

\* The state stays within the C types and the threads at known places.
TypeOK ==
    /\ PoolTypeOK
    /\ mpc \in MainPc
    /\ cur \in 1 .. (NReq + 1)
    /\ conn \in Node \cup {NoConn}
    /\ started \subseteq 1 .. NReq
    /\ stopped \subseteq 1 .. NReq

\* A search that available_len allowed finds a connection: busy is cleared
\* before available_len is raised, so there is one idle for each it counts.
SearchFinds ==
    (mpc = "search" /\ breaks = 0) => xi <= len[ReqServer[cur]]

\* What the client logs is what FlowLog promises: requests start in order,
\* none is logged as finished before it was started or after the log was
\* written, and unless a connection failed every request in it that was
\* started has finished.
Log == INSTANCE FlowLog WITH
    Flow <- 1 .. NReq, owner <- [r \in 1 .. NReq |-> r],
    open <- Running, lossy <- breaks > 0
ImplementsLog == Log!Spec

\* The client terminates, whether connections fail or not: the termination
\* flow or the failure reaches every listener that main waits for.
Terminates == <>(~Running)

\* No server thread outlives its client's connections.
ServersReleased == <>[](\A n \in Node : ~serving[n])
=============================================================================
