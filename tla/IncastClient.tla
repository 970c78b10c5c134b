---------------------------- MODULE IncastClient ----------------------------
(***************************************************************************)
(* The incast client (incast-client.c): a request asks for a number of     *)
(* flows from each server, all at once.  The main thread first collects    *)
(* the connections, then starts one short-lived thread per flow and joins  *)
(* them; the listeners account for flows and requests.                     *)
(***************************************************************************)
EXTENDS ConnPool, SequencesExt

CONSTANTS
    NReq,            \* req_total_num
    FlowCount        \* FlowCount[r][s]: req_server_flow_count

ASSUME RequestAssumption ==
    /\ NReq \in Nat \ {0}
    /\ FlowCount \in [1 .. NReq -> [Server -> Nat]]

Request == 1 .. NReq

\* req_fanout, and the flows of the first r requests (flow_total_num).
Fanout == [r \in Request |-> MapThenSumSet(LAMBDA s : FlowCount[r][s], Server)]
FlowsUpTo == [r \in 0 .. NReq |-> MapThenSumSet(LAMBDA k : Fanout[k], 1 .. r)]
Flow == 1 .. FlowsUpTo[NReq]

\* main opens max(max_fanout_size, TG_PAIR_INIT_CONN) connections per server.
ASSUME FanoutAssumption == \A r \in Request : Fanout[r] \in 1 .. InitConn

\* Faulty variant: flow IDs are taken to start at 0.
FlowReqIdFromZero ==
    [f \in Flow |-> CHOOSE r \in Request :
        LET g == IF f = 1 THEN 1 ELSE f - 1
        IN FlowsUpTo[r - 1] < g /\ g <= FlowsUpTo[r]]

\* flow_req_id: drawn up before the run, from the fan-outs alone.
FlowReqId == [f \in Flow |-> CHOOSE r \in Request :
                                 FlowsUpTo[r - 1] < f /\ f <= FlowsUpTo[r]]

VARIABLES
    cur,             \* the request run_incast_request works on
    srv,             \* the server it collects connections of
    toMake, oldTail, \* num_conn_new, still to do; tail_node
    flowReqs,        \* flow_reqs: connection and ID of each flow
    globalFlowId,    \* global_flow_id
    fpc,             \* run_flow threads: where each one is
    owner,           \* the request each flow was made for
    reqStarted,      \* requests with a start time
    reqStopped,      \* requests with a stop time
    started,         \* flows with a start time
    stopped          \* flows with a stop time

request == <<cur, srv, toMake, oldTail, flowReqs>>
times == <<reqStarted, reqStopped, started, stopped>>
reqVars == <<request, globalFlowId, fpc, owner, times>>
vars == <<poolVars, reqVars>>

NumConn == FlowCount[cur][srv]

-----------------------------------------------------------------------------
(* run_incast_request: the connections.                                    *)

\* max(num_conn - available_len, 0) is an unsigned maximum, so the
\* difference wraps when more are available than needed; insert_conn_list
\* takes it as an int, and a negative one makes no connection.
NewConns(num, available) ==
    LET d == UInt(num - available) IN IF d < UIntWord \div 2 THEN d ELSE 0

\* The next request, whether this one was made or given up.
NextRequest ==
    /\ cur' = cur + 1
    /\ srv' = 1
    /\ flowReqs' = <<>>
    /\ mpc' = "request"

\* No flow from this server.
SkipServer ==
    /\ mpc = "request"
    /\ cur <= NReq
    /\ srv <= NServer
    /\ NumConn = 0
    /\ srv' = srv + 1
    /\ UNCHANGED <<poolVars, cur, toMake, oldTail, flowReqs, globalFlowId,
                   fpc, owner, times>>

\* available_len is read without the lock.
CountNew ==
    /\ mpc = "request"
    /\ cur <= NReq
    /\ srv <= NServer
    /\ NumConn > 0
    /\ toMake' = NewConns(NumConn, availableLen[srv])
    /\ oldTail' = len[srv]
    /\ mpc' = "insert"
    /\ UNCHANGED <<list, node, wire, breaks, si, xi, cur, srv, flowReqs,
                   globalFlowId, fpc, owner, times>>

InsertOne ==
    /\ mpc = "insert"
    /\ toMake > 0
    /\ AddNode(srv, FALSE)
    /\ toMake' = toMake - 1
    /\ UNCHANGED <<main, cur, srv, oldTail, flowReqs, globalFlowId, fpc,
                   owner, times>>

\* insert_conn_list stops at the first failure.  What it inserted before
\* stays in the list, without a listener, and the request is given up.
InsertFails ==
    /\ mpc = "insert"
    /\ toMake > 0
    /\ ConnectRefused
    /\ NextRequest
    /\ UNCHANGED <<si, xi, toMake, oldTail, globalFlowId, fpc, owner, times>>

\* Faulty variant: listeners are started on the whole list again.
StartListenersAgain ==
    /\ mpc = "insert"
    /\ toMake = 0
    /\ lpc' = [n \in Node |-> IF n[1] = srv /\ Exists(n) THEN "read" ELSE lpc[n]]
    /\ mpc' = "check"
    /\ UNCHANGED <<list, busy, connected, got, wire, breaks, si, xi, reqVars>>

StartListeners ==
    /\ mpc = "insert"
    /\ toMake = 0
    /\ lpc' = [n \in Node |->
                 IF n[1] = srv /\ n[2] > oldTail /\ Exists(n)
                 THEN "read" ELSE lpc[n]]
    /\ mpc' = "check"
    /\ UNCHANGED <<list, busy, connected, got, wire, breaks, si, xi, reqVars>>

\* search_n_conn_list compares available_len with the number needed.
BeginSearch ==
    /\ mpc = "check"
    /\ IF availableLen[srv] < NumConn
         THEN NextRequest
         ELSE mpc' = "search" /\ UNCHANGED <<cur, srv, flowReqs>>
    /\ UNCHANGED <<list, node, wire, breaks, si, xi, toMake, oldTail,
                   globalFlowId, fpc, owner, times>>

Picked == Cardinality({k \in DOMAIN flowReqs : flowReqs[k].conn[1] = srv})

\* The walk takes idle connections until there are enough, and only then are
\* the flow IDs handed out.  A picked connection's ID is 0 until then.
SearchNode ==
    LET n == <<srv, xi>>
    IN /\ mpc = "search"
       /\ Exists(n)
       /\ Picked < NumConn
       /\ xi' = xi + 1
       /\ flowReqs' = IF Idle(n) THEN Append(flowReqs, [conn |-> n, id |-> 0])
                                 ELSE flowReqs
       /\ UNCHANGED <<list, node, wire, breaks, mpc, si, cur, srv, toMake,
                      oldTail, globalFlowId, fpc, owner, times>>

AssignFlows ==
    LET first == Len(flowReqs) - NumConn
        id(k) == globalFlowId + k - first
    IN /\ mpc = "search"
       /\ Picked = NumConn
       /\ flowReqs' = [k \in DOMAIN flowReqs |->
                         IF k > first THEN [flowReqs[k] EXCEPT !.id = id(k)]
                                      ELSE flowReqs[k]]
       /\ owner' = [f \in Flow |->
                      IF f \in globalFlowId + 1 .. globalFlowId + NumConn
                      THEN cur ELSE owner[f]]
       /\ globalFlowId' = globalFlowId + NumConn
       /\ srv' = srv + 1
       /\ xi' = 1
       /\ mpc' = "request"
       /\ UNCHANGED <<list, node, wire, breaks, si, cur, toMake, oldTail, fpc,
                      times>>

\* The end of the list comes first: the request is given up, and the IDs
\* handed out for the servers before this one are not given back.
SearchMisses ==
    /\ mpc = "search"
    /\ Picked < NumConn
    /\ xi > len[srv]
    /\ xi' = 1
    /\ NextRequest
    /\ UNCHANGED <<list, node, wire, breaks, si, toMake, oldTail,
                   globalFlowId, fpc, owner, times>>

-----------------------------------------------------------------------------
(* run_incast_request: the flows, and run_flow.                            *)

StartFlows ==
    /\ mpc = "request"
    /\ cur <= NReq
    /\ srv > NServer
    /\ reqStarted' = reqStarted \cup {cur}
    /\ fpc' = [k \in DOMAIN flowReqs |-> "mark"]
    /\ mpc' = "flows"
    /\ UNCHANGED <<list, node, wire, breaks, si, xi, request, globalFlowId,
                   owner, reqStopped, started, stopped>>

FlowMarkBusy(k) ==
    /\ fpc[k] = "mark"
    /\ started' = started \cup {flowReqs[k].id}
    /\ busy' = [busy EXCEPT ![flowReqs[k].conn] = TRUE]
    /\ fpc' = [fpc EXCEPT ![k] = "take"]
    /\ UNCHANGED <<list, connected, lpc, got, wire, breaks, main, request,
                   globalFlowId, owner, reqStarted, reqStopped, stopped>>

FlowTakeAvailable(k) ==
    /\ fpc[k] = "take"
    /\ availableLen' = [availableLen EXCEPT ![flowReqs[k].conn[1]] = UInt(@ - 1)]
    /\ fpc' = [fpc EXCEPT ![k] = "write"]
    /\ UNCHANGED <<len, flowFinished, node, wire, breaks, main, request,
                   globalFlowId, owner, times>>

FlowWrite(k) ==
    /\ fpc[k] = "write"
    /\ \/ /\ \/ WriteSent(flowReqs[k].conn, flowReqs[k].id)
             \/ WriteLost(flowReqs[k].conn)
          /\ fpc' = [fpc EXCEPT ![k] = "done"]
          /\ UNCHANGED <<list, node, breaks, main>>
       \/ WriteKills(flowReqs[k].conn) /\ UNCHANGED fpc
    /\ UNCHANGED <<request, globalFlowId, owner, times>>

RunFlow == \E k \in DOMAIN fpc : FlowMarkBusy(k) \/ FlowTakeAvailable(k) \/ FlowWrite(k)

\* pthread_join of every run_flow thread.
JoinFlows ==
    /\ mpc = "flows"
    /\ \A k \in DOMAIN fpc : fpc[k] = "done"
    /\ fpc' = <<>>
    /\ NextRequest
    /\ UNCHANGED <<list, node, wire, breaks, si, xi, toMake, oldTail,
                   globalFlowId, owner, times>>

RequestsDone ==
    /\ mpc = "request"
    /\ cur > NReq
    /\ mpc' = "exit"
    /\ UNCHANGED <<list, node, wire, breaks, si, xi, reqVars>>

\* Faulty variant: all flows of the request get the stop time of one.
ListenStampRequest(n) ==
    /\ ListenStamped(n)
    /\ stopped' = stopped \cup {f \in Flow : FlowReqId[f] = FlowReqId[got[n]]}
    /\ reqStopped' = reqStopped \cup {FlowReqId[got[n]]}
    /\ UNCHANGED <<request, globalFlowId, fpc, owner, reqStarted, started>>

\* The listener records the stop time of the flow, and of the request that
\* flow_req_id names, whichever flow of it this is.
ListenStamp(n) ==
    /\ ListenStamped(n)
    /\ stopped' = stopped \cup {got[n]}
    /\ reqStopped' = reqStopped \cup {FlowReqId[got[n]]}
    /\ UNCHANGED <<request, globalFlowId, fpc, owner, reqStarted, started>>

\* Joining a connection without a listener uses a thread ID that was never
\* set: undefined, anything from an error that is reported to a crash.
WaitNoListener ==
    LET n == <<si, xi>>
    IN /\ mpc = "wait"
       /\ xi <= len[si]
       /\ lpc[n] = "none"
       /\ \/ xi' = xi + 1 /\ UNCHANGED mpc
          \/ mpc' = "killed" /\ UNCHANGED xi
       /\ UNCHANGED <<list, node, wire, breaks, si, reqVars>>

-----------------------------------------------------------------------------
MainPool ==
    \/ OpenFirst \/ OpenFirstFails \/ SpawnListeners
    \/ ExitNode(TRUE) \/ ExitWrite \/ ExitAllSent \/ WaitNode \/ WaitAllDone

MainRequest ==
    \/ SkipServer \/ CountNew \/ InsertOne \/ InsertFails \/ StartListeners
    \/ BeginSearch \/ SearchNode \/ AssignFlows \/ SearchMisses
    \/ StartFlows \/ JoinFlows \/ RequestsDone \/ WaitNoListener

Init ==
    /\ PoolInit
    /\ cur = 1
    /\ srv = 1
    /\ toMake = 0
    /\ oldTail = 0
    /\ flowReqs = <<>>
    /\ globalFlowId = 0
    /\ fpc = <<>>
    /\ owner = [f \in Flow |-> 0]
    /\ reqStarted = {}
    /\ reqStopped = {}
    /\ started = {}
    /\ stopped = {}

Main == MainRequest \/ (MainPool /\ UNCHANGED reqVars)

Next ==
    \/ /\ Running
       /\ \/ Main
          \/ RunFlow
          \/ Others /\ UNCHANGED reqVars
          \/ \E n \in Node : ListenStamp(n)
    \/ \E n \in Node : ~Running /\ ServeEnd(n) /\ UNCHANGED reqVars

ListenStep(n) == Running /\ ((Listen(n) /\ UNCHANGED reqVars) \/ ListenStamp(n))
ServeStep(n) == ((Running /\ Serve(n)) \/ ServeEnd(n)) /\ UNCHANGED reqVars

\* The scheduler runs every thread that can run; connections need not break.
Fairness ==
    /\ WF_vars(Running /\ Main)
    /\ WF_vars(Running /\ RunFlow)
    /\ \A n \in Node : WF_vars(ListenStep(n)) /\ WF_vars(ServeStep(n))

Spec == Init /\ [][Next]_vars /\ Fairness

-----------------------------------------------------------------------------
(* Properties.                                                             *)

MainPc == {"open", "spawn", "request", "insert", "check", "search", "flows",
           "exit", "exitWrite", "wait", "done", "failed", "killed"}

\* The state stays within the C types and the arrays: no flow ID passes the
\* end of flow_req_id and the arrays of times.
TypeOK ==
    /\ PoolTypeOK
    /\ mpc \in MainPc
    /\ cur \in 1 .. (NReq + 1)
    /\ srv \in 1 .. (NServer + 1)
    /\ toMake \in 0 .. (UIntWord \div 2)
    /\ oldTail \in 0 .. MaxNode
    /\ \A k \in DOMAIN flowReqs :
          flowReqs[k] \in [conn : Node, id : Flow \cup {0}]
    /\ globalFlowId \in 0 .. FlowsUpTo[NReq]
    /\ \A k \in DOMAIN fpc : fpc[k] \in {"mark", "take", "write", "done"}
    /\ owner \in [Flow -> Request \cup {0}]
    /\ reqStarted \subseteq Request
    /\ reqStopped \subseteq Request
    /\ started \subseteq Flow
    /\ stopped \subseteq Flow

\* Flow IDs are handed out in the order flow_req_id was drawn up in: the
\* request a flow is accounted to is the one it was made for.
FlowReqIdCorrect ==
    \A f \in Flow : owner[f] # 0 => owner[f] = FlowReqId[f]

\* So they are as long as no request was given up.
FlowReqIdWhileServed ==
    (\A r \in Request : r < cur => r \in reqStarted) => FlowReqIdCorrect

\* A search that available_len allowed finds its connections, since busy is
\* cleared before available_len is raised.
SearchFinds ==
    (mpc = "search" /\ breaks = 0) => (Picked = NumConn \/ xi <= len[srv])

\* Flows on a connection that was left without a listener.
Unheard == {f \in started : \E n \in Node :
                lpc[n] = "none" /\ f \in Range(toServer[n]) \cup Range(toClient[n])}

\* When the results are printed every flow that was started has been
\* accounted, once, to the pool of the server that sent it, unless it was
\* sent on a connection that a failed insert_conn_list had left behind.
FlowsAccounted ==
    (mpc = "done" /\ breaks = 0) =>
        /\ started = stopped \cup Unheard
        /\ Cardinality(stopped) = MapThenSumSet(LAMBDA s : flowFinished[s], Server)

\* A request that was not given up gets its connections, and all its flows
\* are accounted for.
FlowsServed == SearchFinds /\ FlowsAccounted

\* What the client logs about flows is what FlowLog promises: none of a later
\* request before one of an earlier, each once, and all that were started are
\* finished in the log unless a connection failed or had no listener.
Log == INSTANCE FlowLog WITH
    open <- mpc # "done", lossy <- breaks > 0 \/ Unheard # {}
ImplementsLog == Log!Spec

\* No thread waits for another that waits for it: while the client runs some
\* thread of it or of the servers can take a step, whatever connections were
\* refused or failed.  Every thread does a finite amount of work, so this is
\* what termination depends on.
NeverStuck ==
    Running => ENABLED (Main \/ RunFlow
                          \/ \E n \in Node : ListenStep(n) \/ ServeStep(n))
=============================================================================
