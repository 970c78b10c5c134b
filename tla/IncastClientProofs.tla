------------------------- MODULE IncastClientProofs -------------------------
(***************************************************************************)
(* Proofs about IncastClient, for any requests, servers, connections and   *)
(* word size, and any number of connections that are refused or fail.      *)
(*                                                                         *)
(* Three inductive invariants, each on top of those before it:             *)
(*   MainsInv   what main knows: types, the connections and flow IDs of    *)
(*              the request.  Flows are accounted to the request they      *)
(*              were made for until a request is given up.                 *)
(*   FlowsInv   where flows, threads and listeners are.  Flows are counted *)
(*              and logged once, and the log is what FlowLog promises.     *)
(*   BusyInv, CountInv, SearchInv                                          *)
(*              while no connection has failed: what is busy, and that     *)
(*              available_len does not say too much.  A search finds its   *)
(*              connections.                                               *)
(* Their parts are proved to be kept one at a time.                        *)
(***************************************************************************)
EXTENDS IncastClient, ConnPoolProofs, SumProofs

-----------------------------------------------------------------------------
(* Flow IDs.                                                               *)

\* The flows of request r from the first s servers.
PartSum(r, s) == Sum(FlowCount[r], 1 .. s)

\* One server more adds its flows; all servers together give the fan-out.
LEMMA PartSums ==
  ASSUME NEW r \in Request
  PROVE  /\ PartSum(r, 0) = 0
         /\ \A s \in Server : /\ PartSum(r, s - 1) \in Nat /\ PartSum(r, s) \in Nat
                              /\ FlowCount[r][s] \in Nat
                              /\ PartSum(r, s) = PartSum(r, s - 1) + FlowCount[r][s]
         /\ PartSum(r, NServer) = Fanout[r]
<1>1. FlowCount[r] \in [1 .. NServer -> Nat]
  BY RequestAssumption DEF Request, Server
<1>2. NServer \in Nat /\ \A s \in Server : s \in 1 .. NServer /\ s - 1 \in 0 .. NServer
                                           /\ s \in 0 .. NServer
  BY PoolAssumption DEF Server
<1>3. PartSum(r, NServer) = Fanout[r]
  BY DEF PartSum, Sum, Fanout, Server
<1> QED
  BY <1>1, <1>2, <1>3, SumUpTo DEF PartSum

\* The fan-outs add up to flow IDs.
LEMMA FlowsUpToSums ==
  /\ FlowsUpTo[0] = 0
  /\ \A r \in 0 .. NReq : FlowsUpTo[r] \in Nat
  /\ \A r \in Request : /\ Fanout[r] \in Nat /\ Fanout[r] <= InitConn
                        /\ FlowsUpTo[r] = FlowsUpTo[r - 1] + Fanout[r]
<1>1. /\ Fanout \in [1 .. NReq -> Nat]
      /\ \A r \in Request : Fanout[r] \in Nat /\ Fanout[r] <= InitConn
  <2>1. \A r \in Request : Fanout[r] \in Nat /\ Fanout[r] <= InitConn
    BY FanoutAssumption, PoolAssumption
  <2>2. Fanout = [r \in Request |-> Fanout[r]]
    BY DEF Fanout
  <2> QED
    BY <2>1, <2>2 DEF Request
<1>2. \A r \in 0 .. NReq : FlowsUpTo[r] = Sum(Fanout, 1 .. r)
  BY DEF FlowsUpTo, Sum
<1>3. NReq \in Nat /\ 0 \in 0 .. NReq
  BY RequestAssumption
<1>4. \A r \in Request : r \in 1 .. NReq /\ r \in 0 .. NReq /\ r - 1 \in 0 .. NReq
  BY <1>3 DEF Request
<1>5. /\ Sum(Fanout, 1 .. 0) = 0
      /\ \A k \in 0 .. NReq : Sum(Fanout, 1 .. k) \in Nat
      /\ \A k \in 1 .. NReq : Sum(Fanout, 1 .. k) = Sum(Fanout, 1 .. k - 1) + Fanout[k]
  BY <1>1, <1>3, SumUpTo
<1> QED
  BY <1>1, <1>2, <1>3, <1>4, <1>5

\* More requests have no fewer flows.
LEMMA FlowsUpToGrows ==
  ASSUME NEW p \in 0 .. NReq, NEW q \in 0 .. NReq, p <= q
  PROVE  FlowsUpTo[p] <= FlowsUpTo[q]
<1> DEFINE Bad == {n \in p .. NReq : ~(FlowsUpTo[p] <= FlowsUpTo[n])}
<1>1. NReq \in Nat
  BY RequestAssumption
<1>2. Bad = {}
  <2> SUFFICES ASSUME Bad # {} PROVE FALSE
    OBVIOUS
  <2>0. Bad \subseteq Nat
    BY <1>1
  <2>1. PICK n \in Bad : \A m \in Bad : n <= m
    BY <2>0, LeastNumber
  <2>2. FlowsUpTo[p] \in Nat /\ n \in p .. NReq /\ n \in Nat /\ p \in Nat
    BY <1>1, FlowsUpToSums
  <2>3. n # p
    BY <2>2
  <2>4. n - 1 \in p .. NReq /\ n - 1 \in 0 .. NReq /\ n \in Request /\ ~(n <= n - 1)
    BY <1>1, <2>2, <2>3 DEF Request
  <2>5. FlowsUpTo[p] <= FlowsUpTo[n - 1]
    BY <2>1, <2>4
  <2>6. FlowsUpTo[n] = FlowsUpTo[n - 1] + Fanout[n] /\ FlowsUpTo[n - 1] \in Nat /\ Fanout[n] \in Nat
    BY <2>4, FlowsUpToSums
  <2> QED
    BY <2>2, <2>5, <2>6
<1> QED
  BY <1>1, <1>2

\* flow_req_id is the request among whose flows the flow is.
LEMMA FlowReqIdIs ==
  ASSUME NEW r \in Request, NEW f \in Flow, FlowsUpTo[r - 1] < f, f <= FlowsUpTo[r]
  PROVE  FlowReqId[f] = r
<1> DEFINE In(q) == FlowsUpTo[q - 1] < f /\ f <= FlowsUpTo[q]
<1>1. FlowReqId[f] = CHOOSE q \in Request : In(q)
  BY DEF FlowReqId
<1>2. ASSUME NEW q \in Request, In(q) PROVE q = r
  <2>1. /\ q \in 0 .. NReq /\ r \in 0 .. NReq /\ q - 1 \in 0 .. NReq /\ r - 1 \in 0 .. NReq
        /\ f \in Nat
    BY RequestAssumption, FlowsUpToSums DEF Request, Flow
  <2>2. /\ FlowsUpTo[q] \in Nat /\ FlowsUpTo[r] \in Nat
        /\ FlowsUpTo[q - 1] \in Nat /\ FlowsUpTo[r - 1] \in Nat
    BY <2>1, FlowsUpToSums
  <2>3. CASE q < r
    <3>1. FlowsUpTo[q] <= FlowsUpTo[r - 1]
      BY <2>1, <2>3, FlowsUpToGrows
    <3> QED
      BY <1>2, <2>1, <2>2, <3>1
  <2>4. CASE r < q
    <3>1. FlowsUpTo[r] <= FlowsUpTo[q - 1]
      BY <2>1, <2>4, FlowsUpToGrows
    <3> QED
      BY <1>2, <2>1, <2>2, <3>1
  <2> QED
    BY <2>1, <2>3, <2>4
<1> QED
  BY <1>1, <1>2

\* The flows from some of the servers are among those of the request.
LEMMA PartSumGrows ==
  ASSUME NEW r \in Request, NEW s \in 0 .. NServer
  PROVE  PartSum(r, s) \in Nat /\ PartSum(r, s) <= Fanout[r] /\ Fanout[r] \in Nat
<1> DEFINE Bad == {n \in Nat : n <= NServer /\ ~(PartSum(r, NServer - n) <= Fanout[r])}
<1>1. NServer \in Nat /\ NServer \in Server
  BY PoolAssumption DEF Server
<1>2. Fanout[r] \in Nat /\ PartSum(r, NServer) = Fanout[r]
  BY PartSums, FlowsUpToSums
<1>3. \A t \in 0 .. NServer : PartSum(r, t) \in Nat
  <2> TAKE t \in 0 .. NServer
  <2>1. t = 0 \/ t \in Server
    BY <1>1 DEF Server
  <2> QED
    BY <2>1, PartSums
<1>4. Bad = {}
  <2> SUFFICES ASSUME Bad # {} PROVE FALSE
    OBVIOUS
  <2>0. Bad \subseteq Nat
    OBVIOUS
  <2>1. PICK n \in Bad : \A m \in Bad : n <= m
    BY <2>0, LeastNumber
  <2>2. n \in Nat /\ n <= NServer /\ ~(PartSum(r, NServer - n) <= Fanout[r])
    BY <2>1
  <2>3. n # 0
    BY <1>1, <1>2, <2>2
  <2>4. n - 1 \in Nat /\ n - 1 <= NServer /\ ~(n <= n - 1)
    BY <1>1, <2>2, <2>3
  <2>5. PartSum(r, NServer - (n - 1)) <= Fanout[r]
    BY <2>1, <2>4
  <2> DEFINE t == NServer - (n - 1)
  <2>6. t \in Server /\ t - 1 = NServer - n
    BY <1>1, <2>2, <2>3 DEF Server
  <2> HIDE DEF t
  <2>7. /\ PartSum(r, t) = PartSum(r, t - 1) + FlowCount[r][t]
        /\ PartSum(r, t - 1) \in Nat /\ FlowCount[r][t] \in Nat
    BY <2>6, PartSums
  <2>8. PartSum(r, t) <= Fanout[r]
    BY <2>5 DEF t
  <2>9. PartSum(r, t - 1) <= Fanout[r]
    BY <1>2, <2>7, <2>8
  <2> QED
    BY <2>2, <2>6, <2>9
<1>5. NServer - s \in Nat /\ NServer - s <= NServer /\ NServer - (NServer - s) = s
  BY <1>1
<1>6. NServer - s \notin Bad
  BY <1>4
<1>7. PartSum(r, s) <= Fanout[r]
  BY <1>5, <1>6
<1> QED
  BY <1>2, <1>3, <1>7

-----------------------------------------------------------------------------
(* What main knows, and the flows of the request it works on.              *)

\* Where main is while it collects connections, and where a flow's thread is
\* until it has written its request.
Preparing == {"insert", "check", "search"}
FlowPc == {"mark", "take", "write", "done"}

\* The types of main's own variables.
MainType ==
    /\ si \in Server
    /\ xi \in 1 .. (MaxNode + 1)
    /\ mpc \in MainPc
    /\ cur \in 1 .. (NReq + 1)
    /\ srv \in 1 .. (NServer + 1)
    /\ toMake \in 0 .. (UIntWord \div 2)
    /\ oldTail \in 0 .. MaxNode
    /\ flowReqs \in Seq([conn : Node, id : Nat])
    /\ globalFlowId \in Nat
    /\ fpc \in Seq(FlowPc)
    /\ owner \in [Flow -> 0 .. NReq]
    /\ reqStarted \subseteq Request
    /\ started \subseteq Flow

\* The types; and refused connections leak finitely many descriptors, which
\* is why there is always a lowest free one.
TypeInv == ConnType /\ MainType /\ IsFiniteSet(leaked)

\* Where main is tells which request and server it is at, whether flows are
\* being sent, and how far it is in opening, searching or closing the lists;
\* and only requests before this one have been started, until its flows are.
MainInv ==
    /\ mpc \in Preparing => cur <= NReq /\ srv <= NServer /\ NumConn > 0
    /\ mpc = "flows" => cur <= NReq /\ srv = NServer + 1 /\ DOMAIN fpc = DOMAIN flowReqs
    /\ mpc \notin {"flows", "killed"} => fpc = <<>>
    /\ mpc \in {"open", "spawn", "failed"} => started = {}
    /\ mpc \in {"open", "spawn", "request", "insert", "check", "flows"} => xi = 1
    /\ mpc \in {"spawn", "request", "flows"} \cup Preparing => si = 1
    /\ mpc = "search" => xi <= len[srv] + 1
    /\ mpc = "exitWrite" => xi <= len[si]
    /\ mpc \in {"exit", "wait"} => xi <= len[si] + 1
    /\ cur > NReq => srv = 1
    /\ \A r \in reqStarted : r < cur \/ (r = cur /\ mpc \in {"flows", "killed"})

\* How many flows of the request have been given their IDs, and the number
\* before the first of these.
Ready == PartSum(cur, srv - 1)
FirstId == globalFlowId - Ready

\* The request has one connection for each of its flows, no two the same: of
\* the servers that are dealt with, with consecutive IDs, and of the one that
\* is searched, without.
ReqInv ==
    /\ mpc # "search" => Len(flowReqs) = Ready
    /\ mpc = "search" => Ready <= Len(flowReqs) /\ Len(flowReqs) <= Ready + NumConn
    /\ \A k \in DOMAIN flowReqs :
          /\ Exists(flowReqs[k].conn)
          /\ k <= Ready => flowReqs[k].conn[1] < srv /\ flowReqs[k].id = FirstId + k
          /\ k > Ready => /\ flowReqs[k].conn[1] = srv /\ flowReqs[k].conn[2] < xi
                          /\ flowReqs[k].id = 0
    /\ \A j, k \in DOMAIN flowReqs : flowReqs[j].conn = flowReqs[k].conn => j = k

\* No request has been given up.
AllServed == \A r \in Request : r < cur => r \in reqStarted

\* IDs are handed out in order, those of the current request last, and never
\* more than the requests so far have flows: exactly as many while no request
\* has been given up.
IdInv ==
    /\ FirstId \in Nat
    /\ FirstId <= FlowsUpTo[cur - 1]
    /\ AllServed => FirstId = FlowsUpTo[cur - 1]
    /\ \A f \in Flow : /\ owner[f] = 0 <=> f > globalFlowId
                       /\ owner[f] <= cur
                       /\ FirstId < f /\ f <= globalFlowId => owner[f] = cur
    /\ AllServed => FlowReqIdCorrect
    /\ \A f \in started : f <= globalFlowId
    /\ mpc \notin {"flows", "killed"} => \A f \in started : f <= FirstId

\* These four carry each other.
MainsInv == TypeInv /\ MainInv /\ ReqInv /\ IdInv

-----------------------------------------------------------------------------
(* Steps.                                                                  *)

\* A step is one of the main thread, of a flow's thread, of a listener, of a
\* server's thread or of the network.
LEMMA StepCases ==
  ASSUME [Next]_vars
  PROVE  \/ MainPool /\ Running /\ UNCHANGED reqVars
         \/ SkipServer
         \/ CountNew
         \/ InsertOne
         \/ InsertFails
         \/ StartListeners
         \/ BeginSearch
         \/ SearchNode
         \/ AssignFlows
         \/ SearchMisses
         \/ StartFlows
         \/ JoinFlows
         \/ RequestsDone
         \/ WaitNoListener
         \/ \E k \in DOMAIN fpc : Running /\ FlowMarkBusy(k)
         \/ \E k \in DOMAIN fpc : Running /\ FlowTakeAvailable(k)
         \/ \E k \in DOMAIN fpc : Running /\ FlowWrite(k)
         \/ \E n \in Node : (Listen(n) \/ Serve(n) \/ ServeEnd(n) \/ Break(n)) /\ UNCHANGED reqVars
         \/ \E n \in Node : ListenStamp(n)
         \/ UNCHANGED vars
BY DEF Next, Main, MainRequest, RunFlow, Others

\* A request being worked on is one of those asked for, and so is its server.
LEMMA CurrentRequest ==
  ASSUME TypeInv, MainInv, mpc \in Preparing
  PROVE  /\ cur \in Request /\ srv \in Server /\ cur + 1 \in 1 .. (NReq + 1)
         /\ srv + 1 \in 1 .. (NServer + 1) /\ NumConn \in Nat \ {0}
         /\ len[srv] \in 0 .. MaxNode
<1>1. cur \in Request /\ srv \in Server
  BY RequestAssumption, PoolAssumption DEF TypeInv, MainType, MainInv, Request, Server
<1>2. cur + 1 \in 1 .. (NReq + 1) /\ srv + 1 \in 1 .. (NServer + 1)
  BY <1>1, RequestAssumption, PoolAssumption DEF Request, Server
<1>3. NumConn \in Nat /\ NumConn > 0
  BY <1>1, PartSums DEF NumConn, MainInv
<1>4. len[srv] \in 0 .. MaxNode
  BY <1>1 DEF TypeInv, ConnType
<1> QED
  BY <1>1, <1>2, <1>3, <1>4

\* A thread of a flow runs only while main waits for it.
LEMMA FlowThread ==
  ASSUME TypeInv, MainInv, ReqInv, NEW k \in DOMAIN fpc, Running
  PROVE  /\ mpc = "flows" /\ cur \in Request /\ k \in DOMAIN flowReqs /\ k \in Nat \ {0}
         /\ k <= Ready /\ Ready = Fanout[cur] /\ Ready \in Nat
         /\ flowReqs[k].conn \in Node /\ flowReqs[k].id = FirstId + k
         /\ Exists(flowReqs[k].conn)
<1>1. mpc = "flows"
  <2>1. fpc # <<>>
    OBVIOUS
  <2> QED
    BY <2>1 DEF MainInv, Running
<1>2. cur \in Request /\ srv = NServer + 1 /\ k \in DOMAIN flowReqs
  BY <1>1, RequestAssumption DEF TypeInv, MainType, MainInv, Request
<1>3. Ready = Fanout[cur] /\ Ready \in Nat
  <2>1. NServer \in Nat /\ (NServer + 1) - 1 = NServer /\ NServer \in 0 .. NServer
    BY PoolAssumption
  <2>2. srv - 1 = NServer
    BY <1>2, <2>1
  <2> QED
    BY <1>2, <2>1, <2>2, PartSums, PartSumGrows DEF Ready
<1>4. flowReqs \in Seq([conn : Node, id : Nat])
  BY DEF TypeInv, MainType
<1>5. k \in 1 .. Len(flowReqs) /\ flowReqs[k] \in [conn : Node, id : Nat]
  <2>1. DOMAIN flowReqs = 1 .. Len(flowReqs)
    BY <1>4, LenProperties
  <2> QED
    BY <1>2, <1>4, <2>1, ElementOfSeq
<1>6. k <= Ready /\ k \in Nat \ {0}
  BY <1>1, <1>3, <1>5 DEF ReqInv
<1> QED
  BY <1>1, <1>2, <1>3, <1>5, <1>6 DEF ReqInv

\* Its flow has an ID.
LEMMA FlowThreadId ==
  ASSUME TypeInv, MainInv, ReqInv, IdInv, NEW k \in DOMAIN fpc, Running
  PROVE  /\ flowReqs[k].id \in Flow /\ flowReqs[k].id <= globalFlowId
         /\ FirstId < flowReqs[k].id
<1>1. /\ cur \in Request /\ k \in Nat \ {0} /\ k <= Ready /\ Ready = Fanout[cur] /\ Ready \in Nat
      /\ flowReqs[k].id = FirstId + k
  BY FlowThread
<1>2. /\ cur - 1 \in 0 .. NReq /\ cur \in 0 .. NReq /\ NReq \in 0 .. NReq /\ cur <= NReq
  BY <1>1, RequestAssumption DEF Request
<1>3. /\ FlowsUpTo[cur - 1] \in Nat /\ FlowsUpTo[cur] \in Nat /\ FlowsUpTo[NReq] \in Nat
      /\ FlowsUpTo[cur] = FlowsUpTo[cur - 1] + Fanout[cur]
      /\ FlowsUpTo[cur] <= FlowsUpTo[NReq]
  BY <1>1, <1>2, FlowsUpToSums, FlowsUpToGrows
<1>4. FirstId \in Nat /\ FirstId <= FlowsUpTo[cur - 1] /\ globalFlowId \in Nat
  BY DEF IdInv, TypeInv, MainType
<1>5. FirstId + Ready = globalFlowId
  BY <1>1, <1>4 DEF FirstId
<1> QED
  BY <1>1, <1>3, <1>4, <1>5 DEF Flow

\* search_n_conn_list has taken the connections at the end of flow_reqs.
LEMMA PickedLast ==
  ASSUME TypeInv, MainInv, ReqInv, mpc = "search"
  PROVE  /\ Picked = Len(flowReqs) - Ready /\ Len(flowReqs) \in Nat /\ Ready \in Nat
         /\ Ready <= Len(flowReqs) /\ PartSum(cur, srv) = Ready + NumConn
<1>1. cur \in Request /\ srv \in Server /\ NumConn \in Nat
  BY CurrentRequest DEF Preparing
<1>2. Ready \in Nat /\ PartSum(cur, srv) = Ready + NumConn
  BY <1>1, PartSums DEF Ready, NumConn
<1>3. flowReqs \in Seq([conn : Node, id : Nat])
  BY DEF TypeInv, MainType
<1>4. /\ Len(flowReqs) \in Nat /\ DOMAIN flowReqs = 1 .. Len(flowReqs)
      /\ \A k \in DOMAIN flowReqs : flowReqs[k].conn \in Node
  <2>1. \A k \in 1 .. Len(flowReqs) : flowReqs[k] \in [conn : Node, id : Nat]
    BY <1>3, ElementOfSeq
  <2> QED
    BY <1>3, <2>1, LenProperties
<1>5. Ready <= Len(flowReqs)
  BY DEF ReqInv
<1>6. \A k \in DOMAIN flowReqs : flowReqs[k].conn[1] = srv <=> k > Ready
  <2> TAKE k \in DOMAIN flowReqs
  <2>1. flowReqs[k].conn[1] \in Nat /\ srv \in Nat /\ k \in Nat
    BY <1>1, <1>4, NodeParts
  <2>2. k > Ready \/ k <= Ready
    BY <1>2, <2>1
  <2>3. k <= Ready => flowReqs[k].conn[1] < srv
    BY DEF ReqInv
  <2>4. k > Ready => flowReqs[k].conn[1] = srv
    BY DEF ReqInv
  <2> QED
    BY <1>2, <2>1, <2>2, <2>3, <2>4
<1>7. {k \in DOMAIN flowReqs : flowReqs[k].conn[1] = srv} = Ready + 1 .. Len(flowReqs)
  BY <1>2, <1>4, <1>6
<1>8. Cardinality(Ready + 1 .. Len(flowReqs)) = Len(flowReqs) - Ready
  <2>1. PICK a, b \in Nat : a = Ready /\ b = Len(flowReqs)
    BY <1>2, <1>4
  <2>2. Cardinality(a + 1 .. b) = IF a + 1 > b THEN 0 ELSE b - (a + 1) + 1
    BY FS_Interval
  <2>3. a <= b
    BY <1>5, <2>1
  <2>4. Cardinality(a + 1 .. b) = b - a
    BY <2>2, <2>3
  <2> QED
    BY <2>1, <2>4
<1> QED
  BY <1>2, <1>4, <1>5, <1>7, <1>8 DEF Picked

\* The sequence of a request's connections and IDs, and those of its threads.
LEMMA FlowReqsType ==
  ASSUME TypeInv
  PROVE  /\ Len(flowReqs) \in Nat /\ DOMAIN flowReqs = 1 .. Len(flowReqs)
         /\ \A k \in DOMAIN flowReqs : /\ k \in Nat \ {0}
                                       /\ flowReqs[k].conn \in Node /\ flowReqs[k].id \in Nat
                                       /\ flowReqs[k] = [conn |-> flowReqs[k].conn, id |-> flowReqs[k].id]
         /\ Len(fpc) \in Nat /\ DOMAIN fpc = 1 .. Len(fpc)
         /\ \A k \in DOMAIN fpc : fpc[k] \in FlowPc
<1>1. flowReqs \in Seq([conn : Node, id : Nat]) /\ fpc \in Seq(FlowPc)
  BY DEF TypeInv, MainType
<1>2. \A k \in 1 .. Len(flowReqs) : flowReqs[k] \in [conn : Node, id : Nat]
  BY <1>1, ElementOfSeq
<1>3. \A k \in 1 .. Len(fpc) : fpc[k] \in FlowPc
  BY <1>1, ElementOfSeq
<1>4. /\ Len(flowReqs) \in Nat /\ DOMAIN flowReqs = 1 .. Len(flowReqs)
      /\ Len(fpc) \in Nat /\ DOMAIN fpc = 1 .. Len(fpc)
  BY <1>1, LenProperties
<1> QED
  BY <1>2, <1>3, <1>4

\* A function on 1 .. n is a sequence.
LEMMA FunctionIsSeq ==
  ASSUME NEW S, NEW n \in Nat, NEW q, q = [k \in 1 .. n |-> q[k]], \A k \in 1 .. n : q[k] \in S
  PROVE  q \in Seq(S) /\ Len(q) = n /\ DOMAIN q = 1 .. n
<1>1. q \in [1 .. n -> S]
  OBVIOUS
<1> QED
  BY <1>1, SeqDef, LenProperties

\* What a thread of a flow does, in one place.
LEMMA FlowSteps ==
  ASSUME TypeInv, MainInv, ReqInv, IdInv, NEW k \in DOMAIN fpc, Running,
         FlowMarkBusy(k) \/ FlowTakeAvailable(k) \/ FlowWrite(k)
  PROVE  /\ ConnType' /\ leaked' = leaked /\ fpc' \in Seq(FlowPc) /\ DOMAIN fpc' = DOMAIN fpc
         /\ started' = started \/ started' = started \cup {flowReqs[k].id}
         /\ UNCHANGED <<len, si, xi, request, globalFlowId, owner, reqStarted>>
         /\ mpc' = mpc \/ mpc' = "killed"
<1> USE DEF list, node, files, wire, main
<1>0. /\ flowReqs[k].conn \in Node /\ flowReqs[k].id \in Flow /\ flowReqs[k].id \in Nat
      /\ fpc \in Seq(FlowPc)
  BY FlowThread, FlowThreadId, FlowReqsType DEF TypeInv, MainType
<1>1. ASSUME NEW v \in FlowPc, fpc' = [fpc EXCEPT ![k] = v]
      PROVE  fpc' \in Seq(FlowPc) /\ DOMAIN fpc' = DOMAIN fpc
  <2>1. k \in 1 .. Len(fpc)
    BY FlowReqsType
  <2> QED
    BY <1>0, <1>1, <2>1, ExceptSeq
<1>2. CASE FlowMarkBusy(k)
  <2>1. busy' \in [Node -> BOOLEAN]
    BY <1>2 DEF TypeInv, ConnType, FlowMarkBusy
  <2>2. ConnType'
    BY <1>2, <2>1 DEF TypeInv, ConnType, FlowMarkBusy
  <2>3. fpc' \in Seq(FlowPc) /\ DOMAIN fpc' = DOMAIN fpc
    BY <1>1, <1>2 DEF FlowPc, FlowMarkBusy
  <2> QED
    BY <1>2, <2>2, <2>3 DEF FlowMarkBusy
<1>3. CASE FlowTakeAvailable(k)
  <2> DEFINE s == flowReqs[k].conn[1]
             v == UInt(availableLen[s] - 1)
  <2>1. s \in Server /\ availableLen' = [availableLen EXCEPT ![s] = v]
    BY <1>0, <1>3, NodeParts DEF FlowTakeAvailable
  <2>2. v \in 0 .. (UIntWord - 1)
    BY <2>1, AvailableType DEF TypeInv
  <2> HIDE DEF s, v
  <2>3. availableLen' \in [Server -> 0 .. (UIntWord - 1)]
    BY <2>1, <2>2 DEF TypeInv, ConnType
  <2>4. ConnType'
    BY <1>3, <2>3 DEF TypeInv, ConnType, FlowTakeAvailable
  <2>5. fpc' \in Seq(FlowPc) /\ DOMAIN fpc' = DOMAIN fpc
    BY <1>1, <1>3 DEF FlowPc, FlowTakeAvailable
  <2> QED
    BY <1>3, <2>4, <2>5 DEF FlowTakeAvailable, times
<1>4. CASE FlowWrite(k)
  <2>1. /\ UNCHANGED <<list, node, breaks, si, xi, sock, up, serving, toClient, sockfd, leaked>>
        /\ WriteSent(flowReqs[k].conn, flowReqs[k].id) \/ UNCHANGED wire
        /\ fpc' = [fpc EXCEPT ![k] = "done"] \/ UNCHANGED fpc
        /\ mpc' = mpc \/ mpc' = "killed"
        /\ UNCHANGED <<request, globalFlowId, owner, times>>
    BY <1>4 DEF FlowWrite, WriteLost, WriteKills, WriteSent
  <2>2. toServer' \in [Node -> Seq(Nat)] /\ astray' \in BOOLEAN
    <3>1. CASE UNCHANGED wire
      BY <3>1 DEF TypeInv, ConnType
    <3>2. CASE WriteSent(flowReqs[k].conn, flowReqs[k].id)
      BY <1>0, <3>2, WriteSentEffect DEF TypeInv
    <3> QED
      BY <2>1, <3>1, <3>2
  <2>3. ConnType'
    BY <2>1, <2>2 DEF TypeInv, ConnType
  <2>4. fpc' \in Seq(FlowPc) /\ DOMAIN fpc' = DOMAIN fpc
    BY <1>0, <1>1, <2>1 DEF FlowPc
  <2> QED
    BY <2>1, <2>3, <2>4 DEF times
<1> QED
  BY <1>2, <1>3, <1>4

\* The end of the range of int.
LEMMA HalfWord == UIntWord \div 2 \in Nat
BY PoolAssumption

\* Numbers that main counts with.
LEMMA MainNumbers ==
  ASSUME TypeInv
  PROVE  /\ cur \in Nat \ {0} /\ cur <= NReq + 1 /\ NReq \in Nat \ {0}
         /\ srv \in Nat \ {0} /\ srv <= NServer + 1 /\ NServer \in Nat \ {0}
         /\ toMake \in Nat /\ toMake <= UIntWord \div 2 /\ UIntWord \div 2 \in Nat
         /\ oldTail \in Nat /\ globalFlowId \in Nat
         /\ si \in Nat \ {0} /\ si <= NServer /\ xi \in Nat \ {0}
<1>1. /\ cur \in 1 .. (NReq + 1) /\ srv \in 1 .. (NServer + 1) /\ toMake \in 0 .. (UIntWord \div 2)
      /\ oldTail \in 0 .. MaxNode /\ globalFlowId \in Nat /\ si \in 1 .. NServer
      /\ xi \in 1 .. (MaxNode + 1)
  BY DEF TypeInv, MainType, Server
<1> QED
  BY <1>1, HalfWord, PoolAssumption, RequestAssumption

\* Going on to the next request keeps the types.
LEMMA NextRequestType ==
  ASSUME TypeInv, NextRequest, cur <= NReq, xi' \in 1 .. (MaxNode + 1), fpc' \in Seq(FlowPc),
         UNCHANGED <<si, toMake, oldTail, globalFlowId, owner, reqStarted, started>>
  PROVE  MainType'
<1>1. cur + 1 \in 1 .. (NReq + 1) /\ 1 \in 1 .. (NServer + 1)
  <2>1. cur \in Nat \ {0} /\ NReq \in Nat \ {0} /\ NServer \in Nat \ {0}
    BY MainNumbers, Zenon
  <2> QED
    BY <2>1
<1>2. <<>> \in Seq([conn : Node, id : Nat])
  OBVIOUS
<1>3. cur' = cur + 1 /\ srv' = 1 /\ flowReqs' = <<>> /\ mpc' = "request"
  BY DEF NextRequest
<1>4. /\ cur' \in 1 .. (NReq + 1) /\ srv' \in 1 .. (NServer + 1) /\ mpc' \in MainPc
      /\ flowReqs' \in Seq([conn : Node, id : Nat])
  BY <1>1, <1>2, <1>3 DEF MainPc
<1> QED
  BY <1>4 DEF TypeInv, MainType

\* Every step keeps the types.
LEMMA TypeInvStep ==
  ASSUME MainsInv, [Next]_vars
  PROVE  TypeInv'
<1> USE PoolAssumption, RequestAssumption, NodeParts DEF list, node, files, wire, main,
    poolVars, request, times, reqVars
<1>0. TypeInv /\ MainInv /\ ReqInv /\ IdInv
  BY DEF MainsInv
<1>n. /\ cur \in Nat \ {0} /\ cur <= NReq + 1 /\ NReq \in Nat \ {0}
      /\ srv \in Nat \ {0} /\ srv <= NServer + 1 /\ NServer \in Nat \ {0}
      /\ toMake \in Nat /\ toMake <= UIntWord \div 2 /\ UIntWord \div 2 \in Nat
      /\ globalFlowId \in Nat
  BY <1>0, MainNumbers
<1>1. ASSUME MainPool, UNCHANGED reqVars PROVE TypeInv'
  <2>1. mpc = "exitWrite" => xi <= len[si]
    BY <1>0 DEF MainInv
  <2>2. /\ ConnType' /\ leaked' = leaked
        /\ si' \in Server /\ xi' \in 1 .. (MaxNode + 1) /\ mpc' \in PoolPc
    <3>1. TRUE \in BOOLEAN
      OBVIOUS
    <3> QED
      BY <1>0, <1>1, <2>1, <3>1, MainPoolTypes DEF TypeInv, MainType, MainPool
  <2>3. MainType'
    BY <1>0, <1>1, <2>2 DEF TypeInv, MainType, PoolPc, MainPc
  <2> QED
    BY <1>0, <2>2, <2>3 DEF TypeInv
<1>2. CASE SkipServer
  <2>1. srv + 1 \in 1 .. NServer + 1
    <3>1. srv <= NServer
      BY <1>2 DEF SkipServer
    <3> QED
      BY ONLY <1>n, <3>1
  <2> QED
    BY <1>0, <1>2, <2>1 DEF SkipServer, TypeInv, ConnType, MainType
<1>3. CASE CountNew
  <2>1. srv \in Server /\ mpc' = "insert" /\ oldTail' = len[srv]
        /\ toMake' = NewConns(NumConn, availableLen[srv])
    BY <1>0, <1>3 DEF CountNew, TypeInv, MainType, Server
  <2>2. len[srv] \in 0 .. MaxNode /\ availableLen[srv] \in 0 .. (UIntWord - 1)
    BY <1>0, <2>1 DEF TypeInv, ConnType
  <2>3. toMake' \in 0 .. (UIntWord \div 2)
    <3>1. NumConn \in Nat
      <4>1. cur \in Request
        <5>1. cur <= NReq
          BY <1>3 DEF CountNew
        <5> QED
          BY ONLY <1>n, <5>1 DEF Request
      <4> QED
        BY <2>1, <4>1, PartSums DEF NumConn
    <3>2. UInt(NumConn - availableLen[srv]) \in 0 .. (UIntWord - 1)
      <4>1. NumConn - availableLen[srv] \in Int
        BY <2>2, <3>1
      <4> QED
        BY <4>1, UIntType, Zenon
    <3> QED
      BY <2>1, <3>2, SMTT(30) DEF NewConns
  <2> QED
    BY <1>0, <1>3, <2>1, <2>2, <2>3 DEF CountNew, TypeInv, ConnType, MainType, MainPc
<1>4. CASE InsertOne
  <2>1. srv \in Server /\ toMake - 1 \in 0 .. (UIntWord \div 2) /\ AddNode(srv, FALSE)
    <3>1. mpc = "insert" /\ toMake > 0 /\ AddNode(srv, FALSE)
      BY <1>4 DEF InsertOne
    <3>2. toMake - 1 \in 0 .. (UIntWord \div 2)
      BY ONLY <1>n, <3>1
    <3> QED
      BY <1>0, <3>1, <3>2, CurrentRequest DEF Preparing
  <2>2. ConnType' /\ leaked' = leaked
    BY <1>0, <2>1, AddNodeEffect DEF TypeInv
  <2> QED
    BY <1>0, <1>4, <2>1, <2>2 DEF InsertOne, TypeInv, MainType
<1>5. CASE InsertFails
  <2>1. MainType'
    BY <1>0, <1>5, NextRequestType DEF InsertFails, MainInv, Preparing, ConnectRefused, TypeInv, MainType
  <2>2. LowestFree \in Nat /\ leaked' = leaked \cup {LowestFree}
    BY <1>0, <1>5, LowestFreeIsFree DEF TypeInv, InsertFails, ConnectRefused
  <2>3. ConnType'
    BY <1>0, <1>5, <2>2 DEF TypeInv, ConnType, InsertFails, ConnectRefused
  <2>4. IsFiniteSet(leaked)'
    BY <1>0, <2>2, FS_AddElement DEF TypeInv
  <2> QED
    BY <2>1, <2>3, <2>4 DEF TypeInv
<1>6. CASE StartListeners
  <2>1. lpc' \in [Node -> ListenerPc]
    BY <1>0, <1>6 DEF StartListeners, TypeInv, ConnType, ListenerPc
  <2>2. ConnType'
    BY <1>0, <1>6, <2>1 DEF StartListeners, TypeInv, ConnType
  <2> QED
    BY <1>0, <1>6, <2>2 DEF StartListeners, TypeInv, MainType, MainPc
<1>7. CASE BeginSearch
  <2>1. ConnType'
    BY <1>0, <1>7 DEF BeginSearch, TypeInv, ConnType
  <2>2. MainType'
    <3>1. CASE NextRequest
      BY <1>0, <1>7, <3>1, NextRequestType DEF BeginSearch, MainInv, Preparing, TypeInv, MainType
    <3>2. CASE ~NextRequest
      <4>1. mpc' = "search" /\ UNCHANGED <<cur, srv, flowReqs>>
        BY <1>7, <3>2 DEF BeginSearch
      <4> QED
        BY <1>0, <1>7, <4>1 DEF BeginSearch, TypeInv, MainType, MainPc
    <3> QED
      BY <3>1, <3>2
  <2> QED
    BY <1>0, <1>7, <2>1, <2>2 DEF BeginSearch, TypeInv
<1>8. CASE SearchNode
  <2>1. srv \in Server /\ len[srv] \in 0 .. MaxNode /\ xi <= len[srv]
    BY <1>0, <1>8, CurrentRequest DEF SearchNode, Preparing, Exists
  <2>2. <<srv, xi>> \in Node /\ xi + 1 \in 1 .. (MaxNode + 1)
    BY <1>0, <2>1, NextIndex DEF TypeInv, MainType
  <2>3. flowReqs' \in Seq([conn : Node, id : Nat])
    <3> DEFINE e == [conn |-> <<srv, xi>>, id |-> 0]
    <3>1. e \in [conn : Node, id : Nat] /\ flowReqs \in Seq([conn : Node, id : Nat])
      BY <1>0, <2>2 DEF TypeInv, MainType
    <3>2. flowReqs' = Append(flowReqs, e) \/ flowReqs' = flowReqs
      BY <1>8 DEF SearchNode
    <3> DEFINE R == [conn : Node, id : Nat]
    <3> HIDE DEF e, R
    <3>3. flowReqs \in Seq(R) /\ e \in R
      BY <3>1 DEF R
    <3>4. Append(flowReqs, e) \in Seq(R)
      BY ONLY <3>3, AppendProperties
    <3>5. flowReqs' \in Seq(R)
      BY <3>2, <3>3, <3>4
    <3> QED
      BY <3>5 DEF R
  <2>4. ConnType'
    BY <1>0, <1>8 DEF SearchNode, TypeInv, ConnType
  <2> QED
    BY <1>0, <1>8, <2>2, <2>3, <2>4 DEF SearchNode, TypeInv, MainType
<1>9. CASE AssignFlows
  <2> DEFINE first == Len(flowReqs) - NumConn
  <2>1. /\ flowReqs' = [k \in DOMAIN flowReqs |->
                          IF k > first
                            THEN [flowReqs[k] EXCEPT !.id = globalFlowId + k - first]
                            ELSE flowReqs[k]]
        /\ owner' = [f \in Flow |-> IF f \in globalFlowId + 1 .. globalFlowId + NumConn
                                      THEN cur ELSE owner[f]]
        /\ globalFlowId' = globalFlowId + NumConn /\ srv' = srv + 1 /\ xi' = 1
        /\ mpc' = "request" /\ mpc = "search"
    BY <1>9 DEF AssignFlows
  <2>2. cur \in Request /\ srv + 1 \in 1 .. NServer + 1 /\ NumConn \in Nat
    BY <1>0, <2>1, CurrentRequest DEF Preparing
  <2>3. flowReqs' \in Seq([conn : Node, id : Nat])
    <3>1. /\ Len(flowReqs) \in Nat /\ DOMAIN flowReqs = 1 .. Len(flowReqs)
          /\ \A k \in DOMAIN flowReqs : /\ k \in Nat \ {0}
                                        /\ flowReqs[k].conn \in Node /\ flowReqs[k].id \in Nat
                                        /\ flowReqs[k] = [conn |-> flowReqs[k].conn,
                                                          id |-> flowReqs[k].id]
      BY <1>0, FlowReqsType, SMTT(30)
    <3>2. globalFlowId \in Nat /\ first \in Int
      BY <1>0, <2>2, <3>1, SMTT(30) DEF TypeInv, MainType
    <3>3. ASSUME NEW k \in DOMAIN flowReqs PROVE flowReqs'[k] \in [conn : Node, id : Nat]
      <4>1. CASE k > first
        <5>1. globalFlowId + k - first \in Nat
          <6>1. k \in Int
            BY <3>1
          <6> HIDE DEF first
          <6> QED
            BY <3>2, <4>1, <6>1, SMTT(30)
        <5>2. flowReqs'[k] = [conn |-> flowReqs[k].conn, id |-> globalFlowId + k - first]
          BY <2>1, <3>1, <4>1
        <5> QED
          BY <3>1, <5>1, <5>2
      <4>2. CASE ~(k > first)
        BY <2>1, <3>1, <4>2
      <4> QED
        BY <4>1, <4>2
    <3> DEFINE n == Len(flowReqs)
    <3>4. n \in Nat /\ flowReqs' = [k \in 1 .. n |-> flowReqs'[k]]
          /\ \A k \in 1 .. n : flowReqs'[k] \in [conn : Node, id : Nat]
      BY <2>1, <3>1, <3>3
    <3> HIDE DEF n
    <3> QED
      BY <3>4, FunctionIsSeq
  <2>4. owner' \in [Flow -> 0 .. NReq]
    BY <1>0, <2>1, <2>2, SMTT(30) DEF TypeInv, MainType, Request
  <2>5. globalFlowId' \in Nat
    BY ONLY <1>n, <2>1, <2>2
  <2>6. ConnType'
    BY <1>0, <1>9 DEF AssignFlows, TypeInv, ConnType
  <2>7. MainType'
    BY <1>0, <1>9, <2>1, <2>2, <2>3, <2>4, <2>5 DEF AssignFlows, TypeInv, MainType, MainPc
  <2> QED
    BY <1>0, <1>9, <2>6, <2>7 DEF AssignFlows, TypeInv
<1>10. CASE SearchMisses
  <2>1. ConnType'
    BY <1>0, <1>10 DEF SearchMisses, TypeInv, ConnType
  <2>2. MainType'
    BY <1>0, <1>10, NextRequestType DEF SearchMisses, MainInv, Preparing, TypeInv, MainType
  <2> QED
    BY <1>0, <1>10, <2>1, <2>2 DEF SearchMisses, TypeInv
<1>11. CASE StartFlows
  <2>1. fpc' \in Seq(FlowPc)
    <3> DEFINE n == Len(flowReqs)
    <3>1. n \in Nat /\ fpc' = [k \in 1 .. n |-> "mark"]
      BY <1>0, <1>11, FlowReqsType DEF StartFlows
    <3>2. fpc' = [k \in 1 .. n |-> fpc'[k]] /\ \A k \in 1 .. n : fpc'[k] \in FlowPc
      BY <3>1 DEF FlowPc
    <3> HIDE DEF n
    <3> QED
      BY <3>1, <3>2, FunctionIsSeq, SMTT(30)
  <2>2. cur \in Request
    BY <1>0, <1>11 DEF StartFlows, TypeInv, MainType, Request
  <2>3. ConnType'
    BY <1>0, <1>11 DEF StartFlows, TypeInv, ConnType
  <2> QED
    BY <1>0, <1>11, <2>1, <2>2, <2>3 DEF StartFlows, TypeInv, MainType, MainPc
<1>12. CASE JoinFlows
  <2>1. <<>> \in Seq(FlowPc) /\ fpc' = <<>>
    BY <1>12 DEF JoinFlows
  <2>2. ConnType'
    BY <1>0, <1>12 DEF JoinFlows, TypeInv, ConnType
  <2>3. MainType'
    BY <1>0, <1>12, <2>1, NextRequestType DEF JoinFlows, MainInv, TypeInv, MainType
  <2> QED
    BY <1>0, <1>12, <2>2, <2>3 DEF JoinFlows, TypeInv
<1>13. CASE RequestsDone
  BY <1>0, <1>13 DEF RequestsDone, TypeInv, ConnType, MainType, MainPc
<1>14. CASE WaitNoListener
  <2>1. si \in Server /\ len[si] \in 0 .. MaxNode /\ xi \in 1 .. (MaxNode + 1) /\ xi <= len[si]
    BY <1>0, <1>14 DEF WaitNoListener, TypeInv, ConnType, MainType
  <2>2. xi + 1 \in 1 .. (MaxNode + 1)
    BY <2>1, NextIndex
  <2>3. ConnType'
    BY <1>0, <1>14 DEF WaitNoListener, TypeInv, ConnType
  <2> QED
    BY <1>0, <1>14, <2>2, <2>3 DEF WaitNoListener, TypeInv, MainType, MainPc
<1>15. ASSUME NEW k \in DOMAIN fpc, Running,
              FlowMarkBusy(k) \/ FlowTakeAvailable(k) \/ FlowWrite(k)
       PROVE  TypeInv'
  <2>1. /\ ConnType' /\ leaked' = leaked /\ fpc' \in Seq(FlowPc)
        /\ started' = started \/ started' = started \cup {flowReqs[k].id}
        /\ UNCHANGED <<len, si, xi, request, globalFlowId, owner, reqStarted>>
        /\ mpc' = mpc \/ mpc' = "killed"
    BY <1>0, <1>15, FlowSteps
  <2>2. flowReqs[k].id \in Flow
    BY <1>0, <1>15, FlowThreadId
  <2> QED
    BY <1>0, <2>1, <2>2 DEF TypeInv, MainType, MainPc
<1>16. ASSUME NEW n \in Node, Listen(n) \/ Serve(n) \/ ServeEnd(n) \/ Break(n), UNCHANGED reqVars
       PROVE  TypeInv'
  <2>1. ConnType' /\ UNCHANGED <<leaked, main>>
    BY <1>0, <1>16, ThreadTypes DEF TypeInv
  <2> QED
    BY <1>0, <1>16, <2>1 DEF TypeInv, MainType
<1>17. ASSUME NEW n \in Node, ListenStamp(n) PROVE TypeInv'
  <2>1. ConnType' /\ UNCHANGED <<leaked, main>>
    BY <1>0, <1>17, ThreadTypes DEF TypeInv, ListenStamp
  <2> QED
    BY <1>0, <1>17, <2>1 DEF TypeInv, MainType, ListenStamp
<1>18. CASE UNCHANGED vars
  BY <1>0, <1>18 DEF vars, TypeInv, ConnType, MainType
<1> QED
  BY <1>1, <1>2, <1>3, <1>4, <1>5, <1>6, <1>7, <1>8, <1>9, <1>10, <1>11, <1>12, <1>13,
     <1>14, <1>15, <1>16, <1>17, <1>18, StepCases

\* The threads of listeners and servers leave main's variables and the
\* lengths of the lists alone.
LEMMA ThreadsKeep ==
  ASSUME NEW n \in Node, Listen(n) \/ ListenStamped(n) \/ Serve(n) \/ ServeEnd(n) \/ Break(n)
  PROVE  UNCHANGED <<len, sockfd, leaked, astray, main>>
BY DEF Listen, ListenRead, ListenFail, ListenUnbusy, ListenAccount, ListenClose, ListenDisconnect,
   ListenLeave, ListenStamped, Serve, ServeEnd, Break, list, node, wire, files, main

\* Every step keeps what main knows.
LEMMA MainInvStep ==
  ASSUME MainsInv, [Next]_vars
  PROVE  MainInv'
<1> USE DEF list, node, files, wire, main, poolVars, request, times, reqVars
<1>0. TypeInv /\ MainInv /\ ReqInv /\ IdInv
  BY DEF MainsInv
<1>n. /\ cur \in Nat \ {0} /\ cur <= NReq + 1 /\ NReq \in Nat \ {0}
      /\ srv \in Nat \ {0} /\ srv <= NServer + 1 /\ NServer \in Nat \ {0}
      /\ si \in Nat \ {0} /\ si <= NServer /\ xi \in Nat \ {0}
      /\ reqStarted \subseteq Nat
  <2>1. reqStarted \subseteq Nat
    BY <1>0, RequestAssumption DEF TypeInv, MainType, Request
  <2> QED
    BY <1>0, <2>1, MainNumbers
<1>l. \A s \in Server : len[s] \in Nat
  BY <1>0, NodeNumbers DEF TypeInv
<1>s. si \in Server
  BY <1>0 DEF TypeInv, MainType
<1>1. ASSUME OpenFirst, UNCHANGED reqVars PROVE MainInv'
  <2>1. /\ mpc = "open" /\ xi' = xi
        /\ \/ UNCHANGED <<mpc, si>>
           \/ si' = si + 1 /\ UNCHANGED mpc
           \/ si' = 1 /\ mpc' = "spawn"
    BY <1>1 DEF OpenFirst
  <2> QED
    BY <1>0, <1>1, <2>1 DEF MainInv, Preparing
<1>2. ASSUME OpenFirstFails \/ SpawnListeners, UNCHANGED reqVars PROVE MainInv'
  BY <1>0, <1>2 DEF MainInv, OpenFirstFails, SpawnListeners, Preparing
<1>3. ASSUME ExitNode(TRUE), UNCHANGED reqVars PROVE MainInv'
  <2>1. /\ mpc = "exit" /\ xi <= len[si] /\ UNCHANGED <<len, si>>
        /\ \/ mpc' = "exitWrite" /\ xi' = xi
           \/ mpc' = mpc /\ xi' = xi + 1
    BY <1>3 DEF ExitNode
  <2>2. len[si] \in Nat
    BY <1>l, <1>s
  <2>3. mpc' = "exit" => xi' <= len[si] + 1
    BY <1>n, <2>1, <2>2
  <2> QED
    BY <1>0, <1>3, <2>1, <2>3 DEF MainInv, Preparing
<1>4. ASSUME ExitWrite, UNCHANGED reqVars PROVE MainInv'
  <2>1. /\ mpc = "exitWrite" /\ UNCHANGED <<len, si>>
        /\ \/ mpc' = "exit" /\ xi' = xi + 1
           \/ mpc' = "killed"
    BY <1>4 DEF ExitWrite, WriteKills
  <2>2. xi <= len[si] /\ len[si] \in Nat
    BY <1>0, <1>l, <1>s, <2>1 DEF MainInv
  <2>3. mpc' = "exit" => xi' <= len[si] + 1
    BY <1>n, <2>1, <2>2
  <2> QED
    BY <1>0, <1>4, <2>1, <2>3 DEF MainInv, Preparing
<1>5. ASSUME ExitAllSent, UNCHANGED reqVars PROVE MainInv'
  <2>1. 1 <= len[si] + 1
    BY <1>l, <1>s
  <2> QED
    BY <1>0, <1>5, <2>1 DEF MainInv, ExitAllSent, Preparing
<1>6. ASSUME WaitNode, UNCHANGED reqVars PROVE MainInv'
  <2>1. mpc = "wait" /\ xi <= len[si] /\ xi' = xi + 1 /\ UNCHANGED <<len, si, mpc>>
    BY <1>6 DEF WaitNode
  <2>2. xi' <= len[si] + 1
    BY <1>n, <1>l, <1>s, <2>1
  <2> QED
    BY <1>0, <1>6, <2>1, <2>2 DEF MainInv, Preparing
<1>7. ASSUME WaitAllDone, UNCHANGED reqVars PROVE MainInv'
  <2>1. /\ mpc = "wait" /\ xi' = 1 /\ UNCHANGED len
        /\ \/ si < NServer /\ si' = si + 1 /\ mpc' = "exit"
           \/ mpc' = "done" /\ si' = si
    BY <1>7 DEF WaitAllDone
  <2>2. mpc' = "exit" => xi' <= len[si'] + 1
    <3>1. mpc' = "exit" => si' \in Server
      BY <1>n, <2>1, NodeParts, <1>s
    <3>2. \A s \in Server : 1 <= len[s] + 1
      BY <1>l
    <3> QED
      BY <2>1, <3>1, <3>2
  <2> QED
    BY <1>0, <1>7, <2>1, <2>2 DEF MainInv, Preparing
<1>8. CASE SkipServer
  <2>1. mpc = "request" /\ cur <= NReq /\ UNCHANGED <<len, main, cur, flowReqs, fpc, started, reqStarted>>
    BY <1>8 DEF SkipServer
  <2>2. ~(cur > NReq)
    BY <1>n, <2>1
  <2> QED
    BY <1>0, <2>1, <2>2 DEF MainInv, Preparing
<1>9. CASE CountNew
  <2>1. /\ mpc = "request" /\ cur <= NReq /\ srv <= NServer /\ NumConn > 0 /\ mpc' = "insert"
        /\ UNCHANGED <<len, si, xi, cur, srv, flowReqs, fpc, started, reqStarted>>
    BY <1>9 DEF CountNew
  <2>2. NumConn' = NumConn
    BY <2>1 DEF NumConn
  <2> QED
    BY <1>0, <2>1, <2>2 DEF MainInv, Preparing
<1>10. CASE InsertOne
  <2>1. mpc = "insert" /\ UNCHANGED <<main, cur, srv, flowReqs, fpc, started, reqStarted>>
    BY <1>10 DEF InsertOne
  <2>2. NumConn' = NumConn
    BY <2>1 DEF NumConn
  <2> QED
    BY <1>0, <2>1, <2>2 DEF MainInv, Preparing
<1>g. ASSUME NextRequest, mpc \in Preparing \cup {"flows"}, xi' = 1,
             UNCHANGED <<si, reqStarted>>, fpc' = <<>>
      PROVE  MainInv'
  <2>1. cur' = cur + 1 /\ srv' = 1 /\ mpc' = "request"
    BY <1>g DEF NextRequest
  <2>2. si = 1
    BY <1>0, <1>g DEF MainInv
  <2>3. \A r \in reqStarted : r < cur'
    <3>1. \A r \in reqStarted : r < cur \/ r = cur
      BY <1>0 DEF MainInv
    <3> QED
      BY <1>n, <2>1, <3>1
  <2> QED
    BY <1>g, <2>1, <2>2, <2>3 DEF MainInv, Preparing
<1>f. mpc \in Preparing => fpc = <<>>
  BY <1>0 DEF MainInv, Preparing
<1>11. CASE InsertFails
  <2>1. mpc = "insert" /\ xi = 1
    BY <1>0, <1>11 DEF InsertFails, MainInv
  <2> QED
    BY <1>11, <1>f, <1>g, <2>1 DEF InsertFails, Preparing
<1>12. CASE StartListeners
  <2>1. /\ mpc = "insert" /\ mpc' = "check"
        /\ UNCHANGED <<len, si, xi, cur, srv, flowReqs, fpc, started, reqStarted>>
    BY <1>12 DEF StartListeners
  <2>2. NumConn' = NumConn
    BY <2>1 DEF NumConn
  <2> QED
    BY <1>0, <2>1, <2>2 DEF MainInv, Preparing
<1>13. CASE BeginSearch
  <2>1. mpc = "check" /\ xi = 1 /\ UNCHANGED <<len, si, xi, fpc, started, reqStarted>>
    BY <1>0, <1>13 DEF BeginSearch, MainInv
  <2>2. CASE NextRequest
    BY <1>f, <1>g, <2>1, <2>2 DEF Preparing
  <2>3. CASE mpc' = "search" /\ UNCHANGED <<cur, srv, flowReqs>>
    <3>1. NumConn' = NumConn
      BY <2>3 DEF NumConn
    <3>2. 1 <= len[srv] + 1
      <4>1. srv \in Server
        BY <1>0, <2>1, CurrentRequest DEF Preparing
      <4> QED
        BY <1>l, <4>1
    <3> QED
      BY <1>0, <2>1, <2>3, <3>1, <3>2 DEF MainInv, Preparing
  <2> QED
    BY <1>13, <2>2, <2>3 DEF BeginSearch
<1>14. CASE SearchNode
  <2>1. /\ mpc = "search" /\ xi <= len[srv] /\ xi' = xi + 1
        /\ UNCHANGED <<len, mpc, si, cur, srv, fpc, started, reqStarted>>
    BY <1>14 DEF SearchNode, Exists
  <2>2. NumConn' = NumConn
    BY <2>1 DEF NumConn
  <2>3. xi' <= len[srv] + 1
    <3>1. srv \in Server
      BY <1>0, <2>1, CurrentRequest DEF Preparing
    <3> QED
      BY <1>l, <1>n, <2>1, <3>1
  <2> QED
    BY <1>0, <2>1, <2>2, <2>3 DEF MainInv, Preparing
<1>15. CASE AssignFlows
  <2>1. /\ mpc = "search" /\ mpc' = "request" /\ xi' = 1
        /\ UNCHANGED <<len, si, cur, fpc, started, reqStarted>>
    BY <1>15 DEF AssignFlows
  <2>2. ~(cur > NReq)
    BY <1>0, <1>n, <2>1 DEF MainInv, Preparing
  <2> QED
    BY <1>0, <2>1, <2>2 DEF MainInv, Preparing
<1>16. CASE SearchMisses
  BY <1>16, <1>f, <1>g DEF SearchMisses, Preparing
<1>17. CASE StartFlows
  <2>1. /\ mpc = "request" /\ cur <= NReq /\ srv > NServer /\ mpc' = "flows"
        /\ reqStarted' = reqStarted \cup {cur} /\ fpc' = [k \in DOMAIN flowReqs |-> "mark"]
        /\ UNCHANGED <<len, si, xi, cur, srv, flowReqs, started>>
    BY <1>17 DEF StartFlows
  <2>2. srv = NServer + 1 /\ ~(cur > NReq)
    BY <1>n, <2>1
  <2>3. DOMAIN fpc' = DOMAIN flowReqs'
    BY <2>1
  <2> QED
    BY <1>0, <2>1, <2>2, <2>3 DEF MainInv, Preparing
<1>18. CASE JoinFlows
  <2>1. mpc = "flows" /\ xi = 1
    BY <1>0, <1>18 DEF JoinFlows, MainInv
  <2> QED
    BY <1>18, <1>g, <2>1 DEF JoinFlows
<1>19. CASE RequestsDone
  <2>1. mpc = "request" /\ cur > NReq /\ mpc' = "exit" /\ xi = 1
    BY <1>0, <1>19 DEF RequestsDone, MainInv
  <2>2. 1 <= len[si] + 1
    BY <1>l, <1>s
  <2> QED
    BY <1>0, <1>19, <2>1, <2>2 DEF MainInv, RequestsDone, Preparing
<1>20. CASE WaitNoListener
  <2>1. /\ mpc = "wait" /\ xi <= len[si]
        /\ \/ xi' = xi + 1 /\ mpc' = mpc
           \/ mpc' = "killed"
    BY <1>20 DEF WaitNoListener
  <2>2. mpc' = "wait" => xi' <= len[si] + 1
    BY <1>n, <1>l, <1>s, <2>1
  <2> QED
    BY <1>0, <1>20, <2>1, <2>2 DEF MainInv, WaitNoListener, Preparing
<1>21. ASSUME NEW k \in DOMAIN fpc, Running,
              FlowMarkBusy(k) \/ FlowTakeAvailable(k) \/ FlowWrite(k)
       PROVE  MainInv'
  <2>1. /\ DOMAIN fpc' = DOMAIN fpc
        /\ UNCHANGED <<len, si, xi, request, globalFlowId, owner, reqStarted>>
        /\ mpc' = mpc \/ mpc' = "killed"
    BY <1>0, <1>21, FlowSteps
  <2>2. mpc = "flows"
    BY <1>0, <1>21, FlowThread
  <2> QED
    BY <1>0, <2>1, <2>2 DEF MainInv, Preparing
<1>22. ASSUME NEW n \in Node, Listen(n) \/ Serve(n) \/ ServeEnd(n) \/ Break(n), UNCHANGED reqVars
       PROVE  MainInv'
  <2>1. UNCHANGED <<len, main>>
    BY <1>22, ThreadsKeep
  <2> QED
    BY <1>0, <1>22, <2>1 DEF MainInv, NumConn
<1>23. ASSUME NEW n \in Node, ListenStamp(n) PROVE MainInv'
  <2>1. UNCHANGED <<len, main>>
    BY <1>23, ThreadsKeep DEF ListenStamp
  <2> QED
    BY <1>0, <1>23, <2>1 DEF MainInv, NumConn, ListenStamp
<1>24. CASE UNCHANGED vars
  BY <1>0, <1>24 DEF vars, MainInv, NumConn
<1> QED
  BY <1>1, <1>2, <1>3, <1>4, <1>5, <1>6, <1>7, <1>8, <1>9, <1>10, <1>11, <1>12, <1>13,
     <1>14, <1>15, <1>16, <1>17, <1>18, <1>19, <1>20, <1>21, <1>22, <1>23, <1>24, StepCases
     DEF MainPool

\* No flow of a request that has just begun has an ID.
LEMMA NothingReady == \A r : PartSum(r, 0) = 0
<1> TAKE r
<1>1. 1 .. 0 = {}
  OBVIOUS
<1> QED
  BY <1>1, SumEmpty DEF PartSum

\* A step that leaves the request where it is.
LEMMA ReqStays ==
  ASSUME TypeInv, ReqInv, UNCHANGED <<cur, srv, flowReqs, globalFlowId>>,
         \A s \in Server : len[s] <= len'[s],  \A s \in Server : len'[s] \in Nat,
         mpc' = "search" <=> mpc = "search", mpc = "search" => xi' = xi
  PROVE  ReqInv'
<1>1. Ready' = Ready /\ FirstId' = FirstId /\ NumConn' = NumConn
  BY DEF Ready, FirstId, NumConn
<1>2. ASSUME NEW k \in DOMAIN flowReqs PROVE Exists(flowReqs[k].conn)'
  <2>1. flowReqs[k].conn \in Node /\ Exists(flowReqs[k].conn)
    BY FlowReqsType DEF ReqInv
  <2>2. PICK n \in Node : n = flowReqs[k].conn /\ Exists(n)
    BY <2>1
  <2>3. n[1] \in Server /\ n[2] \in Nat /\ len[n[1]] \in Nat
    BY NodeNumbers DEF TypeInv
  <2>4. len[n[1]] <= len'[n[1]] /\ len'[n[1]] \in Nat /\ n[2] <= len[n[1]]
    BY <2>2, <2>3 DEF Exists
  <2>5. n[2] <= len'[n[1]]
    BY <2>3, <2>4
  <2> QED
    BY <2>2, <2>5 DEF Exists
<1>3. \A k \in DOMAIN flowReqs :
          /\ k <= Ready => flowReqs[k].conn[1] < srv /\ flowReqs[k].id = FirstId + k
          /\ k > Ready => /\ flowReqs[k].conn[1] = srv /\ flowReqs[k].conn[2] < xi
                          /\ flowReqs[k].id = 0
  BY DEF ReqInv
<1>4. mpc # "search" => \A k \in DOMAIN flowReqs : ~(k > Ready)
  <2> SUFFICES ASSUME mpc # "search", NEW k \in DOMAIN flowReqs PROVE ~(k > Ready)
    OBVIOUS
  <2>1. k \in 1 .. Len(flowReqs) /\ Len(flowReqs) \in Nat
    BY FlowReqsType
  <2>2. Len(flowReqs) = Ready
    BY DEF ReqInv
  <2> QED
    BY <2>1, <2>2
<1>5. \A j, k \in DOMAIN flowReqs : flowReqs[j].conn = flowReqs[k].conn => j = k
  BY DEF ReqInv
<1>6. /\ mpc # "search" => Len(flowReqs) = Ready
      /\ mpc = "search" => Ready <= Len(flowReqs) /\ Len(flowReqs) <= Ready + NumConn
  BY DEF ReqInv
<1> QED
  BY <1>1, <1>2, <1>3, <1>4, <1>5, <1>6 DEF ReqInv

\* A request that has just begun has no connections.
LEMMA ReqBegins ==
  ASSUME NextRequest
  PROVE  ReqInv' /\ Ready' = 0
<1>1. flowReqs' = <<>> /\ srv' = 1 /\ mpc' = "request"
  BY DEF NextRequest
<1>2. Ready' = 0
  BY <1>1, NothingReady DEF Ready
<1>3. Len(flowReqs') = 0 /\ DOMAIN flowReqs' = {}
  BY <1>1
<1> QED
  BY <1>1, <1>2, <1>3 DEF ReqInv

\* Every step keeps the request's connections and IDs.
LEMMA ReqInvStep ==
  ASSUME MainsInv, [Next]_vars
  PROVE  ReqInv'
<1> USE DEF list, node, files, wire, main, poolVars, request, times, reqVars
<1>0. TypeInv /\ MainInv /\ ReqInv /\ IdInv /\ TypeInv'
  BY TypeInvStep DEF MainsInv
<1>l. \A s \in Server : len[s] \in Nat /\ len'[s] \in Nat
  <2>1. len \in [Server -> 0 .. MaxNode] /\ len' \in [Server -> 0 .. MaxNode]
    BY <1>0 DEF TypeInv, ConnType
  <2> QED
    BY <2>1, PoolAssumption
<1>s. ASSUME UNCHANGED <<len, cur, srv, flowReqs, globalFlowId>>,
             mpc' = "search" <=> mpc = "search", mpc = "search" => xi' = xi
      PROVE  ReqInv'
  <2>1. \A s \in Server : len[s] <= len'[s]
    BY <1>l, <1>s
  <2> QED
    BY <1>0, <1>l, <1>s, <2>1, ReqStays
<1>a. ASSUME NEW s \in Server, AddNode(s, FALSE), UNCHANGED <<cur, srv, flowReqs, globalFlowId>>,
             mpc' # "search", mpc # "search"
      PROVE  ReqInv'
  <2>1. \A t \in Server : len'[t] = IF t = s THEN len[t] + 1 ELSE len[t]
    BY <1>0, <1>a, AddNodeEffect DEF TypeInv
  <2>2. \A t \in Server : len[t] <= len'[t]
    BY <1>l, <2>1
  <2> QED
    BY <1>0, <1>l, <1>a, <2>2, ReqStays
<1>1. ASSUME MainPool, UNCHANGED reqVars PROVE ReqInv'
  <2>1. CASE OpenFirst
    <3>1. mpc = "open" /\ mpc' # "search" /\ AddNode(si, FALSE) /\ si \in Server
      BY <1>0, <2>1 DEF OpenFirst, TypeInv, MainType
    <3> QED
      BY <1>1, <1>a, <3>1
  <2>2. CASE ~OpenFirst
    <3>1. UNCHANGED len /\ mpc # "search" /\ mpc' # "search"
      BY <1>1, <2>2 DEF MainPool, OpenFirstFails, SpawnListeners, ExitNode, ExitWrite,
         WriteKills, ExitAllSent, WaitNode, WaitAllDone
    <3> QED
      BY <1>1, <1>s, <3>1
  <2> QED
    BY <2>1, <2>2
<1>2. CASE SkipServer
  <2>1. /\ mpc = "request" /\ cur <= NReq /\ srv <= NServer /\ NumConn = 0 /\ srv' = srv + 1
        /\ UNCHANGED <<len, main, cur, flowReqs, globalFlowId>>
    BY <1>2 DEF SkipServer
  <2>2. cur \in Request /\ srv \in Server /\ srv \in Nat /\ srv' - 1 = srv
    BY <1>0, <2>1, MainNumbers DEF Request, Server
  <2>3. PartSum(cur, srv) = PartSum(cur, srv - 1) + 0 /\ PartSum(cur, srv - 1) \in Nat
    BY <2>1, <2>2, PartSums DEF NumConn
  <2>4. Ready' = Ready /\ FirstId' = FirstId
    BY <2>1, <2>2, <2>3 DEF Ready, FirstId
  <2>5. mpc' # "search" /\ Len(flowReqs) = Ready /\ UNCHANGED flowReqs
    BY <1>0, <2>1 DEF ReqInv
  <2>6. ASSUME NEW k \in DOMAIN flowReqs
        PROVE  /\ flowReqs[k].conn[2] <= len'[flowReqs[k].conn[1]]
               /\ k <= Ready => flowReqs[k].conn[1] < srv' /\ flowReqs[k].id = FirstId + k
               /\ ~(k > Ready)
    <3>1. flowReqs[k].conn \in Node /\ k \in 1 .. Len(flowReqs) /\ Len(flowReqs) \in Nat
      BY <1>0, FlowReqsType
    <3>2. flowReqs[k].conn[1] \in Nat
      BY <3>1, NodeParts
    <3>3. flowReqs[k].conn[2] <= len'[flowReqs[k].conn[1]]
      BY <1>0, <2>1 DEF ReqInv, Exists
    <3>4. k <= Ready => flowReqs[k].conn[1] < srv /\ flowReqs[k].id = FirstId + k
      BY <1>0 DEF ReqInv
    <3> QED
      BY <2>1, <2>2, <2>5, <3>1, <3>2, <3>3, <3>4
  <2>7. \A j, k \in DOMAIN flowReqs : flowReqs[j].conn = flowReqs[k].conn => j = k
    BY <1>0 DEF ReqInv
  <2> QED
    BY <2>4, <2>5, <2>6, <2>7 DEF ReqInv, Exists
<1>3. CASE CountNew
  BY <1>3, <1>s DEF CountNew
<1>4. CASE InsertOne
  <2>1. srv \in Server
    BY <1>0, <1>4, CurrentRequest DEF InsertOne, Preparing
  <2> QED
    BY <1>4, <1>a, <2>1 DEF InsertOne
<1>5. CASE InsertFails \/ SearchMisses \/ JoinFlows
  BY <1>5, ReqBegins DEF InsertFails, SearchMisses, JoinFlows
<1>6. CASE StartListeners
  BY <1>6, <1>s DEF StartListeners
<1>7. CASE BeginSearch
  <2>1. CASE NextRequest
    BY <2>1, ReqBegins
  <2>2. CASE mpc' = "search" /\ UNCHANGED <<cur, srv, flowReqs>>
    <3>1. mpc = "check" /\ UNCHANGED <<len, xi, globalFlowId>>
      BY <1>7 DEF BeginSearch
    <3>2. Ready' = Ready /\ FirstId' = FirstId /\ NumConn' = NumConn
      BY <2>2, <3>1 DEF Ready, FirstId, NumConn
    <3>3. Len(flowReqs) = Ready /\ Len(flowReqs) \in Nat /\ NumConn \in Nat
      BY <1>0, <3>1, FlowReqsType, CurrentRequest DEF ReqInv, Preparing
    <3>4. Ready <= Len(flowReqs) /\ Len(flowReqs) <= Ready + NumConn
      BY <3>3
    <3>5. \A k \in DOMAIN flowReqs : flowReqs[k].conn[2] <= len'[flowReqs[k].conn[1]]
      BY <1>0, <3>1 DEF ReqInv, Exists
    <3> QED
      BY <1>0, <2>2, <3>1, <3>2, <3>4, <3>5 DEF ReqInv, Exists
  <2> QED
    BY <1>7, <2>1, <2>2 DEF BeginSearch
<1>8. CASE SearchNode
  <2> DEFINE c == <<srv, xi>>
             e == [conn |-> c, id |-> 0]
  <2>1. /\ mpc = "search" /\ Exists(c) /\ Picked < NumConn /\ xi' = xi + 1
        /\ flowReqs' = Append(flowReqs, e) \/ flowReqs' = flowReqs
        /\ UNCHANGED <<len, mpc, cur, srv, globalFlowId>>
    BY <1>8 DEF SearchNode
  <2>2. /\ Picked = Len(flowReqs) - Ready /\ Len(flowReqs) \in Nat /\ Ready \in Nat
        /\ Ready <= Len(flowReqs) /\ srv \in Server /\ srv \in Nat /\ NumConn \in Nat
        /\ xi \in Nat
    BY <1>0, <2>1, PickedLast, CurrentRequest, MainNumbers DEF Preparing
  <2>3. Ready' = Ready /\ FirstId' = FirstId /\ NumConn' = NumConn
    BY <2>1 DEF Ready, FirstId, NumConn
  <2>4. /\ Len(flowReqs') = Len(flowReqs) \/ Len(flowReqs') = Len(flowReqs) + 1
        /\ DOMAIN flowReqs' = 1 .. Len(flowReqs')
        /\ \A k \in DOMAIN flowReqs : k \in DOMAIN flowReqs' /\ flowReqs'[k] = flowReqs[k]
        /\ \A k \in DOMAIN flowReqs' :
              k \in DOMAIN flowReqs \/ (k = Len(flowReqs) + 1 /\ flowReqs'[k] = e)
    <3> DEFINE R == [conn : Node, id : Nat]
    <3>1. c \in Node
      <4>1. xi <= len[srv] /\ len[srv] \in 0 .. MaxNode /\ xi \in 1 .. (MaxNode + 1)
        BY <1>0, <2>1, <2>2 DEF Exists, TypeInv, ConnType, MainType
      <4> QED
        BY <2>2, <4>1, NextIndex
    <3>2. flowReqs \in Seq(R) /\ e \in R
      BY <1>0, <3>1 DEF TypeInv, MainType
    <3> HIDE DEF R, e
    <3>3. CASE flowReqs' = flowReqs
      BY <3>2, <3>3, LenProperties
    <3>4. CASE flowReqs' = Append(flowReqs, e)
      <4>1. /\ Len(flowReqs') = Len(flowReqs) + 1
            /\ \A k \in 1 .. Len(flowReqs) : flowReqs'[k] = flowReqs[k]
            /\ flowReqs'[Len(flowReqs) + 1] = e
            /\ flowReqs' \in Seq(R)
        BY <3>2, <3>4, AppendProperties
      <4>2. DOMAIN flowReqs' = 1 .. Len(flowReqs') /\ DOMAIN flowReqs = 1 .. Len(flowReqs)
        BY <3>2, <4>1, LenProperties
      <4> QED
        BY <2>2, <4>1, <4>2
    <3> QED
      BY <2>1, <3>3, <3>4
  <2>5. Ready <= Len(flowReqs') /\ Len(flowReqs') <= Ready + NumConn
    <3>1. PICK a, b, r \in Nat : a = Len(flowReqs) /\ r = Ready /\ b = NumConn
      BY <2>2
    <3>2. Len(flowReqs') = a \/ Len(flowReqs') = a + 1
      BY <2>4, <3>1
    <3>3. r <= a /\ a - r < b
      BY <2>1, <2>2, <3>1
    <3>4. r <= Len(flowReqs') /\ Len(flowReqs') <= r + b
      BY <3>2, <3>3
    <3> QED
      BY <3>1, <3>4
  <2>6. ASSUME NEW k \in DOMAIN flowReqs
        PROVE  /\ flowReqs[k].conn[2] <= len'[flowReqs[k].conn[1]]
               /\ k <= Ready => flowReqs[k].conn[1] < srv /\ flowReqs[k].id = FirstId + k
               /\ k > Ready => /\ flowReqs[k].conn[1] = srv /\ flowReqs[k].conn[2] < xi
                               /\ flowReqs[k].conn[2] < xi'
                               /\ flowReqs[k].id = 0
               /\ flowReqs[k].conn # c /\ k \in Nat
    <3>1. flowReqs[k].conn \in Node /\ k \in Nat
      BY <1>0, FlowReqsType
    <3>2. flowReqs[k].conn[1] \in Nat /\ flowReqs[k].conn[2] \in Nat
      BY <1>0, <3>1, NodeNumbers DEF TypeInv
    <3>3. flowReqs[k].conn[2] <= len'[flowReqs[k].conn[1]]
      BY <1>0, <2>1 DEF ReqInv, Exists
    <3>4. /\ k <= Ready => flowReqs[k].conn[1] < srv /\ flowReqs[k].id = FirstId + k
          /\ k > Ready => /\ flowReqs[k].conn[1] = srv /\ flowReqs[k].conn[2] < xi
                          /\ flowReqs[k].id = 0
      BY <1>0 DEF ReqInv
    <3>5. k > Ready => flowReqs[k].conn[2] < xi'
      BY <2>1, <2>2, <3>2, <3>4
    <3>6. k <= Ready \/ k > Ready
      BY <2>2, <3>1
    <3>7. c[1] = srv /\ c[2] = xi
      OBVIOUS
    <3> HIDE DEF c
    <3>8. flowReqs[k].conn # c
      BY <2>2, <3>2, <3>4, <3>6, <3>7
    <3> QED
      BY <3>1, <3>3, <3>4, <3>5, <3>8
  <2>7. /\ c[2] <= len'[c[1]] /\ e.conn = c /\ e.id = 0 /\ c[1] = srv /\ c[2] < xi'
        /\ Len(flowReqs) + 1 > Ready /\ ~(Len(flowReqs) + 1 <= Ready)
    <3>1. PICK a, r \in Nat : a = Len(flowReqs) /\ r = Ready
      BY <2>2
    <3>2. r <= a
      BY <2>2, <3>1
    <3>3. a + 1 > r /\ ~(a + 1 <= r)
      BY <3>2
    <3>4. e.conn = c /\ e.id = 0 /\ c[1] = srv /\ c[2] = xi
      OBVIOUS
    <3>5. c[2] <= len'[c[1]] /\ xi < xi'
      BY <2>1, <2>2 DEF Exists
    <3> QED
      BY <3>1, <3>3, <3>4, <3>5
  <2>8. \A j, k \in DOMAIN flowReqs : flowReqs[j].conn = flowReqs[k].conn => j = k
    BY <1>0 DEF ReqInv
  <2> HIDE DEF c, e
  <2>9. \A k \in DOMAIN flowReqs' :
          /\ flowReqs'[k].conn[2] <= len'[flowReqs'[k].conn[1]]
          /\ k <= Ready => flowReqs'[k].conn[1] < srv /\ flowReqs'[k].id = FirstId + k
          /\ k > Ready => /\ flowReqs'[k].conn[1] = srv /\ flowReqs'[k].conn[2] < xi'
                          /\ flowReqs'[k].id = 0
    <3> TAKE k \in DOMAIN flowReqs'
    <3>1. CASE k \in DOMAIN flowReqs
      <4>1. flowReqs'[k] = flowReqs[k]
        BY <2>4, <3>1
      <4> QED
        BY <2>6, <3>1, <4>1
    <3>2. CASE k = Len(flowReqs) + 1 /\ flowReqs'[k] = e
      BY <2>7, <3>2
    <3> QED
      BY <2>4, <3>1, <3>2
  <2>10. \A j, k \in DOMAIN flowReqs' : flowReqs'[j].conn = flowReqs'[k].conn => j = k
    <3>1. \A k \in DOMAIN flowReqs : flowReqs'[k].conn = flowReqs[k].conn /\ flowReqs[k].conn # c
      BY <2>4, <2>6
    <3>2. \A k \in DOMAIN flowReqs' :
             k \in DOMAIN flowReqs \/ (k = Len(flowReqs) + 1 /\ flowReqs'[k].conn = c)
      BY <2>4, <2>7
    <3> QED
      BY <2>8, <3>1, <3>2
  <2> QED
    BY <2>1, <2>3, <2>5, <2>9, <2>10 DEF ReqInv, Exists
<1>9. CASE AssignFlows
  <2> DEFINE first == Len(flowReqs) - NumConn
  <2>1. /\ mpc = "search" /\ Picked = NumConn /\ mpc' = "request"
        /\ flowReqs' = [k \in DOMAIN flowReqs |->
                          IF k > first
                            THEN [flowReqs[k] EXCEPT !.id = globalFlowId + k - first]
                            ELSE flowReqs[k]]
        /\ globalFlowId' = globalFlowId + NumConn /\ srv' = srv + 1
        /\ UNCHANGED <<len, cur>>
    BY <1>9 DEF AssignFlows
  <2>2. /\ Picked = Len(flowReqs) - Ready /\ Len(flowReqs) \in Nat /\ Ready \in Nat
        /\ srv \in Server /\ srv \in Nat /\ NumConn \in Nat /\ globalFlowId \in Nat
        /\ PartSum(cur, srv) = Ready + NumConn
    BY <1>0, <2>1, PickedLast, CurrentRequest, MainNumbers DEF Preparing
  <2>3. first = Ready
    BY <2>1, <2>2
  <2> HIDE DEF first
  <2>4. Ready' = Ready + NumConn /\ Ready' = Len(flowReqs) /\ FirstId' = FirstId
    <3>1. srv' - 1 = srv
      BY <2>1, <2>2
    <3>2. Ready' = Ready + NumConn
      BY <2>1, <2>2, <3>1 DEF Ready
    <3>3. FirstId' = globalFlowId' - Ready' /\ FirstId = globalFlowId - Ready
      BY DEF FirstId
    <3>4. PICK r, m, g, l \in Nat : r = Ready /\ m = NumConn /\ g = globalFlowId /\ l = Len(flowReqs)
      BY <2>2
    <3>5. Ready' = r + m /\ globalFlowId' = g + m /\ m = l - r
      BY <2>1, <2>2, <3>2, <3>4
    <3>6. r + m = l /\ (g + m) - (r + m) = g - r
      BY <3>5
    <3> QED
      BY <3>2, <3>3, <3>4, <3>5, <3>6
  <2>5. /\ DOMAIN flowReqs' = DOMAIN flowReqs /\ Len(flowReqs') = Len(flowReqs)
        /\ DOMAIN flowReqs = 1 .. Len(flowReqs)
    <3>1. flowReqs' \in Seq([conn : Node, id : Nat]) /\ DOMAIN flowReqs' = DOMAIN flowReqs
      BY <1>0, <2>1 DEF TypeInv, MainType
    <3>2. DOMAIN flowReqs' = 1 .. Len(flowReqs') /\ Len(flowReqs') \in Nat
      BY <3>1, LenProperties
    <3>3. DOMAIN flowReqs = 1 .. Len(flowReqs) /\ Len(flowReqs) \in Nat
      BY <1>0, FlowReqsType
    <3>4. PICK a, b \in Nat : a = Len(flowReqs) /\ b = Len(flowReqs')
      BY <3>2, <3>3
    <3>5. 1 .. a = 1 .. b
      BY <3>1, <3>2, <3>3, <3>4
    <3>6. a = b
      <4>1. a \in 1 .. a \/ a = 0
        OBVIOUS
      <4>2. b \in 1 .. b \/ b = 0
        OBVIOUS
      <4> QED
        BY <3>5, <4>1, <4>2
    <3> QED
      BY <3>1, <3>3, <3>4, <3>6
  <2>6. ASSUME NEW k \in DOMAIN flowReqs
        PROVE  /\ flowReqs'[k].conn[2] <= len'[flowReqs'[k].conn[1]]
               /\ k <= Ready'
               /\ flowReqs'[k].conn[1] < srv' /\ flowReqs'[k].id = FirstId + k
               /\ flowReqs'[k].conn = flowReqs[k].conn
    <3>1. /\ flowReqs[k].conn \in Node /\ k \in Nat /\ k <= Len(flowReqs)
          /\ flowReqs[k] = [conn |-> flowReqs[k].conn, id |-> flowReqs[k].id]
      BY <1>0, <2>2, <2>5, FlowReqsType
    <3>2. flowReqs[k].conn[1] \in Nat
      BY <3>1, NodeParts
    <3>3. /\ Exists(flowReqs[k].conn)
          /\ k <= Ready => flowReqs[k].conn[1] < srv /\ flowReqs[k].id = FirstId + k
          /\ k > Ready => flowReqs[k].conn[1] = srv
      BY <1>0 DEF ReqInv
    <3>4. CASE k <= Ready
      <4>1. flowReqs'[k] = flowReqs[k]
        BY <2>1, <2>2, <2>3, <3>1, <3>4
      <4>2. flowReqs[k].conn[1] < srv'
        BY <2>1, <2>2, <3>2, <3>3, <3>4
      <4> QED
        BY <2>1, <2>4, <3>1, <3>3, <3>4, <4>1, <4>2 DEF Exists
    <3>5. CASE k > Ready
      <4>1. /\ flowReqs'[k].conn = flowReqs[k].conn
            /\ flowReqs'[k].id = globalFlowId + k - Ready
        BY <2>1, <2>3, <3>1, <3>5
      <4>2. flowReqs[k].conn[1] < srv'
        BY <2>1, <2>2, <3>2, <3>3, <3>5
      <4>3. globalFlowId + k - Ready = FirstId + k
        BY <2>2, <3>1 DEF FirstId
      <4> QED
        BY <2>1, <2>4, <3>1, <3>3, <4>1, <4>2, <4>3 DEF Exists
    <3> QED
      BY <2>2, <3>1, <3>4, <3>5
  <2>7. \A j, k \in DOMAIN flowReqs : flowReqs[j].conn = flowReqs[k].conn => j = k
    BY <1>0 DEF ReqInv
  <2>8. \A k \in DOMAIN flowReqs : ~(k > Ready')
    BY <2>2, <2>4, <2>5
  <2> QED
    BY <2>1, <2>4, <2>5, <2>6, <2>7, <2>8 DEF ReqInv, Exists
<1>10. CASE StartFlows
  BY <1>10, <1>s DEF StartFlows
<1>11. CASE RequestsDone
  BY <1>11, <1>s DEF RequestsDone
<1>12. CASE WaitNoListener
  BY <1>12, <1>s DEF WaitNoListener
<1>13. ASSUME NEW k \in DOMAIN fpc, Running,
              FlowMarkBusy(k) \/ FlowTakeAvailable(k) \/ FlowWrite(k)
       PROVE  ReqInv'
  <2>1. /\ UNCHANGED <<len, si, xi, request, globalFlowId, owner, reqStarted>>
        /\ mpc' = mpc \/ mpc' = "killed"
    BY <1>0, <1>13, FlowSteps
  <2>2. mpc = "flows"
    BY <1>0, <1>13, FlowThread
  <2> QED
    BY <1>s, <2>1, <2>2
<1>14. ASSUME NEW n \in Node, Listen(n) \/ Serve(n) \/ ServeEnd(n) \/ Break(n), UNCHANGED reqVars
       PROVE  ReqInv'
  <2>1. UNCHANGED <<len, main>>
    BY <1>14, ThreadsKeep
  <2> QED
    BY <1>14, <1>s, <2>1
<1>15. ASSUME NEW n \in Node, ListenStamp(n) PROVE ReqInv'
  <2>1. UNCHANGED <<len, main>>
    BY <1>15, ThreadsKeep DEF ListenStamp
  <2> QED
    BY <1>15, <1>s, <2>1 DEF ListenStamp
<1>16. CASE UNCHANGED vars
  BY <1>16, <1>s DEF vars
<1> QED
  BY <1>1, <1>2, <1>3, <1>4, <1>5, <1>6, <1>7, <1>8, <1>9, <1>10, <1>11, <1>12, <1>13,
     <1>14, <1>15, <1>16, StepCases

\* How many of the flows of a request have IDs, and the IDs of the requests
\* so far.
LEMMA ReadyWithin ==
  ASSUME TypeInv, cur \in Request
  PROVE  /\ Ready \in Nat /\ Ready <= Fanout[cur] /\ Fanout[cur] \in Nat
         /\ FlowsUpTo[cur - 1] \in Nat /\ FlowsUpTo[cur] \in Nat
         /\ FlowsUpTo[cur] = FlowsUpTo[cur - 1] + Fanout[cur]
         /\ cur \in Nat
<1>1. srv - 1 \in 0 .. NServer
  BY MainNumbers
<1>2. Ready \in Nat /\ Ready <= Fanout[cur] /\ Fanout[cur] \in Nat
  BY <1>1, PartSumGrows DEF Ready
<1>3. cur \in 0 .. NReq /\ cur - 1 \in 0 .. NReq /\ cur \in Nat
  BY RequestAssumption DEF Request
<1> QED
  BY <1>2, <1>3, FlowsUpToSums

\* A step that hands out no ID, starts no flow and stays with the request.
LEMMA IdStays ==
  ASSUME IdInv, UNCHANGED <<cur, srv, globalFlowId, owner, started>>,
         AllServed' => AllServed,
         mpc' \notin {"flows", "killed"} => mpc \notin {"flows", "killed"}
  PROVE  IdInv'
<1>1. Ready' = Ready /\ FirstId' = FirstId
  BY DEF Ready, FirstId
<1>2. FlowReqIdCorrect' <=> FlowReqIdCorrect
  BY DEF FlowReqIdCorrect
<1> QED
  BY <1>1, <1>2 DEF IdInv

\* The next request begins after the last ID that was handed out.  If this
\* request was not given up all its flows had IDs.
LEMMA IdBegins ==
  ASSUME TypeInv, IdInv, cur \in Request, cur \in reqStarted => Ready = Fanout[cur],
         NextRequest, UNCHANGED <<globalFlowId, owner, reqStarted, started>>
  PROVE  IdInv'
<1>1. cur' = cur + 1 /\ Ready' = 0
  BY ReqBegins DEF NextRequest
<1>2. /\ Ready \in Nat /\ Ready <= Fanout[cur] /\ Fanout[cur] \in Nat
      /\ FlowsUpTo[cur - 1] \in Nat /\ FlowsUpTo[cur] \in Nat
      /\ FlowsUpTo[cur] = FlowsUpTo[cur - 1] + Fanout[cur] /\ cur \in Nat
  BY ReadyWithin
<1>3. globalFlowId \in Nat /\ owner \in [Flow -> 0 .. NReq] /\ Flow \subseteq Nat
  BY FlowsUpToSums, RequestAssumption, SMTT(30) DEF TypeInv, MainType, Flow
<1>4. FirstId' = globalFlowId /\ FirstId + Ready = globalFlowId /\ cur' - 1 = cur
  BY <1>1, <1>2, <1>3 DEF FirstId
<1>5. FirstId \in Nat /\ FirstId <= FlowsUpTo[cur - 1]
  BY DEF IdInv
<1>6. FirstId' \in Nat /\ FirstId' <= FlowsUpTo[cur' - 1]
  BY <1>2, <1>3, <1>4, <1>5
<1>7. AllServed' => AllServed /\ cur \in reqStarted
  <2> SUFFICES ASSUME AllServed' PROVE AllServed /\ cur \in reqStarted
    OBVIOUS
  <2>1. \A r \in Request : r < cur + 1 => r \in reqStarted
    BY <1>1 DEF AllServed
  <2>2. \A r \in Request : r \in Nat
    BY RequestAssumption DEF Request
  <2>3. cur < cur + 1 /\ \A r \in Nat : r < cur => r < cur + 1
    BY <1>2
  <2> QED
    BY <2>1, <2>2, <2>3 DEF AllServed
<1>8. AllServed' => FirstId' = FlowsUpTo[cur' - 1]
  <2> SUFFICES ASSUME AllServed' PROVE globalFlowId = FlowsUpTo[cur]
    BY <1>4
  <2>1. FirstId = FlowsUpTo[cur - 1] /\ Ready = Fanout[cur]
    BY <1>7 DEF IdInv
  <2> QED
    BY <1>2, <1>3, <1>4, <2>1
<1>9. ASSUME NEW f \in Flow
      PROVE  /\ owner[f] = 0 <=> f > globalFlowId
             /\ owner[f] <= cur'
             /\ ~(globalFlowId < f /\ f <= globalFlowId)
  <2>1. (owner[f] = 0 <=> f > globalFlowId) /\ owner[f] <= cur
    BY DEF IdInv
  <2>2. owner[f] \in Nat /\ f \in Nat
    BY <1>3, RequestAssumption
  <2> QED
    BY <1>1, <1>2, <1>3, <2>1, <2>2
<1>10. AllServed' => FlowReqIdCorrect'
  BY <1>7 DEF IdInv, FlowReqIdCorrect
<1>11. \A f \in started : f <= globalFlowId
  BY DEF IdInv
<1> QED
  BY <1>4, <1>6, <1>8, <1>9, <1>10, <1>11 DEF IdInv

\* Every step hands out IDs in order.
LEMMA IdInvStep ==
  ASSUME MainsInv, [Next]_vars
  PROVE  IdInv'
<1> USE DEF list, node, files, wire, main, poolVars, request, times, reqVars
<1>0. TypeInv /\ MainInv /\ ReqInv /\ IdInv
  BY DEF MainsInv
<1>s. ASSUME UNCHANGED <<cur, srv, globalFlowId, owner, reqStarted, started>>,
             mpc' \notin {"flows", "killed"} => mpc \notin {"flows", "killed"}
      PROVE  IdInv'
  <2>1. AllServed' <=> AllServed
    BY <1>s DEF AllServed
  <2> QED
    BY <1>0, <1>s, <2>1, IdStays
<1>1. ASSUME MainPool, UNCHANGED reqVars PROVE IdInv'
  <2>1. mpc \notin {"flows", "killed"}
    BY <1>1 DEF MainPool, OpenFirst, OpenFirstFails, SpawnListeners, ExitNode, ExitWrite,
       ExitAllSent, WaitNode, WaitAllDone
  <2> QED
    BY <1>1, <1>s, <2>1
<1>2. CASE SkipServer
  <2>1. /\ mpc = "request" /\ cur <= NReq /\ srv <= NServer /\ NumConn = 0 /\ srv' = srv + 1
        /\ UNCHANGED <<mpc, cur, globalFlowId, owner, reqStarted, started>>
    BY <1>2 DEF SkipServer
  <2>2. cur \in Request /\ srv \in Server /\ srv' - 1 = srv
    BY <1>0, <2>1, MainNumbers DEF Request, Server
  <2>3. PartSum(cur, srv) = PartSum(cur, srv - 1) + 0 /\ PartSum(cur, srv - 1) \in Nat
    BY <2>1, <2>2, PartSums DEF NumConn
  <2>4. Ready' = Ready /\ FirstId' = FirstId
    BY <2>1, <2>2, <2>3 DEF Ready, FirstId
  <2>5. (AllServed' <=> AllServed) /\ (FlowReqIdCorrect' <=> FlowReqIdCorrect)
    BY <2>1 DEF AllServed, FlowReqIdCorrect
  <2> QED
    BY <1>0, <2>1, <2>4, <2>5 DEF IdInv
<1>3. CASE CountNew \/ InsertOne \/ StartListeners \/ SearchNode \/ RequestsDone \/ WaitNoListener
  <2>1. mpc \notin {"flows", "killed"} /\ UNCHANGED <<cur, srv, globalFlowId, owner, reqStarted, started>>
    BY <1>3 DEF CountNew, InsertOne, StartListeners, SearchNode, RequestsDone, WaitNoListener
  <2> QED
    BY <1>s, <2>1
<1>g. ASSUME mpc \in Preparing, NextRequest, UNCHANGED <<globalFlowId, owner, reqStarted, started>>
      PROVE  IdInv'
  <2>1. cur \in Request /\ ~(cur < cur)
    <3>1. cur \in Request /\ cur \in Nat
      BY <1>0, <1>g, CurrentRequest, MainNumbers
    <3> QED
      BY <3>1
  <2>2. cur \notin reqStarted
    BY <1>0, <1>g, <2>1 DEF MainInv, Preparing
  <2> QED
    BY <1>0, <1>g, <2>1, <2>2, IdBegins
<1>4. CASE InsertFails \/ SearchMisses
  BY <1>4, <1>g DEF InsertFails, SearchMisses, Preparing
<1>5. CASE BeginSearch
  <2>1. mpc = "check" /\ UNCHANGED <<globalFlowId, owner, reqStarted, started>>
    BY <1>5 DEF BeginSearch
  <2>2. CASE NextRequest
    BY <1>g, <2>1, <2>2 DEF Preparing
  <2>3. CASE mpc' = "search" /\ UNCHANGED <<cur, srv, flowReqs>>
    BY <1>s, <2>1, <2>3
  <2> QED
    BY <1>5, <2>2, <2>3 DEF BeginSearch
<1>6. CASE AssignFlows
  <2>1. /\ mpc = "search" /\ mpc' = "request"
        /\ owner' = [f \in Flow |-> IF f \in globalFlowId + 1 .. globalFlowId + NumConn
                                      THEN cur ELSE owner[f]]
        /\ globalFlowId' = globalFlowId + NumConn /\ srv' = srv + 1
        /\ UNCHANGED <<cur, reqStarted, started>>
    BY <1>6 DEF AssignFlows
  <2>2. /\ cur \in Request /\ srv \in Server /\ srv \in Nat /\ NumConn \in Nat
        /\ globalFlowId \in Nat /\ srv' - 1 = srv /\ Ready \in Nat
        /\ PartSum(cur, srv) = Ready + NumConn
    <3>1. /\ cur \in Request /\ srv \in Server /\ NumConn \in Nat
          /\ Ready \in Nat /\ PartSum(cur, srv) = Ready + NumConn
      BY <1>0, <2>1, CurrentRequest, PickedLast DEF Preparing
    <3>2. globalFlowId \in Nat /\ srv \in Nat
      BY <1>0, MainNumbers
    <3>3. srv' - 1 = srv
      BY <2>1, <3>2
    <3> QED
      BY <3>1, <3>2, <3>3
  <2>3. Ready' = Ready + NumConn /\ FirstId' = FirstId
    <3>1. Ready' = Ready + NumConn
      BY <2>1, <2>2 DEF Ready
    <3>2. FirstId' = globalFlowId' - Ready' /\ FirstId = globalFlowId - Ready
      BY DEF FirstId
    <3> QED
      BY <2>1, <2>2, <3>1, <3>2
  <2>4. /\ Ready + NumConn <= Fanout[cur] /\ Fanout[cur] \in Nat
        /\ FlowsUpTo[cur - 1] \in Nat /\ FlowsUpTo[cur] = FlowsUpTo[cur - 1] + Fanout[cur]
        /\ cur \in Nat
    <3>1. srv \in 0 .. NServer
      BY <2>2, PoolAssumption DEF Server
    <3> QED
      BY <1>0, <2>2, <3>1, PartSumGrows, ReadyWithin
  <2>5. FirstId \in Nat /\ FirstId <= FlowsUpTo[cur - 1] /\ FirstId + Ready = globalFlowId
    BY <1>0, <2>2 DEF IdInv, FirstId
  <2>6. Flow \subseteq Nat /\ owner \in [Flow -> 0 .. NReq] /\ NReq \in Nat
    BY <1>0, FlowsUpToSums, RequestAssumption DEF TypeInv, MainType, Flow
  <2>7. AllServed' <=> AllServed
    BY <2>1 DEF AllServed
  <2>8. ASSUME NEW f \in Flow
        PROVE  /\ owner'[f] = 0 <=> f > globalFlowId'
               /\ owner'[f] <= cur
               /\ FirstId < f /\ f <= globalFlowId' => owner'[f] = cur
               /\ owner'[f] = owner[f]
                    \/ (owner'[f] = cur /\ globalFlowId < f /\ f <= globalFlowId')
    <3>1. /\ owner[f] = 0 <=> f > globalFlowId
          /\ owner[f] <= cur
          /\ FirstId < f /\ f <= globalFlowId => owner[f] = cur
          /\ owner[f] \in Nat /\ f \in Nat /\ cur # 0
      BY <1>0, <2>2, <2>6, RequestAssumption DEF IdInv, Request
    <3>2. owner'[f] = IF globalFlowId < f /\ f <= globalFlowId' THEN cur ELSE owner[f]
      BY <2>1, <2>2, <3>1
    <3> QED
      BY <2>1, <2>2, <2>4, <3>1, <3>2
  <2>9. AllServed => FlowReqIdCorrect'
    <3> SUFFICES ASSUME AllServed, NEW f \in Flow, owner'[f] # 0 PROVE owner'[f] = FlowReqId[f]
      BY DEF FlowReqIdCorrect
    <3>1. CASE owner'[f] = owner[f]
      BY <1>0, <3>1 DEF IdInv, FlowReqIdCorrect
    <3>2. CASE owner'[f] = cur /\ globalFlowId < f /\ f <= globalFlowId'
      <4>1. FirstId = FlowsUpTo[cur - 1] /\ f \in Nat
        BY <1>0, <2>6 DEF IdInv
      <4>2. FlowsUpTo[cur - 1] < f /\ f <= FlowsUpTo[cur]
        BY <2>1, <2>2, <2>4, <2>5, <3>2, <4>1
      <4> QED
        BY <2>2, <3>2, <4>2, FlowReqIdIs
    <3> QED
      BY <2>8, <3>1, <3>2
  <2>10. \A f \in started : f <= FirstId /\ f <= globalFlowId'
    <3> TAKE f \in started
    <3>1. f <= FirstId /\ f \in Nat
      BY <1>0, <2>1, <2>6 DEF IdInv, TypeInv, MainType
    <3> QED
      BY <2>1, <2>2, <2>5, <3>1
  <2> QED
    BY <1>0, <2>1, <2>3, <2>7, <2>8, <2>9, <2>10 DEF IdInv
<1>7. CASE StartFlows
  <2>1. /\ mpc = "request" /\ reqStarted' = reqStarted \cup {cur}
        /\ UNCHANGED <<cur, srv, globalFlowId, owner, started>>
    BY <1>7 DEF StartFlows
  <2>2. cur \in Nat /\ ~(cur < cur)
    <3>1. cur \in Nat
      BY <1>0, MainNumbers
    <3> QED
      BY <3>1
  <2>3. AllServed' => AllServed
    BY <2>1, <2>2 DEF AllServed
  <2> QED
    BY <1>0, <2>1, <2>3, IdStays
<1>8. CASE JoinFlows
  <2>1. mpc = "flows" /\ NextRequest /\ UNCHANGED <<globalFlowId, owner, reqStarted, started>>
    BY <1>8 DEF JoinFlows
  <2>2. cur \in Request /\ srv = NServer + 1 /\ srv - 1 = NServer
    BY <1>0, <2>1, MainNumbers DEF MainInv, Request
  <2>3. Ready = Fanout[cur]
    BY <2>2, PartSums DEF Ready
  <2> QED
    BY <1>0, <2>1, <2>2, <2>3, IdBegins
<1>9. ASSUME NEW k \in DOMAIN fpc, Running,
             FlowMarkBusy(k) \/ FlowTakeAvailable(k) \/ FlowWrite(k)
      PROVE  IdInv'
  <2>1. /\ UNCHANGED <<request, globalFlowId, owner, reqStarted>>
        /\ started' = started \/ started' = started \cup {flowReqs[k].id}
        /\ mpc' = mpc \/ mpc' = "killed"
    BY <1>0, <1>9, FlowSteps
  <2>2. mpc = "flows" /\ flowReqs[k].id <= globalFlowId
    BY <1>0, <1>9, FlowThread, FlowThreadId
  <2>3. Ready' = Ready /\ FirstId' = FirstId
    BY <2>1 DEF Ready, FirstId
  <2>4. (AllServed' <=> AllServed) /\ (FlowReqIdCorrect' <=> FlowReqIdCorrect)
    BY <2>1 DEF AllServed, FlowReqIdCorrect
  <2> QED
    BY <1>0, <2>1, <2>2, <2>3, <2>4 DEF IdInv
<1>10. ASSUME NEW n \in Node, Listen(n) \/ Serve(n) \/ ServeEnd(n) \/ Break(n), UNCHANGED reqVars
       PROVE  IdInv'
  <2>1. UNCHANGED main
    BY <1>10, ThreadsKeep
  <2> QED
    BY <1>10, <1>s, <2>1
<1>11. ASSUME NEW n \in Node, ListenStamp(n) PROVE IdInv'
  <2>1. UNCHANGED main
    BY <1>11, ThreadsKeep DEF ListenStamp
  <2> QED
    BY <1>11, <1>s, <2>1 DEF ListenStamp
<1>12. CASE UNCHANGED vars
  BY <1>12, <1>s DEF vars
<1> QED
  BY <1>1, <1>2, <1>3, <1>4, <1>5, <1>6, <1>7, <1>8, <1>9, <1>10, <1>11, <1>12, StepCases

\* The initial state has all this.
LEMMA MainsInit ==
  ASSUME Init
  PROVE  MainsInv
<1>1. ConnType /\ si \in Server /\ xi \in 1 .. (MaxNode + 1) /\ IsFiniteSet(leaked)
  BY PoolStarts DEF Init
<1>2. MainType
  <2>1. /\ 1 \in 1 .. (NReq + 1) /\ 1 \in 1 .. (NServer + 1) /\ 0 \in 0 .. UIntWord
        /\ 0 \in 0 .. MaxNode /\ 0 \in 0 .. NReq
    BY PoolAssumption, RequestAssumption
  <2>2. <<>> \in Seq([conn : Node, id : Nat]) /\ <<>> \in Seq(FlowPc)
    OBVIOUS
  <2>3. 0 \in 0 .. (UIntWord \div 2)
    BY PoolAssumption
  <2>4. /\ cur = 1 /\ srv = 1 /\ toMake = 0 /\ oldTail = 0 /\ mpc = "open"
        /\ flowReqs = <<>> /\ globalFlowId = 0 /\ fpc = <<>>
        /\ owner = [f \in Flow |-> 0] /\ reqStarted = {} /\ started = {}
    BY DEF Init, PoolInit
  <2>5. owner \in [Flow -> 0 .. NReq]
    BY <2>1, <2>4
  <2>6. mpc \in MainPc
    BY <2>4 DEF MainPc
  <2> QED
    BY <1>1, <2>1, <2>2, <2>3, <2>4, <2>5, <2>6 DEF MainType
<1>3. TypeInv
  BY <1>1, <1>2 DEF TypeInv
<1>4. MainInv
  BY RequestAssumption DEF Init, PoolInit, MainInv, Preparing
<1>5. Ready = 0 /\ FirstId = 0
  <2>1. srv - 1 = 0 /\ globalFlowId = 0
    BY DEF Init
  <2> QED
    BY <2>1, NothingReady DEF Ready, FirstId
<1>6. ReqInv
  BY <1>5 DEF Init, PoolInit, ReqInv
<1>7. IdInv
  <2>1. cur - 1 = 0 /\ FlowsUpTo[0] = 0 /\ 0 \in Nat /\ cur = 1
    BY FlowsUpToSums DEF Init
  <2>2. \A f \in Flow : owner[f] = 0 /\ f > 0 /\ f \in Nat /\ ~(f <= 0)
    BY FlowsUpToSums, RequestAssumption DEF Init, Flow
  <2> QED
    BY <1>5, <2>1, <2>2 DEF Init, PoolInit, IdInv, FlowReqIdCorrect
<1> QED
  BY <1>3, <1>4, <1>6, <1>7 DEF MainsInv

\* So main's part of the invariant holds.
LEMMA MainsInvariant == Spec => []MainsInv
<1>1. Init => MainsInv
  BY MainsInit
<1>2. MainsInv /\ [Next]_vars => MainsInv'
  BY TypeInvStep, MainInvStep, ReqInvStep, IdInvStep DEF MainsInv
<1> QED
  BY <1>1, <1>2, PTL DEF Spec

\* Until a request is given up every flow is accounted to the request it was
\* made for, whatever flow_req_id was drawn up before any flow was made: IDs
\* are handed out server by server and request by request, as it counts them.
THEOREM AccountedToItsRequest == Spec => []FlowReqIdWhileServed
<1>1. MainsInv => FlowReqIdWhileServed
  BY DEF MainsInv, IdInv, AllServed, FlowReqIdWhileServed
<1> QED
  BY <1>1, MainsInvariant, PTL

-----------------------------------------------------------------------------
(* The flows, and the threads that carry them.                             *)

\* A node that is not in its list yet has no state; one that is has a socket,
\* and is up unless some connection failed; and one that is being inserted has
\* no listener yet and carries nothing.
NodeOK(n) ==
    /\ ~Exists(n) => /\ sock[n] = "none" /\ lpc[n] = "none" /\ ~up[n]
                     /\ toServer[n] = <<>> /\ toClient[n] = <<>>
    /\ Exists(n) => sock[n] # "none" /\ (up[n] \/ breaks > 0)
    /\ mpc \in {"open", "spawn"} => lpc[n] = "none"
    /\ mpc = "insert" /\ n[1] = srv /\ n[2] > oldTail =>
          lpc[n] = "none" /\ toServer[n] = <<>> /\ toClient[n] = <<>>
    /\ sock[n] = "closed" <=> lpc[n] \in {"disconnect", "leave", "done"}
    /\ connected[n] <=> Exists(n) /\ lpc[n] \notin {"leave", "done"}
    /\ lpc[n] = "stamp" => got[n] # 0

\* So it is for every node.
NodeInv == \A n \in Node : NodeOK(n)

\* The flows whose threads have recorded the start and not written yet.
Writing == {"take", "write"}
Sending == {flowReqs[k].id : k \in {j \in DOMAIN fpc : fpc[j] \in Writing}}

\* Every flow that was started and is not logged as finished is in one place,
\* with its thread, on a connection or with a listener, unless a connection
\* failed.
FlowInv ==
    /\ \A m, n \in Node : \A i, j \in Nat : \A r \in Nat \ {0} :
          At(m, i, r) /\ At(n, j, r) => m = n /\ i = j
    /\ \A n \in Node : \A i \in Nat : \A r \in Nat \ {0} :
          At(n, i, r) => r \in started \ stopped /\ r \notin Sending
    /\ Sending \subseteq started \ stopped
    /\ \A k \in DOMAIN fpc : fpc[k] = "mark" => flowReqs[k].id \notin started
    /\ stopped \subseteq started
    /\ reqStopped \subseteq Request
    /\ breaks = 0 =>
          \A r \in started \ stopped :
              r \in Sending \/ \E n \in Node : \E i \in Nat : At(n, i, r)

\* A termination flow is the last one on its connection, and a listener stops
\* only on it or on a failure.
ExitInv ==
    /\ RunPhase => \A n \in Node :
          /\ \A i \in Nat : ~At(n, i, 0)
          /\ lpc[n] \in Closing => ~up[n] /\ toClient[n] = <<>>
    /\ breaks = 0 /\ mpc # "killed" => \A n \in Node :
          /\ \A i \in Nat : At(n, i, 0) =>
                ExitSent(n) /\ \A j, r \in Nat : j > i => ~At(n, j, r)
          /\ lpc[n] \in Closing => ExitSent(n) /\ \A j, r \in Nat : ~At(n, j, r)

\* main has joined the listeners it has passed, where there was one.
Joined(n) == lpc[n] \in {"done", "none"}
JoinInv ==
    \A n \in Node : Exists(n) =>
        /\ mpc = "done" => Joined(n)
        /\ mpc \in {"exit", "exitWrite"} /\ n[1] < si => Joined(n)
        /\ mpc = "wait" /\ (n[1] < si \/ (n[1] = si /\ n[2] < xi)) => Joined(n)

\* The listeners count a flow as finished when they have accounted for it,
\* just before they record its stop time.
Accounted == {r \in Flow : r \in stopped \/ \E n \in Node : lpc[n] = "stamp" /\ got[n] = r}
FinishedInv == Sum(flowFinished, Server) = Cardinality(Accounted)

\* These carry each other, on top of MainsInv.
FlowsInv == NodeInv /\ FilesInv /\ FlowInv /\ ExitInv /\ JoinInv /\ FinishedInv

-----------------------------------------------------------------------------
(* Quiet steps: those that move no flow and start or end no listener.      *)

\* Those of main, and those of the threads.
MainQuiet ==
    \/ /\ OpenFirstFails \/ ExitNode(TRUE) \/ ExitAllSent \/ WaitNode \/ WaitAllDone
       /\ UNCHANGED reqVars
    \/ SkipServer \/ CountNew \/ InsertFails \/ BeginSearch \/ SearchNode \/ AssignFlows
    \/ SearchMisses \/ StartFlows \/ JoinFlows \/ RequestsDone \/ WaitNoListener

ThreadQuiet ==
    \/ /\ \E n \in Node : \/ ListenUnbusy(n) \/ ListenClose(n) \/ ListenDisconnect(n)
                          \/ ListenLeave(n) \/ Serve(n) \/ ServeEnd(n)
       /\ UNCHANGED reqVars
    \/ UNCHANGED vars

\* A step is quiet, or one of the others.
LEMMA StepKinds ==
  ASSUME [Next]_vars
  PROVE  \/ MainQuiet
         \/ ThreadQuiet
         \/ OpenFirst /\ UNCHANGED reqVars
         \/ InsertOne
         \/ SpawnListeners /\ UNCHANGED reqVars
         \/ StartListeners
         \/ ExitWrite /\ UNCHANGED reqVars
         \/ \E k \in DOMAIN fpc : Running /\ FlowMarkBusy(k)
         \/ \E k \in DOMAIN fpc : Running /\ FlowTakeAvailable(k)
         \/ \E k \in DOMAIN fpc : Running /\ FlowWrite(k)
         \/ \E n \in Node : ListenRead(n) /\ UNCHANGED reqVars
         \/ \E n \in Node : ListenFail(n) /\ UNCHANGED reqVars
         \/ \E n \in Node : ListenAccount(n) /\ UNCHANGED reqVars
         \/ \E n \in Node : ListenStamp(n)
         \/ \E n \in Node : Break(n) /\ UNCHANGED reqVars
BY StepCases DEF MainPool, Listen, MainQuiet, ThreadQuiet

\* What a quiet step of main leaves alone.
LEMMA MainQuietFrame ==
  ASSUME MainQuiet
  PROVE  /\ UNCHANGED <<len, flowFinished, connected, lpc, got, sock, up, toServer, toClient,
                        sockfd, astray, breaks, started, stopped, reqStopped>>
         /\ Running /\ mpc' \notin {"open", "spawn"} /\ (RunPhase' => RunPhase)
         /\ mpc' = "insert" => oldTail' = len[srv']
<1> USE DEF list, node, files, wire, main, request, times, reqVars
<1>1. CASE /\ OpenFirstFails \/ ExitNode(TRUE) \/ ExitAllSent \/ WaitNode \/ WaitAllDone
           /\ UNCHANGED reqVars
  BY <1>1 DEF OpenFirstFails, ExitNode, ExitAllSent, WaitNode, WaitAllDone, Running, RunPhase
<1>2. CASE SkipServer \/ CountNew \/ InsertFails \/ BeginSearch \/ SearchNode
  BY <1>2 DEF SkipServer, CountNew, InsertFails, ConnectRefused, BeginSearch, SearchNode,
     NextRequest, Running, RunPhase, poolVars
<1>3. CASE AssignFlows \/ SearchMisses \/ StartFlows \/ JoinFlows \/ RequestsDone \/ WaitNoListener
  BY <1>3 DEF AssignFlows, SearchMisses, StartFlows, JoinFlows, RequestsDone, WaitNoListener,
     NextRequest, Running, RunPhase
<1> QED
  BY <1>1, <1>2, <1>3 DEF MainQuiet

\* A termination flow that was sent has been sent.
LEMMA MainQuietExits ==
  ASSUME MainsInv, MainQuiet, mpc' # "killed"
  PROVE  \A n \in Node : ExitSent(n) => ExitSent(n)'
<1> USE DEF list, node, files, wire, main, request, times, reqVars
<1>1. /\ si \in Nat \ {0} /\ si <= NServer /\ xi \in Nat \ {0} /\ NServer \in Nat
      /\ \A n \in Node : n[1] \in Nat /\ n[1] <= NServer /\ n[2] \in Nat /\ len[n[1]] \in Nat
      /\ \A n \in Node : Exists(n) <=> n[2] <= len[n[1]]
  <2>1. MainsInv => ConnType
    BY DEF MainsInv, TypeInv
  <2>2. \A n \in Node : n[1] \in Nat /\ n[1] <= NServer
    BY NodeParts
  <2> QED
    BY <2>1, <2>2, MainNumbers, NodeNumbers DEF MainsInv, Exists
<1>2. CASE OpenFirstFails
  BY <1>2 DEF OpenFirstFails, ExitSent
<1>3. CASE ExitNode(TRUE)
  <2>1. /\ mpc = "exit" /\ mpc' \in {"exit", "exitWrite"} /\ si' = si
        /\ xi' = xi \/ xi' = xi + 1
    BY <1>3 DEF ExitNode
  <2> QED
    BY <1>1, <2>1 DEF ExitSent
<1>4. CASE ExitAllSent
  BY <1>1, <1>4 DEF ExitAllSent, ExitSent
<1>5. CASE WaitNode \/ WaitNoListener
  <2>1. mpc = "wait" /\ mpc' = "wait" /\ si' = si
    BY <1>5 DEF WaitNode, WaitNoListener
  <2> QED
    BY <2>1 DEF ExitSent
<1>6. CASE WaitAllDone
  <2>1. /\ mpc = "wait"
        /\ \/ si' = si + 1 /\ mpc' = "exit"
           \/ mpc' = "done"
    BY <1>6 DEF WaitAllDone
  <2> QED
    BY <1>1, <2>1 DEF ExitSent
<1>7. CASE \/ SkipServer \/ CountNew \/ InsertFails \/ BeginSearch \/ SearchNode \/ AssignFlows
           \/ SearchMisses \/ StartFlows \/ JoinFlows \/ RequestsDone
  <2>1. mpc \notin {"exit", "exitWrite", "wait", "done"}
    BY <1>7 DEF SkipServer, CountNew, InsertFails, BeginSearch, SearchNode, AssignFlows,
       SearchMisses, StartFlows, JoinFlows, RequestsDone
  <2> QED
    BY <2>1 DEF ExitSent
<1> QED
  BY <1>2, <1>3, <1>4, <1>5, <1>6, <1>7 DEF MainQuiet

\* main starts the threads of a request's flows when those of the request
\* before are done, and their flows are new.
LEMMA MainQuietThreads ==
  ASSUME MainsInv, MainQuiet
  PROVE  /\ \A k \in DOMAIN fpc : fpc[k] = "done"
         /\ \A k \in DOMAIN fpc' : fpc'[k] = "mark" /\ flowReqs'[k].id \notin started
<1> USE DEF list, node, files, wire, main, request, times, reqVars
<1>0. TypeInv /\ MainInv /\ ReqInv /\ IdInv
  BY DEF MainsInv
<1>1. CASE StartFlows
  <2>1. /\ mpc = "request" /\ fpc = <<>> /\ UNCHANGED flowReqs
        /\ fpc' = [k \in DOMAIN flowReqs |-> "mark"]
        /\ cur <= NReq /\ srv > NServer
    BY <1>0, <1>1 DEF StartFlows, MainInv
  <2>2. ASSUME NEW k \in DOMAIN flowReqs PROVE flowReqs[k].id \notin started
    <3>1. k \in Nat \ {0} /\ k <= Len(flowReqs) /\ Len(flowReqs) = Ready
      BY <1>0, <2>1, FlowReqsType DEF ReqInv
    <3>2. flowReqs[k].id = FirstId + k /\ FirstId \in Nat
      BY <1>0, <3>1 DEF ReqInv, IdInv
    <3>3. \A f \in started : f <= FirstId /\ f \in Nat
      BY <1>0, <2>1, FlowsUpToSums DEF IdInv, TypeInv, MainType, Flow
    <3> QED
      BY <3>1, <3>2, <3>3
  <2> QED
    BY <2>1, <2>2
<1>2. CASE JoinFlows
  BY <1>2 DEF JoinFlows
<1>3. CASE ~StartFlows /\ ~JoinFlows
  <2>1. fpc' = fpc /\ mpc \notin {"flows", "killed"}
    BY <1>3 DEF MainQuiet, OpenFirstFails, ExitNode, ExitAllSent, WaitNode, WaitAllDone,
       SkipServer, CountNew, InsertFails, BeginSearch, SearchNode, AssignFlows, SearchMisses,
       RequestsDone, WaitNoListener, NextRequest
  <2>2. fpc = <<>>
    BY <1>0, <2>1 DEF MainInv
  <2> QED
    BY <2>1, <2>2
<1> QED
  BY <1>1, <1>2, <1>3

\* What a quiet step of a thread leaves alone.
LEMMA ThreadQuietSteps ==
  ASSUME ConnType, ThreadQuiet
  PROVE  /\ UNCHANGED <<len, flowFinished, got, up, sockfd, leaked, astray, breaks, main, reqVars>>
         /\ \A n \in Node :
               /\ Transit(n)' = Transit(n)
               /\ Pending(n)' <=> Pending(n)
               /\ lpc'[n] = "stamp" <=> lpc[n] = "stamp"
               /\ lpc'[n] = "none" <=> lpc[n] = "none"
               /\ lpc'[n] \in Closing <=> lpc[n] \in Closing
               /\ lpc[n] = "done" => lpc'[n] = "done"
               /\ ~up[n] => toClient'[n] = toClient[n]
<1> USE DEF list, node, files, wire, main, Pending, Closing
<1>1. ASSUME NEW m \in Node, Serve(m)
      PROVE  /\ UNCHANGED <<len, flowFinished, got, lpc, up, sockfd, leaked, astray, breaks, main>>
             /\ \A n \in Node : /\ Transit(n)' = Transit(n)
                                /\ ~up[n] => toClient'[n] = toClient[n]
  BY <1>1, TransitServe DEF Serve, ConnType
<1>2. ASSUME NEW m \in Node,
             ListenUnbusy(m) \/ ListenClose(m) \/ ListenDisconnect(m) \/ ListenLeave(m) \/ ServeEnd(m)
      PROVE  /\ UNCHANGED <<len, flowFinished, got, up, sockfd, leaked, astray, breaks, main>>
             /\ UNCHANGED <<toServer, toClient>>
             /\ \A n \in Node \ {m} : lpc'[n] = lpc[n]
             /\ \/ lpc'[m] = lpc[m]
                \/ lpc[m] = "unbusy" /\ lpc'[m] = "account"
                \/ lpc[m] \in {"close", "disconnect", "leave"} /\ lpc'[m] \in {"disconnect", "leave", "done"}
  BY <1>2 DEF ListenUnbusy, ListenClose, ListenDisconnect, ListenLeave, ServeEnd, ConnType
<1>3. CASE UNCHANGED vars
  BY <1>3, TransitSame DEF vars, poolVars
<1>4. CASE UNCHANGED reqVars /\ \E n \in Node : Serve(n)
  BY <1>1, <1>4
<1>5. CASE /\ UNCHANGED reqVars
           /\ \E n \in Node : \/ ListenUnbusy(n) \/ ListenClose(n) \/ ListenDisconnect(n)
                              \/ ListenLeave(n) \/ ServeEnd(n)
  BY <1>2, <1>5, TransitSame
<1> QED
  BY <1>3, <1>4, <1>5 DEF ThreadQuiet

-----------------------------------------------------------------------------
(* NodeInv, FilesInv.                                                      *)

\* The node whose termination flow is written next.
LEMMA ExitingNode ==
  ASSUME TypeInv, MainInv, mpc = "exitWrite"
  PROVE  /\ <<si, xi>> \in Node /\ Exists(<<si, xi>>) /\ ~ExitSent(<<si, xi>>)
         /\ xi \in Nat /\ si \in Nat
<1>1. si \in Server /\ xi \in 1 .. MaxNode + 1 /\ xi <= len[si] /\ len[si] \in 0 .. MaxNode
  BY DEF TypeInv, ConnType, MainType, MainInv
<1>2. xi \in 1 .. MaxNode /\ si \in Nat
  BY <1>1, PoolAssumption, NodeParts
<1>3. <<si, xi>> \in Node
  BY <1>1, <1>2, NodeParts
<1>4. Exists(<<si, xi>>)
  BY <1>1 DEF Exists
<1>5. ~ExitSent(<<si, xi>>)
  BY <1>2 DEF ExitSent
<1> QED
  BY <1>2, <1>3, <1>4, <1>5

\* A listener closes its socket only when its connection has failed or it has
\* read the termination flow.
LEMMA OpenUntilExit ==
  ASSUME TypeInv, NodeInv, ExitInv, NEW n \in Node, Exists(n), ~ExitSent(n), mpc # "killed",
         breaks = 0
  PROVE  sock[n] = "open" /\ up[n] /\ lpc[n] \notin Closing
<1>1. lpc[n] \notin Closing
  BY DEF ExitInv
<1>2. NodeOK(n) /\ sock[n] \in {"none", "open", "closed"} /\ breaks \in Nat
  BY PoolAssumption DEF NodeInv, TypeInv, ConnType
<1>3. sock[n] # "none" /\ sock[n] # "closed" /\ up[n]
  BY <1>1, <1>2 DEF NodeOK, Closing
<1> QED
  BY <1>1, <1>2, <1>3

\* While no connection has failed those of the request are there.
LEMMA WriteConnects ==
  ASSUME MainsInv, NodeInv, ExitInv, NEW k \in DOMAIN fpc, Running, breaks = 0
  PROVE  sock[flowReqs[k].conn] = "open" /\ Connects(flowReqs[k].conn)
<1>1. PICK n \in Node : n = flowReqs[k].conn /\ Exists(n) /\ mpc = "flows"
  BY FlowThread DEF MainsInv
<1>2. sock[n] = "open" /\ up[n]
  BY <1>1, OpenUntilExit DEF MainsInv, ExitSent
<1> QED
  BY <1>1, <1>2 DEF Connects, Holds

\* insert_conn_list adds a node with a connection and without a listener.
LEMMA NodeAdded ==
  ASSUME TypeInv, NodeInv, NEW s \in Server, AddNode(s, FALSE),
         mpc' \in {"open", "spawn"} => mpc \in {"open", "spawn"},
         mpc' = "insert" => mpc = "insert" /\ UNCHANGED <<srv, oldTail>>
  PROVE  NodeInv'
<1>0. PICK k \in Node : k = <<s, len[s] + 1>>
  BY AddNodeEffect DEF TypeInv
<1>1. /\ k[1] = s /\ k[2] = len[s] + 1
      /\ \A t \in Server : len'[t] = IF t = s THEN len[t] + 1 ELSE len[t]
      /\ \A m \in Node :
            IF m = k
              THEN lpc'[m] = "none" /\ connected'[m] /\ sock'[m] = "open" /\ up'[m]
              ELSE /\ lpc'[m] = lpc[m] /\ connected'[m] = connected[m]
                   /\ sock'[m] = sock[m] /\ up'[m] = up[m]
      /\ UNCHANGED <<got, toServer, toClient, breaks>>
  <2>1. ConnType /\ IsFiniteSet(leaked)
    BY DEF TypeInv
  <2>2. /\ \A t \in Server : len'[t] = IF t = s THEN len[t] + 1 ELSE len[t]
        /\ \A m \in Node :
              IF m = <<s, len[s] + 1>>
                THEN lpc'[m] = "none" /\ connected'[m] /\ sock'[m] = "open" /\ up'[m]
                ELSE /\ lpc'[m] = lpc[m] /\ connected'[m] = connected[m]
                     /\ sock'[m] = sock[m] /\ up'[m] = up[m]
        /\ breaks' = breaks /\ UNCHANGED <<got, toServer, toClient>>
    <3>1. PICK b \in BOOLEAN : ~b /\ AddNode(s, b)
      OBVIOUS
    <3>2. /\ \A t \in Server : len'[t] = IF t = s THEN len[t] + 1 ELSE len[t]
          /\ breaks' = breaks /\ UNCHANGED <<got, toServer, toClient>>
      BY <2>1, <3>1, AddNodeEffect
    <3>3. \A m \in Node :
              IF m = <<s, len[s] + 1>>
                THEN /\ lpc'[m] = IF b THEN "read" ELSE "none"
                     /\ ~busy'[m] /\ connected'[m] /\ sock'[m] = "open" /\ up'[m]
                ELSE /\ lpc'[m] = lpc[m] /\ busy'[m] = busy[m]
                     /\ connected'[m] = connected[m] /\ sock'[m] = sock[m]
                     /\ up'[m] = up[m] /\ sockfd'[m] = sockfd[m]
      BY <2>1, <3>1, AddNodeEffect, ZenonT(60)
    <3> QED
      BY <3>1, <3>2, <3>3
  <2>3. k[1] = s /\ k[2] = len[s] + 1
    BY <1>0
  <2> QED
    BY <1>0, <2>2, <2>3
<1>2. \A m \in Node : /\ m[1] \in Server /\ m[2] \in Nat /\ m = <<m[1], m[2]>>
                      /\ len[m[1]] \in Nat /\ len[s] \in Nat
  BY NodeNumbers DEF TypeInv
<1>3. \A m \in Node : m # k => (Exists(m)' <=> Exists(m))
  <2> SUFFICES ASSUME NEW m \in Node, m # k PROVE Exists(m)' <=> Exists(m)
    OBVIOUS
  <2>1. m[1] # s \/ m[2] # len[s] + 1
    BY <1>0, <1>2
  <2> QED
    BY <1>1, <1>2, <2>1 DEF Exists
<1>4. Exists(k)' /\ ~Exists(k)
  BY <1>1, <1>2 DEF Exists
<1>5. ASSUME NEW m \in Node, m # k PROVE NodeOK(m)'
  BY <1>1, <1>3, <1>5 DEF NodeInv, NodeOK
<1>6. NodeOK(k)'
  <2>1. toServer'[k] = <<>> /\ toClient'[k] = <<>> /\ up'[k] /\ sock'[k] = "open" /\ connected'[k]
        /\ lpc'[k] = "none"
    BY <1>1, <1>4 DEF NodeInv, NodeOK
  <2> QED
    BY <1>4, <2>1 DEF NodeOK
<1> QED
  BY <1>5, <1>6 DEF NodeInv

\* A write moves a flow onto a connection that is there, or does nothing.
LEMMA WriteKeepsNodes ==
  ASSUME ConnType, NodeInv, NEW n \in Node, NEW id \in Nat,
         WriteSent(n, id) \/ UNCHANGED wire, UNCHANGED <<list, node, breaks>>,
         mpc \notin {"open", "spawn", "insert"}, mpc' \notin {"open", "spawn", "insert"}
  PROVE  NodeInv'
<1>1. UNCHANGED <<len, connected, lpc, got, breaks>>
  BY DEF list, node
<1>2. CASE UNCHANGED wire
  BY <1>1, <1>2 DEF wire, NodeInv, NodeOK, Exists
<1>3. CASE WriteSent(n, id)
  <2>1. PICK m \in Node : /\ sock[m] = "open" /\ up[m]
                          /\ toServer' = [toServer EXCEPT ![m] = Append(@, id)]
    BY <1>3, WriteSentEffect
  <2>2. UNCHANGED <<sock, up, toClient>>
    BY <1>3 DEF WriteSent
  <2>3. \A q \in Node : q # m => toServer'[q] = toServer[q]
    BY <2>1 DEF ConnType
  <2>4. ASSUME NEW q \in Node, q # m PROVE NodeOK(q)'
    BY <1>1, <2>2, <2>3, <2>4 DEF NodeInv, NodeOK, Exists
  <2>5. NodeOK(m)'
    <3>1. NodeOK(m) /\ Exists(m)
      BY <2>1 DEF NodeInv, NodeOK
    <3> QED
      BY <1>1, <2>1, <2>2, <3>1 DEF NodeOK, Exists
  <2> QED
    BY <2>4, <2>5 DEF NodeInv
<1> QED
  BY <1>2, <1>3

\* A connection that exists has a socket, which is closed only when its
\* listener has left its loop.
LEMMA NodeInvStep ==
  ASSUME MainsInv, FlowsInv, [Next]_vars
  PROVE  NodeInv'
<1> USE DEF list, node, files, wire, main, poolVars, request, times, reqVars
<1>0. TypeInv /\ MainInv /\ ReqInv /\ ConnType /\ NodeInv /\ ExitInv /\ breaks \in Nat
  BY PoolAssumption DEF MainsInv, FlowsInv, TypeInv, ConnType
<1>1. CASE MainQuiet
  <2>1. /\ UNCHANGED <<len, connected, lpc, got, sock, up, toServer, toClient, breaks>>
        /\ mpc' \notin {"open", "spawn"}
    BY <1>1, MainQuietFrame
  <2>2. ASSUME NEW n \in Node, mpc' = "insert", n[1] = srv', n[2] > oldTail'
        PROVE  lpc[n] = "none" /\ toServer[n] = <<>> /\ toClient[n] = <<>>
    <3>1. n[2] > len[n[1]]
      BY <1>1, <2>2, MainQuietFrame
    <3>2. ~Exists(n)
      BY <1>0, <3>1, NodeNumbers DEF Exists
    <3> QED
      BY <1>0, <3>2 DEF NodeInv, NodeOK
  <2> QED
    BY <1>0, <2>1, <2>2 DEF NodeInv, NodeOK, Exists
<1>2. CASE ThreadQuiet
  <2>1. UNCHANGED <<len, got, up, breaks, mpc, srv, oldTail>>
    BY <1>0, <1>2, ThreadQuietSteps
  <2>2. \A n \in Node : lpc'[n] = "none" <=> lpc[n] = "none"
    BY <1>0, <1>2, ThreadQuietSteps
  <2>3. \A n \in Node : (toServer[n] = <<>> /\ toClient[n] = <<>>) =>
                            (toServer'[n] = <<>> /\ toClient'[n] = <<>>)
    BY <1>0, <1>2 DEF ThreadQuiet, ListenUnbusy, ListenClose, ListenDisconnect, ListenLeave,
       Serve, ServeEnd, vars, ConnType
  <2>4. \A n \in Node :
           /\ sock[n] = "none" <=> sock'[n] = "none"
           /\ (sock[n] = "closed" <=> lpc[n] \in {"disconnect", "leave", "done"}) =>
                 (sock'[n] = "closed" <=> lpc'[n] \in {"disconnect", "leave", "done"})
           /\ (connected[n] <=> Exists(n) /\ lpc[n] \notin {"leave", "done"}) =>
                 (connected'[n] <=> Exists(n) /\ lpc'[n] \notin {"leave", "done"})
           /\ lpc'[n] = "stamp" <=> lpc[n] = "stamp"
    <3>1. CASE \E m \in Node : Serve(m) \/ ServeEnd(m)
      BY <1>0, <3>1 DEF Serve, ServeEnd
    <3>2. CASE UNCHANGED vars
      BY <3>2 DEF vars
    <3>3. CASE \E m \in Node : ListenUnbusy(m)
      BY <1>0, <3>3 DEF ListenUnbusy, ConnType
    <3>4. CASE \E m \in Node : ListenClose(m)
      <4>1. PICK m \in Node : ListenClose(m)
        BY <3>4
      <4>2. sock[m] # "none"
        BY <1>0, <4>1 DEF NodeInv, NodeOK, ListenClose
      <4>3. /\ lpc[m] = "close" /\ lpc'[m] = "disconnect" /\ sock'[m] = "closed"
            /\ UNCHANGED connected
            /\ \A n \in Node \ {m} : lpc'[n] = lpc[n] /\ sock'[n] = sock[n]
        BY <1>0, <4>1 DEF ListenClose, ConnType
      <4> QED
        BY <4>2, <4>3
    <3>5. CASE \E m \in Node : ListenDisconnect(m)
      <4>1. PICK m \in Node : ListenDisconnect(m)
        BY <3>5
      <4>2. /\ lpc[m] = "disconnect" /\ lpc'[m] = "leave" /\ ~connected'[m]
            /\ UNCHANGED sock
            /\ \A n \in Node \ {m} : lpc'[n] = lpc[n] /\ connected'[n] = connected[n]
        BY <1>0, <4>1 DEF ListenDisconnect, ConnType
      <4> QED
        BY <4>2
    <3>6. CASE \E m \in Node : ListenLeave(m)
      BY <1>0, <3>6 DEF ListenLeave, ConnType
    <3> QED
      BY <1>2, <3>1, <3>2, <3>3, <3>4, <3>5, <3>6 DEF ThreadQuiet
  <2>5. \A n \in Node : Exists(n)' <=> Exists(n)
    BY <2>1 DEF Exists
  <2> QED
    BY <1>0, <2>1, <2>2, <2>3, <2>4, <2>5 DEF NodeInv, NodeOK
<1>3. ASSUME OpenFirst, UNCHANGED reqVars PROVE NodeInv'
  <2>1. AddNode(si, FALSE) /\ mpc = "open" /\ mpc' \in {"open", "spawn"} /\ si \in Server
    BY <1>0, <1>3 DEF OpenFirst, TypeInv, MainType
  <2> QED
    BY <1>0, <2>1, NodeAdded
<1>4. CASE InsertOne
  <2>1. AddNode(srv, FALSE) /\ mpc = "insert" /\ UNCHANGED <<mpc, srv, oldTail>>
    BY <1>4 DEF InsertOne
  <2>2. srv \in Server
    BY <1>0, <2>1, CurrentRequest DEF Preparing
  <2> QED
    BY <1>0, <2>1, <2>2, NodeAdded
<1>5. ASSUME SpawnListeners, UNCHANGED reqVars PROVE NodeInv'
  BY <1>0, <1>5 DEF ConnType, NodeInv, NodeOK, Exists, SpawnListeners
<1>6. CASE StartListeners
  <2>1. /\ mpc = "insert" /\ mpc' = "check"
        /\ UNCHANGED <<len, connected, got, sock, up, toServer, toClient, breaks>>
        /\ \A n \in Node : lpc'[n] = IF n[1] = srv /\ n[2] > oldTail /\ Exists(n)
                                     THEN "read" ELSE lpc[n]
    BY <1>6 DEF StartListeners
  <2>2. ASSUME NEW n \in Node PROVE NodeOK(n)'
    <3>1. NodeOK(n) /\ (Exists(n)' <=> Exists(n))
      BY <1>0, <2>1 DEF NodeInv, Exists
    <3>2. CASE n[1] = srv /\ n[2] > oldTail /\ Exists(n)
      <4>1. lpc[n] = "none" /\ lpc'[n] = "read"
        BY <2>1, <3>1, <3>2 DEF NodeOK
      <4> QED
        BY <2>1, <3>1, <3>2, <4>1 DEF NodeOK
    <3>3. CASE ~(n[1] = srv /\ n[2] > oldTail /\ Exists(n))
      <4>1. lpc'[n] = lpc[n]
        BY <2>1, <3>3
      <4> QED
        BY <2>1, <3>1, <4>1 DEF NodeOK
    <3> QED
      BY <3>2, <3>3
  <2> QED
    BY <2>2 DEF NodeInv
<1>7. ASSUME ExitWrite, UNCHANGED reqVars PROVE NodeInv'
  <2>1. /\ mpc = "exitWrite" /\ mpc' \in {"exit", "killed"}
        /\ WriteSent(<<si, xi>>, 0) \/ UNCHANGED wire
        /\ UNCHANGED <<list, node, breaks>>
    BY <1>7 DEF ExitWrite, WriteLost, WriteKills
  <2>2. <<si, xi>> \in Node /\ 0 \in Nat
    BY <1>0, <2>1, ExitingNode
  <2> QED
    BY <1>0, <2>1, <2>2, WriteKeepsNodes
<1>8. ASSUME NEW k \in DOMAIN fpc, Running, FlowMarkBusy(k) \/ FlowTakeAvailable(k) PROVE NodeInv'
  <2>1. /\ UNCHANGED <<len, connected, lpc, got, sock, up, toServer, toClient, breaks,
                       mpc, srv, oldTail>>
    BY <1>8 DEF FlowMarkBusy, FlowTakeAvailable
  <2> QED
    BY <1>0, <2>1 DEF NodeInv, NodeOK, Exists
<1>9. ASSUME NEW k \in DOMAIN fpc, Running, FlowWrite(k) PROVE NodeInv'
  <2>1. mpc = "flows" /\ flowReqs[k].conn \in Node /\ flowReqs[k].id \in Nat
    BY <1>0, <1>9, FlowThread, FlowReqsType
  <2>2. /\ mpc' \in {"flows", "killed"} /\ UNCHANGED <<list, node, breaks>>
        /\ WriteSent(flowReqs[k].conn, flowReqs[k].id) \/ UNCHANGED wire
    BY <1>9, <2>1 DEF FlowWrite, WriteLost, WriteKills
  <2> QED
    BY <1>0, <2>1, <2>2, WriteKeepsNodes
<1>10. ASSUME NEW n \in Node, ListenRead(n), UNCHANGED reqVars PROVE NodeInv'
  BY <1>0, <1>10 DEF ConnType, NodeInv, NodeOK, Exists, ListenRead
<1>11. ASSUME NEW n \in Node, ListenFail(n), UNCHANGED reqVars PROVE NodeInv'
  BY <1>0, <1>11 DEF ConnType, NodeInv, NodeOK, Exists, ListenFail
<1>12. ASSUME NEW n \in Node, ListenAccount(n), UNCHANGED reqVars PROVE NodeInv'
  BY <1>0, <1>12, SMTT(30) DEF ConnType, NodeInv, NodeOK, Exists, ListenAccount
<1>13. ASSUME NEW n \in Node, ListenStamp(n) PROVE NodeInv'
  BY <1>0, <1>13 DEF ConnType, NodeInv, NodeOK, Exists, ListenStamp, ListenStamped
<1>14. ASSUME NEW n \in Node, Break(n), UNCHANGED reqVars PROVE NodeInv'
  <2>1. /\ breaks' = breaks + 1 /\ breaks' > 0 /\ sock[n] = "open"
        /\ UNCHANGED <<len, connected, lpc, got, sock, mpc, srv, oldTail>>
        /\ ~up'[n] /\ toServer'[n] = <<>> /\ (toClient[n] = <<>> => toClient'[n] = <<>>)
        /\ \A m \in Node \ {n} : /\ up'[m] = up[m] /\ toServer'[m] = toServer[m]
                                 /\ toClient'[m] = toClient[m]
    <3>1. PICK i \in 0 .. Len(toClient[n]) : toClient' = [toClient EXCEPT ![n] = SubSeq(@, 1, i)]
      BY <1>14 DEF Break
    <3>2. toClient[n] = <<>> => SubSeq(toClient[n], 1, i) = <<>>
      <4> SUFFICES ASSUME toClient[n] = <<>> PROVE SubSeq(toClient[n], 1, i) = <<>>
        OBVIOUS
      <4>1. i = 0 /\ SubSeq(toClient[n], 1, 0) \in Seq(Nat) /\ Len(SubSeq(toClient[n], 1, 0)) = 0
        <5>1. i = 0 /\ <<>> \in Seq(Nat) /\ 0 \in 0 .. Len(<<>>)
          BY <3>1
        <5> QED
          BY <5>1, PrefixType
      <4> QED
        BY <4>1, EmptySeq
    <3>3. /\ breaks' = breaks + 1 /\ sock[n] = "open" /\ up' = [up EXCEPT ![n] = FALSE]
          /\ toServer' = [toServer EXCEPT ![n] = <<>>]
          /\ UNCHANGED <<len, connected, lpc, got, sock, mpc, srv, oldTail>>
      BY <1>14 DEF Break
    <3>4. breaks' > 0
      BY <1>0, <3>3
    <3>5. toClient'[n] = SubSeq(toClient[n], 1, i)
      BY <1>0, <3>1 DEF ConnType
    <3> QED
      BY <1>0, <3>1, <3>2, <3>3, <3>4, <3>5 DEF ConnType
  <2>2. ASSUME NEW m \in Node PROVE NodeOK(m)'
    <3>1. NodeOK(m) /\ (Exists(m)' <=> Exists(m))
      BY <1>0, <2>1 DEF NodeInv, Exists
    <3>2. CASE m = n
      BY <2>1, <3>1, <3>2 DEF NodeOK
    <3>3. CASE m # n
      BY <2>1, <3>1, <3>3 DEF NodeOK
    <3> QED
      BY <3>2, <3>3
  <2> QED
    BY <2>2 DEF NodeInv
<1> QED
  BY <1>1, <1>2, <1>3, <1>4, <1>5, <1>6, <1>7, <1>8, <1>9, <1>10, <1>11, <1>12, <1>13, <1>14,
     StepKinds

\* No step gives a descriptor to two open sockets, and while no connection
\* has failed none is closed that is still written to.
LEMMA FilesInvStep ==
  ASSUME MainsInv, FlowsInv, [Next]_vars
  PROVE  FilesInv'
<1> USE DEF list, node, files, wire, main, poolVars, request, times, reqVars
<1>0. /\ TypeInv /\ MainInv /\ ReqInv /\ IdInv /\ ConnType /\ IsFiniteSet(leaked)
      /\ NodeInv /\ FilesInv /\ ExitInv
  BY DEF MainsInv, FlowsInv, TypeInv
<1>1. ASSUME UNCHANGED <<sockfd, leaked, astray>>, breaks' = 0 => breaks = 0,
             \A n \in Node : sock'[n] = "open" => sock[n] = "open"
      PROVE  FilesInv'
  BY <1>0, <1>1 DEF FilesInv, Holds
<1>2. CASE OpenFirst \/ InsertOne
  <2>1. PICK s \in Server : AddNode(s, FALSE)
    <3>1. CASE OpenFirst
      BY <1>0, <3>1 DEF OpenFirst, TypeInv, MainType
    <3>2. CASE InsertOne
      <4>1. AddNode(srv, FALSE) /\ mpc = "insert"
        BY <3>2 DEF InsertOne
      <4> QED
        BY <1>0, <4>1, CurrentRequest DEF Preparing
    <3> QED
      BY <1>2, <3>1, <3>2
  <2> QED
    BY <1>0, <2>1, FilesAdded
<1>3. CASE InsertFails
  <2>1. leaked' = leaked \cup {LowestFree} /\ UNCHANGED <<sock, sockfd, astray, breaks>>
    BY <1>3 DEF InsertFails, ConnectRefused
  <2>2. LowestFree \notin InUse
    BY <1>0, LowestFreeIsFree
  <2>3. \A n \in Node : sock[n] = "open" => sockfd[n] # LowestFree
    BY <2>2 DEF InUse
  <2> QED
    BY <1>0, <2>1, <2>3 DEF FilesInv, Holds
<1>4. CASE ExitWrite
  <2>1. mpc = "exitWrite" /\ UNCHANGED breaks /\ (WriteSent(<<si, xi>>, 0) \/ UNCHANGED wire)
    BY <1>4 DEF ExitWrite, WriteLost, WriteKills
  <2>2. PICK n \in Node : n = <<si, xi>> /\ Exists(n) /\ ~ExitSent(n)
    BY <1>0, <2>1, ExitingNode
  <2>3. breaks = 0 => sock[n] = "open"
    BY <1>0, <2>1, <2>2, OpenUntilExit
  <2>4. CASE UNCHANGED wire
    BY <1>1, <2>1, <2>4
  <2>5. CASE WriteSent(n, 0)
    BY <1>0, <2>1, <2>3, <2>5, FilesWritten
  <2> QED
    BY <2>1, <2>2, <2>4, <2>5
<1>5. ASSUME NEW k \in DOMAIN fpc, Running, FlowWrite(k) PROVE FilesInv'
  <2>1. /\ UNCHANGED breaks
        /\ WriteSent(flowReqs[k].conn, flowReqs[k].id) \/ UNCHANGED wire
    BY <1>5 DEF FlowWrite, WriteLost, WriteKills
  <2>2. PICK n \in Node : n = flowReqs[k].conn
    BY <1>0, <1>5, FlowThread
  <2>3. PICK id \in Nat : id = flowReqs[k].id
    BY <1>0, <1>5, FlowThread, FlowReqsType
  <2>4. breaks = 0 => sock[n] = "open"
    BY <1>0, <1>5, <2>2, WriteConnects DEF MainsInv
  <2>5. CASE UNCHANGED wire
    BY <1>1, <2>1, <2>5
  <2>6. CASE WriteSent(n, id)
    BY <1>0, <2>1, <2>4, <2>6, FilesWritten
  <2> QED
    BY <2>1, <2>2, <2>3, <2>5, <2>6
<1>6. CASE MainQuiet /\ ~InsertFails
  <2>1. UNCHANGED <<sock, sockfd, astray, breaks>>
    BY <1>6, MainQuietFrame
  <2>2. UNCHANGED leaked
    BY <1>6 DEF MainQuiet, OpenFirstFails, ExitNode, ExitAllSent, WaitNode, WaitAllDone, SkipServer,
       CountNew, BeginSearch, SearchNode, AssignFlows, SearchMisses, StartFlows, JoinFlows,
       RequestsDone, WaitNoListener
  <2> QED
    BY <1>1, <2>1, <2>2
<1>7. CASE ThreadQuiet
  <2>1. UNCHANGED <<sockfd, leaked, astray, breaks>>
    BY <1>0, <1>7, ThreadQuietSteps
  <2>2. \A n \in Node : sock'[n] = "open" => sock[n] = "open"
    BY <1>0, <1>7 DEF ThreadQuiet, ListenUnbusy, ListenClose, ListenDisconnect, ListenLeave,
       Serve, ServeEnd, vars, ConnType
  <2> QED
    BY <1>1, <2>1, <2>2
<1>8. CASE SpawnListeners \/ StartListeners
  BY <1>1, <1>8 DEF SpawnListeners, StartListeners
<1>9. CASE \E k \in DOMAIN fpc : FlowMarkBusy(k) \/ FlowTakeAvailable(k)
  BY <1>1, <1>9 DEF FlowMarkBusy, FlowTakeAvailable
<1>10. CASE \E n \in Node : ListenRead(n) \/ ListenFail(n) \/ ListenAccount(n) \/ ListenStamp(n)
  BY <1>1, <1>10 DEF ListenRead, ListenFail, ListenAccount, ListenStamp, ListenStamped
<1>11. CASE \E n \in Node : Break(n)
  <2>1. breaks' = breaks + 1 /\ breaks \in Nat /\ UNCHANGED <<sock, sockfd, leaked, astray>>
    BY <1>0, <1>11, PoolAssumption DEF Break, ConnType
  <2> QED
    BY <1>1, <2>1
<1> QED
  BY <1>2, <1>3, <1>4, <1>5, <1>6, <1>7, <1>8, <1>9, <1>10, <1>11, StepKinds

-----------------------------------------------------------------------------
(* FlowInv.                                                                *)

\* Every flow is one of some request, and that is flow_req_id.
LEMMA FlowHasRequest ==
  ASSUME NEW f \in Flow
  PROVE  FlowReqId[f] \in Request
<1> DEFINE Upto == {q \in Nat : q <= NReq /\ f <= FlowsUpTo[q]}
<1>1. f \in Nat /\ f > 0 /\ f <= FlowsUpTo[NReq] /\ NReq \in Nat
  BY RequestAssumption, FlowsUpToSums DEF Flow
<1>2. Upto \subseteq Nat /\ Upto # {}
  BY <1>1
<1>3. PICK q \in Upto : \A p \in Upto : q <= p
  <2> HIDE DEF Upto
  <2> QED
    BY <1>2, LeastNumber
<1>4. q \in Nat /\ q <= NReq /\ f <= FlowsUpTo[q] /\ q # 0
  BY <1>1, <1>3, FlowsUpToSums
<1>5. q \in Request /\ q - 1 \in Nat /\ q - 1 <= NReq /\ ~(q <= q - 1) /\ q - 1 \in 0 .. NReq
  BY <1>1, <1>4 DEF Request
<1>6. ~(f <= FlowsUpTo[q - 1]) /\ FlowsUpTo[q - 1] \in Nat
  BY <1>3, <1>5, FlowsUpToSums
<1>7. FlowsUpTo[q - 1] < f
  BY <1>1, <1>6
<1> QED
  BY <1>4, <1>5, <1>7, FlowReqIdIs

\* The flows of a request have different IDs.
LEMMA DistinctIds ==
  ASSUME MainsInv, Running, NEW j \in DOMAIN fpc, NEW k \in DOMAIN fpc,
         flowReqs[j].id = flowReqs[k].id
  PROVE  j = k
<1>1. /\ j \in Nat /\ flowReqs[j].id = FirstId + j
      /\ k \in Nat /\ flowReqs[k].id = FirstId + k
  BY FlowThread DEF MainsInv
<1>2. PICK first \in Nat : first = FirstId
  BY DEF MainsInv, IdInv
<1>3. first + j = first + k
  BY <1>1, <1>2
<1> QED
  BY <1>1, <1>2, <1>3

\* What a step of a flow's thread does to the flows that are being sent.
LEMMA SendingAfter ==
  ASSUME MainsInv, Running, NEW k \in DOMAIN fpc, NEW v, fpc' = [fpc EXCEPT ![k] = v],
         UNCHANGED flowReqs
  PROVE  /\ v \in Writing => Sending' = Sending \cup {flowReqs[k].id}
         /\ v \notin Writing => Sending' = Sending \ {flowReqs[k].id}
<1>1. DOMAIN fpc' = DOMAIN fpc /\ fpc'[k] = v /\ \A j \in DOMAIN fpc : j # k => fpc'[j] = fpc[j]
  <2>1. fpc = [j \in DOMAIN fpc |-> fpc[j]]
    BY FlowReqsType DEF MainsInv, TypeInv, MainType
  <2> QED
    BY <2>1
<1>2. \A j \in DOMAIN fpc : flowReqs[j].id = flowReqs[k].id => j = k
  BY DistinctIds
<1>3. Sending' = {flowReqs[j].id : j \in {i \in DOMAIN fpc : fpc'[i] \in Writing}}
  BY <1>1 DEF Sending
<1>4. ASSUME v \in Writing PROVE Sending' = Sending \cup {flowReqs[k].id}
  BY <1>1, <1>3, <1>4 DEF Sending
<1>5. ASSUME v \notin Writing PROVE Sending' = Sending \ {flowReqs[k].id}
  BY <1>1, <1>2, <1>3, <1>5 DEF Sending
<1> QED
  BY <1>4, <1>5

\* A flow whose stop time is about to be recorded was started.
LEMMA StampedFlow ==
  ASSUME TypeInv, NodeInv, FlowInv, NEW n \in Node, lpc[n] = "stamp"
  PROVE  /\ got[n] \in Nat \ {0} /\ got[n] \in started \ stopped /\ got[n] \notin Sending
         /\ got[n] \in Flow /\ At(n, 0, got[n])
<1>1. got[n] \in Nat \ {0}
  BY DEF TypeInv, ConnType, NodeInv, NodeOK
<1>2. At(n, 0, got[n])
  BY <1>1 DEF At, Pending
<1>3. started \subseteq Flow
  BY DEF TypeInv, MainType
<1> QED
  BY <1>1, <1>2, <1>3 DEF FlowInv

\* A step that moves no flow leaves them where they are.
LEMMA FlowInvStays ==
  ASSUME FlowInv, UNCHANGED <<breaks, started, stopped, reqStopped>>,
         \A n \in Node : \A i \in Nat : \A r \in Nat \ {0} : At(n, i, r)' <=> At(n, i, r),
         started \subseteq Nat \ {0}, Sending' = Sending,
         \A k \in DOMAIN fpc' : fpc'[k] = "mark" => flowReqs'[k].id \notin started
  PROVE  FlowInv'
<1>1. ASSUME NEW m \in Node, NEW n \in Node, NEW i \in Nat, NEW j \in Nat, NEW r \in Nat \ {0},
             At(m, i, r)', At(n, j, r)'
      PROVE  m = n /\ i = j
  <2>1. At(m, i, r) /\ At(n, j, r)
    BY <1>1
  <2> QED
    BY <2>1 DEF FlowInv
<1>2. \A n \in Node : \A i \in Nat : \A r \in Nat \ {0} :
         At(n, i, r)' => r \in started' \ stopped' /\ r \notin Sending'
  BY DEF FlowInv
<1>3. ASSUME breaks' = 0, NEW r \in started' \ stopped', r \notin Sending'
      PROVE  \E n \in Node : \E i \in Nat : At(n, i, r)'
  <2>1. r \in started \ stopped /\ r \notin Sending /\ breaks = 0 /\ r \in Nat \ {0}
    BY <1>3
  <2>2. PICK n \in Node, i \in Nat : At(n, i, r)
    BY <2>1 DEF FlowInv
  <2> QED
    BY <2>1, <2>2
<1> QED
  BY <1>1, <1>2, <1>3 DEF FlowInv

\* No step duplicates a flow, and none loses one while no connection fails.
LEMMA FlowInvStep ==
  ASSUME MainsInv, FlowsInv, [Next]_vars
  PROVE  FlowInv'
<1> USE DEF list, node, files, wire, main, poolVars, request, times, reqVars
<1>0. /\ TypeInv /\ MainInv /\ ReqInv /\ IdInv /\ ConnType /\ IsFiniteSet(leaked)
      /\ NodeInv /\ FilesInv /\ FlowInv /\ ExitInv
  BY DEF MainsInv, FlowsInv, TypeInv
<1>a. started \subseteq Nat \ {0} /\ started \subseteq Flow /\ Flow \subseteq Nat \ {0} /\ breaks \in Nat
  <2>1. Flow \subseteq Nat \ {0}
    BY DEF Flow
  <2> QED
    BY <1>0, <2>1, PoolAssumption DEF TypeInv, MainType, ConnType
<1>b. ASSUME UNCHANGED <<breaks, started, stopped, reqStopped, flowReqs>>,
             fpc' = fpc,
             \A n \in Node : \A i \in Nat : \A r \in Nat \ {0} : At(n, i, r)' <=> At(n, i, r)
      PROVE  FlowInv'
  <2>1. Sending' = Sending
    BY <1>b DEF Sending
  <2>2. \A k \in DOMAIN fpc' : fpc'[k] = "mark" => flowReqs'[k].id \notin started
    BY <1>0, <1>b DEF FlowInv
  <2> QED
    BY <1>0, <1>a, <1>b, <2>1, <2>2, FlowInvStays
<1>1. CASE MainQuiet
  <2>1. UNCHANGED <<breaks, started, stopped, reqStopped, lpc, got, toServer, toClient>>
    BY <1>1, MainQuietFrame
  <2>2. \A n \in Node : \A i \in Nat : \A r \in Nat \ {0} : At(n, i, r)' <=> At(n, i, r)
    BY <2>1, TransitSame, AtSame DEF Pending
  <2>3. /\ \A k \in DOMAIN fpc : fpc[k] = "done"
        /\ \A k \in DOMAIN fpc' : fpc'[k] = "mark" /\ flowReqs'[k].id \notin started
    BY <1>1, MainQuietThreads
  <2>4. Sending = {} /\ Sending' = {}
    BY <2>3 DEF Sending, Writing
  <2> QED
    BY <1>0, <1>a, <2>1, <2>2, <2>3, <2>4, FlowInvStays
<1>2. CASE ThreadQuiet
  <2>1. UNCHANGED <<breaks, started, stopped, reqStopped, flowReqs, fpc>>
    BY <1>0, <1>2, ThreadQuietSteps
  <2>2. \A n \in Node : Transit(n)' = Transit(n) /\ got'[n] = got[n] /\ (Pending(n)' <=> Pending(n))
    BY <1>0, <1>2, ThreadQuietSteps
  <2> QED
    BY <1>b, <2>1, <2>2, AtSame
<1>3. CASE (OpenFirst /\ UNCHANGED reqVars) \/ InsertOne
  <2>1. PICK s \in Server : AddNode(s, FALSE)
    <3>1. CASE OpenFirst
      BY <1>0, <3>1 DEF OpenFirst, TypeInv, MainType
    <3>2. CASE InsertOne
      <4>1. AddNode(srv, FALSE) /\ mpc = "insert"
        BY <3>2 DEF InsertOne
      <4> QED
        BY <1>0, <4>1, CurrentRequest DEF Preparing
    <3> QED
      BY <1>3, <3>1, <3>2
  <2>2. \A n \in Node : ~Exists(n) => lpc[n] = "none"
    BY <1>0 DEF NodeInv, NodeOK
  <2>3. /\ UNCHANGED breaks
        /\ \A n \in Node : Transit(n)' = Transit(n) /\ got'[n] = got[n] /\ (Pending(n)' <=> Pending(n))
    BY <1>0, <2>1, <2>2, FlowsAdded
  <2>4. UNCHANGED <<started, stopped, reqStopped, flowReqs, fpc>>
    BY <1>3 DEF InsertOne
  <2> QED
    BY <1>b, <2>3, <2>4, AtSame
<1>4. ASSUME NEW L \in SUBSET Node, \A n \in L : lpc[n] = "none",
             lpc' = [n \in Node |-> IF n \in L THEN "read" ELSE lpc[n]],
             UNCHANGED <<got, toServer, toClient, breaks, started, stopped, reqStopped, flowReqs, fpc>>
      PROVE  FlowInv'
  <2>1. \A n \in Node : Pending(n)' <=> Pending(n)
    BY <1>4 DEF Pending
  <2>2. \A n \in Node : Transit(n)' = Transit(n)
    BY <1>4, TransitSame
  <2> QED
    BY <1>4, <1>b, <2>1, <2>2, AtSame
<1>5. CASE SpawnListeners /\ UNCHANGED reqVars
  <2>1. \A n \in {m \in Node : Exists(m)} : lpc[n] = "none"
    BY <1>0, <1>5 DEF SpawnListeners, NodeInv, NodeOK
  <2>2. lpc' = [n \in Node |-> IF n \in {m \in Node : Exists(m)} THEN "read" ELSE lpc[n]]
    BY <1>5 DEF SpawnListeners
  <2>3. UNCHANGED <<got, toServer, toClient, breaks, started, stopped, reqStopped, flowReqs, fpc>>
    BY <1>5 DEF SpawnListeners
  <2> QED
    BY <1>4, <2>1, <2>2, <2>3
<1>6. CASE StartListeners
  <2> DEFINE L == {m \in Node : m[1] = srv /\ m[2] > oldTail /\ Exists(m)}
  <2>1. \A n \in L : lpc[n] = "none"
    BY <1>0, <1>6 DEF StartListeners, NodeInv, NodeOK
  <2>2. lpc' = [n \in Node |-> IF n \in L THEN "read" ELSE lpc[n]]
    BY <1>6 DEF StartListeners
  <2>3. UNCHANGED <<got, toServer, toClient, breaks, started, stopped, reqStopped, flowReqs, fpc>>
    BY <1>6 DEF StartListeners
  <2> QED
    BY <1>4, <2>1, <2>2, <2>3
<1>7. CASE ExitWrite /\ UNCHANGED reqVars
  <2>1. /\ mpc = "exitWrite" /\ UNCHANGED <<lpc, got, breaks, started, stopped, reqStopped, flowReqs, fpc>>
        /\ WriteSent(<<si, xi>>, 0) \/ UNCHANGED wire
    BY <1>7 DEF ExitWrite, WriteLost, WriteKills
  <2>2. CASE UNCHANGED wire
    BY <1>b, <2>1, <2>2, TransitSame, AtSame DEF Pending
  <2>3. CASE WriteSent(<<si, xi>>, 0)
    <3>1. <<si, xi>> \in Node
      BY <1>0, <2>1, ExitingNode
    <3>2. PICK m \in Node : toServer' = [toServer EXCEPT ![m] = Append(@, 0)]
      BY <1>0, <2>3, <3>1, WriteSentEffect
    <3>3. toClient' = toClient
      BY <2>3 DEF WriteSent
    <3>4. UNCHANGED <<lpc, got>> /\ 0 \in Nat
      BY <2>1
    <3>5. \A n \in Node : \A i \in Nat : \A r \in Nat :
             At(n, i, r)' <=> \/ At(n, i, r)
                              \/ n = m /\ i = Len(Transit(m)) + 1 /\ r = 0
      BY <1>0, <3>2, <3>3, <3>4, AtSend
    <3> QED
      BY <1>b, <2>1, <3>5
  <2> QED
    BY <2>1, <2>2, <2>3
<1>8. ASSUME NEW k \in DOMAIN fpc, Running, FlowMarkBusy(k) PROVE FlowInv'
  <2> DEFINE id == flowReqs[k].id
  <2>1. /\ fpc' = [fpc EXCEPT ![k] = "take"] /\ fpc[k] = "mark" /\ started' = started \cup {id}
        /\ UNCHANGED <<lpc, got, toServer, toClient, breaks, stopped, reqStopped, flowReqs>>
    BY <1>8 DEF FlowMarkBusy
  <2>2. id \notin started /\ id \in Flow /\ id \notin stopped
    BY <1>0, <1>8, <2>1, FlowThreadId DEF FlowInv
  <2>3. Sending' = Sending \cup {id}
    BY <1>8, <2>1, SendingAfter DEF Writing
  <2>4. \A n \in Node : \A i \in Nat : \A r \in Nat \ {0} : At(n, i, r)' <=> At(n, i, r)
    BY <2>1, TransitSame, AtSame DEF Pending
  <2>5. ASSUME NEW m \in Node, NEW n \in Node, NEW i \in Nat, NEW j \in Nat, NEW r \in Nat \ {0},
               At(m, i, r)', At(n, j, r)'
        PROVE  m = n /\ i = j
    <3>1. At(m, i, r) /\ At(n, j, r)
      BY <2>4, <2>5
    <3> QED
      BY <1>0, <3>1 DEF FlowInv
  <2>6. ASSUME NEW n \in Node, NEW i \in Nat, NEW r \in Nat \ {0}, At(n, i, r)'
        PROVE  r \in started' \ stopped' /\ r \notin Sending'
    <3>1. At(n, i, r)
      BY <2>4, <2>6
    <3>2. r \in started \ stopped /\ r \notin Sending
      BY <1>0, <3>1 DEF FlowInv
    <3> QED
      BY <2>1, <2>2, <2>3, <3>2
  <2>7. Sending' \subseteq started' \ stopped' /\ stopped' \subseteq started' /\ reqStopped' \subseteq Request
    BY <1>0, <2>1, <2>2, <2>3 DEF FlowInv
  <2>8. ASSUME NEW j \in DOMAIN fpc', fpc'[j] = "mark" PROVE flowReqs'[j].id \notin started'
    <3>1. j \in DOMAIN fpc /\ j # k /\ fpc[j] = "mark"
      BY <2>1, <2>8
    <3>2. flowReqs[j].id \notin started
      BY <1>0, <3>1 DEF FlowInv
    <3>3. flowReqs[j].id # id
      BY <1>8, <3>1, DistinctIds
    <3> QED
      BY <2>1, <3>2, <3>3
  <2>9. ASSUME breaks' = 0, NEW r \in started' \ stopped', r \notin Sending'
        PROVE  \E n \in Node : \E i \in Nat : At(n, i, r)'
    <3>1. r \in started \ stopped /\ r \notin Sending /\ breaks = 0
      BY <2>1, <2>3, <2>9
    <3>2. PICK n \in Node, i \in Nat : At(n, i, r)
      BY <1>0, <3>1 DEF FlowInv
    <3>3. r \in Nat \ {0}
      BY <1>a, <3>1
    <3> QED
      BY <2>4, <3>2, <3>3
  <2> HIDE DEF id
  <2> QED
    BY <2>5, <2>6, <2>7, <2>8, <2>9 DEF FlowInv
<1>9. ASSUME NEW k \in DOMAIN fpc, Running, FlowTakeAvailable(k) PROVE FlowInv'
  <2>1. /\ fpc' = [fpc EXCEPT ![k] = "write"] /\ fpc[k] = "take"
        /\ UNCHANGED <<lpc, got, toServer, toClient, breaks, started, stopped, reqStopped, flowReqs>>
    BY <1>9 DEF FlowTakeAvailable
  <2>2. Sending' = Sending
    <3>1. Sending' = Sending \cup {flowReqs[k].id}
      BY <1>9, <2>1, SendingAfter DEF Writing
    <3>2. flowReqs[k].id \in Sending
      BY <2>1 DEF Sending, Writing
    <3> QED
      BY <3>1, <3>2
  <2>3. \A n \in Node : \A i \in Nat : \A r \in Nat \ {0} : At(n, i, r)' <=> At(n, i, r)
    BY <2>1, TransitSame, AtSame DEF Pending
  <2>4. \A j \in DOMAIN fpc' : fpc'[j] = "mark" => flowReqs'[j].id \notin started
    BY <1>0, <2>1 DEF FlowInv
  <2> QED
    BY <1>0, <1>a, <2>1, <2>2, <2>3, <2>4, FlowInvStays
<1>10. ASSUME NEW k \in DOMAIN fpc, Running, FlowWrite(k) PROVE FlowInv'
  <2>1. PICK c \in Node : c = flowReqs[k].conn
    BY <1>0, <1>10, FlowThread
  <2>2. PICK id \in Nat \ {0} : id = flowReqs[k].id /\ id \in Flow
    BY <1>0, <1>a, <1>10, FlowThreadId
  <2>3. /\ UNCHANGED <<lpc, got, breaks, started, stopped, reqStopped, flowReqs>> /\ fpc[k] = "write"
        /\ \/ WriteSent(c, id) /\ fpc' = [fpc EXCEPT ![k] = "done"]
           \/ UNCHANGED wire /\ ~Connects(c) /\ (fpc' = fpc \/ fpc' = [fpc EXCEPT ![k] = "done"])
    BY <1>10, <2>1, <2>2 DEF FlowWrite, WriteLost, WriteKills
  <2>4. id \in Sending
    BY <2>2, <2>3 DEF Sending, Writing
  <2>5. id \in started \ stopped /\ \A n \in Node : \A i \in Nat : ~At(n, i, id)
    BY <1>0, <2>2, <2>4 DEF FlowInv
  <2>6. \A j \in DOMAIN fpc' : fpc'[j] = "mark" => j \in DOMAIN fpc /\ fpc[j] = "mark"
    BY <2>3
  <2>7. ASSUME fpc' = [fpc EXCEPT ![k] = "done"] PROVE Sending' = Sending \ {id}
    BY <1>10, <2>2, <2>3, <2>7, SendingAfter DEF Writing
  <2>8. CASE UNCHANGED wire /\ ~Connects(c)
    <3>1. breaks # 0
      BY <1>0, <1>10, <2>1, <2>8, WriteConnects DEF MainsInv
    <3>2. \A n \in Node : \A i \in Nat : \A r \in Nat \ {0} : At(n, i, r)' <=> At(n, i, r)
      BY <2>3, <2>8, TransitSame, AtSame DEF Pending
    <3>3. Sending' \subseteq Sending
      <4>1. CASE fpc' = fpc
        BY <2>3, <4>1 DEF Sending
      <4>2. CASE fpc' = [fpc EXCEPT ![k] = "done"]
        BY <2>7, <4>2
      <4> QED
        BY <2>3, <2>8, <4>1, <4>2 DEF WriteSent
    <3>4. ASSUME NEW m \in Node, NEW n \in Node, NEW i \in Nat, NEW j \in Nat, NEW r \in Nat \ {0},
                 At(m, i, r)', At(n, j, r)'
          PROVE  m = n /\ i = j
      <4>1. At(m, i, r) /\ At(n, j, r)
        BY <3>2, <3>4
      <4> QED
        BY <1>0, <4>1 DEF FlowInv
    <3>5. \A n \in Node : \A i \in Nat : \A r \in Nat \ {0} :
             At(n, i, r)' => r \in started' \ stopped' /\ r \notin Sending'
      BY <1>0, <2>3, <3>2, <3>3 DEF FlowInv
    <3>6. /\ Sending' \subseteq started' \ stopped' /\ stopped' \subseteq started'
          /\ reqStopped' \subseteq Request
          /\ \A j \in DOMAIN fpc' : fpc'[j] = "mark" => flowReqs'[j].id \notin started'
      BY <1>0, <2>3, <2>6, <3>3 DEF FlowInv
    <3> QED
      BY <2>3, <3>1, <3>4, <3>5, <3>6 DEF FlowInv
  <2>9. CASE WriteSent(c, id) /\ fpc' = [fpc EXCEPT ![k] = "done"]
    <3>1. PICK m \in Node : toServer' = [toServer EXCEPT ![m] = Append(@, id)]
      BY <1>0, <2>9, WriteSentEffect
    <3>2. toClient' = toClient
      BY <2>9 DEF WriteSent
    <3>3. PICK p \in Nat : p = Len(Transit(m)) + 1
      BY <1>0, TransitType
    <3>4. \A n \in Node : \A i \in Nat : \A r \in Nat :
             At(n, i, r)' <=> At(n, i, r) \/ (n = m /\ i = p /\ r = id)
      <4>1. UNCHANGED <<lpc, got>> /\ ConnType /\ id \in Nat
        BY <1>0, <2>3
      <4>2. \A n \in Node : \A i \in Nat : \A r \in Nat :
               At(n, i, r)' <=> \/ At(n, i, r)
                                \/ n = m /\ i = Len(Transit(m)) + 1 /\ r = id
        BY <3>1, <3>2, <4>1, AtSend
      <4> QED
        BY <3>3, <4>2
    <3>5. Sending' = Sending \ {id}
      BY <2>7, <2>9
    <3>6. ASSUME NEW a \in Node, NEW b \in Node, NEW i \in Nat, NEW j \in Nat, NEW r \in Nat \ {0},
                 At(a, i, r)', At(b, j, r)'
          PROVE  a = b /\ i = j
      <4>1. /\ At(a, i, r) \/ (a = m /\ i = p /\ r = id)
            /\ At(b, j, r) \/ (b = m /\ j = p /\ r = id)
        BY <3>4, <3>6
      <4>2. CASE r = id
        BY <2>5, <4>1, <4>2
      <4>3. CASE r # id
        BY <1>0, <4>1, <4>3 DEF FlowInv
      <4> QED
        BY <4>2, <4>3
    <3>7. ASSUME NEW n \in Node, NEW i \in Nat, NEW r \in Nat \ {0}, At(n, i, r)'
          PROVE  r \in started' \ stopped' /\ r \notin Sending'
      <4>1. At(n, i, r) \/ r = id
        BY <3>4, <3>7
      <4>2. r \in started \ stopped /\ r \notin Sending'
        BY <1>0, <2>5, <3>5, <4>1 DEF FlowInv
      <4> QED
        BY <2>3, <4>2
    <3>8. /\ Sending' \subseteq started' \ stopped' /\ stopped' \subseteq started'
          /\ reqStopped' \subseteq Request
          /\ \A j \in DOMAIN fpc' : fpc'[j] = "mark" => flowReqs'[j].id \notin started'
      BY <1>0, <2>3, <2>6, <3>5 DEF FlowInv
    <3>9. ASSUME breaks' = 0, NEW r \in started' \ stopped', r \notin Sending'
          PROVE  \E n \in Node : \E i \in Nat : At(n, i, r)'
      <4>1. r \in started \ stopped /\ breaks = 0 /\ r \in Nat
        BY <1>a, <2>3, <3>9
      <4>2. CASE r = id
        BY <2>2, <3>4, <4>2
      <4>3. CASE r # id
        <5>1. r \notin Sending
          BY <3>5, <3>9, <4>3
        <5>2. PICK n \in Node, i \in Nat : At(n, i, r)
          BY <1>0, <4>1, <5>1 DEF FlowInv
        <5> QED
          BY <3>4, <4>1, <5>2
      <4> QED
        BY <4>2, <4>3
    <3> QED
      BY <3>6, <3>7, <3>8, <3>9 DEF FlowInv
  <2> QED
    BY <2>3, <2>8, <2>9
<1>11. ASSUME NEW n \in Node, ListenRead(n), UNCHANGED reqVars PROVE FlowInv'
  <2>1. UNCHANGED <<breaks, started, stopped, reqStopped, flowReqs, fpc>>
    BY <1>11 DEF ListenRead
  <2>2. /\ \A m \in Node \ {n} : \A i \in Nat : \A r \in Nat : At(m, i, r)' <=> At(m, i, r)
        /\ \A i \in Nat : \A r \in Nat : At(n, i, r)' <=> At(n, i + 1, r)
        /\ \A r \in Nat : ~At(n, 0, r)
    BY <1>0, <1>11, AtRead
  <2>3. Sending' = Sending
    BY <2>1 DEF Sending
  <2>4. ASSUME NEW a \in Node, NEW b \in Node, NEW i \in Nat, NEW j \in Nat, NEW r \in Nat \ {0},
               At(a, i, r)', At(b, j, r)'
        PROVE  a = b /\ i = j
    <3>1. PICK p \in Nat : At(a, p, r) /\ p = IF a = n THEN i + 1 ELSE i
      BY <2>2, <2>4
    <3>2. PICK q \in Nat : At(b, q, r) /\ q = IF b = n THEN j + 1 ELSE j
      BY <2>2, <2>4
    <3>3. a = b /\ p = q
      BY <1>0, <3>1, <3>2 DEF FlowInv
    <3> QED
      BY <3>1, <3>2, <3>3
  <2>5. ASSUME NEW m \in Node, NEW i \in Nat, NEW r \in Nat \ {0}, At(m, i, r)'
        PROVE  r \in started' \ stopped' /\ r \notin Sending'
    <3>1. PICK p \in Nat : At(m, p, r)
      BY <2>2, <2>5
    <3> QED
      BY <1>0, <2>1, <2>3, <3>1 DEF FlowInv
  <2>6. ASSUME breaks' = 0, NEW r \in started' \ stopped', r \notin Sending'
        PROVE  \E m \in Node : \E i \in Nat : At(m, i, r)'
    <3>1. r \in started \ stopped /\ r \notin Sending /\ breaks = 0 /\ r \in Nat
      BY <1>a, <2>1, <2>3, <2>6
    <3>2. PICK m \in Node, i \in Nat : At(m, i, r)
      BY <1>0, <3>1 DEF FlowInv
    <3>3. CASE m = n
      <4>1. i # 0 /\ i - 1 \in Nat /\ (i - 1) + 1 = i
        BY <2>2, <3>1, <3>2, <3>3
      <4> QED
        BY <2>2, <3>1, <3>2, <3>3, <4>1
    <3>4. CASE m # n
      BY <2>2, <3>1, <3>2, <3>4
    <3> QED
      BY <3>3, <3>4
  <2>7. /\ Sending' \subseteq started' \ stopped' /\ stopped' \subseteq started'
        /\ reqStopped' \subseteq Request
        /\ \A j \in DOMAIN fpc' : fpc'[j] = "mark" => flowReqs'[j].id \notin started'
    BY <1>0, <2>1, <2>3 DEF FlowInv
  <2> QED
    BY <2>4, <2>5, <2>6, <2>7 DEF FlowInv
<1>12. ASSUME NEW n \in Node, (ListenFail(n) \/ ListenAccount(n)) /\ UNCHANGED reqVars PROVE FlowInv'
  <2>1. UNCHANGED <<breaks, started, stopped, reqStopped, flowReqs, fpc, got, toServer, toClient>>
    BY <1>12 DEF ListenFail, ListenAccount
  <2>2. \A m \in Node : got[m] # 0 => (Pending(m)' <=> Pending(m))
    BY <1>0, <1>12 DEF ConnType, Pending, ListenFail, ListenAccount
  <2> QED
    BY <1>b, <2>1, <2>2, TransitSame, AtSame
<1>13. ASSUME NEW n \in Node, ListenStamp(n) PROVE FlowInv'
  <2>1. PICK g \in Nat \ {0} : /\ g = got[n] /\ g \in started \ stopped /\ g \notin Sending
                               /\ g \in Flow /\ At(n, 0, g)
    BY <1>0, <1>13, StampedFlow DEF ListenStamp, ListenStamped
  <2>2. /\ lpc[n] = "stamp" /\ stopped' = stopped \cup {g}
        /\ reqStopped' = reqStopped \cup {FlowReqId[g]}
        /\ UNCHANGED <<toServer, toClient, got, breaks, started, flowReqs, fpc>>
        /\ lpc'[n] = "read" /\ \A m \in Node \ {n} : lpc'[m] = lpc[m]
    BY <1>0, <1>13, <2>1 DEF ListenStamp, ListenStamped, ConnType
  <2>3. \A m \in Node : Transit(m)' = Transit(m)
    BY <2>2, TransitSame
  <2>4. ~Pending(n)' /\ Sending' = Sending
    BY <2>2 DEF Pending, Sending
  <2>5. ASSUME NEW m \in Node, NEW i \in Nat, NEW r \in Nat \ {0}
        PROVE  At(m, i, r)' <=> At(m, i, r) /\ r # g
    <3>1. At(m, i, r) /\ r = g => m = n /\ i = 0
      BY <1>0, <2>1 DEF FlowInv
    <3>2. CASE m = n /\ i = 0
      BY <2>1, <2>4, <3>2 DEF At
    <3>3. CASE m # n \/ i # 0
      <4>1. At(m, i, r)' <=> At(m, i, r)
        BY <2>2, <2>3, <3>3 DEF At, Places, Pending
      <4> QED
        BY <3>1, <3>3, <4>1
    <3> QED
      BY <3>2, <3>3
  <2>6. ASSUME NEW a \in Node, NEW b \in Node, NEW i \in Nat, NEW j \in Nat, NEW r \in Nat \ {0},
               At(a, i, r)', At(b, j, r)'
        PROVE  a = b /\ i = j
    <3>1. At(a, i, r) /\ At(b, j, r)
      BY <2>5, <2>6
    <3> QED
      BY <1>0, <3>1 DEF FlowInv
  <2>7. ASSUME NEW m \in Node, NEW i \in Nat, NEW r \in Nat \ {0}, At(m, i, r)'
        PROVE  r \in started' \ stopped' /\ r \notin Sending'
    <3>1. At(m, i, r) /\ r # g
      BY <2>5, <2>7
    <3> QED
      BY <1>0, <2>2, <2>4, <3>1 DEF FlowInv
  <2>8. ASSUME breaks' = 0, NEW r \in started' \ stopped', r \notin Sending'
        PROVE  \E m \in Node : \E i \in Nat : At(m, i, r)'
    <3>1. r \in started \ stopped /\ r # g /\ breaks = 0 /\ r \notin Sending /\ r \in Nat \ {0}
      BY <1>a, <2>2, <2>4, <2>8
    <3>2. PICK m \in Node, i \in Nat : At(m, i, r)
      BY <1>0, <3>1 DEF FlowInv
    <3> QED
      BY <2>5, <3>1, <3>2
  <2>9. /\ Sending' \subseteq started' \ stopped' /\ stopped' \subseteq started'
        /\ \A j \in DOMAIN fpc' : fpc'[j] = "mark" => flowReqs'[j].id \notin started'
    BY <1>0, <2>1, <2>2, <2>4, ZenonT(30) DEF FlowInv
  <2>10. reqStopped' \subseteq Request
    BY <1>0, <2>1, <2>2, FlowHasRequest DEF FlowInv
  <2> QED
    BY <2>6, <2>7, <2>8, <2>9, <2>10 DEF FlowInv
<1>14. ASSUME NEW n \in Node, Break(n), UNCHANGED reqVars PROVE FlowInv'
  <2>1. breaks' = breaks + 1 /\ UNCHANGED <<started, stopped, reqStopped, flowReqs, fpc>>
    BY <1>14 DEF Break
  <2>2. \A m \in Node : \A i \in Nat : \A r \in Nat : At(m, i, r)' => At(m, i, r)
    BY <1>0, <1>14, AtBreak
  <2>3. Sending' = Sending /\ breaks' # 0
    BY <1>a, <2>1 DEF Sending
  <2>4. ASSUME NEW a \in Node, NEW b \in Node, NEW i \in Nat, NEW j \in Nat, NEW r \in Nat \ {0},
               At(a, i, r)', At(b, j, r)'
        PROVE  a = b /\ i = j
    <3>1. At(a, i, r) /\ At(b, j, r)
      BY <2>2, <2>4
    <3> QED
      BY <1>0, <3>1 DEF FlowInv
  <2>5. ASSUME NEW m \in Node, NEW i \in Nat, NEW r \in Nat \ {0}, At(m, i, r)'
        PROVE  r \in started' \ stopped' /\ r \notin Sending'
    <3>1. At(m, i, r)
      BY <2>2, <2>5
    <3> QED
      BY <1>0, <2>1, <2>3, <3>1 DEF FlowInv
  <2>6. /\ Sending' \subseteq started' \ stopped' /\ stopped' \subseteq started'
        /\ reqStopped' \subseteq Request
        /\ \A j \in DOMAIN fpc' : fpc'[j] = "mark" => flowReqs'[j].id \notin started'
    BY <1>0, <2>1, <2>3 DEF FlowInv
  <2> QED
    BY <2>3, <2>4, <2>5, <2>6 DEF FlowInv
<1> QED
  BY <1>1, <1>2, <1>3, <1>5, <1>6, <1>7, <1>8, <1>9, <1>10, <1>11, <1>12, <1>13, <1>14, StepKinds

-----------------------------------------------------------------------------
(* ExitInv.                                                                *)

\* A step that only takes flows away, and ends no listener, keeps them so.
LEMMA ExitInvStays ==
  ASSUME ExitInv, breaks' = 0 => breaks = 0, RunPhase' => RunPhase,
         mpc' # "killed" => mpc # "killed",
         \A n \in Node : \A i, r \in Nat : At(n, i, r)' => At(n, i, r),
         \A n \in Node :
            lpc'[n] \in Closing =>
               /\ lpc[n] \in Closing
               /\ ~up[n] /\ toClient[n] = <<>> => ~up'[n] /\ toClient'[n] = <<>>,
         mpc' # "killed" => \A n \in Node : ExitSent(n) => ExitSent(n)'
  PROVE  ExitInv'
<1>1. ASSUME RunPhase', NEW n \in Node
      PROVE  /\ \A i \in Nat : ~At(n, i, 0)'
             /\ lpc'[n] \in Closing => ~up'[n] /\ toClient'[n] = <<>>
  BY <1>1 DEF ExitInv
<1>2. ASSUME breaks' = 0, mpc' # "killed", NEW n \in Node, NEW i \in Nat, At(n, i, 0)'
      PROVE  ExitSent(n)' /\ \A j, r \in Nat : j > i => ~At(n, j, r)'
  BY <1>2 DEF ExitInv
<1>3. ASSUME breaks' = 0, mpc' # "killed", NEW n \in Node, lpc'[n] \in Closing
      PROVE  ExitSent(n)' /\ \A j, r \in Nat : ~At(n, j, r)'
  BY <1>3 DEF ExitInv
<1> QED
  BY <1>1, <1>2, <1>3 DEF ExitInv, Closing

\* While requests are generated a listener ends only on a failed connection.
LEMMA ClosedOnFailure ==
  ASSUME ConnType, NodeInv, ExitInv, RunPhase, NEW n \in Node, lpc[n] \in Closing
  PROVE  breaks # 0
<1>1. ~up[n] /\ lpc[n] # "none"
  BY DEF ExitInv, Closing
<1>2. breaks > 0
  BY <1>1 DEF NodeInv, NodeOK
<1> QED
  BY <1>2, PoolAssumption DEF ConnType

\* No step puts a flow behind a termination flow or ends a listener early.
LEMMA ExitInvStep ==
  ASSUME MainsInv, FlowsInv, [Next]_vars
  PROVE  ExitInv'
<1> USE DEF list, node, files, wire, main, poolVars, request, times, reqVars
<1>0. /\ TypeInv /\ MainInv /\ ReqInv /\ IdInv /\ ConnType /\ IsFiniteSet(leaked)
      /\ NodeInv /\ FilesInv /\ FlowInv /\ ExitInv
  BY DEF MainsInv, FlowsInv, TypeInv
<1>a. /\ \A n \in Node : n[1] \in Nat /\ n[2] \in Nat /\ n[2] >= 1
      /\ si \in Nat /\ xi \in Nat /\ breaks \in Nat
  <2>1. \A n \in Node : n[1] \in Nat /\ n[2] \in Nat /\ n[2] >= 1
    BY <1>0, NodeNumbers, NodeParts
  <2>2. breaks \in Nat
    BY <1>0, PoolAssumption DEF ConnType
  <2> QED
    BY <1>0, <2>1, <2>2, MainNumbers
<1>1. CASE MainQuiet
  <2>1. /\ UNCHANGED <<lpc, got, up, toServer, toClient, breaks>>
        /\ Running /\ (RunPhase' => RunPhase)
    BY <1>1, MainQuietFrame
  <2>2. \A n \in Node : \A i, r \in Nat : At(n, i, r)' => At(n, i, r)
    BY <2>1, TransitSame, AtShrinks DEF Pending
  <2>3. mpc' # "killed" => \A n \in Node : ExitSent(n) => ExitSent(n)'
    BY <1>1, MainQuietExits
  <2>4. mpc # "killed"
    BY <2>1 DEF Running
  <2> QED
    BY <1>0, <2>1, <2>2, <2>3, <2>4, ExitInvStays
<1>2. CASE ThreadQuiet
  <2>1. UNCHANGED <<up, got, breaks, mpc, si, xi>>
    BY <1>0, <1>2, ThreadQuietSteps
  <2>2. \A n \in Node : /\ Transit(n)' = Transit(n)
                        /\ Pending(n)' <=> Pending(n)
                        /\ lpc'[n] \in Closing <=> lpc[n] \in Closing
                        /\ ~up[n] => toClient'[n] = toClient[n]
    BY <1>0, <1>2, ThreadQuietSteps
  <2>3. \A n \in Node : \A i, r \in Nat : At(n, i, r)' => At(n, i, r)
    BY <2>1, <2>2, AtShrinks
  <2>4. /\ \A n \in Node : ExitSent(n) => ExitSent(n)'
        /\ RunPhase' => RunPhase
    BY <2>1 DEF ExitSent, RunPhase
  <2> QED
    BY <1>0, <2>1, <2>2, <2>3, <2>4, ExitInvStays
<1>3. CASE OpenFirst \/ InsertOne
  <2>1. /\ RunPhase /\ mpc # "killed" /\ mpc' \in {"open", "spawn", "insert"}
        /\ \E s \in Server : AddNode(s, FALSE)
    <3>1. CASE OpenFirst
      BY <1>0, <3>1 DEF OpenFirst, TypeInv, MainType, RunPhase
    <3>2. CASE InsertOne
      <4>1. AddNode(srv, FALSE) /\ mpc = "insert" /\ mpc' = mpc
        BY <3>2 DEF InsertOne
      <4> QED
        BY <1>0, <4>1, CurrentRequest DEF Preparing, RunPhase
    <3> QED
      BY <1>3, <3>1, <3>2
  <2>2. PICK s \in Server : AddNode(s, FALSE)
    BY <2>1
  <2>3. PICK k \in Node : k = <<s, len[s] + 1>>
    BY <1>0, <2>2, AddNodeEffect
  <2>4. /\ lpc'[k] = "none" /\ UNCHANGED <<breaks, toClient>>
        /\ \A n \in Node : n # k => lpc'[n] = lpc[n] /\ up'[n] = up[n]
    BY <1>0, <2>2, <2>3, AddNodeEffect, ZenonT(60)
  <2>5. \A n \in Node : \A i, r \in Nat : At(n, i, r)' => At(n, i, r)
    BY <1>0, <2>2, FlowsAdded, AtShrinks DEF NodeInv, NodeOK
  <2>6. \A n \in Node : lpc'[n] \in Closing => lpc[n] \in Closing /\ (~up[n] => ~up'[n])
    BY <2>4 DEF Closing
  <2>7. \A n \in Node : ~ExitSent(n)
    BY <2>1 DEF ExitSent, RunPhase
  <2> QED
    BY <1>0, <2>1, <2>4, <2>5, <2>6, <2>7, ExitInvStays
<1>4. CASE SpawnListeners \/ StartListeners
  <2>1. /\ RunPhase /\ mpc # "killed" /\ UNCHANGED <<got, up, toServer, toClient, breaks>>
        /\ \A n \in Node : lpc'[n] = lpc[n] \/ lpc'[n] = "read"
    BY <1>4 DEF SpawnListeners, StartListeners, RunPhase
  <2>2. \A n \in Node : Pending(n)' => Pending(n)
    BY <2>1 DEF Pending
  <2>3. \A n \in Node : \A i, r \in Nat : At(n, i, r)' => At(n, i, r)
    BY <2>1, <2>2, TransitSame, AtShrinks
  <2>4. \A n \in Node : lpc'[n] \in Closing => lpc[n] \in Closing
    BY <2>1 DEF Closing
  <2>5. \A n \in Node : ~ExitSent(n)
    BY <2>1 DEF ExitSent, RunPhase
  <2> QED
    BY <1>0, <2>1, <2>3, <2>4, <2>5, ExitInvStays
<1>5. CASE ExitWrite
  <2>1. /\ mpc = "exitWrite" /\ UNCHANGED <<node, breaks>> /\ ~RunPhase'
        /\ \/ WriteSent(<<si, xi>>, 0) /\ mpc' = "exit" /\ si' = si /\ xi' = xi + 1
           \/ ~Connects(<<si, xi>>)
    BY <1>5 DEF ExitWrite, WriteLost, WriteKills, RunPhase
  <2> SUFFICES ASSUME breaks = 0 PROVE ExitInv'
    BY <2>1 DEF ExitInv
  <2>2. PICK n \in Node : n = <<si, xi>> /\ Exists(n) /\ ~ExitSent(n)
    BY <1>0, <2>1, ExitingNode
  <2>3. sock[n] = "open" /\ up[n] /\ lpc[n] \notin Closing
    BY <1>0, <2>1, <2>2, OpenUntilExit
  <2>4. WriteSent(n, 0) /\ mpc' = "exit" /\ si' = si /\ xi' = xi + 1
    BY <2>1, <2>2, <2>3 DEF Connects, Holds
  <2>5. PICK k \in Nat : k = Len(Transit(n)) + 1
    BY <1>0, TransitType
  <2>6. /\ \A m \in Node : \A i, r \in Nat :
              At(m, i, r)' <=> At(m, i, r) \/ (m = n /\ i = k /\ r = 0)
        /\ \A i, r \in Nat : At(n, i, r) => i < k
    BY <1>0, <2>1, <2>3, <2>4, <2>5, WrittenAt
  <2>7. ExitSent(n)' /\ \A m \in Node : ExitSent(m) => ExitSent(m)'
    BY <1>a, <2>1, <2>2, <2>4 DEF ExitSent
  <2>8. ASSUME NEW m \in Node, NEW i \in Nat, At(m, i, 0)'
        PROVE  ExitSent(m)' /\ \A j, r \in Nat : j > i => ~At(m, j, r)'
    <3>1. CASE At(m, i, 0)
      <4>1. ExitSent(m) /\ m # n /\ \A j, r \in Nat : j > i => ~At(m, j, r)
        BY <1>0, <2>1, <2>2, <3>1 DEF ExitInv
      <4> QED
        BY <2>6, <2>7, <4>1
    <3>2. CASE m = n /\ i = k
      <4>1. ASSUME NEW j \in Nat, NEW r \in Nat, j > k PROVE ~At(n, j, r)'
        BY <2>6, <4>1
      <4> QED
        BY <2>7, <3>2, <4>1
    <3> QED
      BY <2>6, <2>8, <3>1, <3>2
  <2>9. ASSUME NEW m \in Node, lpc'[m] \in Closing
        PROVE  ExitSent(m)' /\ \A j, r \in Nat : ~At(m, j, r)'
    <3>1. m # n /\ lpc[m] \in Closing
      BY <2>1, <2>3, <2>9
    <3>2. ExitSent(m) /\ \A j, r \in Nat : ~At(m, j, r)
      BY <1>0, <2>1, <3>1 DEF ExitInv
    <3> QED
      BY <2>6, <2>7, <3>1, <3>2
  <2> QED
    BY <2>1, <2>8, <2>9 DEF ExitInv, Closing
<1>6. ASSUME NEW k \in DOMAIN fpc, Running, FlowMarkBusy(k) \/ FlowTakeAvailable(k) PROVE ExitInv'
  <2>1. /\ UNCHANGED <<lpc, got, up, toServer, toClient, breaks, mpc>>
        /\ mpc = "flows" /\ RunPhase
    BY <1>0, <1>6, FlowThread DEF FlowMarkBusy, FlowTakeAvailable, RunPhase
  <2>2. \A n \in Node : \A i, r \in Nat : At(n, i, r)' => At(n, i, r)
    BY <2>1, TransitSame, AtShrinks DEF Pending
  <2>3. \A n \in Node : ~ExitSent(n)
    BY <2>1 DEF ExitSent
  <2> QED
    BY <1>0, <2>1, <2>2, <2>3, ExitInvStays
<1>7. ASSUME NEW k \in DOMAIN fpc, Running, FlowWrite(k) PROVE ExitInv'
  <2>1. PICK c \in Node : c = flowReqs[k].conn
    BY <1>0, <1>7, FlowThread
  <2>2. PICK id \in Nat \ {0} : id = flowReqs[k].id
    <3>1. Flow \subseteq Nat \ {0}
      BY DEF Flow
    <3> QED
      BY <1>0, <1>7, <3>1, FlowThreadId
  <2>3. /\ UNCHANGED <<node, breaks, up, toClient>> /\ (mpc' = mpc \/ mpc' = "killed")
        /\ WriteSent(c, id) \/ UNCHANGED wire
    BY <1>7, <2>1, <2>2 DEF FlowWrite, WriteLost, WriteKills, WriteSent
  <2>4. mpc = "flows" /\ RunPhase
    BY <1>0, <1>7, FlowThread DEF RunPhase
  <2>5. \A n \in Node : \A i \in Nat : ~At(n, i, 0)'
    <3>1. \A n \in Node : \A i \in Nat : ~At(n, i, 0)
      BY <1>0, <2>4 DEF ExitInv
    <3>2. CASE UNCHANGED wire
      <4>1. \A n \in Node : \A i, r \in Nat : At(n, i, r)' => At(n, i, r)
        BY <2>3, <3>2, TransitSame, AtShrinks DEF Pending
      <4> QED
        BY <3>1, <4>1
    <3>3. CASE WriteSent(c, id)
      <4>1. PICK m \in Node : toServer' = [toServer EXCEPT ![m] = Append(@, id)]
        BY <1>0, <3>3, WriteSentEffect
      <4>2. UNCHANGED <<lpc, got, toClient>> /\ id \in Nat
        BY <2>3
      <4>3. \A n \in Node : \A i \in Nat : \A r \in Nat :
               At(n, i, r)' <=> \/ At(n, i, r)
                                \/ n = m /\ i = Len(Transit(m)) + 1 /\ r = id
        BY <1>0, <4>1, <4>2, AtSend
      <4>4. 0 \in Nat /\ id # 0
        BY <2>2
      <4> QED
        BY <3>1, <4>3, <4>4
    <3> QED
      BY <2>3, <3>2, <3>3
  <2>6. \A n \in Node : lpc'[n] \in Closing => ~up'[n] /\ toClient'[n] = <<>> /\ breaks' # 0
    <3>1. ASSUME NEW n \in Node, lpc[n] \in Closing
          PROVE  ~up[n] /\ toClient[n] = <<>> /\ breaks # 0
      BY <1>0, <2>4, <3>1, ClosedOnFailure DEF ExitInv, Closing
    <3> QED
      BY <2>3, <3>1
  <2> QED
    BY <2>5, <2>6 DEF ExitInv, Closing
<1>8. ASSUME NEW n \in Node, ListenRead(n), UNCHANGED reqVars PROVE ExitInv'
  <2>1. /\ \A m \in Node \ {n} : \A i \in Nat : \A r \in Nat : At(m, i, r)' <=> At(m, i, r)
        /\ \A i \in Nat : \A r \in Nat : At(n, i, r)' <=> At(n, i + 1, r)
    BY <1>0, <1>8, AtRead
  <2>2. /\ UNCHANGED <<main, up, breaks>>
        /\ lpc'[n] \notin Closing
        /\ \A m \in Node \ {n} : lpc'[m] = lpc[m] /\ toClient'[m] = toClient[m]
    BY <1>0, <1>8 DEF ListenRead, ConnType, Closing
  <2>3. \A m \in Node : ExitSent(m)' <=> ExitSent(m)
    BY <2>2 DEF ExitSent
  <2>4. ASSUME RunPhase', NEW m \in Node
        PROVE  /\ \A i \in Nat : ~At(m, i, 0)'
               /\ lpc'[m] \in Closing => ~up'[m] /\ toClient'[m] = <<>>
    <3>1. RunPhase
      BY <2>2, <2>4 DEF RunPhase
    <3> QED
      BY <1>0, <2>1, <2>2, <3>1 DEF ExitInv
  <2>5. ASSUME breaks' = 0, mpc' # "killed", NEW m \in Node, NEW i \in Nat, At(m, i, 0)'
        PROVE  ExitSent(m)' /\ \A j, r \in Nat : j > i => ~At(m, j, r)'
    <3>1. CASE m = n
      <4>1. ExitSent(n) /\ \A j, r \in Nat : j > i + 1 => ~At(n, j, r)
        <5>1. At(n, i + 1, 0) /\ i + 1 \in Nat /\ breaks = 0 /\ mpc # "killed"
          BY <2>1, <2>2, <2>5, <3>1
        <5> QED
          BY <1>0, <5>1 DEF ExitInv
      <4>2. ASSUME NEW j \in Nat, NEW r \in Nat, j > i PROVE ~At(n, j, r)'
        BY <2>1, <4>1, <4>2
      <4> QED
        BY <2>3, <3>1, <4>1, <4>2
    <3>2. CASE m # n
      <4>1. ExitSent(m) /\ \A j, r \in Nat : j > i => ~At(m, j, r)
        BY <1>0, <2>1, <2>2, <2>5, <3>2 DEF ExitInv
      <4> QED
        BY <2>1, <2>3, <3>2, <4>1
    <3> QED
      BY <3>1, <3>2
  <2>6. ASSUME breaks' = 0, mpc' # "killed", NEW m \in Node, lpc'[m] \in Closing
        PROVE  ExitSent(m)' /\ \A j, r \in Nat : ~At(m, j, r)'
    <3>1. m # n /\ lpc[m] \in Closing
      BY <2>2, <2>6
    <3>2. ExitSent(m) /\ \A j, r \in Nat : ~At(m, j, r)
      BY <1>0, <2>2, <2>6, <3>1 DEF ExitInv
    <3> QED
      BY <2>1, <2>3, <3>1, <3>2
  <2> QED
    BY <2>4, <2>5, <2>6 DEF ExitInv, Closing
<1>9. ASSUME NEW n \in Node, ListenFail(n), UNCHANGED reqVars PROVE ExitInv'
  <2>1. /\ lpc[n] = "read" /\ toClient[n] = <<>> /\ ~up[n]
        /\ UNCHANGED <<got, up, toServer, toClient, breaks, main>>
        /\ \A m \in Node \ {n} : lpc'[m] = lpc[m]
        /\ lpc'[n] = "close"
    BY <1>0, <1>9 DEF ListenFail, ConnType
  <2>2. breaks # 0
    BY <1>0, <1>a, <2>1 DEF NodeInv, NodeOK
  <2>3. \A m \in Node : Pending(m)' => Pending(m)
    BY <2>1 DEF Pending
  <2>4. \A m \in Node : \A i, r \in Nat : At(m, i, r)' => At(m, i, r)
    BY <2>1, <2>3, TransitSame, AtShrinks
  <2>5. ASSUME RunPhase', NEW m \in Node
        PROVE  /\ \A i \in Nat : ~At(m, i, 0)'
               /\ lpc'[m] \in Closing => ~up'[m] /\ toClient'[m] = <<>>
    <3>1. RunPhase
      BY <2>1, <2>5 DEF RunPhase
    <3> QED
      BY <1>0, <2>1, <2>4, <3>1 DEF ExitInv
  <2> QED
    BY <2>1, <2>2, <2>5 DEF ExitInv, Closing
<1>10. ASSUME NEW n \in Node, ListenAccount(n), UNCHANGED reqVars PROVE ExitInv'
  <2>1. /\ lpc[n] = "account" /\ UNCHANGED <<got, up, toServer, toClient, breaks, main>>
        /\ \A m \in Node \ {n} : lpc'[m] = lpc[m]
        /\ lpc'[n] = IF got[n] # 0 THEN "stamp" ELSE "close"
    BY <1>0, <1>10 DEF ListenAccount, ConnType
  <2>2. \A m \in Node : Pending(m)' => Pending(m)
    BY <2>1 DEF Pending
  <2>3. \A m \in Node : \A i, r \in Nat : At(m, i, r)' => At(m, i, r)
    BY <2>1, <2>2, TransitSame, AtShrinks
  <2>4. \A m \in Node : ExitSent(m)' <=> ExitSent(m)
    BY <2>1 DEF ExitSent
  <2>5. CASE got[n] # 0
    <3>1. \A m \in Node : lpc'[m] \in Closing => lpc[m] \in Closing
      BY <2>1, <2>5 DEF Closing
    <3>2. RunPhase' => RunPhase
      BY <2>1 DEF RunPhase
    <3> QED
      BY <1>0, <2>1, <2>3, <2>4, <3>1, <3>2, ExitInvStays
  <2>6. CASE got[n] = 0
    <3>1. At(n, 0, 0) /\ ~Pending(n)'
      BY <2>1, <2>6 DEF At, Pending
    <3>2. ~RunPhase
      BY <1>0, <3>1 DEF ExitInv
    <3>3. breaks = 0 /\ mpc # "killed" => ExitSent(n) /\ \A j, r \in Nat : j > 0 => ~At(n, j, r)
      BY <1>0, <3>1 DEF ExitInv
    <3>4. ASSUME breaks' = 0, mpc' # "killed", NEW m \in Node, NEW i \in Nat, At(m, i, 0)'
          PROVE  ExitSent(m)' /\ \A j, r \in Nat : j > i => ~At(m, j, r)'
      <4>1. At(m, i, 0) /\ breaks = 0 /\ mpc # "killed"
        BY <2>1, <2>3, <3>4
      <4>2. ExitSent(m) /\ \A j, r \in Nat : j > i => ~At(m, j, r)
        BY <1>0, <4>1 DEF ExitInv
      <4> QED
        BY <2>3, <2>4, <4>2
    <3>5. ASSUME breaks' = 0, mpc' # "killed", NEW m \in Node, lpc'[m] \in Closing
          PROVE  ExitSent(m)' /\ \A j, r \in Nat : ~At(m, j, r)'
      <4>1. CASE m # n
        <5>1. ExitSent(m) /\ \A j, r \in Nat : ~At(m, j, r)
          BY <1>0, <2>1, <3>5, <4>1 DEF ExitInv
        <5> QED
          BY <2>3, <2>4, <5>1
      <4>2. CASE m = n
        <5>1. \A r \in Nat : ~At(n, 0, r)'
          BY <3>1 DEF At
        <5>2. ASSUME NEW j \in Nat, NEW r \in Nat PROVE ~At(n, j, r)'
          BY <2>1, <2>3, <3>3, <3>5, <5>1
        <5> QED
          BY <2>1, <2>4, <3>3, <3>5, <4>2, <5>2
      <4> QED
        BY <4>1, <4>2
    <3>6. ~RunPhase'
      BY <2>1, <3>2 DEF RunPhase
    <3> QED
      BY <3>4, <3>5, <3>6 DEF ExitInv, Closing
  <2> QED
    BY <2>5, <2>6
<1>11. ASSUME NEW n \in Node, ListenStamp(n) PROVE ExitInv'
  <2>1. /\ UNCHANGED <<got, up, toServer, toClient, breaks, mpc, si, xi>>
        /\ lpc'[n] = "read" /\ \A m \in Node \ {n} : lpc'[m] = lpc[m]
    BY <1>0, <1>11 DEF ListenStamp, ListenStamped, ConnType
  <2>2. \A m \in Node : Pending(m)' => Pending(m)
    BY <2>1 DEF Pending
  <2>3. \A m \in Node : \A i, r \in Nat : At(m, i, r)' => At(m, i, r)
    BY <2>1, <2>2, TransitSame, AtShrinks
  <2>4. \A m \in Node : lpc'[m] \in Closing => lpc[m] \in Closing
    BY <2>1 DEF Closing
  <2>5. (RunPhase' => RunPhase) /\ \A m \in Node : ExitSent(m) => ExitSent(m)'
    BY <2>1 DEF RunPhase, ExitSent
  <2> QED
    BY <1>0, <2>1, <2>3, <2>4, <2>5, ExitInvStays
<1>12. ASSUME NEW n \in Node, Break(n), UNCHANGED reqVars PROVE ExitInv'
  <2>1. /\ breaks' = breaks + 1 /\ UNCHANGED <<lpc, main>> /\ up[n]
        /\ \A m \in Node \ {n} : up'[m] = up[m] /\ toClient'[m] = toClient[m]
    BY <1>0, <1>12 DEF Break, ConnType
  <2>2. \A m \in Node : \A i \in Nat : \A r \in Nat : At(m, i, r)' => At(m, i, r)
    BY <1>0, <1>12, AtBreak
  <2>3. ASSUME RunPhase', NEW m \in Node
        PROVE  /\ \A i \in Nat : ~At(m, i, 0)'
               /\ lpc'[m] \in Closing => ~up'[m] /\ toClient'[m] = <<>>
    <3>1. RunPhase
      BY <2>1, <2>3 DEF RunPhase
    <3> QED
      BY <1>0, <2>1, <2>2, <3>1 DEF ExitInv
  <2>4. breaks' # 0
    BY <1>a, <2>1
  <2> QED
    BY <2>3, <2>4 DEF ExitInv, Closing
<1> QED
  BY <1>1, <1>2, <1>3, <1>4, <1>5, <1>6, <1>7, <1>8, <1>9, <1>10, <1>11, <1>12, StepKinds

-----------------------------------------------------------------------------
(* JoinInv, FinishedInv.                                                   *)

\* main passes a listener only when it has ended or was never started, and
\* none starts again.
LEMMA JoinInvStep ==
  ASSUME MainsInv, FlowsInv, [Next]_vars
  PROVE  JoinInv'
<1> USE DEF list, node, files, wire, main, poolVars, request, times, reqVars
<1>0. /\ TypeInv /\ MainInv /\ ReqInv /\ ConnType /\ NodeInv /\ JoinInv
  BY DEF MainsInv, FlowsInv, TypeInv
<1>a. /\ \A n \in Node : /\ n[1] \in Nat \ {0} /\ n[2] \in Nat \ {0} /\ n = <<n[1], n[2]>>
                         /\ n[1] <= NServer /\ len[n[1]] \in Nat
      /\ si \in Nat \ {0} /\ xi \in Nat \ {0} /\ NServer \in Nat /\ si <= NServer
  <2>1. \A n \in Node : /\ n[1] \in Server /\ n[2] \in Nat /\ n[2] >= 1 /\ n = <<n[1], n[2]>>
                        /\ len[n[1]] \in Nat
    BY <1>0, NodeNumbers
  <2>2. \A s \in Server : s \in Nat \ {0} /\ s <= NServer
    BY NodeParts
  <2> QED
    BY <1>0, <2>1, <2>2, MainNumbers
<1>b. ASSUME UNCHANGED <<len, mpc, si, xi>>, \A n \in Node : Joined(n) => Joined(n)'
      PROVE  JoinInv'
  BY <1>0, <1>b DEF JoinInv, Exists
<1>c. ASSUME mpc' \notin {"exit", "exitWrite", "wait", "done"} PROVE JoinInv'
  BY <1>c DEF JoinInv
<1>1. CASE MainQuiet
  <2>1. UNCHANGED <<len, lpc>>
    BY <1>1, MainQuietFrame
  <2>2. \A n \in Node : (Exists(n)' <=> Exists(n)) /\ (Joined(n)' <=> Joined(n))
    BY <2>1 DEF Exists, Joined
  <2>3. CASE ExitNode(TRUE)
    <3>1. mpc = "exit" /\ mpc' \in {"exit", "exitWrite"} /\ UNCHANGED si
      BY <2>3 DEF ExitNode
    <3> QED
      BY <1>0, <2>2, <3>1 DEF JoinInv
  <2>4. CASE ExitAllSent
    <3>1. mpc = "exit" /\ mpc' = "wait" /\ xi' = 1 /\ UNCHANGED si
      BY <2>4 DEF ExitAllSent
    <3>2. \A n \in Node : ~(n[2] < 1)
      BY <1>a
    <3> QED
      BY <1>0, <2>2, <3>1, <3>2 DEF JoinInv
  <2>5. CASE WaitNode \/ WaitNoListener
    <3>1. /\ mpc = "wait" /\ lpc[<<si, xi>>] \in {"done", "none"} /\ UNCHANGED si
          /\ \/ xi' = xi + 1 /\ UNCHANGED mpc
             \/ mpc' = "killed"
      BY <2>5 DEF WaitNode, WaitNoListener
    <3>2. CASE mpc' = "killed"
      BY <1>c, <3>2
    <3>3. CASE xi' = xi + 1 /\ UNCHANGED mpc
      <4>1. ASSUME NEW n \in Node, Exists(n), n[1] < si \/ (n[1] = si /\ n[2] < xi + 1)
            PROVE  Joined(n)
        <5>1. CASE n[1] < si \/ (n[1] = si /\ n[2] < xi)
          BY <1>0, <3>1, <4>1, <5>1 DEF JoinInv
        <5>2. CASE n[1] = si /\ n[2] = xi
          <6>1. n = <<si, xi>>
            BY <1>a, <5>2
          <6> QED
            BY <3>1, <6>1 DEF Joined
        <5> QED
          BY <1>a, <4>1, <5>1, <5>2
      <4> QED
        BY <2>2, <3>1, <3>3, <4>1 DEF JoinInv
    <3> QED
      BY <3>1, <3>2, <3>3
  <2>6. CASE WaitAllDone
    <3>1. /\ mpc = "wait" /\ xi > len[si]
          /\ \/ si < NServer /\ si' = si + 1 /\ mpc' = "exit"
             \/ ~(si < NServer) /\ mpc' = "done" /\ UNCHANGED si
      BY <2>6 DEF WaitAllDone
    <3>2. ASSUME NEW n \in Node, Exists(n), n[1] <= si PROVE Joined(n)
      <4>1. n[1] < si \/ (n[1] = si /\ n[2] < xi)
        BY <1>a, <3>1, <3>2 DEF Exists
      <4> QED
        BY <1>0, <3>1, <3>2, <4>1 DEF JoinInv
    <3>3. CASE si < NServer /\ si' = si + 1 /\ mpc' = "exit"
      <4>1. \A n \in Node : n[1] < si + 1 => n[1] <= si
        BY <1>a
      <4> QED
        BY <2>2, <3>2, <3>3, <4>1 DEF JoinInv
    <3>4. CASE ~(si < NServer) /\ mpc' = "done" /\ UNCHANGED si
      <4>1. \A n \in Node : n[1] <= si
        BY <1>a, <3>4
      <4> QED
        BY <2>2, <3>2, <3>4, <4>1 DEF JoinInv
    <3> QED
      BY <3>1, <3>3, <3>4
  <2>7. CASE RequestsDone
    <3>1. mpc = "request" /\ mpc' = "exit" /\ UNCHANGED si
      BY <2>7 DEF RequestsDone
    <3>2. si = 1
      BY <1>0, <3>1 DEF MainInv
    <3>3. \A n \in Node : ~(n[1] < si')
      BY <1>a, <3>1, <3>2
    <3> QED
      BY <3>1, <3>3 DEF JoinInv
  <2>8. CASE OpenFirstFails
    BY <1>c, <2>8 DEF OpenFirstFails
  <2>9. CASE \/ SkipServer \/ CountNew \/ InsertFails \/ BeginSearch \/ SearchNode \/ AssignFlows
             \/ SearchMisses \/ StartFlows \/ JoinFlows
    <3>1. mpc' \notin {"exit", "exitWrite", "wait", "done"}
      BY <2>9 DEF SkipServer, CountNew, InsertFails, BeginSearch, SearchNode, AssignFlows,
         SearchMisses, StartFlows, JoinFlows, NextRequest
    <3> QED
      BY <1>c, <3>1
  <2> QED
    BY <1>1, <2>3, <2>4, <2>5, <2>6, <2>7, <2>8, <2>9 DEF MainQuiet
<1>2. CASE ThreadQuiet
  <2>1. UNCHANGED <<len, mpc, si, xi>>
    BY <1>0, <1>2, ThreadQuietSteps
  <2>2. \A n \in Node : /\ lpc'[n] = "none" <=> lpc[n] = "none"
                        /\ lpc[n] = "done" => lpc'[n] = "done"
    BY <1>0, <1>2, ThreadQuietSteps
  <2> QED
    BY <1>b, <2>1, <2>2 DEF Joined
<1>3. CASE OpenFirst \/ InsertOne \/ SpawnListeners \/ StartListeners
  <2>1. mpc' \notin {"exit", "exitWrite", "wait", "done"}
    BY <1>3 DEF OpenFirst, InsertOne, SpawnListeners, StartListeners
  <2> QED
    BY <1>c, <2>1
<1>4. CASE ExitWrite
  <2>1. /\ mpc = "exitWrite" /\ mpc' \in {"exit", "killed"} /\ UNCHANGED <<len, lpc, si>>
    BY <1>4 DEF ExitWrite, WriteKills
  <2> QED
    BY <1>0, <2>1 DEF JoinInv, Joined, Exists
<1>5. ASSUME NEW k \in DOMAIN fpc, Running,
             FlowMarkBusy(k) \/ FlowTakeAvailable(k) \/ FlowWrite(k)
      PROVE  JoinInv'
  <2>1. mpc = "flows" /\ (mpc' = mpc \/ mpc' = "killed")
    BY <1>0, <1>5, FlowThread DEF FlowMarkBusy, FlowTakeAvailable, FlowWrite, WriteKills
  <2> QED
    BY <1>c, <2>1
<1>6. ASSUME NEW n \in Node, ListenRead(n) \/ ListenFail(n) \/ ListenAccount(n) \/ ListenStamp(n)
      PROVE  JoinInv'
  <2>1. UNCHANGED <<len, mpc, si, xi>> /\ lpc[n] \notin {"done", "none"}
    BY <1>6 DEF ListenRead, ListenFail, ListenAccount, ListenStamp, ListenStamped
  <2>2. \A m \in Node \ {n} : lpc'[m] = lpc[m]
    BY <1>0, <1>6 DEF ListenRead, ListenFail, ListenAccount, ListenStamp, ListenStamped, ConnType
  <2> QED
    BY <1>b, <2>1, <2>2 DEF Joined
<1>7. ASSUME NEW n \in Node, Break(n) PROVE JoinInv'
  BY <1>b, <1>7 DEF Break, Joined
<1> QED
  BY <1>1, <1>2, <1>3, <1>4, <1>5, <1>6, <1>7, StepKinds

\* One flow more is finished, of one server.
LEMMA OneMoreFinished ==
  ASSUME ConnType, NEW s \in Server, flowFinished' = [flowFinished EXCEPT ![s] = @ + 1]
  PROVE  Sum(flowFinished, Server)' = Sum(flowFinished, Server) + 1
<1>1. IsFiniteSet(Server)
  BY FS_Interval, PoolAssumption DEF Server
<1>2. flowFinished \in [Server -> Int] /\ flowFinished[s] \in Nat
  BY DEF ConnType
<1>3. PICK e : e = [flowFinished EXCEPT ![s] = @ + 1]
  OBVIOUS
<1>4. e \in [Server -> Int] /\ e[s] = flowFinished[s] + 1 /\ \A t \in Server \ {s} : e[t] = flowFinished[t]
  BY <1>2, <1>3
<1>5. Sum(e, Server) = Sum(flowFinished, Server) + (e[s] - flowFinished[s])
  BY <1>1, <1>2, <1>4, SumChange
<1>6. Sum(flowFinished, Server) \in Int
  BY <1>1, <1>2, SumType
<1>7. Sum(flowFinished, Server)' = Sum(e, Server)
  <2>1. Sum(flowFinished', Server) = Sum(e, Server)
    BY <1>1, <1>3, SumSame
  <2>2. Sum(flowFinished, Server)' = Sum(flowFinished', Server)
    BY DEF Sum, MapThenSumSet, MapThenFoldSet
  <2> QED
    BY <2>1, <2>2
<1>8. e[s] - flowFinished[s] = 1
  BY <1>2, <1>4
<1> QED
  BY <1>5, <1>6, <1>7, <1>8

\* A flow counts as finished once, when its listener has accounted for it.
LEMMA FinishedInvStep ==
  ASSUME MainsInv, FlowsInv, [Next]_vars
  PROVE  FinishedInv'
<1> USE DEF list, node, files, wire, main, poolVars, request, times, reqVars
<1>0. /\ TypeInv /\ MainInv /\ ReqInv /\ IdInv /\ ConnType /\ NodeInv /\ FlowInv /\ FinishedInv
  BY DEF MainsInv, FlowsInv, TypeInv
<1>a. ASSUME UNCHANGED <<flowFinished, stopped>>,
             \A n \in Node : /\ lpc'[n] = "stamp" <=> lpc[n] = "stamp"
                             /\ lpc[n] = "stamp" => got'[n] = got[n]
      PROVE  FinishedInv'
  <2>1. Accounted' = Accounted
    BY <1>a DEF Accounted
  <2>2. Sum(flowFinished, Server)' = Sum(flowFinished, Server)
    BY <1>a
  <2> QED
    BY <1>0, <2>1, <2>2 DEF FinishedInv
<1>1. CASE MainQuiet
  BY <1>1, <1>a, MainQuietFrame
<1>2. CASE ThreadQuiet
  BY <1>0, <1>2, <1>a, ThreadQuietSteps
<1>3. CASE (OpenFirst /\ UNCHANGED reqVars) \/ InsertOne
  <2>1. PICK s \in Server : AddNode(s, FALSE)
    <3>1. CASE OpenFirst
      BY <1>0, <3>1 DEF OpenFirst, TypeInv, MainType
    <3>2. CASE InsertOne
      <4>1. AddNode(srv, FALSE) /\ mpc = "insert"
        BY <3>2 DEF InsertOne
      <4> QED
        BY <1>0, <4>1, CurrentRequest DEF Preparing
    <3> QED
      BY <1>3, <3>1, <3>2
  <2>2. PICK k \in Node : k = <<s, len[s] + 1>>
    BY <1>0, <2>1, AddNodeEffect DEF TypeInv
  <2>3. /\ lpc'[k] = "none" /\ UNCHANGED <<flowFinished, got>>
        /\ \A n \in Node : n # k => lpc'[n] = lpc[n]
    BY <1>0, <2>1, <2>2, AddNodeEffect, ZenonT(30) DEF TypeInv
  <2>4. lpc[k] = "none"
    BY <1>0, <2>2, NodeNumbers DEF NodeInv, NodeOK, Exists
  <2>5. UNCHANGED stopped
    BY <1>3 DEF InsertOne
  <2> QED
    BY <1>a, <2>3, <2>4, <2>5
<1>4. CASE (SpawnListeners /\ UNCHANGED reqVars) \/ StartListeners
  <2>1. UNCHANGED <<flowFinished, stopped, got>>
    BY <1>4 DEF SpawnListeners, StartListeners
  <2>2. \A n \in Node : lpc'[n] = lpc[n] \/ (lpc[n] = "none" /\ lpc'[n] = "read")
    BY <1>0, <1>4 DEF SpawnListeners, StartListeners, NodeInv, NodeOK
  <2> QED
    BY <1>a, <2>1, <2>2
<1>5. CASE ExitWrite /\ UNCHANGED reqVars
  <2>1. UNCHANGED <<flowFinished, stopped, got, lpc>>
    BY <1>5 DEF ExitWrite, WriteKills
  <2> QED
    BY <1>a, <2>1
<1>6. CASE \E k \in DOMAIN fpc : FlowMarkBusy(k) \/ FlowTakeAvailable(k) \/ FlowWrite(k)
  <2>1. UNCHANGED <<flowFinished, stopped, got, lpc>>
    BY <1>6 DEF FlowMarkBusy, FlowTakeAvailable, FlowWrite, WriteKills
  <2> QED
    BY <1>a, <2>1
<1>7. ASSUME NEW n \in Node, (ListenRead(n) \/ ListenFail(n)) /\ UNCHANGED reqVars
      PROVE  FinishedInv'
  <2>1. UNCHANGED <<flowFinished, stopped>> /\ lpc[n] = "read" /\ lpc'[n] # "stamp"
    BY <1>0, <1>7 DEF ListenRead, ListenFail, ConnType
  <2>2. \A m \in Node \ {n} : lpc'[m] = lpc[m] /\ got'[m] = got[m]
    BY <1>0, <1>7 DEF ListenRead, ListenFail, ConnType
  <2> QED
    BY <1>a, <2>1, <2>2
<1>8. ASSUME NEW n \in Node, ListenAccount(n), UNCHANGED reqVars PROVE FinishedInv'
  <2>1. /\ lpc[n] = "account" /\ UNCHANGED <<got, stopped>>
        /\ \A m \in Node \ {n} : lpc'[m] = lpc[m]
        /\ lpc'[n] = IF got[n] # 0 THEN "stamp" ELSE "close"
    BY <1>0, <1>8 DEF ListenAccount, ConnType
  <2>2. CASE got[n] = 0
    <3>1. UNCHANGED flowFinished
      BY <1>8, <2>2 DEF ListenAccount
    <3> QED
      BY <1>a, <2>1, <2>2, <3>1
  <2>3. CASE got[n] # 0
    <3>1. PICK g \in Nat \ {0} : g = got[n]
      BY <1>0, <2>3 DEF ConnType
    <3>2. At(n, 0, g)
      BY <2>1, <3>1 DEF At, Pending
    <3>3. g \in Flow /\ g \notin stopped
      BY <1>0, <3>2 DEF FlowInv, TypeInv, MainType
    <3>4. ~\E m \in Node : lpc[m] = "stamp" /\ got[m] = g
      <4> SUFFICES ASSUME NEW m \in Node, lpc[m] = "stamp", got[m] = g PROVE FALSE
        OBVIOUS
      <4>1. At(m, 0, g)
        BY DEF At, Pending
      <4>2. m = n
        BY <1>0, <3>2, <4>1 DEF FlowInv
      <4> QED
        BY <2>1, <4>2
    <3>5. g \notin Accounted
      BY <3>3, <3>4 DEF Accounted
    <3>6. Accounted' = Accounted \cup {g}
      <4>1. \A f \in Flow : (\E m \in Node : lpc'[m] = "stamp" /\ got'[m] = f)
                               <=> f = g \/ \E m \in Node : lpc[m] = "stamp" /\ got[m] = f
        BY <2>1, <2>3, <3>1
      <4> QED
        BY <2>1, <3>3, <4>1 DEF Accounted
    <3>7. IsFiniteSet(Accounted)
      <4>1. FlowsUpTo[NReq] \in Nat
        BY FlowsUpToSums, RequestAssumption
      <4>2. IsFiniteSet(Flow)
        BY <4>1, FS_Interval DEF Flow
      <4>3. Accounted \subseteq Flow
        BY DEF Accounted
      <4> QED
        BY <4>2, <4>3, FS_Subset
    <3>8. Cardinality(Accounted)' = Cardinality(Accounted) + 1
      BY <3>5, <3>6, <3>7, FS_AddElement
    <3>9. flowFinished' = [flowFinished EXCEPT ![n[1]] = @ + 1] /\ n[1] \in Server
      BY <1>8, <2>3, NodeParts DEF ListenAccount
    <3>10. Sum(flowFinished, Server)' = Sum(flowFinished, Server) + 1
      BY <1>0, <3>9, OneMoreFinished
    <3> QED
      BY <1>0, <3>8, <3>10 DEF FinishedInv
  <2> QED
    BY <2>2, <2>3
<1>9. ASSUME NEW n \in Node, ListenStamp(n) PROVE FinishedInv'
  <2>1. /\ lpc[n] = "stamp" /\ stopped' = stopped \cup {got[n]} /\ UNCHANGED <<got, flowFinished>>
        /\ lpc'[n] = "read" /\ \A m \in Node \ {n} : lpc'[m] = lpc[m]
    BY <1>0, <1>9 DEF ListenStamp, ListenStamped, ConnType
  <2>2. \A f \in Flow : \/ f \in stopped
                        \/ \E m \in Node : lpc[m] = "stamp" /\ got[m] = f
                    <=> \/ f \in stopped'
                        \/ \E m \in Node : lpc'[m] = "stamp" /\ got'[m] = f
    BY <2>1
  <2>3. Accounted' = Accounted
    BY <2>2 DEF Accounted
  <2>4. Sum(flowFinished, Server)' = Sum(flowFinished, Server)
    BY <2>1
  <2> QED
    BY <1>0, <2>3, <2>4 DEF FinishedInv
<1>10. ASSUME NEW n \in Node, Break(n), UNCHANGED reqVars PROVE FinishedInv'
  BY <1>10, <1>a DEF Break
<1> QED
  BY <1>1, <1>2, <1>3, <1>4, <1>5, <1>6, <1>7, <1>8, <1>9, <1>10, StepKinds

-----------------------------------------------------------------------------
(* The flows.                                                              *)

\* Before the first connection is made there is no flow.
LEMMA FlowsInit == Init => FlowsInv
<1> SUFFICES ASSUME Init PROVE FlowsInv
  OBVIOUS
<1>1. /\ mpc = "open" /\ breaks = 0 /\ fpc = <<>> /\ started = {} /\ stopped = {} /\ reqStopped = {}
      /\ flowFinished = [s \in Server |-> 0]
  BY DEF Init, PoolInit
<1>2. /\ ConnType /\ FilesInv
      /\ \A n \in Node : /\ ~Exists(n) /\ sock[n] = "none" /\ lpc[n] = "none"
                         /\ ~up[n] /\ ~connected[n] /\ toServer[n] = <<>> /\ toClient[n] = <<>>
                         /\ \A i, r \in Nat : ~At(n, i, r)
  BY PoolStarts DEF Init
<1>3. NodeInv
  BY <1>1, <1>2 DEF NodeInv, NodeOK
<1>4. FlowInv
  <2>1. Sending = {}
    BY <1>1 DEF Sending
  <2> QED
    BY <1>1, <1>2, <2>1 DEF FlowInv
<1>5. ExitInv
  BY <1>1, <1>2 DEF ExitInv, Closing
<1>6. JoinInv
  BY <1>1 DEF JoinInv
<1>7. FinishedInv
  <2>1. Accounted = {}
    BY <1>1, <1>2 DEF Accounted
  <2>2. Cardinality(Accounted) = 0
    BY <2>1, FS_EmptySet
  <2>3. Sum(flowFinished, Server) = 0
    <3>1. \A k \in Nat : k <= NServer => Sum(flowFinished, 1 .. k) = 0
      <4> DEFINE Bad == {k \in Nat : k <= NServer /\ Sum(flowFinished, 1 .. k) # 0}
      <4>1. /\ Sum(flowFinished, 1 .. 0) = 0
            /\ \A k \in 1 .. NServer : Sum(flowFinished, 1 .. k) = Sum(flowFinished, 1 .. k - 1) + flowFinished[k]
        BY <1>1, PoolAssumption, SumUpTo, ZenonT(30) DEF Server
      <4> SUFFICES ASSUME Bad # {} PROVE FALSE
        OBVIOUS
      <4>2. Bad \subseteq Nat
        OBVIOUS
      <4>3. PICK k \in Bad : \A j \in Bad : k <= j
        BY <4>2, LeastNumber
      <4>4. k # 0 /\ k \in 1 .. NServer /\ k - 1 \in Nat /\ k - 1 <= NServer /\ ~(k <= k - 1)
        BY <4>1, <4>3, PoolAssumption
      <4>5. Sum(flowFinished, 1 .. k - 1) = 0
        BY <4>3, <4>4
      <4>6. flowFinished[k] = 0
        BY <1>1, <4>4 DEF Server
      <4> QED
        BY <4>1, <4>3, <4>4, <4>5, <4>6
    <3> QED
      BY <3>1, PoolAssumption DEF Server
  <2> QED
    BY <2>2, <2>3 DEF FinishedInv
<1> QED
  BY <1>2, <1>3, <1>4, <1>5, <1>6, <1>7 DEF FlowsInv

\* The inductive invariant about the flows, on top of that about main.
LEMMA FlowsInvariant == Spec => [](MainsInv /\ FlowsInv)
<1>1. Init => MainsInv /\ FlowsInv
  BY MainsInit, FlowsInit
<1>2. MainsInv /\ FlowsInv /\ [Next]_vars => (MainsInv /\ FlowsInv)'
  <2>1. MainsInv /\ [Next]_vars => MainsInv'
    BY TypeInvStep, MainInvStep, ReqInvStep, IdInvStep DEF MainsInv
  <2>2. MainsInv /\ FlowsInv /\ [Next]_vars => FlowsInv'
    BY NodeInvStep, FilesInvStep, FlowInvStep, ExitInvStep, JoinInvStep, FinishedInvStep DEF FlowsInv
  <2> QED
    BY <2>1, <2>2
<1> QED
  BY <1>1, <1>2, PTL DEF Spec

-----------------------------------------------------------------------------
(* What is on a connection without a listener, and the accounts.           *)

\* A flow is in one of the two directions of a connection when it has a place
\* on it.
LEMMA RangeAt ==
  ASSUME ConnType, NEW n \in Node, NEW r
  PROVE  r \in Range(toServer[n]) \cup Range(toClient[n]) <=> \E i \in Nat \ {0} : At(n, i, r)
<1> DEFINE a == toClient[n]
           b == toServer[n]
<1>1. /\ a \in Seq(Nat) /\ b \in Seq(Nat) /\ Len(a) \in Nat /\ Len(b) \in Nat
      /\ Len(Transit(n)) = Len(a) + Len(b)
  BY TransitType
<1>2. DOMAIN a = 1 .. Len(a) /\ DOMAIN b = 1 .. Len(b)
  BY <1>1, LenProperties
<1>3. \A i \in 1 .. Len(a) + Len(b) :
         Transit(n)[i] = IF i <= Len(a) THEN a[i] ELSE b[i - Len(a)]
  BY <1>1, ConcatProperties DEF Transit
<1>4. \A i \in Nat \ {0} : At(n, i, r) <=> i \in 1 .. Len(a) + Len(b) /\ Transit(n)[i] = r
  BY <1>1 DEF At, Places
<1>5. r \in Range(b) \cup Range(a)
         <=> (\E i \in 1 .. Len(b) : b[i] = r) \/ (\E i \in 1 .. Len(a) : a[i] = r)
  BY <1>2 DEF Range
<1>6. PICK p, q \in Nat : p = Len(a) /\ q = Len(b)
  BY <1>1
<1> HIDE DEF a, b
<1>7. ASSUME NEW i \in 1 .. p, a[i] = r PROVE \E j \in Nat \ {0} : At(n, j, r)
  <2>1. i \in Nat \ {0} /\ i \in 1 .. p + q /\ i <= p
    BY <1>6
  <2> QED
    BY <1>3, <1>4, <1>6, <1>7, <2>1
<1>8. ASSUME NEW i \in 1 .. q, b[i] = r PROVE \E j \in Nat \ {0} : At(n, j, r)
  <2>1. p + i \in Nat \ {0} /\ p + i \in 1 .. p + q /\ ~(p + i <= p) /\ (p + i) - p = i
    BY <1>6
  <2> QED
    BY <1>3, <1>4, <1>6, <1>8, <2>1
<1>9. ASSUME NEW i \in Nat \ {0}, At(n, i, r)
      PROVE  (\E j \in 1 .. q : b[j] = r) \/ (\E j \in 1 .. p : a[j] = r)
  <2>1. i \in 1 .. p + q /\ Transit(n)[i] = r
    BY <1>4, <1>6, <1>9
  <2>2. CASE i <= p
    BY <1>3, <1>6, <2>1, <2>2
  <2>3. CASE ~(i <= p)
    <3>1. i - p \in 1 .. q
      BY <1>6, <2>1, <2>3
    <3>2. b[i - p] = r
      BY <1>3, <1>6, <2>1, <2>3
    <3> QED
      BY <3>1, <3>2
  <2> QED
    BY <2>2, <2>3
<1> QED
  BY <1>5, <1>6, <1>7, <1>8, <1>9 DEF a, b

\* A flow is unheard when it has a place on a connection without a listener.
Adrift(r) == \E n \in Node : lpc[n] = "none" /\ \E i \in Nat \ {0} : At(n, i, r)
LEMMA UnheardIsAdrift == ConnType => \A r : r \in Unheard <=> r \in started /\ Adrift(r)
BY RangeAt DEF Unheard, Adrift

LEMMA UnheardAfter == (ConnType => \A r : r \in Unheard <=> r \in started /\ Adrift(r))'
BY UnheardIsAdrift, PTL

\* When main has joined every listener, and no connection has failed, a flow
\* that is not logged as finished is on a connection that has none.
LEMMA AllAccounted == MainsInv /\ FlowsInv => FlowsAccounted
<1> SUFFICES ASSUME MainsInv, FlowsInv, mpc = "done", breaks = 0
             PROVE  /\ started = stopped \cup Unheard
                    /\ Cardinality(stopped) = MapThenSumSet(LAMBDA s : flowFinished[s], Server)
  BY DEF FlowsAccounted
<1>1. /\ TypeInv /\ ConnType /\ MainInv /\ NodeInv /\ FlowInv /\ ExitInv /\ JoinInv /\ FinishedInv
      /\ started \subseteq Nat \ {0} /\ started \subseteq Flow /\ stopped \subseteq started
  BY FlowsUpToSums, SMTT(30) DEF MainsInv, FlowsInv, TypeInv, MainType, FlowInv, Flow
<1>2. \A n \in Node : lpc[n] \in {"done", "none"}
  BY <1>1 DEF JoinInv, Joined, NodeInv, NodeOK
<1>3. Sending = {}
  <2>1. fpc = <<>>
    BY <1>1 DEF MainInv
  <2> QED
    BY <2>1 DEF Sending
<1>4. ASSUME NEW r \in started \ stopped PROVE r \in Unheard
  <2>1. PICK n \in Node, i \in Nat : At(n, i, r)
    BY <1>1, <1>3 DEF FlowInv
  <2>2. r \in Nat
    BY <1>1
  <2>3. lpc[n] = "none"
    <3>1. lpc[n] # "done"
      BY <1>1, <2>1, <2>2 DEF ExitInv, Closing
    <3> QED
      BY <1>2, <3>1
  <2>4. i # 0
    BY <2>1, <2>3 DEF At, Pending
  <2>5. Adrift(r)
    BY <2>1, <2>3, <2>4 DEF Adrift
  <2> QED
    BY <1>1, <2>5, UnheardIsAdrift
<1>5. started = stopped \cup Unheard
  <2>1. Unheard \subseteq started
    BY DEF Unheard
  <2> QED
    BY <1>1, <1>4, <2>1
<1>6. Accounted = stopped
  BY <1>1, <1>2 DEF Accounted
<1> QED
  BY <1>1, <1>5, <1>6 DEF FinishedInv, Sum

\* When the results are printed the counts of the pools and the times agree,
\* and only flows on connections without a listener have no stop time.
THEOREM FlowsCountedOnce == Spec => []FlowsAccounted
BY AllAccounted, FlowsInvariant, PTL

-----------------------------------------------------------------------------
(* The client implements FlowLog.                                          *)

\* A connection has failed, or one without a listener was used.
Lossy == breaks > 0 \/ Unheard # {}

\* What is on a connection without a listener stays there, unless a
\* connection fails.
LEMMA AdriftStays ==
  ASSUME MainsInv, FlowsInv, [Next]_vars,
         NEW n \in Node, lpc[n] = "none", NEW i \in Nat \ {0}, NEW r \in Nat, At(n, i, r)
  PROVE  breaks' > 0 \/ (lpc'[n] = "none" /\ At(n, i, r)')
<1> USE DEF list, node, files, wire, main, poolVars, request, times, reqVars
<1>0. /\ TypeInv /\ MainInv /\ ReqInv /\ IdInv /\ ConnType /\ IsFiniteSet(leaked)
      /\ NodeInv /\ FlowInv /\ ExitInv /\ breaks \in Nat
  <2>1. TypeInv /\ MainInv /\ ReqInv /\ IdInv /\ NodeInv /\ FlowInv /\ ExitInv
    BY DEF MainsInv, FlowsInv
  <2>2. ConnType /\ IsFiniteSet(leaked)
    BY <2>1 DEF TypeInv
  <2>3. breaks \in Nat
    BY <2>2, PoolAssumption DEF ConnType
  <2> QED
    BY <2>1, <2>2, <2>3
<1>1. Transit(n) # <<>>
  BY <1>0, TransitType DEF At, Places
<1>a. ASSUME lpc'[n] = "none", Transit(n)' = Transit(n) PROVE lpc'[n] = "none" /\ At(n, i, r)'
  BY <1>a DEF At, Places
<1>2. CASE MainQuiet
  BY <1>2, <1>a, MainQuietFrame, TransitSame
<1>3. CASE ThreadQuiet
  BY <1>0, <1>3, <1>a, ThreadQuietSteps
<1>4. CASE (OpenFirst /\ UNCHANGED reqVars) \/ InsertOne
  <2>1. PICK s \in Server : AddNode(s, FALSE)
    <3>1. CASE OpenFirst
      BY <1>0, <3>1 DEF OpenFirst, TypeInv, MainType
    <3>2. CASE InsertOne
      <4>1. AddNode(srv, FALSE) /\ mpc = "insert"
        BY <3>2 DEF InsertOne
      <4> QED
        BY <1>0, <4>1, CurrentRequest DEF Preparing
    <3> QED
      BY <1>4, <3>1, <3>2
  <2>2. lpc'[n] = "none" /\ UNCHANGED <<toServer, toClient>>
    <3>1. FALSE \in BOOLEAN
      OBVIOUS
    <3> QED
      BY <1>0, <2>1, <3>1, AddNodeEffect
  <2> QED
    BY <1>a, <2>2, TransitSame
<1>5. CASE SpawnListeners /\ UNCHANGED reqVars
  <2>1. RunPhase /\ started = {}
    BY <1>0, <1>5 DEF SpawnListeners, MainInv, RunPhase
  <2>2. r # 0
    BY <1>0, <2>1 DEF ExitInv
  <2> QED
    BY <1>0, <2>1, <2>2 DEF FlowInv
<1>6. CASE StartListeners
  <2>1. ~(n[1] = srv /\ n[2] > oldTail)
    <3>1. mpc = "insert"
      BY <1>6 DEF StartListeners
    <3>2. toServer[n] # <<>> \/ toClient[n] # <<>>
      BY <1>0, <1>1, TransitType
    <3> QED
      BY <1>0, <3>1, <3>2 DEF NodeInv, NodeOK
  <2>2. lpc'[n] = "none" /\ UNCHANGED <<toServer, toClient>>
    BY <1>6, <2>1 DEF StartListeners
  <2> QED
    BY <1>a, <2>2, TransitSame
<1>7. ASSUME NEW c \in Node, NEW id \in Nat, WriteSent(c, id) \/ UNCHANGED wire,
             UNCHANGED <<lpc, got>>
      PROVE  lpc'[n] = "none" /\ At(n, i, r)'
  <2>1. CASE WriteSent(c, id)
    <3>0. ConnType
      BY <1>0
    <3>1. PICK m \in Node : toServer' = [toServer EXCEPT ![m] = Append(@, id)]
      BY <2>1 DEF WriteSent
    <3>2. toClient' = toClient
      BY <2>1 DEF WriteSent
    <3>3. UNCHANGED <<lpc, got>>
      BY <1>7
    <3>4. At(n, i, r)' <=> At(n, i, r) \/ (n = m /\ i = Len(Transit(m)) + 1 /\ r = id)
      BY <1>0, <3>1, <3>2, <3>3, AtSend
    <3> QED
      BY <3>3, <3>4
  <2>2. CASE UNCHANGED wire
    BY <1>7, <1>a, <2>2, TransitSame
  <2> QED
    BY <1>7, <2>1, <2>2
<1>8. CASE ExitWrite /\ UNCHANGED reqVars
  <2>1. /\ mpc = "exitWrite" /\ UNCHANGED <<lpc, got>>
        /\ WriteSent(<<si, xi>>, 0) \/ UNCHANGED wire
    BY <1>8 DEF ExitWrite, WriteLost, WriteKills
  <2>2. <<si, xi>> \in Node /\ 0 \in Nat
    BY <1>0, <2>1, ExitingNode
  <2> QED
    BY <1>7, <2>1, <2>2
<1>9. ASSUME NEW k \in DOMAIN fpc, Running, FlowMarkBusy(k) \/ FlowTakeAvailable(k)
      PROVE  lpc'[n] = "none" /\ At(n, i, r)'
  BY <1>9, <1>a, TransitSame DEF FlowMarkBusy, FlowTakeAvailable
<1>10. ASSUME NEW k \in DOMAIN fpc, Running, FlowWrite(k)
       PROVE  lpc'[n] = "none" /\ At(n, i, r)'
  <2>1. flowReqs[k].conn \in Node /\ flowReqs[k].id \in Nat
    BY <1>0, <1>10, FlowThread, FlowThreadId, FlowReqsType
  <2>2. /\ UNCHANGED <<lpc, got>>
        /\ WriteSent(flowReqs[k].conn, flowReqs[k].id) \/ UNCHANGED wire
    BY <1>10 DEF FlowWrite, WriteLost, WriteKills
  <2> QED
    BY <1>7, <2>1, <2>2
<1>11. ASSUME NEW m \in Node, ListenRead(m) PROVE lpc'[n] = "none" /\ At(n, i, r)'
  <2>1. lpc[m] = "read" /\ \A q \in Node \ {m} : lpc'[q] = lpc[q]
    BY <1>0, <1>11 DEF ListenRead, ConnType
  <2>2. n # m
    BY <2>1
  <2>3. Transit(n)' = Transit(n)
    BY <1>0, <1>11, <2>2, TransitRead
  <2> QED
    BY <1>a, <2>1, <2>2, <2>3
<1>12. ASSUME NEW m \in Node, ListenFail(m) \/ ListenAccount(m) \/ ListenStamp(m)
       PROVE  lpc'[n] = "none" /\ At(n, i, r)'
  <2>1. /\ lpc[m] # "none" /\ \A q \in Node \ {m} : lpc'[q] = lpc[q]
        /\ UNCHANGED <<toServer, toClient>>
    BY <1>0, <1>12 DEF ListenFail, ListenAccount, ListenStamp, ListenStamped, ConnType
  <2> QED
    BY <1>a, <2>1, TransitSame
<1>13. ASSUME NEW m \in Node, Break(m) PROVE breaks' > 0
  BY <1>0, <1>13 DEF Break
<1> QED
  BY <1>2, <1>3, <1>4, <1>5, <1>6, <1>8, <1>9, <1>10, <1>11, <1>12, <1>13, StepKinds

\* Start times are not taken back, and neither are failures.
LEMMA StartedGrows ==
  ASSUME [Next]_vars
  PROVE  started \subseteq started' /\ (breaks' = breaks \/ breaks' = breaks + 1)
<1> USE DEF list, node, files, wire, main, poolVars, request, times, reqVars
<1>1. CASE MainQuiet
  BY <1>1, MainQuietFrame
<1>2. CASE ThreadQuiet
  BY <1>2 DEF ThreadQuiet, ListenUnbusy, ListenClose, ListenDisconnect, ListenLeave, Serve,
     ServeEnd, vars
<1>3. CASE \/ OpenFirst /\ UNCHANGED reqVars
           \/ InsertOne
           \/ SpawnListeners /\ UNCHANGED reqVars
           \/ StartListeners
           \/ ExitWrite /\ UNCHANGED reqVars
  BY <1>3 DEF OpenFirst, InsertOne, AddNode, SpawnListeners, StartListeners, ExitWrite, WriteKills
<1>4. CASE \E k \in DOMAIN fpc : FlowMarkBusy(k) \/ FlowTakeAvailable(k) \/ FlowWrite(k)
  BY <1>4 DEF FlowMarkBusy, FlowTakeAvailable, FlowWrite, WriteKills
<1>5. CASE \E n \in Node : /\ ListenRead(n) \/ ListenFail(n) \/ ListenAccount(n) \/ Break(n)
                           /\ UNCHANGED reqVars
  BY <1>5 DEF ListenRead, ListenFail, ListenAccount, Break
<1>6. CASE \E n \in Node : ListenStamp(n)
  BY <1>6 DEF ListenStamp, ListenStamped
<1> QED
  BY <1>1, <1>2, <1>3, <1>4, <1>5, <1>6, StepKinds

\* What has been lost stays lost.
LEMMA LossyStays ==
  ASSUME MainsInv, FlowsInv, [Next]_vars, Lossy
  PROVE  Lossy'
<1>0. ConnType /\ breaks \in Nat /\ started \subseteq Flow /\ Flow \subseteq Nat
  BY PoolAssumption, FlowsUpToSums, SMTT(30) DEF MainsInv, TypeInv, ConnType, MainType, Flow
<1>1. CASE breaks > 0
  <2>1. breaks' > 0
    BY <1>0, <1>1, StartedGrows
  <2> QED
    BY <2>1 DEF Lossy
<1>2. CASE Unheard # {} /\ ~(breaks' > 0)
  <2>1. PICK r \in started : Adrift(r)
    <3>1. PICK r \in Unheard : TRUE
      BY <1>2
    <3> QED
      BY <1>0, <3>1, UnheardIsAdrift
  <2>2. PICK n \in Node, i \in Nat \ {0} : lpc[n] = "none" /\ At(n, i, r)
    BY <2>1 DEF Adrift
  <2>3. lpc'[n] = "none" /\ At(n, i, r)' /\ r \in started'
    BY <1>0, <1>2, <2>2, AdriftStays, StartedGrows
  <2>4. Adrift(r)'
    BY <2>3 DEF Adrift
  <2>5. ConnType'
    BY TypeInvStep DEF TypeInv
  <2>6. r \in Unheard'
    BY <2>3, <2>4, <2>5, UnheardAfter
  <2> QED
    BY <2>6 DEF Lossy
<1> QED
  BY <1>1, <1>2 DEF Lossy

\* A step that records nothing is one of no interest, or what was sent on a
\* connection is lost.
LEMMA LogMoves ==
  ASSUME UNCHANGED <<owner, started, stopped>>, mpc # "done", mpc' # "done", Lossy => Lossy'
  PROVE  [Log!Next]_(Log!logVars)
<1>1. CASE Lossy'
  <2>1. Lossy' = TRUE /\ (mpc' # "done") = (mpc # "done")
    BY <1>1
  <2>2. Log!Lose
    BY <2>1 DEF Log!Lose, Lossy
  <2> QED
    BY <2>2 DEF Log!Next
<1>2. CASE ~Lossy'
  <2>1. ~Lossy
    BY <1>2
  <2>2. /\ (breaks' > 0 \/ Unheard' # {}) = (breaks > 0 \/ Unheard # {})
        /\ (mpc' # "done") = (mpc # "done")
    BY <1>2, <2>1 DEF Lossy
  <2>3. UNCHANGED Log!logVars
    BY <2>2 DEF Log!logVars
  <2> QED
    BY <2>3
<1> QED
  BY <1>1, <1>2

\* Once the client is gone only threads of the servers go on.
LEMMA GoneForGood ==
  ASSUME [Next]_vars, ~Running
  PROVE  UNCHANGED Log!logVars
<1> USE DEF list, node, files, wire, main, poolVars, request, times, reqVars
<1>1. UNCHANGED <<owner, started, stopped, mpc, breaks, lpc, toServer, toClient>>
  BY DEF Next, vars, ServeEnd
<1>2. Unheard' = Unheard
  BY <1>1 DEF Unheard
<1> QED
  BY <1>1, <1>2 DEF Log!logVars

\* Every step of the client is one of the log it promises, or none.
LEMMA StepImplements ==
  ASSUME MainsInv, FlowsInv, MainsInv', FlowsInv', [Next]_vars
  PROVE  [Log!Next]_(Log!logVars)
<1> USE DEF list, node, files, wire, main, poolVars, request, times, reqVars
<1>0. CASE ~Running
  BY <1>0, GoneForGood
<1> SUFFICES ASSUME Running PROVE [Log!Next]_(Log!logVars)
  BY <1>0
<1>p. /\ TypeInv /\ MainInv /\ ReqInv /\ IdInv /\ ConnType /\ NodeInv /\ FlowInv
      /\ started \subseteq Flow /\ Flow \subseteq Nat \ {0}
  <2>1. TypeInv /\ MainInv /\ ReqInv /\ IdInv /\ NodeInv /\ FlowInv
    BY DEF MainsInv, FlowsInv
  <2>2. ConnType /\ started \subseteq Flow
    BY <2>1 DEF TypeInv, MainType
  <2>3. Flow \subseteq Nat \ {0}
    BY DEF Flow
  <2> QED
    BY <2>1, <2>2, <2>3
<1>r. mpc # "done"
  BY DEF Running
<1>a. ASSUME UNCHANGED <<owner, started, stopped>>, mpc' # "done"
      PROVE  [Log!Next]_(Log!logVars)
  BY <1>a, <1>r, LogMoves, LossyStays
<1>1. CASE /\ \/ OpenFirst \/ OpenFirstFails \/ SpawnListeners \/ ExitNode(TRUE) \/ ExitWrite
              \/ ExitAllSent \/ WaitNode
           /\ UNCHANGED reqVars
  <2>1. mpc' # "done"
    BY <1>1, <1>r DEF OpenFirst, OpenFirstFails, SpawnListeners, ExitNode, ExitWrite, WriteKills,
       ExitAllSent, WaitNode
  <2> QED
    BY <1>1, <1>a, <2>1
<1>2. CASE \/ SkipServer \/ CountNew \/ InsertOne \/ InsertFails \/ StartListeners
           \/ BeginSearch \/ SearchNode \/ SearchMisses
  <2>1. UNCHANGED <<owner, started, stopped>> /\ mpc' # "done"
    BY <1>2, <1>r DEF SkipServer, CountNew, InsertOne, InsertFails, StartListeners,
       BeginSearch, SearchNode, SearchMisses, NextRequest
  <2> QED
    BY <1>a, <2>1
<1>3. CASE StartFlows \/ JoinFlows \/ RequestsDone \/ WaitNoListener
  <2>1. UNCHANGED <<owner, started, stopped>> /\ mpc' # "done"
    BY <1>3, <1>r DEF StartFlows, JoinFlows, RequestsDone, WaitNoListener, NextRequest
  <2> QED
    BY <1>a, <2>1
<1>4. CASE UNCHANGED reqVars /\ \E n \in Node : Listen(n) \/ Serve(n) \/ ServeEnd(n) \/ Break(n)
  <2>1. mpc' # "done"
    BY <1>4, <1>r DEF Listen, ListenRead, ListenFail, ListenUnbusy, ListenAccount,
       ListenClose, ListenDisconnect, ListenLeave, Serve, ServeEnd, Break
  <2> QED
    BY <1>4, <1>a, <2>1
<1>5. CASE UNCHANGED vars
  BY <1>5, <1>a, <1>r DEF vars
<1>6. CASE \E k \in DOMAIN fpc : FlowTakeAvailable(k) \/ FlowWrite(k)
  <2>1. UNCHANGED <<owner, started, stopped>> /\ mpc' # "done"
    BY <1>6, <1>r DEF FlowTakeAvailable, FlowWrite, WriteKills
  <2> QED
    BY <1>a, <2>1
<1>7. ASSUME WaitAllDone, UNCHANGED reqVars PROVE [Log!Next]_(Log!logVars)
  <2>1. CASE mpc' # "done"
    BY <1>7, <1>a, <2>1
  <2>2. CASE mpc' = "done"
    <3>1. UNCHANGED <<owner, started, stopped, breaks, lpc, toServer, toClient>>
      BY <1>7 DEF WaitAllDone
    <3>2. Unheard' = Unheard
      BY <3>1 DEF Unheard
    <3>3. (MainsInv /\ FlowsInv => FlowsAccounted)'
      BY AllAccounted, PTL
    <3>4. breaks = 0 => started = stopped \cup Unheard
      BY <2>2, <3>1, <3>2, <3>3 DEF FlowsAccounted
    <3>5. Lossy \/ started = stopped
      <4>1. breaks \in Nat
        BY <1>p, PoolAssumption DEF ConnType
      <4> QED
        BY <3>4, <4>1 DEF Lossy
    <3>6. Lossy' = Lossy
      BY <3>1, <3>2 DEF Lossy
    <3>7. (mpc # "done") = TRUE /\ (mpc' # "done") = FALSE
      BY <1>r, <2>2
    <3>8. Log!Close
      BY <3>1, <3>5, <3>6, <3>7 DEF Log!Close, Lossy
    <3> QED
      BY <3>8 DEF Log!Next
  <2> QED
    BY <2>1, <2>2
<1>8. ASSUME AssignFlows PROVE [Log!Next]_(Log!logVars)
  <2>1. /\ mpc = "search" /\ mpc' = "request"
        /\ UNCHANGED <<started, stopped, breaks, lpc, toServer, toClient>>
        /\ owner' = [f \in Flow |-> IF f \in globalFlowId + 1 .. globalFlowId + NumConn
                                      THEN cur ELSE owner[f]]
    BY <1>8 DEF AssignFlows
  <2>2. cur \in Nat /\ NumConn \in Nat /\ globalFlowId \in Nat /\ owner \in [Flow -> Nat]
    <3>1. cur \in Nat /\ globalFlowId \in Nat
      BY <1>p, MainNumbers
    <3>2. NumConn \in Nat
      BY <1>p, <2>1, CurrentRequest DEF Preparing
    <3>3. owner \in [Flow -> 0 .. NReq] /\ 0 .. NReq \subseteq Nat
      BY <1>p, RequestAssumption DEF TypeInv, MainType
    <3> QED
      BY <3>1, <3>2, <3>3
  <2>3. owner' \in [Flow -> Nat]
    BY <2>1, <2>2
  <2>4. \A f \in started : owner'[f] = owner[f]
    <3> TAKE f \in started
    <3>1. f \in Flow /\ f \in Nat /\ f <= globalFlowId
      BY <1>p DEF IdInv
    <3>2. f \notin globalFlowId + 1 .. globalFlowId + NumConn
      BY <2>2, <3>1
    <3> QED
      BY <2>1, <3>1, <3>2
  <2>5. Unheard' = Unheard
    BY <2>1 DEF Unheard
  <2>6. (mpc # "done") = TRUE /\ (mpc' # "done") = TRUE /\ Lossy' = Lossy
    BY <2>1, <2>5 DEF Lossy
  <2>7. Log!Make
    BY <2>1, <2>3, <2>4, <2>6 DEF Log!Make, Lossy
  <2> QED
    BY <2>7 DEF Log!Next
<1>9. ASSUME NEW k \in DOMAIN fpc, FlowMarkBusy(k) PROVE [Log!Next]_(Log!logVars)
  <2>1. PICK id \in Flow : id = flowReqs[k].id /\ id <= globalFlowId /\ FirstId < id
    BY <1>p, FlowThreadId
  <2>2. /\ fpc[k] = "mark" /\ started' = started \cup {id}
        /\ UNCHANGED <<owner, stopped, breaks, mpc, lpc, toServer, toClient>>
    BY <1>9, <2>1 DEF FlowMarkBusy
  <2>3. id \notin started
    BY <1>p, <2>1, <2>2 DEF FlowInv
  <2>4. cur \in Nat \ {0} /\ owner[id] = cur /\ \A g \in started : owner[g] <= cur
    BY <1>p, <2>1, MainNumbers DEF IdInv
  <2>5. ASSUME NEW n \in Node, lpc[n] = "none"
        PROVE  id \notin Range(toServer[n]) \cup Range(toClient[n])
    <3>1. \A i \in Nat : ~At(n, i, id)
      BY <1>p, <2>3 DEF FlowInv
    <3> QED
      BY <1>p, <3>1, RangeAt
  <2>6. Unheard' = Unheard
    BY <2>2, <2>5 DEF Unheard
  <2>7. (mpc # "done") = TRUE /\ (mpc' # "done") = TRUE /\ Lossy' = Lossy
    BY <1>r, <2>2, <2>6 DEF Lossy
  <2>8. Log!Start(id)
    BY <2>2, <2>3, <2>4, <2>7 DEF Log!Start, Lossy
  <2> QED
    BY <2>8 DEF Log!Next
<1>10. ASSUME NEW n \in Node, ListenStamp(n) PROVE [Log!Next]_(Log!logVars)
  <2>1. /\ lpc[n] = "stamp" /\ stopped' = stopped \cup {got[n]}
        /\ lpc' = [lpc EXCEPT ![n] = "read"]
        /\ UNCHANGED <<owner, started, breaks, mpc, toServer, toClient>>
    BY <1>10 DEF ListenStamp, ListenStamped
  <2>2. got[n] \in Flow /\ got[n] \in started \ stopped
    BY <1>p, <2>1, StampedFlow
  <2>3. \A m \in Node : lpc'[m] = "none" <=> lpc[m] = "none"
    BY <1>p, <2>1 DEF ConnType
  <2>4. Unheard' = Unheard
    BY <2>1, <2>3 DEF Unheard
  <2>5. (mpc # "done") = TRUE /\ (mpc' # "done") = TRUE /\ Lossy' = Lossy
    BY <1>r, <2>1, <2>4 DEF Lossy
  <2>6. Log!Stop(got[n])
    BY <2>1, <2>2, <2>5 DEF Log!Stop, Lossy
  <2> QED
    BY <2>2, <2>6 DEF Log!Next
<1> QED
  BY <1>1, <1>2, <1>3, <1>4, <1>5, <1>6, <1>7, <1>8, <1>9, <1>10, StepCases DEF MainPool

\* The log that the client writes is what FlowLog promises: no flow of a
\* request is started before one of an earlier request, each flow is started
\* once and logged as finished once, and when the results are printed all
\* that were started are finished, unless a connection failed or a flow was
\* sent on one without a listener.
THEOREM IncastImplementsLog == Spec => ImplementsLog
<1>1. Init => Log!Init
  <2> SUFFICES ASSUME Init PROVE Log!Init
    OBVIOUS
  <2>1. /\ started = {} /\ stopped = {} /\ (mpc # "done") = TRUE
        /\ owner \in [Flow -> Nat]
    BY DEF Init, PoolInit
  <2>2. ~Lossy
    BY DEF Init, PoolInit, Lossy, Unheard
  <2>3. (breaks > 0 \/ Unheard # {}) = FALSE
    BY <2>2 DEF Lossy
  <2> QED
    BY <2>1, <2>3 DEF Log!Init
<1>2. /\ MainsInv /\ FlowsInv /\ (MainsInv /\ FlowsInv)' /\ [Next]_vars
         => [Log!Next]_(Log!logVars)
  BY StepImplements
<1> QED
  BY <1>1, <1>2, FlowsInvariant, PTL DEF Spec, ImplementsLog, Log!Spec

-----------------------------------------------------------------------------
(* Types.                                                                  *)

\* No flow ID passes the end of flow_req_id and of the arrays of times: IDs
\* are handed out for the flows of the requests so far.
LEMMA IdsWithin ==
  ASSUME MainsInv
  PROVE  globalFlowId \in 0 .. FlowsUpTo[NReq] /\ globalFlowId = FirstId + Ready /\ Ready \in Nat
<1>0. TypeInv /\ MainInv /\ IdInv
  BY DEF MainsInv
<1>1. /\ globalFlowId \in Nat /\ cur \in Nat \ {0} /\ cur <= NReq + 1 /\ NReq \in Nat \ {0}
      /\ FirstId \in Nat /\ FirstId <= FlowsUpTo[cur - 1]
      /\ NReq \in 0 .. NReq /\ FlowsUpTo[NReq] \in Nat
  BY <1>0, MainNumbers, FlowsUpToSums DEF IdInv
<1>2. CASE cur <= NReq
  <2>1. cur \in Request /\ cur \in 0 .. NReq
    BY <1>1, <1>2 DEF Request
  <2>2. /\ Ready \in Nat /\ Ready <= Fanout[cur] /\ Fanout[cur] \in Nat
        /\ FlowsUpTo[cur - 1] \in Nat /\ FlowsUpTo[cur] \in Nat
        /\ FlowsUpTo[cur] = FlowsUpTo[cur - 1] + Fanout[cur]
    BY <1>0, <2>1, ReadyWithin
  <2>3. FlowsUpTo[cur] <= FlowsUpTo[NReq]
    BY <1>1, <1>2, <2>1, FlowsUpToGrows
  <2>4. globalFlowId = FirstId + Ready
    BY <1>1, <2>2 DEF FirstId
  <2> QED
    BY <1>1, <2>2, <2>3, <2>4
<1>3. CASE ~(cur <= NReq)
  <2>1. cur - 1 = NReq /\ srv - 1 = 0
    BY <1>0, <1>1, <1>3 DEF MainInv
  <2>2. Ready = 0
    BY <2>1, NothingReady DEF Ready
  <2>3. globalFlowId = FirstId
    BY <1>1, <2>2 DEF FirstId
  <2> QED
    BY <1>1, <2>1, <2>2, <2>3
<1> QED
  BY <1>2, <1>3

\* The state stays within the C types and the arrays.
THEOREM TypesKept == Spec => []TypeOK
<1>1. MainsInv /\ FlowsInv => TypeOK
  <2> SUFFICES ASSUME MainsInv, FlowsInv PROVE TypeOK
    OBVIOUS
  <2>1. /\ TypeInv /\ MainType /\ ReqInv /\ ConnType /\ stopped \subseteq started
        /\ reqStopped \subseteq Request
    BY DEF MainsInv, TypeInv, FlowsInv, FlowInv
  <2>2. PoolTypeOK
    BY <2>1, PoolTypeParts DEF MainType
  <2>3. globalFlowId \in 0 .. FlowsUpTo[NReq]
    BY IdsWithin
  <2>4. ASSUME NEW k \in DOMAIN flowReqs
        PROVE  flowReqs[k] \in [conn : Node, id : Flow \cup {0}]
    <3>1. /\ k \in Nat \ {0} /\ flowReqs[k].conn \in Node /\ flowReqs[k].id \in Nat
          /\ flowReqs[k] = [conn |-> flowReqs[k].conn, id |-> flowReqs[k].id]
      BY <2>1, FlowReqsType
    <3>2. flowReqs[k].id \in Flow \cup {0}
      <4>1. /\ globalFlowId = FirstId + Ready /\ Ready \in Nat /\ FirstId \in Nat
            /\ globalFlowId <= FlowsUpTo[NReq] /\ FlowsUpTo[NReq] \in Nat
        BY IdsWithin, FlowsUpToSums, RequestAssumption DEF MainsInv, IdInv
      <4>2. /\ k <= Ready => flowReqs[k].id = FirstId + k
            /\ k > Ready => flowReqs[k].id = 0
        BY <2>1 DEF ReqInv
      <4>3. CASE k <= Ready
        <5>1. FirstId + k \in 1 .. FlowsUpTo[NReq]
          BY <3>1, <4>1, <4>3
        <5> QED
          BY <4>2, <4>3, <5>1 DEF Flow
      <4>4. CASE ~(k <= Ready)
        <5>1. k > Ready
          BY <3>1, <4>1, <4>4
        <5> QED
          BY <4>2, <5>1
      <4> QED
        BY <4>3, <4>4
    <3> QED
      BY <3>1, <3>2
  <2>5. \A k \in DOMAIN fpc : fpc[k] \in {"mark", "take", "write", "done"}
    BY <2>1, FlowReqsType DEF FlowPc
  <2>6. owner \in [Flow -> Request \cup {0}]
    <3>1. 0 .. NReq = Request \cup {0}
      BY RequestAssumption DEF Request
    <3> QED
      BY <2>1, <3>1 DEF MainType
  <2> QED
    BY <2>1, <2>2, <2>3, <2>4, <2>5, <2>6 DEF MainType, TypeOK
<1> QED
  BY <1>1, FlowsInvariant, PTL


-----------------------------------------------------------------------------
(* Searches.  From here on no connection has failed and none is terminated *)
(* yet: otherwise FlowsServed promises nothing of a search.                *)

Calm == RunPhase /\ breaks = 0

\* A flow's thread has taken connection n and not written its request yet.
TakenBy(n) == \E k \in DOMAIN fpc : fpc[k] \in Writing /\ flowReqs[k].conn = n

\* A connection is busy only for a flow: one that is to be sent on it, is on
\* it, or was just read from it.
BusyInv == Calm => \A n \in Node :
    busy[n] => Transit(n) # <<>> \/ lpc[n] = "unbusy" \/ TakenBy(n)

\* A step that makes no connection busy and takes no flow off a busy one.
LEMMA BusyInvStays ==
  ASSUME BusyInv, Calm' => Calm,
         \A n \in Node : busy'[n] => /\ busy[n]
                                     /\ Transit(n) # <<>> => Transit(n)' # <<>>
                                     /\ lpc[n] = "unbusy" => lpc'[n] = "unbusy"
                                     /\ TakenBy(n) => TakenBy(n)'
  PROVE  BusyInv'
BY DEF BusyInv

\* A quiet step of main takes no connection while requests are made.
LEMMA MainQuietBusy ==
  ASSUME MainQuiet, RunPhase'
  PROVE  UNCHANGED <<busy, availableLen>>
<1> USE DEF list, node, files, wire, main, poolVars, request, times, reqVars
<1>1. CASE ExitNode(TRUE)
  BY <1>1 DEF ExitNode, RunPhase
<1>2. CASE OpenFirstFails \/ ExitAllSent \/ WaitNode \/ WaitAllDone
  BY <1>2 DEF OpenFirstFails, ExitAllSent, WaitNode, WaitAllDone
<1>3. CASE SkipServer \/ CountNew \/ InsertFails \/ BeginSearch \/ SearchNode
  BY <1>3 DEF SkipServer, CountNew, InsertFails, ConnectRefused, BeginSearch, SearchNode
<1>4. CASE AssignFlows \/ SearchMisses \/ StartFlows \/ JoinFlows \/ RequestsDone \/ WaitNoListener
  BY <1>4 DEF AssignFlows, SearchMisses, StartFlows, JoinFlows, RequestsDone, WaitNoListener
<1> QED
  BY <1>1, <1>2, <1>3, <1>4 DEF MainQuiet

\* Listeners make a connection idle when they have read its flow.
LEMMA ThreadQuietBusy ==
  ASSUME ConnType, ThreadQuiet, NEW n \in Node, busy'[n]
  PROVE  busy[n] /\ (lpc[n] = "unbusy" => lpc'[n] = "unbusy")
<1> USE DEF list, node, files, wire, main
<1>1. CASE UNCHANGED vars \/ \E m \in Node : Serve(m) \/ ServeEnd(m)
  BY <1>1 DEF vars, poolVars, Serve, ServeEnd
<1>2. ASSUME NEW m \in Node,
             ListenUnbusy(m) \/ ListenClose(m) \/ ListenDisconnect(m) \/ ListenLeave(m)
      PROVE  busy[n] /\ (lpc[n] = "unbusy" => lpc'[n] = "unbusy")
  <2>1. CASE ListenUnbusy(m)
    BY <2>1 DEF ListenUnbusy, ConnType
  <2>2. CASE ListenClose(m)
    BY <2>2 DEF ListenClose, ConnType
  <2>3. CASE ListenDisconnect(m)
    BY <2>3 DEF ListenDisconnect, ConnType
  <2>4. CASE ListenLeave(m)
    BY <2>4 DEF ListenLeave, ConnType
  <2> QED
    BY <1>2, <2>1, <2>2, <2>3, <2>4
<1> QED
  BY <1>1, <1>2 DEF ThreadQuiet

\* What a step of a flow's thread does to the connections that are taken.
LEMMA TakenAfter ==
  ASSUME TypeInv, NEW k \in DOMAIN fpc, NEW v, fpc' = [fpc EXCEPT ![k] = v], UNCHANGED flowReqs
  PROVE  /\ \A n : n # flowReqs[k].conn /\ TakenBy(n) => TakenBy(n)'
         /\ v \in Writing => TakenBy(flowReqs[k].conn)'
<1>1. DOMAIN fpc' = DOMAIN fpc /\ fpc'[k] = v /\ \A j \in DOMAIN fpc : j # k => fpc'[j] = fpc[j]
  <2>1. fpc = [j \in DOMAIN fpc |-> fpc[j]]
    BY FlowReqsType DEF TypeInv, MainType
  <2> QED
    BY <2>1
<1> QED
  BY <1>1 DEF TakenBy

\* A request that is written is on the connection of its flow.
LEMMA WrittenOn ==
  ASSUME ConnType, FilesInv, NEW n \in Node, NEW id \in Nat, WriteSent(n, id), sock[n] = "open"
  PROVE  /\ toServer' = [toServer EXCEPT ![n] = Append(@, id)] /\ toClient' = toClient
         /\ Transit(n)' # <<>>
         /\ \A m \in Node : Transit(m) # <<>> => Transit(m)' # <<>>
<1>1. PICK m \in Node : /\ sock[m] = "open" /\ sockfd[m] = sockfd[n]
                        /\ toServer' = [toServer EXCEPT ![m] = Append(@, id)]
  BY WriteSentEffect, SMTT(30)
<1>2. m = n
  BY <1>1 DEF FilesInv, Holds
<1>3. toClient' = toClient
  BY WriteSentEffect
<1>4. /\ \A q \in Node \ {n} : Transit(q)' = Transit(q)
      /\ Len(Transit(n)') = Len(Transit(n)) + 1 /\ Transit(n)' \in Seq(Nat) /\ Len(Transit(n)) \in Nat
  BY <1>1, <1>2, <1>3, TransitSend, TransitType
<1>5. Transit(n)' # <<>>
  BY <1>4
<1> QED
  BY <1>1, <1>2, <1>3, <1>4, <1>5

\* Only a flow makes a connection busy.
LEMMA BusyInvStep ==
  ASSUME MainsInv, FlowsInv, BusyInv, [Next]_vars
  PROVE  BusyInv'
<1> USE DEF list, node, files, wire, main, poolVars, request, times, reqVars
<1>0. /\ TypeInv /\ MainInv /\ ReqInv /\ ConnType /\ IsFiniteSet(leaked)
      /\ NodeInv /\ FilesInv /\ ExitInv /\ breaks \in Nat
  BY PoolAssumption DEF MainsInv, FlowsInv, TypeInv, ConnType
<1> SUFFICES ASSUME Calm' PROVE BusyInv'
  BY DEF BusyInv
<1>1. CASE MainQuiet
  <2>1. UNCHANGED <<busy, lpc, toServer, toClient, breaks>> /\ (RunPhase' => RunPhase)
    BY <1>1, MainQuietFrame, MainQuietBusy DEF Calm
  <2>2. \A n \in Node : Transit(n)' = Transit(n)
    BY <2>1, TransitSame
  <2>3. \A n : ~TakenBy(n)
    BY <1>1, MainQuietThreads DEF TakenBy, Writing
  <2> QED
    BY <2>1, <2>2, <2>3, BusyInvStays DEF Calm
<1>2. CASE ThreadQuiet
  <2>1. UNCHANGED <<main, breaks, fpc, flowReqs>> /\ \A n \in Node : Transit(n)' = Transit(n)
    BY <1>0, <1>2, ThreadQuietSteps
  <2>2. \A n \in Node : busy'[n] => busy[n] /\ (lpc[n] = "unbusy" => lpc'[n] = "unbusy")
    BY <1>0, <1>2, ThreadQuietBusy
  <2>3. \A n : TakenBy(n) => TakenBy(n)'
    BY <2>1 DEF TakenBy
  <2> QED
    BY <2>1, <2>2, <2>3, BusyInvStays DEF Calm, RunPhase
<1>3. CASE (OpenFirst /\ UNCHANGED reqVars) \/ InsertOne
  <2>1. PICK s \in Server : AddNode(s, FALSE)
    <3>1. CASE OpenFirst
      BY <1>0, <3>1 DEF OpenFirst, TypeInv, MainType
    <3>2. CASE InsertOne
      <4>1. AddNode(srv, FALSE) /\ mpc = "insert"
        BY <3>2 DEF InsertOne
      <4> QED
        BY <1>0, <4>1, CurrentRequest DEF Preparing
    <3> QED
      BY <1>3, <3>1, <3>2
  <2>2. \A n \in Node : busy'[n] => busy[n] /\ (lpc[n] = "unbusy" => lpc'[n] = "unbusy")
    BY <1>0, <2>1, AddNodeEffect
  <2>3. \A n \in Node : Transit(n)' = Transit(n)
    BY <1>0, <2>1, AddNodeEffect, TransitSame
  <2>4. UNCHANGED <<fpc, flowReqs, breaks>> /\ RunPhase
    BY <1>3, <2>1 DEF OpenFirst, InsertOne, AddNode, RunPhase
  <2>5. \A n : TakenBy(n) => TakenBy(n)'
    BY <2>4 DEF TakenBy
  <2> QED
    BY <2>2, <2>3, <2>4, <2>5, BusyInvStays DEF Calm
<1>4. CASE (SpawnListeners /\ UNCHANGED reqVars) \/ StartListeners
  <2>1. UNCHANGED <<busy, toServer, toClient, breaks, fpc, flowReqs>> /\ RunPhase
    BY <1>4 DEF SpawnListeners, StartListeners, RunPhase
  <2>2. \A n \in Node : lpc'[n] = lpc[n] \/ (lpc[n] = "none" /\ lpc'[n] = "read")
    BY <1>0, <1>4 DEF SpawnListeners, StartListeners, NodeInv, NodeOK
  <2>3. \A n \in Node : Transit(n)' = Transit(n) /\ (TakenBy(n) => TakenBy(n)')
    BY <2>1, TransitSame DEF TakenBy
  <2> QED
    BY <2>1, <2>2, <2>3, BusyInvStays DEF Calm
<1>5. CASE ExitWrite /\ UNCHANGED reqVars
  BY <1>5 DEF ExitWrite, WriteKills, Calm, RunPhase
<1>6. ASSUME NEW k \in DOMAIN fpc, Running, FlowMarkBusy(k) PROVE BusyInv'
  <2>1. /\ UNCHANGED <<lpc, toServer, toClient, breaks, main, flowReqs>>
        /\ busy' = [busy EXCEPT ![flowReqs[k].conn] = TRUE]
        /\ fpc' = [fpc EXCEPT ![k] = "take"]
    BY <1>6 DEF FlowMarkBusy
  <2>2. \A n \in Node : Transit(n)' = Transit(n)
    BY <2>1, TransitSame
  <2>3. TakenBy(flowReqs[k].conn)' /\ \A n : n # flowReqs[k].conn /\ TakenBy(n) => TakenBy(n)'
    BY <1>0, <2>1, TakenAfter DEF Writing
  <2>4. \A n \in Node : n # flowReqs[k].conn => busy'[n] = busy[n]
    BY <1>0, <2>1 DEF ConnType
  <2>5. Calm
    BY <2>1 DEF Calm, RunPhase
  <2>6. ASSUME NEW n \in Node, busy'[n]
        PROVE  Transit(n)' # <<>> \/ lpc'[n] = "unbusy" \/ TakenBy(n)'
    <3>1. CASE n = flowReqs[k].conn
      BY <2>1, <2>3, <3>1 DEF TakenBy
    <3>2. CASE n # flowReqs[k].conn
      <4>1. busy[n]
        BY <2>4, <2>6, <3>2
      <4>2. Transit(n) # <<>> \/ lpc[n] = "unbusy" \/ TakenBy(n)
        BY <2>5, <4>1 DEF BusyInv
      <4>3. Transit(n)' = Transit(n) /\ lpc'[n] = lpc[n] /\ (TakenBy(n) => TakenBy(n)')
        BY <2>1, <2>2, <2>3, <3>2
      <4> QED
        BY <4>2, <4>3
    <3> QED
      BY <3>1, <3>2
  <2> QED
    BY <2>6 DEF BusyInv
<1>7. ASSUME NEW k \in DOMAIN fpc, Running, FlowTakeAvailable(k) PROVE BusyInv'
  <2>1. /\ UNCHANGED <<busy, lpc, toServer, toClient, breaks, main, flowReqs>>
        /\ fpc' = [fpc EXCEPT ![k] = "write"]
    BY <1>7 DEF FlowTakeAvailable
  <2>2. \A n \in Node : Transit(n)' = Transit(n)
    BY <2>1, TransitSame
  <2>3. \A n : TakenBy(n) => TakenBy(n)'
    BY <1>0, <2>1, TakenAfter DEF Writing
  <2>4. Calm
    BY <2>1 DEF Calm, RunPhase
  <2> QED
    BY <2>1, <2>2, <2>3, <2>4, BusyInvStays
<1>8. ASSUME NEW k \in DOMAIN fpc, Running, FlowWrite(k) PROVE BusyInv'
  <2>1. UNCHANGED <<busy, lpc, breaks, flowReqs>> /\ breaks = 0
    BY <1>8 DEF FlowWrite, WriteKills, Calm
  <2>2. flowReqs[k].conn \in Node /\ flowReqs[k].id \in Nat
    BY <1>0, <1>8, FlowThread, FlowReqsType
  <2>3. sock[flowReqs[k].conn] = "open" /\ Connects(flowReqs[k].conn)
    BY <1>0, <1>8, <2>1, WriteConnects
  <2>4. /\ WriteSent(flowReqs[k].conn, flowReqs[k].id) /\ UNCHANGED main
        /\ fpc' = [fpc EXCEPT ![k] = "done"]
    BY <1>8, <2>3 DEF FlowWrite, WriteLost, WriteKills
  <2>5. /\ Transit(flowReqs[k].conn)' # <<>>
        /\ \A m \in Node : Transit(m) # <<>> => Transit(m)' # <<>>
    <3>1. PICK c \in Node, id \in Nat : c = flowReqs[k].conn /\ id = flowReqs[k].id
      BY <2>2
    <3>2. ConnType /\ FilesInv /\ WriteSent(c, id) /\ sock[c] = "open"
      BY <1>0, <2>3, <2>4, <3>1
    <3>3. /\ Transit(c)' # <<>>
          /\ \A m \in Node : Transit(m) # <<>> => Transit(m)' # <<>>
      BY <3>2, WrittenOn
    <3>4. Transit(flowReqs[k].conn) = Transit(c) /\ flowReqs'[k] = flowReqs[k]
      BY <2>1, <3>1
    <3> QED
      BY <3>1, <3>3, <3>4 DEF Transit
  <2>6. \A n : n # flowReqs[k].conn /\ TakenBy(n) => TakenBy(n)'
    BY <1>0, <2>1, <2>4, TakenAfter
  <2>7. Calm
    BY <2>1, <2>4 DEF Calm, RunPhase
  <2>8. ASSUME NEW n \in Node, busy'[n]
        PROVE  Transit(n)' # <<>> \/ lpc'[n] = "unbusy" \/ TakenBy(n)'
    BY <2>1, <2>5, <2>6, <2>7, <2>8 DEF BusyInv
  <2> QED
    BY <2>8 DEF BusyInv
<1>9. ASSUME NEW n \in Node, ListenRead(n), UNCHANGED reqVars PROVE BusyInv'
  <2>1. /\ UNCHANGED <<busy, breaks, main, fpc, flowReqs>> /\ lpc'[n] = "unbusy"
        /\ \A m \in Node \ {n} : lpc'[m] = lpc[m]
    BY <1>0, <1>9 DEF ListenRead, ConnType
  <2>2. \A m \in Node \ {n} : Transit(m)' = Transit(m)
    BY <1>0, <1>9, TransitRead
  <2>3. Calm /\ \A m : TakenBy(m) => TakenBy(m)'
    BY <2>1 DEF Calm, RunPhase, TakenBy
  <2>4. ASSUME NEW m \in Node, busy'[m]
        PROVE  Transit(m)' # <<>> \/ lpc'[m] = "unbusy" \/ TakenBy(m)'
    <3>1. CASE m = n
      BY <2>1, <3>1
    <3>2. CASE m # n
      BY <2>1, <2>2, <2>3, <2>4, <3>2 DEF BusyInv
    <3> QED
      BY <3>1, <3>2
  <2> QED
    BY <2>4 DEF BusyInv
<1>10. ASSUME NEW n \in Node, UNCHANGED <<fpc, flowReqs>>,
              ListenFail(n) \/ ListenAccount(n) \/ ListenStamp(n)
       PROVE  BusyInv'
  <2>1. /\ UNCHANGED <<busy, toServer, toClient, breaks, main>> /\ lpc[n] # "unbusy"
        /\ \A m \in Node \ {n} : lpc'[m] = lpc[m]
    BY <1>0, <1>10 DEF ListenFail, ListenAccount, ListenStamp, ListenStamped, ConnType
  <2>2. \A m \in Node : Transit(m)' = Transit(m) /\ (TakenBy(m) => TakenBy(m)')
    BY <1>10, <2>1, TransitSame DEF TakenBy
  <2>3. Calm
    BY <2>1 DEF Calm, RunPhase
  <2> QED
    BY <2>1, <2>2, <2>3, BusyInvStays
<1>11. ASSUME NEW n \in Node, Break(n) PROVE BusyInv'
  BY <1>0, <1>11 DEF Break, Calm
<1> QED
  BY <1>1, <1>2, <1>3, <1>4, <1>5, <1>6, <1>7, <1>8, <1>9, <1>10, <1>11, StepKinds DEF ListenStamp


-----------------------------------------------------------------------------
(* CountInv.                                                               *)

\* The flows for which available_len was lowered and not raised again: those
\* that are about to be written and those not accounted for yet.
Outstanding(s) == {r \in Flow :
    \/ \E n \in Node : n[1] = s /\ Owes(n, r)
    \/ \E k \in DOMAIN fpc : fpc[k] = "write" /\ flowReqs[k].id = r /\ flowReqs[k].conn[1] = s}

\* The connections picked for this request that available_len still counts.
Reserved(s) == {k \in DOMAIN flowReqs :
    flowReqs[k].conn[1] = s /\ (mpc = "flows" => fpc[k] \in {"mark", "take"})}

\* available_len counts no more than what is left of len when the outstanding
\* flows are taken off, and no fewer than are reserved, so that taking a
\* connection does not make it wrap; and it stays large enough for a search.
CountInv == Calm =>
    /\ \A s \in Server : /\ availableLen[s] + Cardinality(Outstanding(s)) <= len[s]
                         /\ Cardinality(Reserved(s)) <= availableLen[s]
    /\ mpc = "search" => NumConn <= availableLen[srv]

\* These sets are finite.
LEMMA CountTypes ==
  ASSUME TypeInv, NEW s \in Server
  PROVE  /\ IsFiniteSet(Outstanding(s)) /\ Cardinality(Outstanding(s)) \in Nat
         /\ IsFiniteSet(Reserved(s)) /\ Cardinality(Reserved(s)) \in Nat
         /\ availableLen[s] \in Nat /\ len[s] \in Nat /\ len[s] < UIntWord
<1>1. IsFiniteSet(Flow)
  <2>1. FlowsUpTo[NReq] \in Nat
    BY FlowsUpToSums, RequestAssumption
  <2> QED
    BY <2>1, FS_Interval DEF Flow
<1>2. Outstanding(s) \subseteq Flow
  BY DEF Outstanding
<1>3. IsFiniteSet(DOMAIN flowReqs)
  <2>1. DOMAIN flowReqs = 1 .. Len(flowReqs) /\ Len(flowReqs) \in Nat
    BY FlowReqsType
  <2> QED
    BY <2>1, FS_Interval
<1>4. Reserved(s) \subseteq DOMAIN flowReqs
  BY DEF Reserved
<1>5. IsFiniteSet(Outstanding(s)) /\ IsFiniteSet(Reserved(s))
  <2>1. IsFiniteSet(Outstanding(s))
    BY <1>1, <1>2, FS_Subset
  <2>2. IsFiniteSet(Reserved(s))
    BY <1>3, <1>4, FS_Subset
  <2> QED
    BY <2>1, <2>2
<1>6. availableLen[s] \in 0 .. (UIntWord - 1) /\ len[s] \in 0 .. MaxNode
  BY DEF TypeInv, ConnType
<1> QED
  BY <1>5, <1>6, FS_CardinalityType, PoolAssumption

\* A step that changes neither counter, and after which no more flows are
\* outstanding and no more connections reserved.
LEMMA CountInvStays ==
  ASSUME TypeInv, CountInv, Calm' => Calm, UNCHANGED <<len, availableLen>>,
         \A s \in Server : /\ Outstanding(s)' \subseteq Outstanding(s)
                           /\ Reserved(s)' \subseteq Reserved(s),
         mpc' = "search" => \/ mpc = "search" /\ UNCHANGED <<cur, srv>>
                            \/ NumConn' <= availableLen[srv']
  PROVE  CountInv'
<1> SUFFICES ASSUME Calm' PROVE CountInv'
  BY DEF CountInv
<1>1. ASSUME NEW s \in Server
      PROVE  /\ availableLen'[s] + Cardinality(Outstanding(s)') <= len'[s]
             /\ Cardinality(Reserved(s)') <= availableLen'[s]
  <2>1. /\ Cardinality(Outstanding(s)') <= Cardinality(Outstanding(s))
        /\ Cardinality(Reserved(s)') <= Cardinality(Reserved(s))
        /\ Cardinality(Outstanding(s)') \in Nat /\ Cardinality(Reserved(s)') \in Nat
    BY CountTypes, FS_Subset, FS_CardinalityType
  <2>2. /\ availableLen[s] + Cardinality(Outstanding(s)) <= len[s]
        /\ Cardinality(Reserved(s)) <= availableLen[s]
    BY DEF CountInv
  <2> QED
    BY <2>1, <2>2, CountTypes
<1>2. mpc' = "search" => NumConn' <= availableLen'[srv']
  BY DEF CountInv, NumConn
<1> QED
  BY <1>1, <1>2 DEF CountInv

\* A step after which no more is owed than before and no thread is about to
\* write that was not before.
LEMMA OutstandingStays ==
  ASSUME \A n \in Node : \A r \in Nat \ {0} : Owes(n, r)' => Owes(n, r),
         \A k \in DOMAIN fpc' : fpc'[k] = "write" =>
             k \in DOMAIN fpc /\ fpc[k] = "write" /\ flowReqs'[k] = flowReqs[k]
  PROVE  \A s : Outstanding(s)' \subseteq Outstanding(s)
<1> SUFFICES ASSUME NEW s, NEW r \in Outstanding(s)' PROVE r \in Outstanding(s)
  OBVIOUS
<1>1. r \in Flow /\ r \in Nat \ {0}
  BY DEF Outstanding, Flow
<1>2. \/ \E n \in Node : n[1] = s /\ Owes(n, r)'
      \/ \E k \in DOMAIN fpc' : fpc'[k] = "write" /\ flowReqs'[k].id = r /\ flowReqs'[k].conn[1] = s
  BY DEF Outstanding
<1> QED
  BY <1>1, <1>2 DEF Outstanding

\* A quiet step of main reserves no connection but when it picks one.
LEMMA MainQuietReserved ==
  ASSUME MainsInv, MainQuiet, ~SearchNode, Calm'
  PROVE  /\ \A s \in Server : Reserved(s)' \subseteq Reserved(s)
         /\ mpc' = "search" => NumConn' <= availableLen[srv']
<1> USE DEF list, node, files, wire, main, poolVars, request, times, reqVars
<1>0. TypeInv /\ MainInv
  BY DEF MainsInv
<1>1. CASE OpenFirstFails \/ ExitNode(TRUE) \/ ExitAllSent \/ WaitNode \/ WaitAllDone
           \/ WaitNoListener \/ RequestsDone
  BY <1>1 DEF OpenFirstFails, ExitNode, ExitAllSent, WaitNode, WaitAllDone, WaitNoListener,
     RequestsDone, Calm, RunPhase
<1>2. CASE SkipServer \/ CountNew \/ StartFlows
  BY <1>2 DEF SkipServer, CountNew, StartFlows, Reserved
<1>3. CASE NextRequest
  BY <1>3 DEF NextRequest, Reserved
<1>4. CASE BeginSearch /\ ~NextRequest
  <2>1. mpc = "check" /\ ~(availableLen[srv] < NumConn) /\ UNCHANGED <<cur, srv, flowReqs>> /\ mpc' = "search"
    BY <1>4 DEF BeginSearch
  <2>2. NumConn <= availableLen[srv]
    BY <1>0, <2>1, CurrentRequest, CountTypes DEF Preparing
  <2> QED
    BY <2>1, <2>2 DEF Reserved, NumConn
<1>5. CASE AssignFlows
  <2>1. mpc = "search" /\ mpc' = "request" /\ DOMAIN flowReqs' = DOMAIN flowReqs
    BY <1>5 DEF AssignFlows
  <2>2. \A k \in DOMAIN flowReqs : flowReqs'[k].conn = flowReqs[k].conn
    <3> SUFFICES ASSUME NEW k \in DOMAIN flowReqs PROVE flowReqs'[k].conn = flowReqs[k].conn
      OBVIOUS
    <3>1. PICK i : flowReqs'[k] = flowReqs[k] \/ flowReqs'[k] = [flowReqs[k] EXCEPT !.id = i]
      BY <1>5 DEF AssignFlows
    <3>2. flowReqs[k] = [conn |-> flowReqs[k].conn, id |-> flowReqs[k].id]
      BY <1>0, FlowReqsType
    <3> QED
      BY <3>1, <3>2
  <2> QED
    BY <2>1, <2>2 DEF Reserved
<1> QED
  BY <1>1, <1>2, <1>3, <1>4, <1>5 DEF MainQuiet, InsertFails, SearchMisses, JoinFlows

\* search_n_conn_list picks no more connections than available_len counts.
LEMMA SearchReserves ==
  ASSUME TypeInv, MainInv, CountInv, SearchNode, breaks = 0
  PROVE  \A s \in Server : Cardinality(Reserved(s)') <= availableLen[s]
<1>1. /\ mpc = "search" /\ mpc' = "search" /\ Picked < NumConn /\ UNCHANGED srv
      /\ flowReqs' = flowReqs \/ flowReqs' = Append(flowReqs, [conn |-> <<srv, xi>>, id |-> 0])
  BY DEF SearchNode, main
<1>2. Calm
  BY <1>1 DEF Calm, RunPhase
<1>3. /\ \A s \in Server : Cardinality(Reserved(s)) <= availableLen[s]
      /\ NumConn <= availableLen[srv]
  BY <1>1, <1>2 DEF CountInv
<1>4. ASSUME NEW s \in Server PROVE Cardinality(Reserved(s)') <= availableLen[s]
  <2>1. CASE flowReqs' = flowReqs
    <3>1. Reserved(s)' = Reserved(s)
      BY <1>1, <2>1 DEF Reserved
    <3> QED
      BY <1>3, <3>1
  <2>2. CASE flowReqs' = Append(flowReqs, [conn |-> <<srv, xi>>, id |-> 0])
    <3>1. Len(flowReqs) \in Nat /\ DOMAIN flowReqs = 1 .. Len(flowReqs)
      BY FlowReqsType
    <3> DEFINE l == Len(flowReqs) + 1
    <3>2. /\ DOMAIN flowReqs' = DOMAIN flowReqs \cup {l} /\ l \notin DOMAIN flowReqs
          /\ flowReqs'[l] = [conn |-> <<srv, xi>>, id |-> 0]
          /\ \A k \in DOMAIN flowReqs : flowReqs'[k] = flowReqs[k]
      <4>1. flowReqs \in Seq([conn : Node, id : Nat])
        BY DEF TypeInv, MainType
      <4> QED
        BY <2>2, <3>1, <4>1
    <3> HIDE DEF l
    <3>3. flowReqs'[l].conn[1] = srv
      BY <3>2
    <3>4. CASE s # srv
      <4>1. Reserved(s)' = Reserved(s)
        BY <1>1, <3>2, <3>3, <3>4 DEF Reserved
      <4> QED
        BY <1>3, <4>1
    <3>5. CASE s = srv
      <4>1. Reserved(s)' = Reserved(s) \cup {l} /\ l \notin Reserved(s)
        BY <1>1, <3>2, <3>3, <3>5 DEF Reserved
      <4>2. Cardinality(Reserved(s) \cup {l}) = Cardinality(Reserved(s)) + 1
        BY <4>1, CountTypes, FS_AddElement
      <4>3. Reserved(s) = {k \in DOMAIN flowReqs : flowReqs[k].conn[1] = srv}
        BY <1>1, <3>5 DEF Reserved
      <4>4. Picked = Cardinality(Reserved(s))
        BY <4>3 DEF Picked
      <4>5. NumConn \in Int
        BY <1>1, CurrentRequest DEF Preparing
      <4> QED
        BY <1>1, <1>3, <3>5, <4>1, <4>2, <4>4, <4>5, CountTypes
    <3> QED
      BY <3>4, <3>5
  <2> QED
    BY <1>1, <2>1, <2>2
<1> QED
  BY <1>4


\* A flow is owed by one listener, in one place.
LEMMA OwedOnce ==
  ASSUME TypeInv, FlowInv, NEW m \in Node, NEW n \in Node, NEW r \in Flow, Owes(m, r), Owes(n, r)
  PROVE  m = n
<1>1. r \in Nat \ {0}
  BY DEF Flow
<1>2. (\E i \in Nat : At(m, i, r)) /\ (\E j \in Nat : At(n, j, r))
  BY <1>1, OwesAt DEF TypeInv
<1> QED
  BY <1>1, <1>2 DEF FlowInv

\* A new connection is available, and available_len has room for it.
LEMMA CountAdded ==
  ASSUME TypeInv, NodeInv, CountInv, Calm, NEW s \in Server, AddNode(s, FALSE),
         mpc' # "search", mpc # "flows", mpc' # "flows", UNCHANGED <<fpc, flowReqs>>
  PROVE  CountInv'
<1>0. ConnType /\ IsFiniteSet(leaked)
  BY DEF TypeInv
<1>1. /\ len[s] < MaxNode /\ availableLen'[s] = UInt(availableLen[s] + 1)
      /\ \A t \in Server : /\ len'[t] = IF t = s THEN len[t] + 1 ELSE len[t]
                           /\ t # s => availableLen'[t] = availableLen[t]
  BY <1>0, AddNodeEffect
<1>2. \A n \in Node : lpc[n] = "none" \/ Exists(n)
  BY DEF NodeInv, NodeOK
<1>3. \A n \in Node : /\ Transit(n)' = Transit(n) /\ got'[n] = got[n]
                      /\ lpc'[n] \in {"unbusy", "account"} <=> lpc[n] \in {"unbusy", "account"}
  <2>1. \A n \in Node : Transit(n)' = Transit(n) /\ got'[n] = got[n]
    BY <1>0, <1>2, FlowsAdded
  <2>2. PICK k \in Node : k = <<s, len[s] + 1>>
    BY <1>0, AddNodeEffect
  <2>3. lpc'[k] = "none" /\ \A n \in Node : n # k => lpc'[n] = lpc[n]
    BY <1>0, <2>2, AddNodeEffect, ZenonT(30)
  <2>4. ~Exists(k)
    BY <1>0, <2>2, NodeNumbers DEF Exists
  <2> QED
    BY <1>2, <2>1, <2>3, <2>4
<1>4. \A n \in Node : \A r \in Nat \ {0} : Owes(n, r)' => Owes(n, r)
  BY <1>3, OwesStays
<1>5. ASSUME NEW t \in Server
      PROVE  /\ availableLen'[t] + Cardinality(Outstanding(t)') <= len'[t]
             /\ Cardinality(Reserved(t)') <= availableLen'[t]
  <2>1. Outstanding(t)' \subseteq Outstanding(t)
    BY <1>4, OutstandingStays
  <2>2. Reserved(t)' = Reserved(t)
    BY DEF Reserved
  <2>3. /\ Cardinality(Outstanding(t)') <= Cardinality(Outstanding(t))
        /\ Cardinality(Outstanding(t)') \in Nat /\ Cardinality(Outstanding(t)) \in Nat
        /\ Cardinality(Reserved(t)) \in Nat
        /\ availableLen[t] \in Nat /\ len[t] \in Nat /\ len[t] < UIntWord
    BY <2>1, CountTypes, FS_Subset, FS_CardinalityType
  <2>4. /\ availableLen[t] + Cardinality(Outstanding(t)) <= len[t]
        /\ Cardinality(Reserved(t)) <= availableLen[t]
    BY DEF CountInv
  <2>5. CASE t = s
    <3>1. availableLen[t] + 1 \in Nat /\ availableLen[t] + 1 < UIntWord
      BY <1>1, <2>3, <2>4, <2>5, PoolAssumption
    <3>2. availableLen'[t] = availableLen[t] + 1
      BY <1>1, <2>5, <3>1, UIntSmall
    <3> QED
      BY <1>1, <2>2, <2>3, <2>4, <2>5, <3>2
  <2>6. CASE t # s
    BY <1>1, <2>2, <2>3, <2>4, <2>6
  <2> QED
    BY <2>5, <2>6
<1> QED
  BY <1>5 DEF CountInv

\* A flow's thread takes a connection that was reserved for it.
LEMMA CountTaken ==
  ASSUME MainsInv, CountInv, Calm, NEW k \in DOMAIN fpc, Running, FlowTakeAvailable(k)
  PROVE  CountInv'
<1> USE DEF list, node, files, wire, main, request, times
<1>0. TypeInv /\ MainInv /\ ReqInv /\ IdInv
  BY DEF MainsInv
<1>1. PICK s \in Server : s = flowReqs[k].conn[1]
  <2>1. flowReqs[k].conn \in Node
    BY <1>0, FlowThread
  <2> QED
    BY <2>1, NodeParts
<1>2. /\ fpc[k] = "take" /\ fpc' = [fpc EXCEPT ![k] = "write"] /\ mpc = "flows"
      /\ availableLen' = [availableLen EXCEPT ![s] = UInt(@ - 1)]
      /\ UNCHANGED <<len, lpc, got, toServer, toClient, main, flowReqs, cur, srv>>
  BY <1>0, <1>1, FlowThread DEF FlowTakeAvailable
<1>3. k \in DOMAIN flowReqs /\ flowReqs[k].id \in Flow /\ DOMAIN flowReqs = DOMAIN fpc
  BY <1>0, <1>2, FlowThread, FlowThreadId DEF MainInv
<1>4. DOMAIN fpc' = DOMAIN fpc /\ fpc'[k] = "write" /\ \A j \in DOMAIN fpc : j # k => fpc'[j] = fpc[j]
  <2>1. fpc = [j \in DOMAIN fpc |-> fpc[j]]
    BY <1>0, FlowReqsType DEF TypeInv, MainType
  <2> QED
    BY <1>2, <2>1
<1>5. /\ \A t \in Server : t # s => availableLen'[t] = availableLen[t]
      /\ availableLen'[s] = UInt(availableLen[s] - 1)
  BY <1>0, <1>2 DEF TypeInv, ConnType
<1>6. \A n \in Node : \A r \in Nat : Owes(n, r)' <=> Owes(n, r)
  <2>1. \A n \in Node : Transit(n)' = Transit(n)
    BY <1>2, TransitSame
  <2> QED
    BY <1>2, <2>1 DEF Owes, Places
<1>7. \A t \in Server : /\ Outstanding(t)' \subseteq Outstanding(t) \cup {flowReqs[k].id}
                        /\ t # s => Outstanding(t)' \subseteq Outstanding(t)
  <2> SUFFICES ASSUME NEW t \in Server, NEW r \in Outstanding(t)'
               PROVE  r \in Outstanding(t) \/ (r = flowReqs[k].id /\ t = s)
    OBVIOUS
  <2>1. r \in Flow /\ r \in Nat
    BY DEF Outstanding, Flow
  <2>2. \/ \E n \in Node : n[1] = t /\ Owes(n, r)'
        \/ \E j \in DOMAIN fpc' : fpc'[j] = "write" /\ flowReqs[j].id = r /\ flowReqs[j].conn[1] = t
    BY <1>2 DEF Outstanding
  <2>3. CASE \E n \in Node : n[1] = t /\ Owes(n, r)'
    BY <1>6, <2>1, <2>3 DEF Outstanding
  <2>4. CASE \E j \in DOMAIN fpc' : fpc'[j] = "write" /\ flowReqs[j].id = r /\ flowReqs[j].conn[1] = t
    BY <1>1, <1>4, <2>1, <2>4 DEF Outstanding
  <2> QED
    BY <2>2, <2>3, <2>4
<1>8. /\ k \in Reserved(s) /\ Reserved(s)' = Reserved(s) \ {k}
      /\ \A t \in Server : Reserved(t)' \subseteq Reserved(t)
  BY <1>1, <1>2, <1>3, <1>4 DEF Reserved
<1>9. ASSUME NEW t \in Server
      PROVE  /\ availableLen'[t] + Cardinality(Outstanding(t)') <= len'[t]
             /\ Cardinality(Reserved(t)') <= availableLen'[t]
  <2>1. /\ Cardinality(Outstanding(t)) \in Nat /\ IsFiniteSet(Outstanding(t))
        /\ Cardinality(Reserved(t)) \in Nat /\ IsFiniteSet(Reserved(t))
        /\ availableLen[t] \in Nat /\ len[t] \in Nat /\ len[t] < UIntWord
        /\ availableLen[t] + Cardinality(Outstanding(t)) <= len[t]
        /\ Cardinality(Reserved(t)) <= availableLen[t]
    BY <1>0, CountTypes DEF CountInv
  <2>2. CASE t = s
    <3>1. Cardinality(Reserved(t)') = Cardinality(Reserved(t)) - 1 /\ Cardinality(Reserved(t)') \in Nat
      BY <1>8, <2>1, <2>2, FS_RemoveElement, FS_CardinalityType
    <3>2. availableLen[t] - 1 \in Nat /\ availableLen[t] - 1 < UIntWord
      <4>1. availableLen[t] # 0 /\ availableLen[t] <= len[t]
        BY <2>1, <3>1
      <4> QED
        BY <2>1, <4>1, PoolAssumption
    <3>3. availableLen'[t] = availableLen[t] - 1
      BY <1>5, <2>2, <3>2, UIntSmall
    <3>4. /\ Cardinality(Outstanding(t)') <= Cardinality(Outstanding(t)) + 1
          /\ Cardinality(Outstanding(t)') \in Nat
      <4> DEFINE Out == Outstanding(t)
                 More == Out \cup {flowReqs[k].id}
      <4>1. /\ IsFiniteSet(More)
            /\ Cardinality(More) = IF flowReqs[k].id \in Out THEN Cardinality(Out) ELSE Cardinality(Out) + 1
        BY <2>1, FS_AddElement
      <4>2. Outstanding(t)' \subseteq More
        BY <1>7
      <4> HIDE DEF More
      <4>3. IsFiniteSet(Outstanding(t)') /\ Cardinality(Outstanding(t)') <= Cardinality(More)
        BY <4>1, <4>2, FS_Subset
      <4>4. Cardinality(Outstanding(t)') \in Nat
        BY <4>3, FS_CardinalityType
      <4> QED
        BY <2>1, <4>1, <4>3, <4>4
    <3> QED
      BY <1>2, <2>1, <3>1, <3>3, <3>4
  <2>3. CASE t # s
    <3>1. /\ Cardinality(Outstanding(t)') <= Cardinality(Outstanding(t))
          /\ Cardinality(Outstanding(t)') \in Nat
          /\ Cardinality(Reserved(t)') <= Cardinality(Reserved(t))
          /\ Cardinality(Reserved(t)') \in Nat
      BY <1>7, <1>8, <2>1, <2>3, FS_Subset, FS_CardinalityType
    <3> QED
      BY <1>2, <1>5, <2>1, <2>3, <3>1
  <2> QED
    BY <2>2, <2>3
<1> QED
  BY <1>2, <1>9 DEF CountInv

\* The listener of a flow that has ended gives its connection back.
LEMMA CountReturned ==
  ASSUME MainsInv, FlowsInv, CountInv, Calm, NEW n \in Node, ListenAccount(n), UNCHANGED reqVars
  PROVE  CountInv'
<1> USE DEF list, node, files, wire, main, request, times, reqVars
<1>0. TypeInv /\ ConnType /\ FlowInv /\ ExitInv
  BY DEF MainsInv, FlowsInv, TypeInv
<1>1. lpc[n] = "account" /\ got[n] \in Nat /\ At(n, 0, got[n])
  BY <1>0 DEF ListenAccount, At, Pending, ConnType
<1>2. PICK g \in Flow : g = got[n] /\ g \in Nat \ {0} /\ g \notin Sending
  <2>1. got[n] # 0
    BY <1>0, <1>1 DEF ExitInv, Calm
  <2>2. got[n] \in started /\ got[n] \notin Sending
    BY <1>0, <1>1, <2>1 DEF FlowInv
  <2> QED
    BY <1>0, <1>1, <2>1, <2>2 DEF TypeInv, MainType
<1>3. PICK s \in Server : s = n[1]
  BY NodeParts
<1>4. /\ availableLen' = [availableLen EXCEPT ![s] = UInt(@ + 1)]
      /\ lpc' = [lpc EXCEPT ![n] = "stamp"]
      /\ UNCHANGED <<len, got, toServer, toClient, main, fpc, flowReqs, cur, srv>>
  BY <1>2, <1>3 DEF ListenAccount
<1>5. /\ \A t \in Server : t # s => availableLen'[t] = availableLen[t]
      /\ availableLen'[s] = UInt(availableLen[s] + 1)
      /\ lpc'[n] = "stamp" /\ \A m \in Node : m # n => lpc'[m] = lpc[m]
  BY <1>0, <1>4 DEF ConnType
<1>6. \A m \in Node : \A r \in Nat : Owes(m, r)' => Owes(m, r)
  <2>1. \A m \in Node : Transit(m)' = Transit(m)
    BY <1>4, TransitSame
  <2> QED
    BY <1>4, <1>5, <2>1 DEF Owes, Places
<1>7. \A t \in Server : Outstanding(t)' \subseteq Outstanding(t)
  <2>1. \A m \in Node : \A r \in Nat \ {0} : Owes(m, r)' => Owes(m, r)
    BY <1>6
  <2> QED
    BY <1>4, <2>1, OutstandingStays
<1>8. Owes(n, g)
  BY <1>1, <1>2 DEF Owes
<1>9. g \in Outstanding(s)
  BY <1>3, <1>8 DEF Outstanding
<1>10. g \notin Outstanding(s)'
  <2> SUFFICES ASSUME g \in Outstanding(s)' PROVE FALSE
    OBVIOUS
  <2>1. \/ \E m \in Node : Owes(m, g)'
        \/ \E k \in DOMAIN fpc : fpc[k] = "write" /\ flowReqs[k].id = g
    BY <1>4 DEF Outstanding
  <2>2. CASE \E k \in DOMAIN fpc : fpc[k] = "write" /\ flowReqs[k].id = g
    BY <1>2, <2>2 DEF Sending, Writing
  <2>3. ASSUME NEW m \in Node, Owes(m, g)' PROVE FALSE
    <3>1. m = n
      BY <1>0, <1>2, <1>6, <1>8, <2>3, OwedOnce
    <3>2. PICK i \in Places(n)' : Transit(n)'[i] = g
      BY <1>5, <2>3, <3>1 DEF Owes
    <3>3. Transit(n)' = Transit(n)
      BY <1>4, TransitSame
    <3>4. i \in Places(n) /\ Transit(n)[i] = g
      BY <3>2, <3>3 DEF Places
    <3>5. i \in Nat /\ i # 0
      BY <1>0, <3>4, TransitType DEF Places
    <3>6. At(n, i, g)
      BY <3>4, <3>5 DEF At
    <3>7. At(n, 0, g)
      BY <1>1, <1>2
    <3> QED
      BY <1>0, <1>2, <3>5, <3>6, <3>7 DEF FlowInv
  <2> QED
    BY <2>1, <2>2, <2>3
<1>11. \A t \in Server : Reserved(t)' = Reserved(t)
  BY <1>4 DEF Reserved
<1>12. ASSUME NEW t \in Server
       PROVE  /\ availableLen'[t] + Cardinality(Outstanding(t)') <= len'[t]
              /\ Cardinality(Reserved(t)') <= availableLen'[t]
              /\ availableLen[t] <= availableLen'[t] /\ availableLen'[t] \in Nat
  <2>1. /\ Cardinality(Outstanding(t)) \in Nat /\ IsFiniteSet(Outstanding(t))
        /\ Cardinality(Reserved(t)) \in Nat
        /\ availableLen[t] \in Nat /\ len[t] \in Nat /\ len[t] < UIntWord
        /\ availableLen[t] + Cardinality(Outstanding(t)) <= len[t]
        /\ Cardinality(Reserved(t)) <= availableLen[t]
    BY <1>0, CountTypes DEF CountInv
  <2>2. CASE t = s
    <3>1. Outstanding(t)' \subseteq Outstanding(t) \ {g}
      BY <1>7, <1>10, <2>2
    <3>2. /\ IsFiniteSet(Outstanding(t) \ {g})
          /\ Cardinality(Outstanding(t) \ {g}) = Cardinality(Outstanding(t)) - 1
      BY <1>9, <2>1, <2>2, FS_RemoveElement
    <3>3. /\ Cardinality(Outstanding(t)') <= Cardinality(Outstanding(t)) - 1
          /\ Cardinality(Outstanding(t)') \in Nat
      BY <3>1, <3>2, FS_Subset, FS_CardinalityType
    <3>4. availableLen[t] + 1 \in Nat /\ availableLen[t] + 1 < UIntWord
      <4>1. availableLen[t] + 1 <= len[t]
        BY <2>1, <3>3
      <4> QED
        BY <2>1, <4>1, PoolAssumption
    <3>5. availableLen'[t] = availableLen[t] + 1
      BY <1>5, <2>2, <3>4, UIntSmall
    <3> QED
      BY <1>4, <1>11, <2>1, <3>3, <3>5
  <2>3. CASE t # s
    <3>1. /\ Cardinality(Outstanding(t)') <= Cardinality(Outstanding(t))
          /\ Cardinality(Outstanding(t)') \in Nat
      BY <1>7, <2>1, FS_Subset, FS_CardinalityType
    <3> QED
      BY <1>4, <1>5, <1>11, <2>1, <2>3, <3>1
  <2> QED
    BY <2>2, <2>3
<1>13. mpc' = "search" => NumConn' <= availableLen'[srv']
  <2> SUFFICES ASSUME mpc = "search" PROVE NumConn <= availableLen'[srv]
    BY <1>4 DEF NumConn
  <2>1. NumConn \in Nat /\ srv \in Server
    BY <1>0, CurrentRequest DEF MainsInv, Preparing
  <2>2. NumConn <= availableLen[srv]
    BY DEF CountInv
  <2>3. availableLen[srv] <= availableLen'[srv] /\ availableLen'[srv] \in Nat /\ availableLen[srv] \in Nat
    BY <1>0, <1>12, <2>1, CountTypes
  <2> QED
    BY <2>1, <2>2, <2>3
<1> QED
  BY <1>12, <1>13 DEF CountInv


\* Only main takes connections, and listeners give them back once.
LEMMA CountInvStep ==
  ASSUME MainsInv, FlowsInv, CountInv, [Next]_vars
  PROVE  CountInv'
<1> USE DEF list, node, files, wire, main, poolVars, request, times, reqVars
<1>0. /\ TypeInv /\ MainInv /\ ReqInv /\ ConnType /\ IsFiniteSet(leaked)
      /\ NodeInv /\ FilesInv /\ ExitInv /\ breaks \in Nat
  BY PoolAssumption DEF MainsInv, FlowsInv, TypeInv, ConnType
<1> SUFFICES ASSUME Calm' PROVE CountInv'
  BY DEF CountInv
<1>1. CASE MainQuiet
  <2>1. /\ UNCHANGED <<len, availableLen, lpc, got, toServer, toClient, breaks>> /\ Calm
        /\ \A k \in DOMAIN fpc' : fpc'[k] # "write"
    BY <1>1, MainQuietFrame, MainQuietBusy, MainQuietThreads DEF Calm
  <2>2. \A n \in Node : Transit(n)' = Transit(n)
    BY <2>1, TransitSame
  <2>3. \A n \in Node : \A r \in Nat \ {0} : Owes(n, r)' => Owes(n, r)
    BY <2>1, <2>2, OwesStays
  <2>4. \A s : Outstanding(s)' \subseteq Outstanding(s)
    BY <2>1, <2>3, OutstandingStays
  <2>5. CASE ~SearchNode
    <3>1. /\ \A s \in Server : Reserved(s)' \subseteq Reserved(s)
          /\ mpc' = "search" => NumConn' <= availableLen[srv']
      BY <1>1, <2>5, MainQuietReserved
    <3> QED
      BY <1>0, <2>1, <2>4, <3>1, CountInvStays
  <2>6. CASE SearchNode
    <3>1. \A s \in Server : Cardinality(Reserved(s)') <= availableLen[s]
      BY <1>0, <2>1, <2>6, SearchReserves DEF Calm
    <3>2. mpc = "search" /\ UNCHANGED <<cur, srv>>
      BY <2>6 DEF SearchNode
    <3>3. ASSUME NEW s \in Server
          PROVE  availableLen'[s] + Cardinality(Outstanding(s)') <= len'[s]
      <4>1. /\ Cardinality(Outstanding(s)') <= Cardinality(Outstanding(s))
            /\ Cardinality(Outstanding(s)') \in Nat
        BY <1>0, <2>4, CountTypes, FS_Subset, FS_CardinalityType
      <4>2. availableLen[s] + Cardinality(Outstanding(s)) <= len[s]
        BY <2>1 DEF CountInv
      <4> QED
        BY <1>0, <2>1, <4>1, <4>2, CountTypes
    <3>4. NumConn' <= availableLen'[srv']
      BY <2>1, <3>2 DEF CountInv, NumConn
    <3> QED
      BY <2>1, <3>1, <3>3, <3>4 DEF CountInv
  <2> QED
    BY <2>5, <2>6
<1>2. CASE ThreadQuiet
  <2>1. /\ UNCHANGED <<len, got, breaks, main, fpc, flowReqs, cur, srv>>
        /\ \A n \in Node : /\ Transit(n)' = Transit(n)
                           /\ Pending(n)' <=> Pending(n)
                           /\ lpc'[n] = "stamp" <=> lpc[n] = "stamp"
    BY <1>0, <1>2, ThreadQuietSteps
  <2>2. UNCHANGED availableLen
    BY <1>2 DEF ThreadQuiet, vars, ListenUnbusy, ListenClose, ListenDisconnect, ListenLeave, Serve, ServeEnd
  <2>3. \A n \in Node : lpc'[n] \in {"unbusy", "account"} <=> lpc[n] \in {"unbusy", "account"}
    BY <2>1 DEF Pending
  <2>4. \A n \in Node : \A r \in Nat \ {0} : Owes(n, r)' => Owes(n, r)
    BY <2>1, <2>3, OwesStays
  <2>5. \A s : Outstanding(s)' \subseteq Outstanding(s)
    BY <2>1, <2>4, OutstandingStays
  <2>6. \A s \in Server : Reserved(s)' = Reserved(s)
    BY <2>1 DEF Reserved
  <2> QED
    BY <1>0, <2>1, <2>2, <2>5, <2>6, CountInvStays DEF Calm, RunPhase
<1>3. CASE OpenFirst /\ UNCHANGED reqVars
  <2>1. AddNode(si, FALSE) /\ si \in Server /\ mpc = "open" /\ mpc' \in {"open", "spawn"}
    BY <1>0, <1>3 DEF OpenFirst, TypeInv, MainType
  <2>2. Calm
    BY <2>1 DEF AddNode, Calm, RunPhase
  <2> QED
    BY <1>0, <1>3, <2>1, <2>2, CountAdded
<1>4. CASE InsertOne
  <2>1. AddNode(srv, FALSE) /\ mpc = "insert" /\ mpc' = "insert" /\ UNCHANGED <<fpc, flowReqs>>
    BY <1>4 DEF InsertOne
  <2>2. Calm /\ srv \in Server
    BY <1>0, <2>1, CurrentRequest DEF AddNode, Calm, RunPhase, Preparing
  <2> QED
    BY <1>0, <2>1, <2>2, CountAdded
<1>5. CASE (SpawnListeners /\ UNCHANGED reqVars) \/ StartListeners
  <2>1. /\ UNCHANGED <<len, availableLen, toServer, toClient, got, breaks, fpc, flowReqs>>
        /\ RunPhase /\ mpc' \in {"request", "check"} /\ mpc # "flows"
    BY <1>5 DEF SpawnListeners, StartListeners, RunPhase
  <2>2. \A n \in Node : lpc'[n] = lpc[n] \/ (lpc[n] = "none" /\ lpc'[n] = "read")
    BY <1>0, <1>5 DEF SpawnListeners, StartListeners, NodeInv, NodeOK
  <2>3. \A n \in Node : Transit(n)' = Transit(n)
    BY <2>1, TransitSame
  <2>4. \A n \in Node : \A r \in Nat \ {0} : Owes(n, r)' => Owes(n, r)
    BY <2>1, <2>2, <2>3, OwesStays
  <2>5. \A s : Outstanding(s)' \subseteq Outstanding(s)
    BY <2>1, <2>4, OutstandingStays
  <2>6. \A s \in Server : Reserved(s)' = Reserved(s)
    BY <2>1 DEF Reserved
  <2> QED
    BY <1>0, <2>1, <2>5, <2>6, CountInvStays DEF Calm
<1>6. CASE ExitWrite /\ UNCHANGED reqVars
  BY <1>6 DEF ExitWrite, WriteKills, Calm, RunPhase
<1>7. ASSUME NEW k \in DOMAIN fpc, Running, FlowMarkBusy(k) PROVE CountInv'
  <2>1. /\ UNCHANGED <<len, availableLen, lpc, got, toServer, toClient, breaks, main, flowReqs, cur, srv>>
        /\ fpc[k] = "mark" /\ fpc' = [fpc EXCEPT ![k] = "take"]
    BY <1>7 DEF FlowMarkBusy
  <2>2. DOMAIN fpc' = DOMAIN fpc /\ fpc'[k] = "take" /\ \A j \in DOMAIN fpc : j # k => fpc'[j] = fpc[j]
    <3>1. fpc = [j \in DOMAIN fpc |-> fpc[j]]
      BY <1>0, FlowReqsType DEF TypeInv, MainType
    <3> QED
      BY <2>1, <3>1
  <2>3. \A n \in Node : Transit(n)' = Transit(n)
    BY <2>1, TransitSame
  <2>4. \A n \in Node : \A r \in Nat \ {0} : Owes(n, r)' => Owes(n, r)
    BY <2>1, <2>3, OwesStays
  <2>5. \A s : Outstanding(s)' \subseteq Outstanding(s)
    BY <2>1, <2>2, <2>4, OutstandingStays
  <2>6. mpc = "flows" /\ DOMAIN flowReqs = DOMAIN fpc
    BY <1>0, <1>7, FlowThread DEF MainInv
  <2>7. \A s \in Server : Reserved(s)' = Reserved(s)
    BY <2>1, <2>2, <2>6 DEF Reserved
  <2> QED
    BY <1>0, <2>1, <2>5, <2>7, CountInvStays DEF Calm, RunPhase
<1>8. ASSUME NEW k \in DOMAIN fpc, Running, FlowTakeAvailable(k) PROVE CountInv'
  <2>1. Calm
    BY <1>8 DEF FlowTakeAvailable, Calm, RunPhase
  <2> QED
    BY <1>8, <2>1, CountTaken
<1>9. ASSUME NEW k \in DOMAIN fpc, Running, FlowWrite(k) PROVE CountInv'
  <2> DEFINE c == flowReqs[k].conn
             id == flowReqs[k].id
  <2>1. UNCHANGED <<list, lpc, got, breaks, flowReqs, cur, srv>> /\ breaks = 0 /\ fpc[k] = "write"
    BY <1>9 DEF FlowWrite, WriteKills, Calm
  <2>2. c \in Node /\ id \in Nat
    BY <1>0, <1>9, FlowThread, FlowReqsType
  <2>3. sock[c] = "open" /\ Connects(c)
    BY <1>0, <1>9, <2>1, WriteConnects
  <2>4. WriteSent(c, id) /\ UNCHANGED main /\ fpc' = [fpc EXCEPT ![k] = "done"]
    BY <1>9, <2>3 DEF FlowWrite, WriteLost, WriteKills
  <2> HIDE DEF c, id
  <2>5. toServer' = [toServer EXCEPT ![c] = Append(@, id)] /\ toClient' = toClient
    BY <1>0, <2>2, <2>3, <2>4, WrittenOn
  <2>6. \A n \in Node : \A r \in Nat \ {0} : Owes(n, r)' <=> Owes(n, r) \/ (n = c /\ r = id)
    BY <1>0, <2>1, <2>2, <2>5, OwesSend
  <2>7. DOMAIN fpc' = DOMAIN fpc /\ fpc'[k] = "done" /\ \A j \in DOMAIN fpc : j # k => fpc'[j] = fpc[j]
    <3>1. fpc = [j \in DOMAIN fpc |-> fpc[j]]
      BY <1>0, FlowReqsType DEF TypeInv, MainType
    <3> QED
      BY <2>4, <3>1
  <2>8. ASSUME NEW s \in Server, NEW r \in Outstanding(s)' PROVE r \in Outstanding(s)
    <3>1. r \in Flow /\ r \in Nat \ {0}
      BY <2>8 DEF Outstanding, Flow
    <3>2. \/ \E n \in Node : n[1] = s /\ Owes(n, r)'
          \/ \E j \in DOMAIN fpc' : fpc'[j] = "write" /\ flowReqs[j].id = r /\ flowReqs[j].conn[1] = s
      BY <2>1, <2>8 DEF Outstanding
    <3>3. CASE \E n \in Node : n[1] = s /\ Owes(n, r)'
      BY <2>1, <2>6, <3>1, <3>3 DEF Outstanding, c, id
    <3>4. CASE \E j \in DOMAIN fpc' : fpc'[j] = "write" /\ flowReqs[j].id = r /\ flowReqs[j].conn[1] = s
      BY <2>7, <3>1, <3>4 DEF Outstanding
    <3> QED
      BY <3>2, <3>3, <3>4
  <2>9. mpc = "flows" /\ DOMAIN flowReqs = DOMAIN fpc
    BY <1>0, <1>9, FlowThread DEF MainInv
  <2>10. \A s \in Server : Reserved(s)' = Reserved(s)
    BY <2>1, <2>4, <2>7, <2>9 DEF Reserved
  <2> QED
    BY <1>0, <2>1, <2>4, <2>8, <2>10, CountInvStays DEF Calm, RunPhase
<1>10. ASSUME NEW n \in Node, ListenRead(n), UNCHANGED reqVars PROVE CountInv'
  <2>1. UNCHANGED <<len, availableLen, breaks, main, fpc, flowReqs, cur, srv>>
    BY <1>10 DEF ListenRead
  <2>2. \A m \in Node : \A r \in Nat \ {0} : Owes(m, r)' => Owes(m, r)
    BY <1>0, <1>10, OwesRead
  <2>3. \A s : Outstanding(s)' \subseteq Outstanding(s)
    BY <2>1, <2>2, OutstandingStays
  <2>4. \A s \in Server : Reserved(s)' = Reserved(s)
    BY <2>1 DEF Reserved
  <2> QED
    BY <1>0, <2>1, <2>3, <2>4, CountInvStays DEF Calm, RunPhase
<1>11. ASSUME NEW n \in Node, ListenAccount(n), UNCHANGED reqVars PROVE CountInv'
  <2>1. Calm
    BY <1>11 DEF ListenAccount, Calm, RunPhase
  <2> QED
    BY <1>11, <2>1, CountReturned
<1>12. ASSUME NEW n \in Node, UNCHANGED <<fpc, flowReqs, cur, srv>>, ListenFail(n) \/ ListenStamp(n)
       PROVE  CountInv'
  <2>1. /\ UNCHANGED <<len, availableLen, toServer, toClient, got, breaks, main>>
        /\ lpc[n] \in {"read", "stamp"} /\ lpc'[n] \in {"read", "close"}
        /\ \A m \in Node \ {n} : lpc'[m] = lpc[m]
    BY <1>0, <1>12 DEF ListenFail, ListenStamp, ListenStamped, ConnType
  <2>2. \A m \in Node : Transit(m)' = Transit(m)
    BY <2>1, TransitSame
  <2>3. \A m \in Node : \A r \in Nat \ {0} : Owes(m, r)' => Owes(m, r)
    BY <2>1, <2>2, OwesStays
  <2>4. \A s : Outstanding(s)' \subseteq Outstanding(s)
    BY <1>12, <2>3, OutstandingStays
  <2>5. \A s \in Server : Reserved(s)' = Reserved(s)
    BY <1>12, <2>1 DEF Reserved
  <2> QED
    BY <1>0, <1>12, <2>1, <2>4, <2>5, CountInvStays DEF Calm, RunPhase
<1>13. ASSUME NEW n \in Node, Break(n) PROVE CountInv'
  BY <1>0, <1>13 DEF Break, Calm
<1> QED
  BY <1>1, <1>2, <1>3, <1>4, <1>5, <1>6, <1>7, <1>8, <1>9, <1>10, <1>11, <1>12, <1>13, StepKinds
  DEF ListenStamp


-----------------------------------------------------------------------------
(* SearchInv.                                                              *)

\* The idle connections that the search has not come to yet.
Ahead == {n \in Node : n[1] = srv /\ n[2] >= xi /\ Idle(n)}

\* Those and the connections picked so far are enough.
SearchInv == Calm /\ mpc = "search" => NumConn <= Picked + Cardinality(Ahead)

BusyNodes(s) == {n \in Node : n[1] = s /\ busy[n]}

\* While requests are made and no connection has failed, each connection is
\* idle or busy.
LEMMA IdleOrBusy ==
  ASSUME TypeInv, NodeInv, ExitInv, Calm, NEW s \in Server
  PROVE  /\ IsFiniteSet(IdleNodes(s)) /\ Cardinality(IdleNodes(s)) \in Nat
         /\ IsFiniteSet(BusyNodes(s)) /\ Cardinality(BusyNodes(s)) \in Nat
         /\ len[s] <= Cardinality(IdleNodes(s)) + Cardinality(BusyNodes(s))
<1>1. IsFiniteSet(IdleNodes(s)) /\ IsFiniteSet(BusyNodes(s))
  <2>1. IdleNodes(s) \subseteq Node /\ BusyNodes(s) \subseteq Node
    BY DEF IdleNodes, BusyNodes
  <2> QED
    BY <2>1, NodesFinite, FS_Subset
<1>2. Listed(s) \subseteq IdleNodes(s) \cup BusyNodes(s)
  <2> SUFFICES ASSUME NEW n \in Node, n[1] = s, Exists(n), ~busy[n] PROVE connected[n]
    BY DEF Listed, IdleNodes, BusyNodes, Idle
  <2>1. ~ExitSent(n) /\ mpc # "killed" /\ breaks = 0
    BY DEF Calm, RunPhase, ExitSent
  <2>2. lpc[n] \notin Closing
    BY <2>1, OpenUntilExit
  <2> QED
    BY <2>2 DEF NodeInv, NodeOK, Closing
<1>3. IsFiniteSet(Listed(s)) /\ Cardinality(Listed(s)) = len[s]
  BY ListedCount DEF TypeInv
<1> DEFINE I == IdleNodes(s)
           B == BusyNodes(s)
<1>4. /\ Cardinality(I) \in Nat /\ Cardinality(B) \in Nat /\ Cardinality(I \cap B) \in Nat
      /\ IsFiniteSet(I \cup B)
      /\ Cardinality(I \cup B) = Cardinality(I) + Cardinality(B) - Cardinality(I \cap B)
  <2> HIDE DEF I, B
  <2>1. IsFiniteSet(I) /\ IsFiniteSet(B)
    BY <1>1 DEF I, B
  <2> QED
    BY <2>1, FS_Union, FS_Intersection, FS_CardinalityType
<1>5. Cardinality(Listed(s)) <= Cardinality(I \cup B)
  <2> HIDE DEF I, B
  <2>1. Listed(s) \subseteq I \cup B
    BY <1>2 DEF I, B
  <2> QED
    BY <1>4, <2>1, FS_Subset
<1>6. len[s] \in Nat
  BY CountTypes
<1> QED
  BY <1>1, <1>3, <1>4, <1>5, <1>6

\* A connection that carries something or whose listener has just read has a
\* flow that is owed.
LEMMA CarriedIsOwed ==
  ASSUME TypeInv, FlowInv, ExitInv, RunPhase, NEW n \in Node, Transit(n) # <<>> \/ lpc[n] = "unbusy"
  PROVE  \E r \in Flow : Owes(n, r)
<1>1. \A i \in Nat : \A r \in Nat : At(n, i, r) => r \in Flow
  BY DEF ExitInv, FlowInv, TypeInv, MainType
<1>2. CASE Transit(n) # <<>>
  <2>1. Len(Transit(n)) \in Nat /\ Len(Transit(n)) # 0
    BY <1>2, TransitType DEF TypeInv
  <2>2. 1 \in Places(n) /\ Transit(n)[1] \in Nat
    <3>1. 1 \in Places(n)
      BY <2>1 DEF Places
    <3> QED
      BY <3>1, TransitType DEF TypeInv
  <2>3. At(n, 1, Transit(n)[1])
    BY <2>2 DEF At
  <2> QED
    BY <1>1, <2>2, <2>3 DEF Owes
<1>3. CASE lpc[n] = "unbusy"
  <2>1. got[n] \in Nat /\ At(n, 0, got[n])
    BY <1>3 DEF At, Pending, TypeInv, ConnType
  <2> QED
    BY <1>1, <1>3, <2>1 DEF Owes
<1> QED
  BY <1>2, <1>3

\* When no flow's thread runs, no more connections are busy than flows are
\* outstanding.
LEMMA BusyWithin ==
  ASSUME TypeInv, FlowInv, ExitInv, BusyInv, Calm, fpc = <<>>, NEW s \in Server
  PROVE  Cardinality(BusyNodes(s)) <= Cardinality(Outstanding(s))
<1> DEFINE B == BusyNodes(s)
           U == Outstanding(s)
           f == [n \in B |-> CHOOSE r \in Flow : Owes(n, r)]
<1>1. \A n \in B : \E r \in Flow : Owes(n, r)
  <2>1. \A n : ~TakenBy(n)
    BY DEF TakenBy
  <2> QED
    BY <2>1, CarriedIsOwed DEF BusyInv, BusyNodes, Calm
<1>2. \A n \in B : f[n] \in Flow /\ Owes(n, f[n])
  BY <1>1
<1>3. \A n \in B : n \in Node /\ n[1] = s
  BY DEF BusyNodes
<1>4. \A n \in B : f[n] \in U
  BY <1>2, <1>3 DEF Outstanding
<1>5. f \in [B -> U]
  BY <1>4
<1>6. \A m, n \in B : f[m] = f[n] => m = n
  BY <1>2, <1>3, OwedOnce
<1>7. f \in Injection(B, U)
  BY <1>5, <1>6 DEF Injection, IsInjective
<1>8. IsFiniteSet(U)
  BY CountTypes
<1> HIDE DEF f, B, U
<1>9. Cardinality(B) <= Cardinality(U)
  BY <1>7, <1>8, FS_Injection
<1> QED
  BY <1>9 DEF B, U

\* So as many connections are idle as available_len says.
LEMMA IdleEnough ==
  ASSUME TypeInv, NodeInv, FlowInv, ExitInv, BusyInv, CountInv, Calm, fpc = <<>>, NEW s \in Server
  PROVE  /\ availableLen[s] <= Cardinality(IdleNodes(s))
         /\ availableLen[s] \in Nat /\ Cardinality(IdleNodes(s)) \in Nat
<1>1. /\ Cardinality(BusyNodes(s)) <= Cardinality(Outstanding(s))
      /\ Cardinality(BusyNodes(s)) \in Nat /\ Cardinality(IdleNodes(s)) \in Nat
      /\ len[s] <= Cardinality(IdleNodes(s)) + Cardinality(BusyNodes(s))
  BY BusyWithin, IdleOrBusy
<1>2. availableLen[s] + Cardinality(Outstanding(s)) <= len[s]
  BY DEF CountInv
<1> QED
  BY <1>1, <1>2, CountTypes

\* What the search counts.
LEMMA AheadTypes ==
  ASSUME TypeInv
  PROVE  IsFiniteSet(Ahead) /\ Cardinality(Ahead) \in Nat /\ Picked \in Nat
<1>1. Ahead \subseteq Node
  BY DEF Ahead
<1>2. IsFiniteSet(DOMAIN flowReqs)
  BY FlowReqsType, FS_Interval
<1>3. IsFiniteSet({k \in DOMAIN flowReqs : flowReqs[k].conn[1] = srv})
  BY <1>2, FS_Subset
<1> QED
  BY <1>1, <1>3, NodesFinite, FS_Subset, FS_CardinalityType DEF Picked

\* A step of another thread that makes no idle connection unfit.
LEMMA SearchInvStays ==
  ASSUME TypeInv, MainInv, SearchInv, Calm, UNCHANGED <<mpc, cur, srv, xi, flowReqs>>,
         \A n \in Node : Idle(n) => Idle(n)'
  PROVE  SearchInv'
<1> SUFFICES ASSUME mpc = "search" PROVE NumConn' <= Picked' + Cardinality(Ahead')
  BY DEF SearchInv
<1>1. NumConn' = NumConn /\ Picked' = Picked
  BY DEF NumConn, Picked
<1>2. Ahead \subseteq Ahead'
  BY DEF Ahead
<1>3. IsFiniteSet(Ahead') /\ Cardinality(Ahead') \in Nat
  <2>1. Ahead' \subseteq Node
    BY DEF Ahead
  <2> QED
    BY <2>1, NodesFinite, FS_Subset, FS_CardinalityType
<1>4. Cardinality(Ahead) <= Cardinality(Ahead')
  BY <1>2, <1>3, FS_Subset
<1>5. NumConn <= Picked + Cardinality(Ahead)
  BY DEF SearchInv
<1>6. NumConn \in Nat
  BY CurrentRequest DEF Preparing
<1> QED
  BY <1>1, <1>3, <1>4, <1>5, <1>6, AheadTypes


\* An idle connection is one more that is picked, and one fewer ahead.
LEMMA SearchPicks ==
  ASSUME MainsInv, SearchNode, SearchInv, Calm
  PROVE  SearchInv'
<1>0. TypeInv /\ MainInv
  BY DEF MainsInv
<1>1. /\ mpc = "search" /\ mpc' = "search" /\ xi' = xi + 1 /\ xi \in Nat
      /\ UNCHANGED <<len, busy, connected, cur, srv>>
  BY <1>0, MainNumbers DEF SearchNode, list, node
<1>2. PICK n \in Node : n = <<srv, xi>>
  <2>1. srv \in Server /\ len[srv] \in 0 .. MaxNode /\ xi <= len[srv]
    BY <1>0, <1>1, CurrentRequest DEF SearchNode, Exists, Preparing
  <2>2. xi \in 1 .. MaxNode
    BY <1>0, <1>1, <2>1, MainNumbers, PoolAssumption
  <2> QED
    BY <2>1, <2>2, NodeParts
<1>3. n[1] = srv /\ n[2] = xi
  BY <1>2
<1>4. NumConn' = NumConn /\ NumConn \in Nat
  BY <1>0, <1>1, CurrentRequest DEF NumConn, Preparing
<1>5. NumConn <= Picked + Cardinality(Ahead)
  BY <1>1 DEF SearchInv
<1>6. /\ IsFiniteSet(Ahead) /\ Cardinality(Ahead) \in Nat /\ Picked \in Nat
  BY <1>0, AheadTypes
<1>7. Ahead' = Ahead \ {n}
  <2>1. \A m \in Node : Idle(m)' <=> Idle(m)
    BY <1>1 DEF Idle, Exists
  <2>2. \A m \in Node : m[1] = srv => (m[2] >= xi + 1 <=> m[2] >= xi /\ m # n)
    <3> SUFFICES ASSUME NEW m \in Node, m[1] = srv
                 PROVE  m[2] >= xi + 1 <=> m[2] >= xi /\ m # n
      OBVIOUS
    <3>1. m[2] \in Nat /\ m = <<m[1], m[2]>> /\ n = <<n[1], n[2]>>
      BY NodeParts
    <3>2. m = n <=> m[2] = xi
      BY <1>3, <3>1
    <3> QED
      BY <1>1, <3>1, <3>2
  <2> QED
    BY <1>1, <2>1, <2>2 DEF Ahead
<1>8. CASE ~Idle(n)
  <2>1. flowReqs' = flowReqs /\ n \notin Ahead
    BY <1>2, <1>8 DEF SearchNode, Ahead
  <2>2. Picked' = Picked /\ Ahead' = Ahead
    BY <1>1, <1>7, <2>1 DEF Picked
  <2> QED
    BY <1>4, <1>5, <2>2 DEF SearchInv
<1>9. CASE Idle(n)
  <2>1. n \in Ahead
    BY <1>1, <1>3, <1>9 DEF Ahead
  <2>2. Cardinality(Ahead') = Cardinality(Ahead) - 1 /\ Cardinality(Ahead') \in Nat
    BY <1>6, <1>7, <2>1, FS_RemoveElement, FS_CardinalityType
  <2> DEFINE P == {k \in DOMAIN flowReqs : flowReqs[k].conn[1] = srv}
             Q == {k \in DOMAIN flowReqs' : flowReqs'[k].conn[1] = srv}
             l == Len(flowReqs) + 1
  <2>3. Len(flowReqs) \in Nat /\ DOMAIN flowReqs = 1 .. Len(flowReqs)
    BY <1>0, FlowReqsType
  <2>4. /\ DOMAIN flowReqs' = DOMAIN flowReqs \cup {l} /\ l \notin DOMAIN flowReqs
        /\ flowReqs'[l] = [conn |-> n, id |-> 0]
        /\ \A k \in DOMAIN flowReqs : flowReqs'[k] = flowReqs[k]
    <3>1. flowReqs' = Append(flowReqs, [conn |-> n, id |-> 0])
      BY <1>2, <1>9 DEF SearchNode
    <3>2. flowReqs \in Seq([conn : Node, id : Nat])
      BY <1>0 DEF TypeInv, MainType
    <3> QED
      BY <2>3, <3>1, <3>2
  <2> HIDE DEF l
  <2>5. flowReqs'[l].conn[1] = srv
    BY <1>3, <2>4
  <2>6. Q = P \cup {l} /\ l \notin P
    BY <2>4, <2>5
  <2>7. IsFiniteSet(P)
    <3>1. IsFiniteSet(DOMAIN flowReqs)
      BY <2>3, FS_Interval
    <3> QED
      BY <3>1, FS_Subset
  <2>8. Picked = Cardinality(P) /\ Picked' = Cardinality(Q)
    BY <1>1 DEF Picked
  <2> HIDE DEF P, Q
  <2>9. Picked' = Picked + 1
    BY <2>6, <2>7, <2>8, FS_AddElement
  <2> QED
    BY <1>4, <1>5, <1>6, <2>2, <2>9 DEF SearchInv
<1> QED
  BY <1>8, <1>9

\* A search begins with enough idle connections ahead, and no other thread
\* makes an idle connection busy.
LEMMA SearchInvStep ==
  ASSUME MainsInv, FlowsInv, BusyInv, CountInv, SearchInv, [Next]_vars
  PROVE  SearchInv'
<1> USE DEF list, node, files, wire, main, poolVars, request, times, reqVars
<1>0. /\ TypeInv /\ MainInv /\ ConnType /\ NodeInv /\ FlowInv /\ ExitInv /\ breaks \in Nat
  BY PoolAssumption DEF MainsInv, FlowsInv, TypeInv, ConnType
<1> SUFFICES ASSUME Calm', mpc' = "search" PROVE SearchInv'
  BY DEF SearchInv
<1>1. CASE BeginSearch
  <2>1. /\ mpc = "check" /\ ~(availableLen[srv] < NumConn)
        /\ UNCHANGED <<len, busy, connected, breaks, xi, cur, srv, flowReqs>>
    BY <1>1 DEF BeginSearch, NextRequest
  <2>2. Calm /\ fpc = <<>> /\ xi = 1 /\ srv \in Server /\ NumConn \in Nat
    BY <1>0, <2>1, CurrentRequest DEF Calm, RunPhase, MainInv, Preparing
  <2>3. /\ availableLen[srv] <= Cardinality(IdleNodes(srv))
        /\ availableLen[srv] \in Nat /\ Cardinality(IdleNodes(srv)) \in Nat
    BY <1>0, <2>2, IdleEnough
  <2>4. Ahead = IdleNodes(srv)
    <3>1. \A n \in Node : n[2] \in Nat /\ n[2] >= 1
      BY <1>0, NodeNumbers
    <3> QED
      BY <2>2, <3>1 DEF Ahead, IdleNodes
  <2>5. NumConn <= Picked + Cardinality(Ahead)
    BY <1>0, <2>1, <2>2, <2>3, <2>4, AheadTypes
  <2>6. NumConn' = NumConn /\ Picked' = Picked
    BY <2>1 DEF NumConn, Picked
  <2>7. Ahead' = Ahead
    BY <2>1 DEF Ahead, Idle, Exists
  <2> QED
    BY <2>5, <2>6, <2>7 DEF SearchInv
<1>2. CASE SearchNode
  <2>1. Calm
    BY <1>2 DEF SearchNode, Calm, RunPhase
  <2> QED
    BY <1>2, <2>1, SearchPicks
<1>3. CASE MainQuiet /\ ~BeginSearch /\ ~SearchNode
  <2>1. mpc' # "search"
    BY <1>3 DEF MainQuiet, OpenFirstFails, ExitNode, ExitAllSent, WaitNode, WaitAllDone,
       SkipServer, CountNew, InsertFails, AssignFlows, SearchMisses, StartFlows, JoinFlows,
       RequestsDone, WaitNoListener, NextRequest
  <2> QED
    BY <2>1
<1>4. CASE ThreadQuiet
  <2>1. UNCHANGED <<len, mpc, xi, cur, srv, flowReqs, breaks>> /\ Calm
    BY <1>0, <1>4, ThreadQuietSteps DEF Calm, RunPhase
  <2>2. \A n \in Node : busy'[n] => busy[n]
    BY <1>0, <1>4, ThreadQuietBusy
  <2>3. ASSUME NEW n \in Node, Idle(n) PROVE connected'[n]
    <3>1. lpc[n] \notin Closing
      <4>1. Exists(n) /\ ~ExitSent(n) /\ mpc # "killed" /\ breaks = 0
        BY <2>1, <2>3 DEF Idle, Calm, RunPhase, ExitSent
      <4> QED
        BY <1>0, <4>1, OpenUntilExit
    <3>2. connected[n]
      BY <2>3 DEF Idle
    <3> QED
      BY <1>0, <1>4, <3>1, <3>2 DEF ThreadQuiet, vars, ListenUnbusy, ListenClose,
         ListenDisconnect, ListenLeave, Serve, ServeEnd, Closing, ConnType
  <2>4. \A n \in Node : Idle(n) => Idle(n)'
    BY <2>1, <2>2, <2>3 DEF Idle, Exists
  <2> QED
    BY <1>0, <2>1, <2>4, SearchInvStays
<1>5. CASE (OpenFirst /\ UNCHANGED reqVars) \/ InsertOne \/ (ExitWrite /\ UNCHANGED reqVars)
           \/ (SpawnListeners /\ UNCHANGED reqVars) \/ StartListeners
  BY <1>5 DEF OpenFirst, InsertOne, ExitWrite, WriteKills, SpawnListeners, StartListeners
<1>6. ASSUME NEW k \in DOMAIN fpc, Running,
             FlowMarkBusy(k) \/ FlowTakeAvailable(k) \/ FlowWrite(k)
      PROVE  SearchInv'
  <2>1. mpc = "flows"
    BY <1>0, <1>6, FlowThread DEF MainsInv
  <2>2. mpc' \in {"flows", "killed"}
    BY <1>6, <2>1 DEF FlowMarkBusy, FlowTakeAvailable, FlowWrite, WriteKills
  <2> QED
    BY <2>2
<1>7. ASSUME NEW n \in Node, UNCHANGED <<cur, srv, flowReqs>>,
             ListenRead(n) \/ ListenFail(n) \/ ListenAccount(n) \/ ListenStamp(n)
      PROVE  SearchInv'
  <2>1. UNCHANGED <<len, busy, connected, breaks, main>>
    BY <1>7 DEF ListenRead, ListenFail, ListenAccount, ListenStamp, ListenStamped
  <2>2. \A m \in Node : Idle(m) => Idle(m)'
    BY <2>1 DEF Idle, Exists
  <2>3. Calm
    BY <2>1 DEF Calm, RunPhase
  <2> QED
    BY <1>0, <1>7, <2>1, <2>2, <2>3, SearchInvStays
<1>8. ASSUME NEW n \in Node, Break(n) PROVE SearchInv'
  BY <1>0, <1>8 DEF Break, Calm
<1> QED
  BY <1>1, <1>2, <1>3, <1>4, <1>5, <1>6, <1>7, <1>8, StepKinds DEF ListenStamp

\* At first nothing is busy, available or searched.
LEMMA SearchesInit == Init => BusyInv /\ CountInv /\ SearchInv
<1> SUFFICES ASSUME Init PROVE BusyInv /\ CountInv /\ SearchInv
  OBVIOUS
<1>1. /\ mpc = "open" /\ fpc = <<>> /\ flowReqs = <<>> /\ availableLen = [s \in Server |-> 0]
      /\ len = [s \in Server |-> 0]
  BY DEF Init, PoolInit
<1>2. \A n \in Node : ~busy[n] /\ lpc[n] = "none" /\ Places(n) = {}
  BY PoolStarts DEF Init
<1>3. BusyInv
  BY <1>2 DEF BusyInv
<1>4. SearchInv
  BY <1>1 DEF SearchInv
<1>5. CountInv
  <2>1. ASSUME NEW s \in Server PROVE Outstanding(s) = {} /\ Reserved(s) = {}
    BY <1>1, <1>2 DEF Outstanding, Reserved, Owes
  <2>2. Cardinality({}) = 0
    BY FS_EmptySet
  <2>3. ASSUME NEW s \in Server
        PROVE  /\ availableLen[s] + Cardinality(Outstanding(s)) <= len[s]
               /\ Cardinality(Reserved(s)) <= availableLen[s]
    <3>1. availableLen[s] = 0 /\ len[s] = 0
      BY <1>1
    <3>2. Cardinality(Outstanding(s)) = 0 /\ Cardinality(Reserved(s)) = 0
      BY <2>1, <2>2
    <3> QED
      BY <3>1, <3>2
  <2>4. mpc # "search"
    BY <1>1
  <2> QED
    BY <2>3, <2>4 DEF CountInv
<1> QED
  BY <1>3, <1>4, <1>5

\* The inductive invariant about searches, on top of those about main and the
\* flows.
LEMMA SearchesInvariant == Spec => [](MainsInv /\ FlowsInv /\ BusyInv /\ CountInv /\ SearchInv)
<1> DEFINE Searches == BusyInv /\ CountInv /\ SearchInv
<1>1. Init => Searches
  BY SearchesInit
<1>2. MainsInv /\ FlowsInv /\ Searches /\ [Next]_vars => Searches'
  BY BusyInvStep, CountInvStep, SearchInvStep
<1>3. Spec => [](MainsInv /\ FlowsInv)
  BY FlowsInvariant
<1> QED
  BY <1>1, <1>2, <1>3, PTL DEF Spec

\* When the search is at the end of the list, every connection it counted on
\* is among those it has picked.
LEMMA SearchEnds == MainsInv /\ SearchInv => SearchFinds
<1> SUFFICES ASSUME MainsInv, SearchInv, mpc = "search", breaks = 0, ~(xi <= len[srv])
             PROVE  Picked = NumConn
  BY DEF SearchFinds
<1>1. TypeInv /\ MainInv /\ ReqInv
  BY DEF MainsInv
<1>2. srv \in Server /\ NumConn \in Nat /\ len[srv] \in Nat /\ xi \in Nat
  BY <1>1, CurrentRequest, MainNumbers, CountTypes DEF Preparing
<1>3. Ahead = {}
  <2> SUFFICES ASSUME NEW n \in Node, n[1] = srv, n[2] >= xi, Exists(n) PROVE FALSE
    BY DEF Ahead, Idle
  <2>1. n[2] \in Nat /\ n[2] <= len[srv]
    BY <1>1, NodeParts DEF Exists
  <2> QED
    BY <1>2, <2>1
<1>4. NumConn <= Picked
  <2>1. Cardinality(Ahead) = 0
    BY <1>3, FS_EmptySet
  <2>2. NumConn <= Picked + Cardinality(Ahead)
    BY DEF SearchInv, Calm, RunPhase
  <2> QED
    BY <1>1, <1>2, <2>1, <2>2, AheadTypes
<1>5. /\ Picked = Len(flowReqs) - Ready /\ Len(flowReqs) \in Nat /\ Ready \in Nat
      /\ Len(flowReqs) <= Ready + NumConn
  BY <1>1, PickedLast DEF ReqInv
<1> QED
  BY <1>2, <1>4, <1>5

\* A search that available_len allowed finds its connections, although the
\* list is walked without the lock while listeners give connections back; and
\* the flows are all accounted for, once, but for those on connections that
\* failed or have no listener.
THEOREM FlowsGetServed == Spec => []FlowsServed
<1>1. MainsInv /\ FlowsInv /\ BusyInv /\ CountInv /\ SearchInv => FlowsServed
  BY AllAccounted, SearchEnds DEF FlowsServed
<1> QED
  BY <1>1, SearchesInvariant, PTL
=============================================================================
