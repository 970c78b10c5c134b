------------------------ MODULE TrafficClientProofs ------------------------
(***************************************************************************)
(* Proofs about TrafficClient, for any requests, servers, connections and  *)
(* word size, and any number of failing connections.  The pool serves one  *)
(* flow per connection; available_len counts the connections that are not  *)
(* in use; run_requests finds a connection whenever available_len says     *)
(* there is one; and what the client logs is what FlowLog promises.        *)
(*                                                                         *)
(* One inductive invariant, IInv, serves all of them.  Its parts are       *)
(* proved to be kept one at a time, each from the whole of IInv.           *)
(***************************************************************************)
EXTENDS TrafficClient, ConnPoolProofs

-----------------------------------------------------------------------------
(* The inductive invariant.                                                *)

\* Where main is while it works on a request, and where it is once it has
\* found or made a connection for it.
Serving == {"search", "grow", "mark", "take", "write"}
HasConn == {"mark", "take", "write"}

\* The types of main's own variables.
MainType ==
    /\ si \in Server
    /\ xi \in 1 .. (MaxNode + 1)
    /\ mpc \in MainPc
    /\ cur \in 1 .. (NReq + 1)
    /\ conn \in Node \cup {NoConn}
    /\ started \subseteq 1 .. NReq
    /\ stopped \subseteq 1 .. NReq

\* The types; and refused connections leak finitely many descriptors, which
\* is why there is always a lowest free one.
TypeInv == ConnType /\ MainType /\ IsFiniteSet(leaked)

\* Where main is tells which request it is at, whether it has a connection
\* for it, and how far it is in opening, searching or closing the lists; and
\* the requests that have begun are those before it.
MainInv ==
    /\ mpc \in Serving => cur <= NReq
    /\ mpc \in HasConn => conn \in Node /\ Exists(conn) /\ conn[1] = ReqServer[cur]
    /\ mpc \in {"open", "spawn", "failed"} => started = {}
    /\ mpc \in {"open", "spawn", "request", "grow"} \cup HasConn => xi = 1
    /\ mpc \in {"spawn", "request"} \cup Serving => si = 1
    /\ mpc = "exitWrite" => xi <= len[si]
    /\ mpc \in {"exit", "wait"} => xi <= len[si] + 1
    /\ mpc = "done" => si = NServer
    /\ \A r \in started : r < cur \/ (r = cur /\ mpc \in {"take", "write", "killed"})
    /\ mpc \in {"take", "write"} => cur \in started
    /\ stopped \subseteq started
    /\ \A r \in stopped : r < cur

\* A node that is not in its list yet has no state; one that is has a socket,
\* a listener once they are started, and is up unless some connection failed.
NodeOK(n) ==
    /\ ~Exists(n) => /\ sock[n] = "none" /\ lpc[n] = "none"
                     /\ toServer[n] = <<>> /\ toClient[n] = <<>>
                     /\ ~busy[n] /\ ~up[n]
    /\ Exists(n) => /\ sock[n] # "none"
                    /\ up[n] \/ breaks > 0
                    /\ lpc[n] # "none" \/ mpc \in {"open", "spawn", "failed"}
    /\ mpc \in {"open", "spawn"} => lpc[n] = "none"
    /\ sock[n] = "closed" <=> lpc[n] \in {"disconnect", "leave", "done"}
    /\ connected[n] <=> Exists(n) /\ lpc[n] \notin {"leave", "done"}
    /\ ~up[n] => toServer[n] = <<>>
    /\ lpc[n] = "stamp" => got[n] # 0

\* So it is for every node.
NodeInv == \A n \in Node : NodeOK(n)

\* Every flow that has been sent and is not logged as finished is in one
\* place, unless a connection failed.
FlowInv ==
    /\ \A m, n \in Node : \A i, j \in Nat : \A r \in Nat \ {0} :
          At(m, i, r) /\ At(n, j, r) => m = n /\ i = j
    /\ \A n \in Node : \A i \in Nat : \A r \in Nat \ {0} :
          At(n, i, r) => r \in started \ stopped /\ r < cur
    /\ breaks = 0 =>
          \A r \in started \ stopped :
              \/ r = cur /\ mpc \in {"take", "write"}
              \/ \E n \in Node : \E i \in Nat : At(n, i, r)

\* No flow went to another connection; and either main still makes requests
\* or no connection has failed.
Calm == ~astray /\ (RunPhase \/ breaks = 0)

\* A termination flow is the last one on its connection, and a listener stops
\* only on it or on a failure.
ExitInv ==
    /\ RunPhase => \A n \in Node :
          /\ \A i \in Nat : ~At(n, i, 0)
          /\ lpc[n] \in Closing => ~up[n] /\ toClient[n] = <<>>
    /\ breaks = 0 => \A n \in Node :
          /\ \A i \in Nat : At(n, i, 0) =>
                ExitSent(n) /\ \A j, r \in Nat : j > i => ~At(n, j, r)
          /\ lpc[n] \in Closing => ExitSent(n) /\ \A j, r \in Nat : ~At(n, j, r)

\* main has joined the listeners it has passed.
JoinInv ==
    \A n \in Node : Exists(n) =>
        /\ mpc = "done" => lpc[n] = "done"
        /\ mpc \in {"exit", "exitWrite"} /\ n[1] < si => lpc[n] = "done"
        /\ mpc = "wait" /\ (n[1] < si \/ (n[1] = si /\ n[2] < xi)) => lpc[n] = "done"

\* A connection carries one request at a time.
OneRequest ==
    Calm => \A n \in Node :
        /\ \A i \in Places(n) : Transit(n)[i] # 0 => i = 1
        /\ lpc[n] = "unbusy" /\ got[n] # 0 => \A i \in Places(n) : Transit(n)[i] = 0

\* A connection that carries a flow is busy, and the one that main has found
\* carries none.
BusyCovers ==
    RunPhase /\ ~astray => \A n \in Node :
        /\ Transit(n) # <<>> \/ lpc[n] = "unbusy" => busy[n]
        /\ mpc \in HasConn /\ conn = n => Transit(n) = <<>> /\ lpc[n] # "unbusy"
        /\ mpc \in {"take", "write"} /\ conn = n => busy[n] \/ lpc[n] = "done"

\* A connection is busy only with a flow, or with the one about to be written.
BusyNeeded ==
    RunPhase /\ breaks = 0 => \A n \in Node :
        busy[n] => \/ Transit(n) # <<>>
                   \/ lpc[n] = "unbusy"
                   \/ mpc \in {"take", "write"} /\ conn = n

\* The busy flags tell which connections carry a flow.
BusyInv == OneRequest /\ BusyCovers /\ BusyNeeded

\* The flows that the listeners of server s have still to account for, the
\* one that main has taken a connection for, and the connections that main has
\* taken to terminate them.
Unaccounted(s) == {r \in 1 .. NReq : \E n \in Node : n[1] = s /\ Owes(n, r)}
Taken(s) == IF mpc = "write" /\ conn[1] = s THEN 1 ELSE 0
Owed(s) == Cardinality(Unaccounted(s)) + Taken(s)

\* The connections of server s that main has taken back for good: those it
\* has sent, or is about to send, a termination flow on.
Exited(s) ==
    IF mpc \notin {"exit", "exitWrite", "wait", "done"} THEN 0
    ELSE IF s < si \/ mpc = "done" \/ (s = si /\ mpc = "wait") THEN len[s]
    ELSE IF s > si THEN 0
    ELSE IF mpc = "exitWrite" THEN xi ELSE xi - 1

\* There is a connection to take when main looks for one.  available_len
\* counts the connections that are not in use: at most those while requests
\* are made, and exactly those if no connection has failed.
TakesOne == mpc \in {"search", "mark", "take"} /\ ~astray =>
                availableLen[ReqServer[cur]] >= 1
CountsAtMost == RunPhase /\ ~astray =>
                    \A s \in Server : availableLen[s] + Owed(s) <= len[s]
CountsExactly == breaks = 0 =>
    \A s \in Server : availableLen[s] = UInt(len[s] - Owed(s) - Exited(s))

\* So the difference that UInt wraps is a number.
OwedFits == breaks = 0 => \A s \in Server : Owed(s) <= len[s]

\* What available_len counts.
CountInv == TakesOne /\ CountsAtMost /\ OwedFits /\ CountsExactly

\* While main searches a list there is an idle connection ahead of it.
SearchInv ==
    mpc = "search" /\ breaks = 0 =>
        \E n \in Node : n[1] = ReqServer[cur] /\ n[2] >= xi /\ Idle(n)

\* The inductive invariant.
IInv == /\ TypeInv /\ MainInv /\ NodeInv /\ FilesInv /\ FlowInv
        /\ ExitInv /\ JoinInv /\ BusyInv /\ CountInv /\ SearchInv

-----------------------------------------------------------------------------
(* Steps.                                                                  *)

\* A request being worked on is one of those asked for.
LEMMA CurrentRequest ==
  ASSUME TypeInv, MainInv, mpc \in Serving
  PROVE  /\ cur \in 1 .. NReq /\ cur + 1 \in 1 .. (NReq + 1)
         /\ ReqServer[cur] \in Server
BY RequestAssumption DEF TypeInv, MainType, MainInv

\* A step is one of the main thread, of a listener, of a server's thread or of
\* the network.
LEMMA StepCases ==
  ASSUME [Next]_vars
  PROVE  \/ OpenFirst /\ UNCHANGED reqVars
         \/ OpenFirstFails /\ UNCHANGED reqVars
         \/ SpawnListeners /\ UNCHANGED reqVars
         \/ ExitNode(FALSE) /\ UNCHANGED reqVars
         \/ ExitWrite /\ UNCHANGED reqVars
         \/ ExitAllSent /\ UNCHANGED reqVars
         \/ WaitNode /\ UNCHANGED reqVars
         \/ WaitAllDone /\ UNCHANGED reqVars
         \/ BeginSearch
         \/ SearchNode
         \/ SearchMisses
         \/ Grow
         \/ GiveUp
         \/ MarkBusy
         \/ TakeAvailable
         \/ WriteRequest
         \/ RequestsDone
         \/ \E n \in Node : ListenRead(n) /\ UNCHANGED reqVars
         \/ \E n \in Node : ListenFail(n) /\ UNCHANGED reqVars
         \/ \E n \in Node : ListenUnbusy(n) /\ UNCHANGED reqVars
         \/ \E n \in Node : ListenAccount(n) /\ UNCHANGED reqVars
         \/ \E n \in Node : ListenClose(n) /\ UNCHANGED reqVars
         \/ \E n \in Node : ListenDisconnect(n) /\ UNCHANGED reqVars
         \/ \E n \in Node : ListenLeave(n) /\ UNCHANGED reqVars
         \/ \E n \in Node : ListenStamp(n)
         \/ \E n \in Node : Serve(n) /\ UNCHANGED reqVars
         \/ \E n \in Node : ServeEnd(n) /\ UNCHANGED reqVars
         \/ \E n \in Node : Break(n) /\ UNCHANGED reqVars
         \/ UNCHANGED vars
BY DEF Next, Main, MainRequest, MainPool, Others, Listen

\* The node whose termination flow is written next.
LEMMA ExitingNode ==
  ASSUME TypeInv, MainInv, mpc = "exitWrite"
  PROVE  /\ <<si, xi>> \in Node /\ Exists(<<si, xi>>) /\ ~ExitSent(<<si, xi>>)
         /\ xi \in Nat /\ si \in Nat
<1>1. si \in Server /\ xi \in 1 .. MaxNode + 1 /\ xi <= len[si] /\ len[si] \in 0 .. MaxNode
  BY DEF TypeInv, ConnType, MainType, MainInv
<1>2. xi \in 1 .. MaxNode /\ si \in Nat
  BY <1>1, PoolAssumption, NodeParts
<1>3. <<si, xi>> \in Node
  BY <1>1, <1>2, NodeParts
<1>4. Exists(<<si, xi>>)
  BY <1>1 DEF Exists
<1>5. ~ExitSent(<<si, xi>>)
  BY <1>2 DEF ExitSent
<1> QED
  BY <1>2, <1>3, <1>4, <1>5

\* A listener closes its socket only when its connection has failed or it has
\* read the termination flow.
LEMMA OpenUntilExit ==
  ASSUME TypeInv, NodeInv, ExitInv, NEW n \in Node, Exists(n), ~ExitSent(n)
  PROVE  breaks = 0 => sock[n] = "open" /\ lpc[n] \notin Closing
<1> SUFFICES ASSUME breaks = 0 PROVE sock[n] = "open" /\ lpc[n] \notin Closing
  OBVIOUS
<1>1. lpc[n] \notin Closing
  BY DEF ExitInv
<1>2. sock[n] # "none" /\ sock[n] # "closed" /\ sock[n] \in {"none", "open", "closed"}
  BY <1>1 DEF NodeInv, NodeOK, TypeInv, ConnType, Closing
<1> QED
  BY <1>1, <1>2

\* A flow whose stop time is about to be recorded was started.
LEMMA StampedFlow ==
  ASSUME TypeInv, NodeInv, FlowInv, NEW n \in Node, lpc[n] = "stamp"
  PROVE  got[n] \in Nat \ {0} /\ got[n] \in started \ stopped /\ got[n] < cur
<1>1. got[n] \in Nat \ {0}
  BY DEF TypeInv, ConnType, NodeInv, NodeOK
<1>2. At(n, 0, got[n])
  BY DEF At, Pending
<1> QED
  BY <1>1, <1>2 DEF FlowInv

\* While no connection has failed the connection of the request is there.
LEMMA WriteConnects ==
  ASSUME TypeInv, MainInv, NodeInv, ExitInv, mpc = "write", ~Connects(conn)
  PROVE  breaks > 0
<1>1. conn \in Node /\ Exists(conn)
  BY DEF MainInv, HasConn
<1>2. ~ExitSent(conn)
  BY DEF ExitSent
<1>3. breaks = 0 => sock[conn] = "open" /\ up[conn]
  BY <1>1, <1>2, OpenUntilExit DEF NodeInv, NodeOK
<1>4. ~(sock[conn] = "open" /\ up[conn])
  BY <1>1 DEF Connects, Holds
<1>5. breaks \in Nat
  BY PoolAssumption DEF TypeInv, ConnType
<1> QED
  BY <1>3, <1>4, <1>5

\* Every step keeps the types.
LEMMA TypeInvStep ==
  ASSUME IInv, [Next]_vars
  PROVE  TypeInv'
<1> USE PoolAssumption, RequestAssumption, NodeParts DEF list, node, files, wire, main,
    poolVars, reqVars
<1>1. ASSUME OpenFirst, UNCHANGED reqVars PROVE TypeInv'
  <2>1. /\ mpc = "open" /\ AddNode(si, FALSE) /\ xi' = xi
        /\ \/ UNCHANGED <<mpc, si>>
           \/ si < NServer /\ si' = si + 1 /\ UNCHANGED mpc
           \/ si' = 1 /\ mpc' = "spawn"
    BY <1>1 DEF OpenFirst
  <2>2. ConnType' /\ leaked' = leaked
    BY <2>1, AddNodeEffect DEF IInv, TypeInv, MainType
  <2>3. si' \in Server /\ mpc' \in MainPc
    <3>1. si \in Server /\ mpc \in MainPc
      BY DEF IInv, TypeInv, MainType
    <3>2. \/ mpc' = mpc /\ si' = si
          \/ mpc' = mpc /\ si < NServer /\ si' = si + 1
          \/ mpc' = "spawn" /\ si' = 1
      BY <2>1
    <3> QED
      BY <3>1, <3>2 DEF MainPc
  <2>4. MainType'
    BY <1>1, <2>1, <2>3 DEF IInv, TypeInv, MainType
  <2> QED
    BY <2>2, <2>4 DEF IInv, TypeInv
<1>2. ASSUME OpenFirstFails, UNCHANGED reqVars PROVE TypeInv'
  BY <1>2 DEF IInv, TypeInv, ConnType, ListenerPc, MainPc, MainType, MainInv, OpenFirstFails
<1>3. ASSUME SpawnListeners, UNCHANGED reqVars PROVE TypeInv'
  BY <1>3 DEF IInv, TypeInv, ConnType, ListenerPc, MainPc, MainType, MainInv, SpawnListeners
<1>4. ASSUME ExitNode(FALSE), UNCHANGED reqVars PROVE TypeInv'
  <2>1. /\ mpc = "exit" /\ xi <= len[si]
        /\ \/ /\ busy' = [busy EXCEPT ![<<si, xi>>] = FALSE \/ busy[<<si, xi>>]]
              /\ availableLen' = [availableLen EXCEPT ![si] = UInt(availableLen[si] - 1)]
              /\ mpc' = "exitWrite" /\ UNCHANGED xi
           \/ xi' = xi + 1 /\ UNCHANGED <<busy, availableLen, mpc>>
        /\ UNCHANGED <<len, flowFinished, connected, lpc, got, wire, breaks, si>>
    BY <1>4 DEF ExitNode
  <2>2. si \in Server /\ len[si] \in 0 .. MaxNode /\ xi \in 1 .. MaxNode + 1
    BY DEF IInv, TypeInv, MainType, ConnType
  <2>3. xi + 1 \in 1 .. MaxNode + 1 /\ <<si, xi>> \in Node
    BY <2>1, <2>2, NextIndex
  <2>4. UInt(availableLen[si] - 1) \in 0 .. (UIntWord - 1)
    BY <2>2, AvailableType DEF IInv, TypeInv
  <2>5. busy' \in [Node -> BOOLEAN] /\ availableLen' \in [Server -> 0 .. (UIntWord - 1)]
    <3> DEFINE v == UInt(availableLen[si] - 1)
               b == FALSE \/ busy[<<si, xi>>]
    <3>1. /\ UNCHANGED busy \/ busy' = [busy EXCEPT ![<<si, xi>>] = b]
          /\ UNCHANGED availableLen \/ availableLen' = [availableLen EXCEPT ![si] = v]
      BY <2>1
    <3>2. v \in 0 .. (UIntWord - 1) /\ b \in BOOLEAN
      BY <2>3, <2>4 DEF IInv, TypeInv, ConnType
    <3> HIDE DEF v, b
    <3>3. availableLen' \in [Server -> 0 .. (UIntWord - 1)]
      <4>1. availableLen \in [Server -> 0 .. (UIntWord - 1)]
        BY DEF IInv, TypeInv, ConnType
      <4> QED
        BY ONLY <3>1, <3>2, <4>1, UpdateType
    <3>4. busy' \in [Node -> BOOLEAN]
      BY <3>1, <3>2 DEF IInv, TypeInv, ConnType
    <3> QED
      BY <3>3, <3>4
  <2>6. ConnType'
    BY <2>1, <2>5 DEF IInv, TypeInv, ConnType
  <2>7. MainType'
    BY <1>4, <2>1, <2>3 DEF IInv, TypeInv, MainType, MainPc
  <2> QED
    BY <2>1, <2>6, <2>7 DEF IInv, TypeInv
<1>5. ASSUME ExitWrite, UNCHANGED reqVars PROVE TypeInv'
  <2>1. /\ mpc = "exitWrite"
        /\ UNCHANGED <<list, node, breaks, si, sock, up, serving, toClient, sockfd, leaked>>
        /\ \/ /\ WriteSent(<<si, xi>>, 0) \/ UNCHANGED wire
              /\ mpc' = "exit" /\ xi' = xi + 1
           \/ mpc' = "killed" /\ UNCHANGED <<wire, xi>>
    BY <1>5 DEF ExitWrite, WriteLost, WriteKills, WriteSent
  <2>2. /\ si \in Server /\ len[si] \in 0 .. MaxNode /\ xi \in 1 .. MaxNode + 1
        /\ xi <= len[si]
    BY <2>1 DEF IInv, TypeInv, MainType, ConnType, MainInv
  <2>3. xi + 1 \in 1 .. MaxNode + 1 /\ <<si, xi>> \in Node
    BY <2>2, NextIndex
  <2>4. toServer' \in [Node -> Seq(Nat)] /\ astray' \in BOOLEAN
    <3>1. CASE UNCHANGED wire
      BY <3>1 DEF IInv, TypeInv, ConnType
    <3>2. CASE WriteSent(<<si, xi>>, 0)
      BY <2>3, <3>2, WriteSentEffect DEF IInv, TypeInv
    <3> QED
      BY <2>1, <3>1, <3>2
  <2>5. ConnType'
    BY <2>1, <2>4 DEF IInv, TypeInv, ConnType
  <2>6. MainType'
    BY <1>5, <2>1, <2>3 DEF IInv, TypeInv, MainType, MainPc
  <2> QED
    BY <2>1, <2>5, <2>6 DEF IInv, TypeInv
<1>6. ASSUME ExitAllSent, UNCHANGED reqVars PROVE TypeInv'
  <2>1. /\ mpc' = "wait" /\ xi' = 1 /\ UNCHANGED <<list, node, wire, breaks, si>>
    BY <1>6 DEF ExitAllSent
  <2>2. ConnType'
    BY <2>1 DEF IInv, TypeInv, ConnType
  <2>3. MainType'
    BY <1>6, <2>1 DEF IInv, TypeInv, MainType, MainPc
  <2> QED
    BY <2>1, <2>2, <2>3 DEF IInv, TypeInv
<1>7. ASSUME WaitNode, UNCHANGED reqVars PROVE TypeInv'
  <2>1. xi <= len[si] /\ xi' = xi + 1 /\ UNCHANGED <<list, node, wire, breaks, mpc, si>>
    BY <1>7 DEF WaitNode
  <2>2. si \in Server /\ len[si] \in 0 .. MaxNode /\ xi \in 1 .. MaxNode + 1
    BY DEF IInv, TypeInv, MainType, ConnType
  <2>3. xi' \in 1 .. MaxNode + 1
    BY <2>1, <2>2, NextIndex
  <2>4. ConnType'
    BY <2>1 DEF IInv, TypeInv, ConnType
  <2>5. MainType'
    BY <1>7, <2>1, <2>3 DEF IInv, TypeInv, MainType
  <2> QED
    BY <2>1, <2>4, <2>5 DEF IInv, TypeInv
<1>8. ASSUME WaitAllDone, UNCHANGED reqVars PROVE TypeInv'
  <2>1. /\ xi' = 1 /\ UNCHANGED <<list, node, wire, breaks>>
        /\ \/ si < NServer /\ si' = si + 1 /\ mpc' = "exit"
           \/ mpc' = "done" /\ UNCHANGED si
    BY <1>8 DEF WaitAllDone
  <2>2. ConnType'
    BY <2>1 DEF IInv, TypeInv, ConnType
  <2>3. si' \in Server
    BY <2>1, SMTT(30) DEF IInv, TypeInv, MainType
  <2>4. MainType'
    BY <1>8, <2>1, <2>3 DEF IInv, TypeInv, MainType, MainPc
  <2> QED
    BY <2>1, <2>2, <2>4 DEF IInv, TypeInv
<1>9. ASSUME BeginSearch PROVE TypeInv'
  BY <1>9 DEF IInv, TypeInv, ConnType, ListenerPc, MainPc, MainType, MainInv, BeginSearch
<1>10. ASSUME SearchNode PROVE TypeInv'
  <2>1. /\ mpc = "search" /\ UNCHANGED <<list, node, wire, breaks, si, cur, started, stopped>>
        /\ xi <= len[ReqServer[cur]]
        /\ \/ conn' = <<ReqServer[cur], xi>> /\ mpc' = "mark" /\ xi' = 1
           \/ xi' = xi + 1 /\ UNCHANGED <<conn, mpc>>
    BY <1>10 DEF SearchNode, Exists
  <2>2. ReqServer[cur] \in Server
    BY <2>1, CurrentRequest DEF IInv, Serving
  <2>3. len[ReqServer[cur]] \in 0 .. MaxNode /\ xi \in 1 .. MaxNode + 1
    BY <2>2 DEF IInv, TypeInv, MainType, ConnType
  <2>4. <<ReqServer[cur], xi>> \in Node /\ xi + 1 \in 1 .. MaxNode + 1 /\ 1 \in 1 .. MaxNode + 1
    BY <2>1, <2>2, <2>3, NextIndex
  <2>5. ConnType'
    BY <2>1 DEF IInv, TypeInv, ConnType
  <2>6. MainType'
    BY <2>1, <2>4 DEF IInv, TypeInv, MainType, MainPc
  <2> QED
    BY <2>1, <2>5, <2>6 DEF IInv, TypeInv
<1>11. ASSUME SearchMisses PROVE TypeInv'
  <2>1. /\ mpc' = "grow" /\ xi' = 1 /\ UNCHANGED <<list, node, wire, breaks, si, reqVars>>
    BY <1>11 DEF SearchMisses
  <2>2. ConnType'
    BY <2>1 DEF IInv, TypeInv, ConnType
  <2>3. MainType'
    BY <2>1 DEF IInv, TypeInv, MainType, MainPc
  <2> QED
    BY <2>1, <2>2, <2>3 DEF IInv, TypeInv
<1>12. ASSUME Grow PROVE TypeInv'
  <2>1. ReqServer[cur] \in Server
    BY <1>12, CurrentRequest DEF IInv, Grow, Serving
  <2>2. /\ AddNode(ReqServer[cur], TRUE) /\ mpc' = "mark"
        /\ conn' = <<ReqServer[cur], len[ReqServer[cur]] + 1>>
        /\ UNCHANGED <<si, xi, cur, started, stopped>>
    BY <1>12 DEF Grow
  <2>3. ConnType' /\ leaked' = leaked /\ conn' \in Node
    BY <2>1, <2>2, AddNodeEffect DEF IInv, TypeInv
  <2>4. MainType'
    BY <2>2, <2>3 DEF IInv, TypeInv, MainType, MainPc
  <2> QED
    BY <2>3, <2>4 DEF IInv, TypeInv
<1>13. ASSUME GiveUp PROVE TypeInv'
  <2>1. /\ mpc = "grow" /\ leaked' = leaked \cup {LowestFree}
        /\ cur' = cur + 1 /\ mpc' = "request"
        /\ UNCHANGED <<list, node, sock, up, serving, toServer, toClient, sockfd, astray, breaks,
                       si, xi, conn, started, stopped>>
    BY <1>13 DEF GiveUp, ConnectRefused
  <2>2. cur \in 1 .. NReq /\ cur + 1 \in 1 .. (NReq + 1)
    BY <2>1, CurrentRequest DEF IInv, Serving
  <2>3. LowestFree \in Nat
    BY LowestFreeIsFree DEF IInv, TypeInv
  <2>4. leaked' \subseteq Nat
    BY <2>1, <2>3 DEF IInv, TypeInv, ConnType
  <2>5. IsFiniteSet(leaked')
    BY <2>1, FS_AddElement DEF IInv, TypeInv
  <2>6. ConnType'
    BY <2>1, <2>4 DEF IInv, TypeInv, ConnType
  <2>7. MainType'
    BY <2>1, <2>2 DEF IInv, TypeInv, MainType, MainPc
  <2> QED
    BY <2>5, <2>6, <2>7 DEF IInv, TypeInv
<1>14. ASSUME MarkBusy PROVE TypeInv'
  <2>1. /\ mpc = "mark" /\ started' = started \cup {cur} /\ mpc' = "take"
        /\ busy' = [busy EXCEPT ![conn] = TRUE]
        /\ UNCHANGED <<list, connected, lpc, got, wire, breaks, si, xi, cur, conn, stopped>>
    BY <1>14 DEF MarkBusy
  <2>2. cur \in 1 .. NReq
    BY <2>1, CurrentRequest DEF IInv, Serving
  <2>3. ConnType'
    BY <2>1 DEF IInv, TypeInv, ConnType
  <2>4. MainType'
    BY <2>1, <2>2 DEF IInv, TypeInv, MainType, MainPc
  <2> QED
    BY <2>1, <2>3, <2>4 DEF IInv, TypeInv
<1>15. ASSUME TakeAvailable PROVE TypeInv'
  <2>1. /\ mpc = "take" /\ mpc' = "write"
        /\ availableLen' = [availableLen EXCEPT ![conn[1]] = UInt(availableLen[conn[1]] - 1)]
        /\ UNCHANGED <<len, flowFinished, node, wire, breaks, si, xi, reqVars>>
    BY <1>15 DEF TakeAvailable
  <2>2. conn[1] \in Server
    BY <2>1 DEF IInv, MainInv, HasConn
  <2>3. UInt(availableLen[conn[1]] - 1) \in 0 .. (UIntWord - 1)
    BY <2>2, AvailableType DEF IInv, TypeInv
  <2>4. ConnType'
    BY <2>1, <2>2, <2>3 DEF IInv, TypeInv, ConnType
  <2>5. MainType'
    BY <2>1 DEF IInv, TypeInv, MainType, MainPc
  <2> QED
    BY <2>1, <2>4, <2>5 DEF IInv, TypeInv
<1>16. ASSUME WriteRequest PROVE TypeInv'
  <2>1. /\ mpc = "write"
        /\ UNCHANGED <<list, node, breaks, si, xi, sock, up, serving, toClient, sockfd, leaked>>
        /\ \/ /\ WriteSent(conn, cur) \/ UNCHANGED wire
              /\ mpc' = "request" /\ cur' = cur + 1
           \/ mpc' = "killed" /\ UNCHANGED <<wire, cur>>
        /\ UNCHANGED <<conn, started, stopped>>
    BY <1>16 DEF WriteRequest, WriteLost, WriteKills, WriteSent
  <2>2. /\ cur \in 1 .. NReq /\ cur \in Nat /\ conn \in Node
        /\ cur + 1 \in 1 .. (NReq + 1)
    <3>1. mpc \in Serving /\ conn \in Node /\ TypeInv /\ MainInv
      BY <2>1 DEF IInv, MainInv, Serving, HasConn
    <3> QED
      BY <3>1, CurrentRequest
  <2>4. toServer' \in [Node -> Seq(Nat)] /\ astray' \in BOOLEAN
    <3>1. CASE UNCHANGED wire
      BY <3>1 DEF IInv, TypeInv, ConnType
    <3>2. CASE WriteSent(conn, cur)
      BY <2>2, <3>2, WriteSentEffect DEF IInv, TypeInv
    <3> QED
      BY <2>1, <3>1, <3>2
  <2>5. ConnType'
    BY <2>1, <2>4 DEF IInv, TypeInv, ConnType
  <2>6. MainType'
    BY <1>16, <2>1, <2>2 DEF IInv, TypeInv, MainType, MainPc
  <2> QED
    BY <2>1, <2>5, <2>6 DEF IInv, TypeInv
<1>17. ASSUME RequestsDone PROVE TypeInv'
  BY <1>17 DEF IInv, TypeInv, ConnType, ListenerPc, MainPc, MainType, MainInv, RequestsDone
<1>18. ASSUME NEW n \in Node, ListenRead(n), UNCHANGED reqVars PROVE TypeInv'
  <2>1. /\ toClient[n] # <<>>
        /\ got' = [got EXCEPT ![n] = Head(toClient[n])]
        /\ toClient' = [toClient EXCEPT ![n] = Tail(toClient[n])]
        /\ lpc' = [lpc EXCEPT ![n] = "unbusy"]
        /\ UNCHANGED <<list, busy, connected, sock, up, serving, toServer, files, breaks, main>>
    BY <1>18 DEF ListenRead
  <2>2. Head(toClient[n]) \in Nat /\ Tail(toClient[n]) \in Seq(Nat)
    BY <2>1, HeadTailProperties DEF IInv, TypeInv, ConnType
  <2>3. ConnType'
    BY <2>1, <2>2 DEF IInv, TypeInv, ConnType, ListenerPc
  <2> QED
    BY <1>18, <2>1, <2>3 DEF IInv, TypeInv, MainType
<1>19. ASSUME NEW n \in Node, ListenFail(n), UNCHANGED reqVars PROVE TypeInv'
  BY <1>19 DEF IInv, TypeInv, ConnType, ListenerPc, MainPc, MainType, MainInv, ListenFail
<1>20. ASSUME NEW n \in Node, ListenUnbusy(n), UNCHANGED reqVars PROVE TypeInv'
  BY <1>20 DEF IInv, TypeInv, ConnType, ListenerPc, MainPc, MainType, MainInv, ListenUnbusy
<1>21. ASSUME NEW n \in Node, ListenAccount(n), UNCHANGED reqVars PROVE TypeInv'
  <2>1. /\ \/ flowFinished' = [flowFinished EXCEPT ![n[1]] = flowFinished[n[1]] + 1]
           \/ UNCHANGED flowFinished
        /\ \/ availableLen' = [availableLen EXCEPT ![n[1]] = UInt(availableLen[n[1]] + 1)]
           \/ UNCHANGED availableLen
        /\ lpc' = [lpc EXCEPT ![n] = "stamp"] \/ lpc' = [lpc EXCEPT ![n] = "close"]
        /\ UNCHANGED <<len, busy, connected, got, wire, breaks, main>>
    BY <1>21 DEF ListenAccount
  <2>2. n[1] \in Server
    OBVIOUS
  <2>3. UInt(availableLen[n[1]] + 1) \in 0 .. (UIntWord - 1)
    BY <2>2, AvailableType DEF IInv, TypeInv
  <2>4. availableLen' \in [Server -> 0 .. (UIntWord - 1)] /\ flowFinished' \in [Server -> Nat]
    <3> DEFINE v == UInt(availableLen[n[1]] + 1)
               s == n[1]
    <3>1. UNCHANGED availableLen \/ availableLen' = [availableLen EXCEPT ![s] = v]
      BY <2>1
    <3>2. UNCHANGED flowFinished \/ flowFinished' = [flowFinished EXCEPT ![s] = flowFinished[s] + 1]
      BY <2>1
    <3>3. v \in 0 .. (UIntWord - 1) /\ s \in Server
      BY <2>2, <2>3
    <3> HIDE DEF v, s
    <3>4. availableLen' \in [Server -> 0 .. (UIntWord - 1)]
      <4>1. availableLen \in [Server -> 0 .. (UIntWord - 1)]
        BY DEF IInv, TypeInv, ConnType
      <4> QED
        BY ONLY <3>1, <3>3, <4>1, UpdateType
    <3>5. flowFinished' \in [Server -> Nat]
      <4>1. flowFinished \in [Server -> Nat]
        BY DEF IInv, TypeInv, ConnType
      <4>2. flowFinished[s] + 1 \in Nat
        BY ONLY <3>3, <4>1
      <4> QED
        BY ONLY <3>2, <4>1, <4>2, UpdateType
    <3> QED
      BY <3>4, <3>5
  <2>5. lpc' \in [Node -> ListenerPc]
    BY <2>1 DEF IInv, TypeInv, ConnType, ListenerPc
  <2>6. ConnType'
    BY <2>1, <2>4, <2>5 DEF IInv, TypeInv, ConnType
  <2> QED
    BY <1>21, <2>1, <2>6 DEF IInv, TypeInv, MainType
<1>22. ASSUME NEW n \in Node, ListenClose(n), UNCHANGED reqVars PROVE TypeInv'
  BY <1>22 DEF IInv, TypeInv, ConnType, ListenerPc, MainPc, MainType, MainInv, ListenClose
<1>23. ASSUME NEW n \in Node, ListenDisconnect(n), UNCHANGED reqVars PROVE TypeInv'
  BY <1>23 DEF IInv, TypeInv, ConnType, ListenerPc, MainPc, MainType, MainInv, ListenDisconnect
<1>24. ASSUME NEW n \in Node, ListenLeave(n), UNCHANGED reqVars PROVE TypeInv'
  BY <1>24 DEF IInv, TypeInv, ConnType, ListenerPc, MainPc, MainType, MainInv, ListenLeave
<1>25. ASSUME NEW n \in Node, ListenStamp(n) PROVE TypeInv'
  <2>1. /\ lpc[n] = "stamp" /\ lpc' = [lpc EXCEPT ![n] = "read"] /\ stopped' = stopped \cup {got[n]}
        /\ UNCHANGED <<list, busy, connected, got, wire, breaks, main, cur, conn, started>>
    BY <1>25 DEF ListenStamp, ListenStamped
  <2>2. got[n] \in 1 .. NReq
    BY <2>1, StampedFlow DEF IInv, TypeInv, MainType
  <2>3. ConnType'
    BY <2>1 DEF IInv, TypeInv, ConnType, ListenerPc
  <2> QED
    BY <2>1, <2>2, <2>3 DEF IInv, TypeInv, MainType
<1>26. ASSUME NEW n \in Node, Serve(n), UNCHANGED reqVars PROVE TypeInv'
  <2>1. /\ toServer[n] # <<>>
        /\ toServer' = [toServer EXCEPT ![n] = Tail(toServer[n])]
        /\ toClient' = [toClient EXCEPT ![n] = Append(toClient[n], Head(toServer[n]))]
        /\ UNCHANGED <<list, node, sock, up, serving, files, breaks, main>>
    BY <1>26 DEF Serve
  <2>2. toServer[n] \in Seq(Nat) /\ toClient[n] \in Seq(Nat)
    BY DEF IInv, TypeInv, ConnType
  <2>3. Head(toServer[n]) \in Nat /\ Tail(toServer[n]) \in Seq(Nat)
    BY <2>1, <2>2, HeadTailProperties
  <2>4. Append(toClient[n], Head(toServer[n])) \in Seq(Nat)
    BY <2>2, <2>3, AppendProperties
  <2>5. ConnType'
    BY <2>1, <2>3, <2>4 DEF IInv, TypeInv, ConnType
  <2> QED
    BY <1>26, <2>1, <2>5 DEF IInv, TypeInv, MainType
<1>27. ASSUME NEW n \in Node, ServeEnd(n), UNCHANGED reqVars PROVE TypeInv'
  BY <1>27 DEF IInv, TypeInv, ConnType, ListenerPc, MainPc, MainType, MainInv, ServeEnd
<1>28. ASSUME NEW n \in Node, Break(n), UNCHANGED reqVars PROVE TypeInv'
  <2>1. /\ breaks < MaxBreaks /\ breaks' = breaks + 1 /\ up' = [up EXCEPT ![n] = FALSE]
        /\ toServer' = [toServer EXCEPT ![n] = <<>>]
        /\ UNCHANGED <<list, node, sock, serving, files, main>>
    BY <1>28 DEF Break
  <2>2. PICK i \in 0 .. Len(toClient[n]) :
           toClient' = [toClient EXCEPT ![n] = SubSeq(toClient[n], 1, i)]
    BY <1>28 DEF Break
  <2>3. SubSeq(toClient[n], 1, i) \in Seq(Nat)
    BY PrefixType DEF IInv, TypeInv, ConnType
  <2>4. toClient' \in [Node -> Seq(Nat)] /\ toServer' \in [Node -> Seq(Nat)]
    <3> DEFINE left == SubSeq(toClient[n], 1, i)
    <3>1. toClient' = [toClient EXCEPT ![n] = left] /\ left \in Seq(Nat)
      BY <2>2, <2>3
    <3>2. <<>> \in Seq(Nat)
      OBVIOUS
    <3> HIDE DEF left
    <3> QED
      BY <2>1, <3>1, <3>2 DEF IInv, TypeInv, ConnType
  <2>6. up' \in [Node -> BOOLEAN]
    BY <2>1 DEF IInv, TypeInv, ConnType
  <2>7. breaks \in 0 .. MaxBreaks
    BY DEF IInv, TypeInv, ConnType
  <2>8. breaks' \in 0 .. MaxBreaks
    BY ONLY <2>1, <2>7, PoolAssumption
  <2>5. ConnType'
    BY <2>1, <2>4, <2>6, <2>8 DEF IInv, TypeInv, ConnType
  <2> QED
    BY <1>28, <2>1, <2>5 DEF IInv, TypeInv, MainType
<1>29. ASSUME UNCHANGED vars PROVE TypeInv'
  BY <1>29 DEF IInv, TypeInv, ConnType, ListenerPc, MainPc, MainType, MainInv, vars
<1> QED
  BY <1>1, <1>2, <1>3, <1>4, <1>5, <1>6, <1>7, <1>8, <1>9, <1>10, <1>11, <1>12, <1>13, <1>14,
     <1>15, <1>16, <1>17, <1>18, <1>19, <1>20, <1>21, <1>22, <1>23, <1>24, <1>25, <1>26,
     <1>27, <1>28, <1>29, StepCases

\* The main thread's own state stays while another thread runs.
LEMMA MainInvStays ==
  ASSUME MainInv, UNCHANGED <<len, mpc, si, xi, cur, conn, started>>,
         stopped' \subseteq started, \A r \in stopped' : r < cur
  PROVE  MainInv'
BY DEF MainInv, Exists

\* The main thread works on the requests in order.
LEMMA MainInvStep ==
  ASSUME IInv, [Next]_vars
  PROVE  MainInv'
<1> USE DEF list, node, files, wire, main, poolVars, reqVars
<1>0. /\ cur \in Nat /\ xi \in Nat /\ xi >= 1 /\ si \in Nat /\ si <= NServer /\ NServer \in Nat
      /\ \A s \in Server : len[s] \in Nat /\ s \in Nat /\ s <= NServer
      /\ si \in Server /\ si' \in Server /\ len'[si'] \in Nat
      /\ \A r \in started : r \in Nat
  <2>1. cur \in Nat /\ xi \in Nat /\ xi >= 1 /\ si \in Server /\ \A r \in started : r \in Nat
    BY RequestAssumption, PoolAssumption DEF IInv, TypeInv, MainType
  <2>2. \A s \in Server : len[s] \in Nat
    BY PoolAssumption DEF IInv, TypeInv, ConnType
  <2>3. si' \in Server /\ \A s \in Server : len'[s] \in Nat
    BY TypeInvStep, PoolAssumption DEF TypeInv, MainType, ConnType
  <2> QED
    BY <2>1, <2>2, <2>3, NodeParts, PoolAssumption
<1>1. ASSUME OpenFirst, UNCHANGED reqVars PROVE MainInv'
  BY <1>1, <1>0 DEF IInv, MainInv, Serving, HasConn, Exists, OpenFirst, AddNode
<1>2. ASSUME OpenFirstFails, UNCHANGED reqVars PROVE MainInv'
  BY <1>2, <1>0 DEF IInv, MainInv, Serving, HasConn, Exists, OpenFirstFails
<1>3. ASSUME SpawnListeners, UNCHANGED reqVars PROVE MainInv'
  BY <1>3, <1>0 DEF IInv, MainInv, Serving, HasConn, Exists, SpawnListeners
<1>4. ASSUME ExitNode(FALSE), UNCHANGED reqVars PROVE MainInv'
  BY <1>4, <1>0 DEF IInv, MainInv, Serving, HasConn, Exists, ExitNode
<1>5. ASSUME ExitWrite, UNCHANGED reqVars PROVE MainInv'
  BY <1>5, <1>0 DEF IInv, MainInv, Serving, HasConn, Exists, ExitWrite, WriteSent, WriteLost,
     WriteKills
<1>6. ASSUME ExitAllSent, UNCHANGED reqVars PROVE MainInv'
  BY <1>6, <1>0 DEF IInv, MainInv, Serving, HasConn, Exists, ExitAllSent
<1>7. ASSUME WaitNode, UNCHANGED reqVars PROVE MainInv'
  BY <1>7, <1>0 DEF IInv, MainInv, Serving, HasConn, Exists, WaitNode
<1>8. ASSUME WaitAllDone, UNCHANGED reqVars PROVE MainInv'
  BY <1>8, <1>0 DEF IInv, MainInv, Serving, HasConn, Exists, WaitAllDone
<1>9. ASSUME BeginSearch PROVE MainInv'
  BY <1>9, <1>0 DEF IInv, MainInv, Serving, HasConn, Exists, BeginSearch
<1>10. ASSUME SearchNode PROVE MainInv'
  <2> DEFINE s == ReqServer[cur]
             m == <<s, xi>>
  <2>1. /\ mpc = "search" /\ xi <= len[s] /\ xi \in Nat
        /\ \/ conn' = m /\ mpc' = "mark" /\ xi' = 1
           \/ mpc' = "search" /\ conn' = conn
        /\ UNCHANGED <<len, si, cur, started, stopped>>
    BY <1>10, <1>0 DEF SearchNode, Exists
  <2>2. s \in Server
    BY <2>1, CurrentRequest DEF IInv, Serving
  <2>3. m \in Node
    <3>1. len[s] \in 0 .. MaxNode
      BY <2>2 DEF IInv, TypeInv, ConnType
    <3>2. xi \in 1 .. MaxNode
      BY ONLY <1>0, <2>1, <3>1, PoolAssumption
    <3> QED
      BY <2>2, <3>2, NodeParts
  <2>4. m[1] = s /\ m[2] = xi
    OBVIOUS
  <2> HIDE DEF s, m
  <2>5. mpc' \in HasConn => conn' \in Node /\ Exists(conn)' /\ conn'[1] = ReqServer[cur']
    BY <2>1, <2>3, <2>4 DEF Exists, HasConn, s
  <2>6. /\ mpc' \in Serving => cur' <= NReq
        /\ mpc' = "mark" => xi' = 1
        /\ mpc' \in {"search", "mark"} /\ si' = 1
        /\ \A r \in started' : r < cur'
        /\ stopped' \subseteq started' /\ \A r \in stopped' : r < cur'
    BY <2>1 DEF IInv, MainInv, Serving
  <2> QED
    BY <2>5, <2>6 DEF MainInv, Serving, HasConn
<1>11. ASSUME SearchMisses PROVE MainInv'
  BY <1>11, <1>0 DEF IInv, MainInv, Serving, HasConn, Exists, SearchMisses
<1>12. ASSUME Grow PROVE MainInv'
  <2> DEFINE s == ReqServer[cur]
  <2>1. s \in Server
    BY <1>12, CurrentRequest DEF IInv, Grow, Serving
  <2>2. /\ AddNode(s, TRUE) /\ mpc' = "mark" /\ mpc = "grow"
        /\ conn' = <<s, len[s] + 1>>
        /\ UNCHANGED <<si, xi, cur, started, stopped>>
    BY <1>12 DEF Grow
  <2>3. conn' \in Node /\ len'[s] = len[s] + 1
    BY <2>1, <2>2, AddNodeEffect DEF IInv, TypeInv
  <2>4. conn'[1] = s /\ conn'[2] = len[s] + 1
    BY <2>2
  <2>5. Exists(conn)'
    <3>1. len[s] \in Nat
      BY <1>0, <2>1
    <3>2. len[s] + 1 <= len'[s]
      BY ONLY <2>3, <3>1
    <3> QED
      BY ONLY <2>4, <3>2 DEF Exists
  <2>6. mpc' \notin {"open", "spawn", "failed", "exit", "wait", "exitWrite", "done", "take",
                     "write"}
    BY <2>2
  <2> HIDE DEF s
  <2>7. mpc' \in HasConn => conn' \in Node /\ Exists(conn)' /\ conn'[1] = ReqServer[cur']
    BY <2>2, <2>3, <2>4, <2>5 DEF s
  <2> QED
    BY <2>2, <2>6, <2>7 DEF IInv, MainInv, Serving, HasConn
<1>13. ASSUME GiveUp PROVE MainInv'
  <2>1. /\ mpc = "grow" /\ UNCHANGED <<len, si, xi, conn, started, stopped>>
        /\ mpc' = "request" /\ cur' = cur + 1
    BY <1>13 DEF GiveUp, ConnectRefused
  <2>2. \A r \in started' : r < cur'
    BY <1>0, <2>1 DEF IInv, MainInv
  <2>3. si = 1 /\ xi = 1 /\ stopped' \subseteq started'
    BY <2>1 DEF IInv, MainInv, Serving, HasConn
  <2>4. \A r \in stopped' : r < cur'
    BY <1>0, <2>1 DEF IInv, MainInv
  <2> QED
    BY <2>1, <2>2, <2>3, <2>4 DEF MainInv, Serving, HasConn
<1>14. ASSUME MarkBusy PROVE MainInv'
  BY <1>14, <1>0 DEF IInv, MainInv, Serving, HasConn, Exists, MarkBusy
<1>15. ASSUME TakeAvailable PROVE MainInv'
  BY <1>15, <1>0 DEF IInv, MainInv, Serving, HasConn, Exists, TakeAvailable
<1>16. ASSUME WriteRequest PROVE MainInv'
  <2>1. /\ mpc = "write" /\ UNCHANGED <<len, si, xi, conn, started, stopped>>
        /\ \/ mpc' = "request" /\ cur' = cur + 1
           \/ mpc' = "killed" /\ cur' = cur
    BY <1>16 DEF WriteRequest, WriteLost, WriteKills, WriteSent
  <2>2. \A r \in started' : r < cur' \/ (r = cur' /\ mpc' = "killed")
    BY <1>0, <2>1 DEF IInv, MainInv
  <2>3. si = 1 /\ xi = 1 /\ stopped' \subseteq started'
    BY <2>1 DEF IInv, MainInv, Serving, HasConn
  <2>4. \A r \in stopped' : r < cur'
    BY <1>0, <2>1 DEF IInv, MainInv
  <2> QED
    BY <2>1, <2>2, <2>3, <2>4 DEF MainInv, Serving, HasConn
<1>17. ASSUME RequestsDone PROVE MainInv'
  BY <1>17, <1>0 DEF IInv, MainInv, Serving, HasConn, Exists, RequestsDone
<1>18. ASSUME NEW n \in Node, ListenRead(n), UNCHANGED reqVars PROVE MainInv'
  BY <1>18, MainInvStays DEF IInv, MainInv, ListenRead
<1>19. ASSUME NEW n \in Node, ListenFail(n), UNCHANGED reqVars PROVE MainInv'
  BY <1>19, MainInvStays DEF IInv, MainInv, ListenFail
<1>20. ASSUME NEW n \in Node, ListenUnbusy(n), UNCHANGED reqVars PROVE MainInv'
  BY <1>20, MainInvStays DEF IInv, MainInv, ListenUnbusy
<1>21. ASSUME NEW n \in Node, ListenAccount(n), UNCHANGED reqVars PROVE MainInv'
  BY <1>21, MainInvStays DEF IInv, MainInv, ListenAccount
<1>22. ASSUME NEW n \in Node, ListenClose(n), UNCHANGED reqVars PROVE MainInv'
  BY <1>22, MainInvStays DEF IInv, MainInv, ListenClose
<1>23. ASSUME NEW n \in Node, ListenDisconnect(n), UNCHANGED reqVars PROVE MainInv'
  BY <1>23, MainInvStays DEF IInv, MainInv, ListenDisconnect
<1>24. ASSUME NEW n \in Node, ListenLeave(n), UNCHANGED reqVars PROVE MainInv'
  BY <1>24, MainInvStays DEF IInv, MainInv, ListenLeave
<1>25. ASSUME NEW n \in Node, ListenStamp(n) PROVE MainInv'
  <2>1. lpc[n] = "stamp" /\ stopped' = stopped \cup {got[n]}
        /\ UNCHANGED <<len, mpc, si, xi, cur, conn, started>>
    BY <1>25 DEF ListenStamp, ListenStamped
  <2>2. got[n] \in started /\ got[n] < cur
    BY <2>1, StampedFlow DEF IInv
  <2>3. stopped' \subseteq started /\ \A r \in stopped' : r < cur
    BY <2>1, <2>2 DEF IInv, MainInv
  <2> QED
    BY <2>1, <2>3, MainInvStays DEF IInv
<1>26. ASSUME NEW n \in Node, Serve(n), UNCHANGED reqVars PROVE MainInv'
  BY <1>26, MainInvStays DEF IInv, MainInv, Serve
<1>27. ASSUME NEW n \in Node, ServeEnd(n), UNCHANGED reqVars PROVE MainInv'
  BY <1>27, MainInvStays DEF IInv, MainInv, ServeEnd
<1>28. ASSUME NEW n \in Node, Break(n), UNCHANGED reqVars PROVE MainInv'
  BY <1>28, MainInvStays DEF IInv, MainInv, Break
<1>29. ASSUME UNCHANGED vars PROVE MainInv'
  BY <1>29, MainInvStays DEF IInv, MainInv, vars
<1> QED
  BY <1>1, <1>2, <1>3, <1>4, <1>5, <1>6, <1>7, <1>8, <1>9, <1>10, <1>11, <1>12, <1>13, <1>14,
     <1>15, <1>16, <1>17, <1>18, <1>19, <1>20, <1>21, <1>22, <1>23, <1>24, <1>25, <1>26,
     <1>27, <1>28, <1>29, StepCases

\* A connection that is made exists, is open and has a listener if it is to.
LEMMA NodeAdded ==
  ASSUME TypeInv, NodeInv, NEW s \in Server, NEW b \in BOOLEAN, AddNode(s, b),
         b \/ mpc' \in {"open", "spawn"}, b => mpc' \notin {"open", "spawn"},
         mpc \in {"open", "spawn"} <=> mpc' \in {"open", "spawn"}, mpc # "failed"
  PROVE  NodeInv'
<1>0. PICK k \in Node : k = <<s, len[s] + 1>>
  BY AddNodeEffect DEF TypeInv
<1>1. /\ k[1] = s /\ k[2] = len[s] + 1
      /\ \A t \in Server : len'[t] = IF t = s THEN len[t] + 1 ELSE len[t]
      /\ \A m \in Node :
            IF m = k
              THEN /\ lpc'[m] = IF b THEN "read" ELSE "none"
                   /\ ~busy'[m] /\ connected'[m] /\ sock'[m] = "open" /\ up'[m]
              ELSE /\ lpc'[m] = lpc[m] /\ busy'[m] = busy[m]
                   /\ connected'[m] = connected[m] /\ sock'[m] = sock[m]
                   /\ up'[m] = up[m] /\ sockfd'[m] = sockfd[m]
      /\ UNCHANGED <<got, toServer, toClient, breaks>>
  BY <1>0, AddNodeEffect DEF TypeInv
<1>2. \A m \in Node : /\ m[1] \in Server /\ m[2] \in Nat /\ m = <<m[1], m[2]>>
                      /\ len[m[1]] \in Nat /\ len[s] \in Nat
  BY NodeNumbers DEF TypeInv
<1>3. \A m \in Node : m # k => (Exists(m)' <=> Exists(m))
  <2> SUFFICES ASSUME NEW m \in Node, m # k PROVE Exists(m)' <=> Exists(m)
    OBVIOUS
  <2>1. m[1] # s \/ m[2] # len[s] + 1
    BY <1>0, <1>2
  <2> QED
    BY <1>1, <1>2, <2>1 DEF Exists
<1>4. Exists(k)'
  BY <1>1, <1>2 DEF Exists
<1>5. ASSUME NEW m \in Node, m # k PROVE NodeOK(m)'
  BY <1>1, <1>3, <1>5 DEF NodeInv, NodeOK
<1>6. NodeOK(k)'
  <2>1. toServer'[k] = toServer[k] /\ up'[k] /\ sock'[k] = "open" /\ connected'[k]
    BY <1>1
  <2>2. lpc'[k] = IF b THEN "read" ELSE "none"
    BY <1>1
  <2> QED
    BY <1>4, <2>1, <2>2 DEF NodeOK
<1> QED
  BY <1>5, <1>6 DEF NodeInv

\* A write moves a flow onto a connection that is there, or does nothing.
LEMMA WriteKeepsNodes ==
  ASSUME ConnType, NodeInv, NEW n \in Node, NEW id \in Nat,
         WriteSent(n, id) \/ UNCHANGED wire, UNCHANGED <<list, node, breaks>>,
         mpc \notin {"open", "spawn", "failed"}, mpc' \notin {"open", "spawn", "failed"}
  PROVE  NodeInv'
<1>1. UNCHANGED <<len, busy, connected, lpc, got, breaks>>
  BY DEF list, node
<1>2. CASE UNCHANGED wire
  BY <1>1, <1>2 DEF wire, NodeInv, NodeOK, Exists
<1>3. CASE WriteSent(n, id)
  <2>1. PICK m \in Node : /\ sock[m] = "open" /\ up[m]
                          /\ toServer' = [toServer EXCEPT ![m] = Append(@, id)]
    BY <1>3, WriteSentEffect
  <2>2. UNCHANGED <<sock, up, toClient>>
    BY <1>3 DEF WriteSent
  <2>3. \A q \in Node : q # m => toServer'[q] = toServer[q]
    BY <2>1 DEF ConnType
  <2>4. ASSUME NEW q \in Node, q # m PROVE NodeOK(q)'
    BY <1>1, <2>2, <2>3, <2>4 DEF NodeInv, NodeOK, Exists
  <2>5. NodeOK(m)'
    <3>1. NodeOK(m) /\ Exists(m)
      BY <2>1 DEF NodeInv, NodeOK
    <3> QED
      BY <1>1, <2>1, <2>2, <3>1 DEF NodeOK, Exists
  <2> QED
    BY <2>4, <2>5 DEF NodeInv
<1> QED
  BY <1>2, <1>3

\* A listener runs on every connection that was made, and closes it before it leaves.
LEMMA NodeInvStep ==
  ASSUME IInv, [Next]_vars
  PROVE  NodeInv'
<1> USE DEF list, node, files, wire, main, poolVars, reqVars
<1>1. ASSUME OpenFirst, UNCHANGED reqVars PROVE NodeInv'
  <2>1. AddNode(si, FALSE) /\ mpc = "open" /\ mpc' \in {"open", "spawn"}
    BY <1>1 DEF OpenFirst
  <2>2. si \in Server
    BY DEF IInv, TypeInv, MainType
  <2> QED
    BY <2>1, <2>2, NodeAdded DEF IInv
<1>2. ASSUME OpenFirstFails, UNCHANGED reqVars PROVE NodeInv'
  BY <1>2 DEF IInv, TypeInv, ConnType, NodeInv, NodeOK, Exists, OpenFirstFails
<1>3. ASSUME SpawnListeners, UNCHANGED reqVars PROVE NodeInv'
  BY <1>3 DEF IInv, TypeInv, ConnType, NodeInv, NodeOK, Exists, SpawnListeners
<1>4. ASSUME ExitNode(FALSE), UNCHANGED reqVars PROVE NodeInv'
  <2>1. /\ mpc = "exit" /\ mpc' \in {"exit", "exitWrite"} /\ xi <= len[si]
        /\ \/ busy' = [busy EXCEPT ![<<si, xi>>] = FALSE \/ @]
           \/ UNCHANGED busy
        /\ UNCHANGED <<len, connected, lpc, got, wire, breaks>>
    BY <1>4 DEF ExitNode
  <2>2. \A m \in Node : busy'[m] <=> busy[m]
    BY <2>1 DEF IInv, TypeInv, ConnType
  <2>3. \A m \in Node : Exists(m)' <=> Exists(m)
    BY <2>1 DEF Exists
  <2> QED
    BY <2>1, <2>2, <2>3 DEF IInv, NodeInv, NodeOK
<1>5. ASSUME ExitWrite, UNCHANGED reqVars PROVE NodeInv'
  <2>1. /\ mpc = "exitWrite" /\ mpc' \in {"exit", "killed"}
        /\ WriteSent(<<si, xi>>, 0) \/ UNCHANGED wire
        /\ UNCHANGED <<list, node, breaks>>
    BY <1>5 DEF ExitWrite, WriteLost, WriteKills
  <2>2. /\ si \in Server /\ len[si] \in 0 .. MaxNode /\ xi \in 1 .. MaxNode + 1
        /\ xi <= len[si]
    BY <2>1, NodeParts DEF IInv, TypeInv, MainType, ConnType, MainInv
  <2>3. <<si, xi>> \in Node /\ 0 \in Nat
    BY <2>2, NextIndex
  <2>4. ConnType /\ NodeInv
    BY DEF IInv, TypeInv
  <2> QED
    BY <2>1, <2>3, <2>4, WriteKeepsNodes
<1>6. ASSUME ExitAllSent, UNCHANGED reqVars PROVE NodeInv'
  BY <1>6 DEF IInv, TypeInv, ConnType, NodeInv, NodeOK, Exists, ExitAllSent
<1>7. ASSUME WaitNode, UNCHANGED reqVars PROVE NodeInv'
  BY <1>7 DEF IInv, TypeInv, ConnType, NodeInv, NodeOK, Exists, WaitNode
<1>8. ASSUME WaitAllDone, UNCHANGED reqVars PROVE NodeInv'
  BY <1>8 DEF IInv, TypeInv, ConnType, NodeInv, NodeOK, Exists, WaitAllDone
<1>9. ASSUME BeginSearch PROVE NodeInv'
  BY <1>9 DEF IInv, TypeInv, ConnType, NodeInv, NodeOK, Exists, BeginSearch
<1>10. ASSUME SearchNode PROVE NodeInv'
  BY <1>10 DEF IInv, TypeInv, ConnType, NodeInv, NodeOK, Exists, SearchNode
<1>11. ASSUME SearchMisses PROVE NodeInv'
  BY <1>11 DEF IInv, TypeInv, ConnType, NodeInv, NodeOK, Exists, SearchMisses
<1>12. ASSUME Grow PROVE NodeInv'
  <2>1. AddNode(ReqServer[cur], TRUE) /\ mpc = "grow" /\ mpc' = "mark"
    BY <1>12 DEF Grow
  <2>2. ReqServer[cur] \in Server
    BY <2>1, CurrentRequest DEF IInv, Serving
  <2> QED
    BY <2>1, <2>2, NodeAdded DEF IInv
<1>13. ASSUME GiveUp PROVE NodeInv'
  BY <1>13 DEF IInv, TypeInv, ConnType, NodeInv, NodeOK, Exists, GiveUp, ConnectRefused
<1>14. ASSUME MarkBusy PROVE NodeInv'
  <2>1. /\ mpc = "mark" /\ mpc' = "take" /\ busy' = [busy EXCEPT ![conn] = TRUE]
        /\ UNCHANGED <<len, connected, lpc, got, wire, breaks>>
    BY <1>14 DEF MarkBusy
  <2>2. conn \in Node /\ Exists(conn)
    BY <2>1 DEF IInv, MainInv, HasConn
  <2>3. \A m \in Node : ~Exists(m) => busy'[m] = busy[m]
    BY <2>1, <2>2 DEF IInv, TypeInv, ConnType
  <2>4. \A m \in Node : Exists(m)' <=> Exists(m)
    BY <2>1 DEF Exists
  <2> QED
    BY <2>1, <2>3, <2>4 DEF IInv, NodeInv, NodeOK
<1>15. ASSUME TakeAvailable PROVE NodeInv'
  BY <1>15 DEF IInv, TypeInv, ConnType, NodeInv, NodeOK, Exists, TakeAvailable
<1>16. ASSUME WriteRequest PROVE NodeInv'
  <2>1. /\ mpc = "write" /\ mpc' \in {"request", "killed"}
        /\ WriteSent(conn, cur) \/ UNCHANGED wire
        /\ UNCHANGED <<list, node, breaks>>
    BY <1>16 DEF WriteRequest, WriteLost, WriteKills
  <2>2. conn \in Node /\ cur \in Nat
    BY <2>1, CurrentRequest DEF IInv, MainInv, Serving, HasConn
  <2>3. ConnType /\ NodeInv
    BY DEF IInv, TypeInv
  <2> QED
    BY <2>1, <2>2, <2>3, WriteKeepsNodes
<1>17. ASSUME RequestsDone PROVE NodeInv'
  BY <1>17 DEF IInv, TypeInv, ConnType, NodeInv, NodeOK, Exists, RequestsDone
<1>18. ASSUME NEW n \in Node, ListenRead(n), UNCHANGED reqVars PROVE NodeInv'
  BY <1>18 DEF IInv, TypeInv, ConnType, NodeInv, NodeOK, Exists, ListenRead
<1>19. ASSUME NEW n \in Node, ListenFail(n), UNCHANGED reqVars PROVE NodeInv'
  BY <1>19 DEF IInv, TypeInv, ConnType, NodeInv, NodeOK, Exists, ListenFail
<1>20. ASSUME NEW n \in Node, ListenUnbusy(n), UNCHANGED reqVars PROVE NodeInv'
  BY <1>20 DEF IInv, TypeInv, ConnType, NodeInv, NodeOK, Exists, ListenUnbusy
<1>21. ASSUME NEW n \in Node, ListenAccount(n), UNCHANGED reqVars PROVE NodeInv'
  BY <1>21, SMTT(30) DEF IInv, TypeInv, ConnType, NodeInv, NodeOK, Exists, ListenAccount
<1>22. ASSUME NEW n \in Node, ListenClose(n), UNCHANGED reqVars PROVE NodeInv'
  BY <1>22 DEF IInv, TypeInv, ConnType, NodeInv, NodeOK, Exists, ListenClose
<1>23. ASSUME NEW n \in Node, ListenDisconnect(n), UNCHANGED reqVars PROVE NodeInv'
  BY <1>23 DEF IInv, TypeInv, ConnType, NodeInv, NodeOK, Exists, ListenDisconnect
<1>24. ASSUME NEW n \in Node, ListenLeave(n), UNCHANGED reqVars PROVE NodeInv'
  BY <1>24 DEF IInv, TypeInv, ConnType, NodeInv, NodeOK, Exists, ListenLeave
<1>25. ASSUME NEW n \in Node, ListenStamp(n) PROVE NodeInv'
  BY <1>25 DEF IInv, TypeInv, ConnType, NodeInv, NodeOK, Exists, ListenStamp, ListenStamped
<1>26. ASSUME NEW n \in Node, Serve(n), UNCHANGED reqVars PROVE NodeInv'
  BY <1>26 DEF IInv, TypeInv, ConnType, NodeInv, NodeOK, Exists, Serve
<1>27. ASSUME NEW n \in Node, ServeEnd(n), UNCHANGED reqVars PROVE NodeInv'
  BY <1>27 DEF IInv, TypeInv, ConnType, NodeInv, NodeOK, Exists, ServeEnd
<1>28. ASSUME NEW n \in Node, Break(n), UNCHANGED reqVars PROVE NodeInv'
  BY <1>28 DEF IInv, TypeInv, ConnType, NodeInv, NodeOK, Exists, Break
<1>29. ASSUME UNCHANGED vars PROVE NodeInv'
  BY <1>29 DEF IInv, TypeInv, ConnType, NodeInv, NodeOK, Exists, vars
<1> QED
  BY <1>1, <1>2, <1>3, <1>4, <1>5, <1>6, <1>7, <1>8, <1>9, <1>10, <1>11, <1>12, <1>13, <1>14,
     <1>15, <1>16, <1>17, <1>18, <1>19, <1>20, <1>21, <1>22, <1>23, <1>24, <1>25, <1>26,
     <1>27, <1>28, <1>29, StepCases

\* No step gives a descriptor to two open sockets, and while no connection
\* has failed none is closed that the main thread still writes to.
LEMMA FilesInvStep ==
  ASSUME IInv, [Next]_vars
  PROVE  FilesInv'
<1> USE DEF list, node, files, wire, main, poolVars, reqVars
<1>1. ASSUME OpenFirst, UNCHANGED reqVars PROVE FilesInv'
  <2>1. AddNode(si, FALSE) /\ si \in Server
    BY <1>1 DEF OpenFirst, IInv, TypeInv, MainType
  <2> QED
    BY <2>1, FilesAdded DEF IInv, TypeInv
<1>2. ASSUME OpenFirstFails, UNCHANGED reqVars PROVE FilesInv'
  BY <1>2 DEF IInv, TypeInv, ConnType, FilesInv, Holds, OpenFirstFails
<1>3. ASSUME SpawnListeners, UNCHANGED reqVars PROVE FilesInv'
  BY <1>3 DEF IInv, TypeInv, ConnType, FilesInv, Holds, SpawnListeners
<1>4. ASSUME ExitNode(FALSE), UNCHANGED reqVars PROVE FilesInv'
  BY <1>4 DEF IInv, TypeInv, ConnType, FilesInv, Holds, ExitNode
<1>5. ASSUME ExitWrite, UNCHANGED reqVars PROVE FilesInv'
  <2>1. /\ mpc = "exitWrite" /\ UNCHANGED breaks
        /\ \/ WriteSent(<<si, xi>>, 0)
           \/ UNCHANGED wire
    BY <1>5 DEF ExitWrite, WriteLost, WriteKills
  <2>2. CASE UNCHANGED wire
    BY <2>1, <2>2 DEF IInv, FilesInv, Holds
  <2>3. CASE WriteSent(<<si, xi>>, 0)
    <3>1. PICK n \in Node : n = <<si, xi>>
      BY <2>1, ExitingNode DEF IInv
    <3>2. Exists(n) /\ ~ExitSent(n) /\ n[1] = si /\ n[2] = xi
      BY <2>1, <3>1, ExitingNode DEF IInv
    <3>3. breaks = 0 => sock[n] = "open"
      BY <3>2, OpenUntilExit DEF IInv
    <3> QED
      BY <2>1, <2>3, <3>1, <3>3, FilesWritten DEF IInv, TypeInv
  <2> QED
    BY <2>1, <2>2, <2>3
<1>6. ASSUME ExitAllSent, UNCHANGED reqVars PROVE FilesInv'
  BY <1>6 DEF IInv, TypeInv, ConnType, FilesInv, Holds, ExitAllSent
<1>7. ASSUME WaitNode, UNCHANGED reqVars PROVE FilesInv'
  BY <1>7 DEF IInv, TypeInv, ConnType, FilesInv, Holds, WaitNode
<1>8. ASSUME WaitAllDone, UNCHANGED reqVars PROVE FilesInv'
  BY <1>8 DEF IInv, TypeInv, ConnType, FilesInv, Holds, WaitAllDone
<1>9. ASSUME BeginSearch PROVE FilesInv'
  BY <1>9 DEF IInv, TypeInv, ConnType, FilesInv, Holds, BeginSearch
<1>10. ASSUME SearchNode PROVE FilesInv'
  BY <1>10 DEF IInv, TypeInv, ConnType, FilesInv, Holds, SearchNode
<1>11. ASSUME SearchMisses PROVE FilesInv'
  BY <1>11 DEF IInv, TypeInv, ConnType, FilesInv, Holds, SearchMisses
<1>12. ASSUME Grow PROVE FilesInv'
  <2>1. AddNode(ReqServer[cur], TRUE) /\ mpc = "grow"
    BY <1>12 DEF Grow
  <2>2. ReqServer[cur] \in Server
    BY <2>1, CurrentRequest DEF IInv, Serving
  <2> QED
    BY <2>1, <2>2, FilesAdded DEF IInv, TypeInv
<1>13. ASSUME GiveUp PROVE FilesInv'
  <2>1. /\ leaked' = leaked \cup {LowestFree}
        /\ UNCHANGED <<sock, sockfd, astray, breaks>>
    BY <1>13 DEF GiveUp, ConnectRefused
  <2>2. LowestFree \notin InUse
    BY LowestFreeIsFree DEF IInv, TypeInv
  <2>3. \A n \in Node : sock[n] = "open" => sockfd[n] # LowestFree
    BY <2>2 DEF InUse
  <2> QED
    BY <2>1, <2>3 DEF IInv, FilesInv, Holds
<1>14. ASSUME MarkBusy PROVE FilesInv'
  BY <1>14 DEF IInv, TypeInv, ConnType, FilesInv, Holds, MarkBusy
<1>15. ASSUME TakeAvailable PROVE FilesInv'
  BY <1>15 DEF IInv, TypeInv, ConnType, FilesInv, Holds, TakeAvailable
<1>16. ASSUME WriteRequest PROVE FilesInv'
  <2>1. /\ mpc = "write" /\ UNCHANGED breaks
        /\ \/ WriteSent(conn, cur)
           \/ UNCHANGED wire
    BY <1>16 DEF WriteRequest, WriteLost, WriteKills
  <2>2. CASE UNCHANGED wire
    BY <2>1, <2>2 DEF IInv, FilesInv, Holds
  <2>3. CASE WriteSent(conn, cur)
    <3>1. conn \in Node /\ Exists(conn) /\ cur \in Nat
      BY <2>1, CurrentRequest DEF IInv, MainInv, HasConn, Serving
    <3>2. ~ExitSent(conn)
      BY <2>1 DEF ExitSent
    <3>3. breaks = 0 => sock[conn] = "open"
      BY <3>1, <3>2, OpenUntilExit DEF IInv
    <3> QED
      BY <2>1, <2>3, <3>1, <3>3, FilesWritten DEF IInv, TypeInv
  <2> QED
    BY <2>1, <2>2, <2>3
<1>17. ASSUME RequestsDone PROVE FilesInv'
  BY <1>17 DEF IInv, TypeInv, ConnType, FilesInv, Holds, RequestsDone
<1>18. ASSUME NEW n \in Node, ListenRead(n), UNCHANGED reqVars PROVE FilesInv'
  BY <1>18 DEF IInv, TypeInv, ConnType, FilesInv, Holds, ListenRead
<1>19. ASSUME NEW n \in Node, ListenFail(n), UNCHANGED reqVars PROVE FilesInv'
  BY <1>19 DEF IInv, TypeInv, ConnType, FilesInv, Holds, ListenFail
<1>20. ASSUME NEW n \in Node, ListenUnbusy(n), UNCHANGED reqVars PROVE FilesInv'
  BY <1>20 DEF IInv, TypeInv, ConnType, FilesInv, Holds, ListenUnbusy
<1>21. ASSUME NEW n \in Node, ListenAccount(n), UNCHANGED reqVars PROVE FilesInv'
  BY <1>21 DEF IInv, TypeInv, ConnType, FilesInv, Holds, ListenAccount
<1>22. ASSUME NEW n \in Node, ListenClose(n), UNCHANGED reqVars PROVE FilesInv'
  BY <1>22 DEF IInv, TypeInv, ConnType, FilesInv, Holds, ListenClose
<1>23. ASSUME NEW n \in Node, ListenDisconnect(n), UNCHANGED reqVars PROVE FilesInv'
  BY <1>23 DEF IInv, TypeInv, ConnType, FilesInv, Holds, ListenDisconnect
<1>24. ASSUME NEW n \in Node, ListenLeave(n), UNCHANGED reqVars PROVE FilesInv'
  BY <1>24 DEF IInv, TypeInv, ConnType, FilesInv, Holds, ListenLeave
<1>25. ASSUME NEW n \in Node, ListenStamp(n) PROVE FilesInv'
  BY <1>25 DEF IInv, TypeInv, ConnType, FilesInv, Holds, ListenStamp, ListenStamped
<1>26. ASSUME NEW n \in Node, Serve(n), UNCHANGED reqVars PROVE FilesInv'
  BY <1>26 DEF IInv, TypeInv, ConnType, FilesInv, Holds, Serve
<1>27. ASSUME NEW n \in Node, ServeEnd(n), UNCHANGED reqVars PROVE FilesInv'
  BY <1>27 DEF IInv, TypeInv, ConnType, FilesInv, Holds, ServeEnd
<1>28. ASSUME NEW n \in Node, Break(n), UNCHANGED reqVars PROVE FilesInv'
  BY <1>28 DEF IInv, TypeInv, ConnType, FilesInv, Holds, Break
<1>29. ASSUME UNCHANGED vars PROVE FilesInv'
  BY <1>29 DEF IInv, TypeInv, ConnType, FilesInv, Holds, vars
<1> QED
  BY <1>1, <1>2, <1>3, <1>4, <1>5, <1>6, <1>7, <1>8, <1>9, <1>10, <1>11, <1>12, <1>13, <1>14,
     <1>15, <1>16, <1>17, <1>18, <1>19, <1>20, <1>21, <1>22, <1>23, <1>24, <1>25, <1>26,
     <1>27, <1>28, <1>29, StepCases

\* Where the main thread is.
LEMMA MainNumbers ==
  ASSUME TypeInv
  PROVE  /\ si \in Nat /\ si <= NServer /\ xi \in Nat /\ xi >= 1
         /\ \A s \in Server : s \in Nat /\ s >= 1 /\ s <= NServer /\ len[s] \in Nat
<1>1. si \in Server /\ xi \in Nat /\ xi >= 1
  BY PoolAssumption DEF TypeInv, MainType
<1>2. \A s \in Server : s \in Nat /\ s >= 1 /\ s <= NServer
  BY NodeParts
<1>3. \A s \in Server : len[s] \in Nat
  BY NodeNumbers DEF TypeInv
<1> QED
  BY <1>1, <1>2, <1>3

-----------------------------------------------------------------------------
(* Quiet steps: those that leave the flows, the requests and the counts as *)
(* they are, and let main and the listeners only pass from one place where *)
(* they use no connection to another.                                      *)

\* Those of main, and those of a listener or of a server's thread.
QuietMain ==
    \/ /\ OpenFirstFails \/ SpawnListeners \/ ExitAllSent \/ WaitNode \/ WaitAllDone
       /\ UNCHANGED reqVars
    \/ SearchMisses \/ GiveUp \/ RequestsDone

QuietThread(n) ==
    /\ ListenClose(n) \/ ListenDisconnect(n) \/ Serve(n) \/ ServeEnd(n)
    /\ UNCHANGED reqVars

Quiet == QuietMain \/ (\E n \in Node : QuietThread(n)) \/ UNCHANGED vars

\* A step is quiet, or one of the others.
LEMMA StepKinds ==
  ASSUME [Next]_vars
  PROVE  \/ Quiet
         \/ OpenFirst /\ UNCHANGED reqVars
         \/ ExitNode(FALSE) /\ UNCHANGED reqVars
         \/ ExitWrite /\ UNCHANGED reqVars
         \/ BeginSearch
         \/ SearchNode
         \/ Grow
         \/ MarkBusy
         \/ TakeAvailable
         \/ WriteRequest
         \/ \E n \in Node : ListenRead(n) /\ UNCHANGED reqVars
         \/ \E n \in Node : ListenFail(n) /\ UNCHANGED reqVars
         \/ \E n \in Node : ListenUnbusy(n) /\ UNCHANGED reqVars
         \/ \E n \in Node : ListenAccount(n) /\ UNCHANGED reqVars
         \/ \E n \in Node : ListenLeave(n) /\ UNCHANGED reqVars
         \/ \E n \in Node : ListenStamp(n)
         \/ \E n \in Node : Break(n) /\ UNCHANGED reqVars
         \/ UNCHANGED vars
BY StepCases DEF Quiet, QuietMain, QuietThread

\* The place in the requests is a number.
LEMMA RequestNumbers ==
  ASSUME MainType
  PROVE  cur \in Nat /\ cur + 1 \in Nat /\ cur <= cur + 1 /\ cur <= cur
<1>1. cur \in Nat
  BY RequestAssumption DEF MainType
<1> QED
  BY <1>1

\* What a quiet step of main does.
LEMMA QuietMainSteps ==
  ASSUME IInv, QuietMain
  PROVE  /\ UNCHANGED <<list, busy, connected, got, up, toServer, toClient, astray, breaks,
                        conn, started, stopped>>
         /\ cur <= cur' /\ mpc \notin HasConn /\ mpc' \notin HasConn \cup {"search"}
         /\ \A n \in Node : \/ lpc'[n] = lpc[n]
                            \/ lpc[n] = "none" /\ lpc'[n] = "read"
         /\ RunPhase' => RunPhase
         /\ \A n \in Node : ExitSent(n) => ExitSent(n)'
         /\ \A s \in Server : Exited(s)' = Exited(s)
<1> USE DEF list, node, files, wire, main, poolVars, reqVars
<1>1. /\ UNCHANGED <<list, busy, connected, got, up, toServer, toClient, astray, breaks,
                     conn, started, stopped>>
      /\ mpc \notin HasConn /\ mpc' \notin HasConn \cup {"search"}
      /\ RunPhase' => RunPhase
  BY DEF QuietMain, OpenFirstFails, SpawnListeners, ExitAllSent, WaitNode, WaitAllDone,
     SearchMisses, GiveUp, ConnectRefused, RequestsDone, HasConn, RunPhase
<1>2. cur <= cur'
  <2>1. cur' = cur \/ cur' = cur + 1
    BY DEF QuietMain, OpenFirstFails, SpawnListeners, ExitAllSent, WaitNode, WaitAllDone,
       SearchMisses, GiveUp, ConnectRefused, RequestsDone
  <2> QED
    BY <2>1, RequestNumbers DEF IInv, TypeInv
<1>3. \A n \in Node : \/ lpc'[n] = lpc[n]
                      \/ lpc[n] = "none" /\ lpc'[n] = "read"
  <2>1. CASE SpawnListeners
    BY <2>1 DEF SpawnListeners, IInv, NodeInv, NodeOK
  <2>2. CASE ~SpawnListeners
    BY <2>2 DEF QuietMain, OpenFirstFails, ExitAllSent, WaitNode, WaitAllDone,
       SearchMisses, GiveUp, ConnectRefused, RequestsDone
  <2> QED
    BY <2>1, <2>2
<1>4. /\ \A n \in Node : ExitSent(n) => ExitSent(n)'
      /\ \A s \in Server : Exited(s)' = Exited(s)
  <2> USE MainNumbers, NodeNumbers DEF IInv, TypeInv, MainInv, ExitSent, Exited
  <2>1. CASE OpenFirstFails
    BY <2>1 DEF OpenFirstFails
  <2>2. CASE SpawnListeners
    BY <2>2 DEF SpawnListeners
  <2>3. CASE ExitAllSent
    BY <2>3 DEF ExitAllSent
  <2>4. CASE WaitNode
    BY <2>4 DEF WaitNode
  <2>5. CASE WaitAllDone
    <3>1. mpc = "wait" /\ xi > len[si] /\ len' = len /\ NServer \in Nat
      BY <2>5, PoolAssumption DEF WaitAllDone
    <3>2. CASE si' = si + 1 /\ mpc' = "exit" /\ xi' = 1
      BY <3>1, <3>2
    <3>3. CASE si' = si /\ mpc' = "done" /\ ~(si < NServer)
      BY <3>1, <3>3
    <3> QED
      BY <2>5, <3>2, <3>3 DEF WaitAllDone
  <2>6. CASE SearchMisses
    BY <2>6 DEF SearchMisses
  <2>7. CASE GiveUp
    BY <2>7 DEF GiveUp, ConnectRefused
  <2>8. CASE RequestsDone
    BY <2>8 DEF RequestsDone
  <2> QED
    BY <2>1, <2>2, <2>3, <2>4, <2>5, <2>6, <2>7, <2>8 DEF QuietMain
<1> QED
  BY <1>1, <1>2, <1>3, <1>4

\* A quiet step moves no flow.
LEMMA QuietFlows ==
  ASSUME IInv, Quiet
  PROVE  \A n \in Node : Transit(n)' = Transit(n)
<1>1. CASE QuietMain
  BY <1>1, QuietMainSteps, TransitSame
<1>2. CASE \E n \in Node : QuietThread(n)
  <2>1. PICK n \in Node : QuietThread(n)
    BY <1>2
  <2>2. CASE Serve(n)
    BY <2>2, TransitServe DEF IInv, TypeInv
  <2>3. CASE ~Serve(n)
    <3>1. UNCHANGED <<toServer, toClient>>
      BY <2>1, <2>3 DEF QuietThread, ListenClose, ListenDisconnect, ServeEnd, wire
    <3> QED
      BY <3>1, TransitSame
  <2> QED
    BY <2>2, <2>3
<1>3. CASE UNCHANGED vars
  BY <1>3, TransitSame DEF vars, poolVars, wire
<1> QED
  BY <1>1, <1>2, <1>3 DEF Quiet

\* A quiet step takes a listener only into its loop, or further once it has
\* left it.
LEMMA QuietListeners ==
  ASSUME IInv, Quiet
  PROVE  \A n \in Node :
            /\ got'[n] = got[n]
            /\ \/ lpc'[n] = lpc[n]
               \/ lpc[n] = "none" /\ lpc'[n] = "read"
               \/ lpc[n] \in {"close", "disconnect"} /\ lpc'[n] \in {"disconnect", "leave"}
            /\ ~up[n] /\ toClient[n] = <<>> => ~up'[n] /\ toClient'[n] = <<>>
<1> USE DEF list, node, files, wire, main, poolVars, reqVars
<1>1. CASE QuietMain
  BY <1>1, QuietMainSteps
<1>2. CASE \E n \in Node : QuietThread(n)
  BY <1>2, SMTT(30) DEF QuietThread, ListenClose, ListenDisconnect, Serve, ServeEnd, IInv,
     TypeInv, ConnType
<1>3. CASE UNCHANGED vars
  BY <1>3 DEF vars
<1> QED
  BY <1>1, <1>2, <1>3 DEF Quiet

\* Nor does it change what main and the counts depend on.
LEMMA QuietRest ==
  ASSUME IInv, Quiet
  PROVE  /\ UNCHANGED <<list, busy, astray, breaks, started, stopped>>
         /\ cur <= cur' /\ (mpc' \in HasConn \cup {"search"} => UNCHANGED <<mpc, cur, conn>>)
         /\ mpc \in HasConn => mpc' = mpc
         /\ RunPhase' => RunPhase
         /\ \A n \in Node : ExitSent(n) => ExitSent(n)'
         /\ \A s \in Server : Exited(s)' = Exited(s)
<1> USE DEF list, node, files, wire, main, poolVars, reqVars
<1>1. CASE QuietMain
  BY <1>1, QuietMainSteps
<1>2. ASSUME UNCHANGED <<list, busy, main, astray, breaks, reqVars>>
      PROVE  /\ UNCHANGED <<list, busy, astray, breaks, started, stopped, mpc, cur, conn>>
             /\ cur <= cur'
             /\ RunPhase' => RunPhase
             /\ \A n \in Node : ExitSent(n) => ExitSent(n)'
             /\ \A s \in Server : Exited(s)' = Exited(s)
  BY <1>2, RequestNumbers DEF RunPhase, ExitSent, Exited, IInv, TypeInv
<1>3. CASE \E n \in Node : QuietThread(n)
  <2>1. UNCHANGED <<list, busy, main, astray, breaks, reqVars>>
    BY <1>3 DEF QuietThread, ListenClose, ListenDisconnect, Serve, ServeEnd
  <2> QED
    BY <1>2, <2>1
<1>4. CASE UNCHANGED vars
  BY <1>2, <1>4 DEF vars
<1> QED
  BY <1>1, <1>3, <1>4 DEF Quiet

\* A step that moves no flow leaves them where they are.
LEMMA FlowInvStays ==
  ASSUME TypeInv, TypeInv', FlowInv, UNCHANGED <<breaks, stopped>>,
         \A n \in Node : \A i \in Nat : \A r \in Nat \ {0} : At(n, i, r)' <=> At(n, i, r),
         started \subseteq started', cur <= cur',
         \A r \in started' : \/ r = cur' /\ mpc' \in {"take", "write"}
                             \/ r \in started /\ ~(r = cur /\ mpc \in {"take", "write"})
                             \/ breaks > 0
  PROVE  FlowInv'
<1>2. started' \subseteq Nat \ {0} /\ cur \in Nat /\ cur' \in Nat /\ breaks \in Nat
  BY PoolAssumption, RequestAssumption DEF TypeInv, MainType, ConnType
<1>3. ASSUME NEW m \in Node, NEW n \in Node, NEW i \in Nat, NEW j \in Nat, NEW r \in Nat \ {0},
             At(m, i, r)', At(n, j, r)'
      PROVE  m = n /\ i = j
  <2>1. At(m, i, r) /\ At(n, j, r)
    BY <1>3
  <2> QED
    BY <2>1 DEF FlowInv
<1>4. \A n \in Node : \A i \in Nat : \A r \in Nat \ {0} :
         At(n, i, r)' => r \in started' \ stopped' /\ r < cur'
  BY <1>2 DEF FlowInv
<1>5. ASSUME breaks' = 0, NEW r \in started' \ stopped', ~(r = cur' /\ mpc' \in {"take", "write"})
      PROVE  \E n \in Node : \E i \in Nat : At(n, i, r)'
  <2>1. r \in started \ stopped /\ ~(r = cur /\ mpc \in {"take", "write"}) /\ breaks = 0
    BY <1>2, <1>5
  <2>2. PICK n \in Node, i \in Nat : At(n, i, r)
    BY <2>1 DEF FlowInv
  <2> QED
    BY <1>2, <2>2
<1> QED
  BY <1>3, <1>4, <1>5 DEF FlowInv

\* No step duplicates a flow, and none loses one while no connection fails.
LEMMA FlowInvStep ==
  ASSUME IInv, [Next]_vars
  PROVE  FlowInv'
<1> USE DEF list, node, files, wire, main, poolVars, reqVars
<1>0. TypeInv' /\ cur \in Nat /\ started \subseteq Nat
  BY TypeInvStep, RequestAssumption DEF IInv, TypeInv, MainType
<1>1. CASE Quiet
  <2>1. \A m \in Node : /\ Transit(m)' = Transit(m)
                        /\ got'[m] = got[m]
                        /\ got[m] # 0 => (Pending(m)' <=> Pending(m))
    BY <1>1, QuietFlows, QuietListeners DEF Pending
  <2>2. /\ UNCHANGED <<breaks, started, stopped>> /\ cur <= cur'
        /\ \A r \in started : \/ r = cur' /\ mpc' \in {"take", "write"}
                              \/ r \in started /\ ~(r = cur /\ mpc \in {"take", "write"})
    BY <1>0, <1>1, QuietRest DEF HasConn
  <2> QED
    BY <1>0, <2>1, <2>2, AtSame, FlowInvStays DEF IInv
<1>2. ASSUME OpenFirst, UNCHANGED reqVars PROVE FlowInv'
  <2>1. AddNode(si, FALSE) /\ si \in Server
    BY <1>2 DEF OpenFirst, IInv, TypeInv, MainType
  <2>2. \A m \in Node : /\ Transit(m)' = Transit(m)
                        /\ got'[m] = got[m]
                        /\ got[m] # 0 => (Pending(m)' <=> Pending(m))
    BY <2>1, FlowsAdded DEF IInv, TypeInv, NodeInv, NodeOK
  <2>3. /\ started \subseteq started' /\ cur <= cur' /\ UNCHANGED stopped
        /\ \A r \in started' : \/ r = cur' /\ mpc' \in {"take", "write"}
                               \/ r \in started /\ ~(r = cur /\ mpc \in {"take", "write"})
    BY <1>0, <1>2 DEF IInv, MainInv, OpenFirst
  <2>4. UNCHANGED breaks
    BY <2>1, FlowsAdded DEF IInv, TypeInv, NodeInv, NodeOK
  <2> QED
    BY <1>0, <2>1, <2>2, <2>3, <2>4, AtSame, FlowInvStays DEF IInv
<1>3. ASSUME ExitNode(FALSE), UNCHANGED reqVars PROVE FlowInv'
  <2>1. \A m \in Node : Transit(m)' = Transit(m)
    BY <1>3, TransitSame DEF ExitNode
  <2>2. \A m \in Node : /\ got'[m] = got[m]
                        /\ got[m] # 0 => (Pending(m)' <=> Pending(m))
    BY <1>3 DEF IInv, TypeInv, ConnType, Pending, ExitNode
  <2>3. /\ started \subseteq started' /\ cur <= cur' /\ UNCHANGED <<breaks, stopped>>
        /\ \A r \in started' : \/ r = cur' /\ mpc' \in {"take", "write"}
                               \/ r \in started /\ ~(r = cur /\ mpc \in {"take", "write"})
    BY <1>0, <1>3 DEF IInv, MainInv, ExitNode
  <2> QED
    BY <1>0, <2>1, <2>2, <2>3, AtSame, FlowInvStays DEF IInv
<1>4. ASSUME ExitWrite, UNCHANGED reqVars PROVE FlowInv'
  <2>1. /\ mpc = "exitWrite" /\ mpc' \notin {"take", "write"} /\ UNCHANGED <<node, breaks>>
        /\ WriteSent(<<si, xi>>, 0) \/ UNCHANGED wire
    BY <1>4 DEF ExitWrite, WriteLost, WriteKills
  <2>2. \A m \in Node : \A i \in Nat : \A r \in Nat \ {0} : At(m, i, r)' <=> At(m, i, r)
    <3>1. CASE UNCHANGED wire
      BY <2>1, <3>1, TransitSame, AtSame DEF Pending
    <3>2. CASE WriteSent(<<si, xi>>, 0)
      <4>1. <<si, xi>> \in Node
        BY <2>1, ExitingNode DEF IInv
      <4>2. PICK m \in Node : toServer' = [toServer EXCEPT ![m] = Append(@, 0)]
        BY <3>2, <4>1, WriteSentEffect DEF IInv, TypeInv
      <4>3. toClient' = toClient
        BY <3>2 DEF WriteSent
      <4> QED
        BY <2>1, <4>2, <4>3, AtSend DEF IInv, TypeInv
    <3> QED
      BY <2>1, <3>1, <3>2
  <2>3. \A r \in started' : r \in started /\ ~(r = cur /\ mpc \in {"take", "write"})
    BY <1>4, <2>1
  <2> QED
    BY <1>0, <1>4, <2>1, <2>2, <2>3, FlowInvStays DEF IInv
<1>5. ASSUME BeginSearch PROVE FlowInv'
  <2>1. \A m \in Node : Transit(m)' = Transit(m)
    BY <1>5, TransitSame DEF BeginSearch
  <2>2. \A m \in Node : /\ got'[m] = got[m]
                        /\ got[m] # 0 => (Pending(m)' <=> Pending(m))
    BY <1>5 DEF IInv, TypeInv, ConnType, Pending, BeginSearch
  <2>3. /\ started \subseteq started' /\ cur <= cur' /\ UNCHANGED <<breaks, stopped>>
        /\ \A r \in started' : \/ r = cur' /\ mpc' \in {"take", "write"}
                               \/ r \in started /\ ~(r = cur /\ mpc \in {"take", "write"})
    BY <1>0, <1>5 DEF IInv, MainInv, BeginSearch
  <2> QED
    BY <1>0, <2>1, <2>2, <2>3, AtSame, FlowInvStays DEF IInv
<1>6. ASSUME SearchNode PROVE FlowInv'
  <2>1. \A m \in Node : Transit(m)' = Transit(m)
    BY <1>6, TransitSame DEF SearchNode
  <2>2. \A m \in Node : /\ got'[m] = got[m]
                        /\ got[m] # 0 => (Pending(m)' <=> Pending(m))
    BY <1>6 DEF IInv, TypeInv, ConnType, Pending, SearchNode
  <2>3. /\ started \subseteq started' /\ cur <= cur' /\ UNCHANGED <<breaks, stopped>>
        /\ \A r \in started' : \/ r = cur' /\ mpc' \in {"take", "write"}
                               \/ r \in started /\ ~(r = cur /\ mpc \in {"take", "write"})
    BY <1>0, <1>6 DEF IInv, MainInv, SearchNode
  <2> QED
    BY <1>0, <2>1, <2>2, <2>3, AtSame, FlowInvStays DEF IInv
<1>7. ASSUME Grow PROVE FlowInv'
  <2>1. AddNode(ReqServer[cur], TRUE) /\ ReqServer[cur] \in Server
    BY <1>7, CurrentRequest DEF Grow, IInv, Serving
  <2>2. \A m \in Node : /\ Transit(m)' = Transit(m)
                        /\ got'[m] = got[m]
                        /\ got[m] # 0 => (Pending(m)' <=> Pending(m))
    BY <2>1, FlowsAdded DEF IInv, TypeInv, NodeInv, NodeOK
  <2>3. /\ started \subseteq started' /\ cur <= cur' /\ UNCHANGED stopped
        /\ \A r \in started' : \/ r = cur' /\ mpc' \in {"take", "write"}
                               \/ r \in started /\ ~(r = cur /\ mpc \in {"take", "write"})
    BY <1>0, <1>7 DEF IInv, MainInv, Grow
  <2>4. UNCHANGED breaks
    BY <2>1, FlowsAdded DEF IInv, TypeInv, NodeInv, NodeOK
  <2> QED
    BY <1>0, <2>1, <2>2, <2>3, <2>4, AtSame, FlowInvStays DEF IInv
<1>8. ASSUME MarkBusy PROVE FlowInv'
  <2>1. \A m \in Node : Transit(m)' = Transit(m)
    BY <1>8, TransitSame DEF MarkBusy
  <2>2. \A m \in Node : /\ got'[m] = got[m]
                        /\ got[m] # 0 => (Pending(m)' <=> Pending(m))
    BY <1>8 DEF IInv, TypeInv, ConnType, Pending, MarkBusy
  <2>3. /\ started \subseteq started' /\ cur <= cur' /\ UNCHANGED <<breaks, stopped>>
        /\ \A r \in started' : \/ r = cur' /\ mpc' \in {"take", "write"}
                               \/ r \in started /\ ~(r = cur /\ mpc \in {"take", "write"})
    BY <1>0, <1>8 DEF IInv, MainInv, MarkBusy
  <2> QED
    BY <1>0, <2>1, <2>2, <2>3, AtSame, FlowInvStays DEF IInv
<1>9. ASSUME TakeAvailable PROVE FlowInv'
  <2>1. \A m \in Node : Transit(m)' = Transit(m)
    BY <1>9, TransitSame DEF TakeAvailable
  <2>2. \A m \in Node : /\ got'[m] = got[m]
                        /\ got[m] # 0 => (Pending(m)' <=> Pending(m))
    BY <1>9 DEF IInv, TypeInv, ConnType, Pending, TakeAvailable
  <2>3. /\ started \subseteq started' /\ cur <= cur' /\ UNCHANGED <<breaks, stopped>>
        /\ \A r \in started' : \/ r = cur' /\ mpc' \in {"take", "write"}
                               \/ r \in started /\ ~(r = cur /\ mpc \in {"take", "write"})
    BY <1>0, <1>9 DEF IInv, MainInv, TakeAvailable
  <2> QED
    BY <1>0, <2>1, <2>2, <2>3, AtSame, FlowInvStays DEF IInv
<1>10. ASSUME WriteRequest PROVE FlowInv'
  <2>1. /\ mpc = "write" /\ UNCHANGED <<node, breaks, started, stopped>>
        /\ \/ WriteSent(conn, cur) /\ cur' = cur + 1 /\ mpc' = "request"
           \/ UNCHANGED wire /\ ~Connects(conn) /\ cur' \in {cur, cur + 1} /\ mpc' \notin {"take", "write"}
    BY <1>10 DEF WriteRequest, WriteLost, WriteKills
  <2>2. /\ cur \in Nat \ {0} /\ cur \in started \ stopped
        /\ \A r \in started : r \in Nat /\ r <= cur
    BY <1>0, <2>1, CurrentRequest DEF IInv, MainInv, Serving
  <2>3. CASE UNCHANGED wire /\ ~Connects(conn)
    <3>1. \A m \in Node : \A i \in Nat : \A r \in Nat \ {0} : At(m, i, r)' <=> At(m, i, r)
      BY <2>1, <2>3, TransitSame, AtSame DEF Pending
    <3>2. breaks > 0
      BY <2>1, <2>3, WriteConnects DEF IInv
    <3> QED
      BY <1>0, <2>1, <2>2, <3>1, <3>2, FlowInvStays DEF IInv
  <2>4. CASE WriteSent(conn, cur) /\ cur' = cur + 1 /\ mpc' = "request"
    <3>1. conn \in Node
      BY <2>1 DEF IInv, MainInv, HasConn
    <3>2. PICK m \in Node : toServer' = [toServer EXCEPT ![m] = Append(@, cur)]
      BY <2>2, <2>4, <3>1, WriteSentEffect DEF IInv, TypeInv
    <3>3. toClient' = toClient
      BY <2>4 DEF WriteSent
    <3>4. PICK k \in Nat : k = Len(Transit(m)) + 1
      BY TransitType DEF IInv, TypeInv
    <3>5. \A n \in Node : \A i \in Nat : \A r \in Nat :
             At(n, i, r)' <=> At(n, i, r) \/ (n = m /\ i = k /\ r = cur)
      <4>1. UNCHANGED <<lpc, got>> /\ ConnType /\ cur \in Nat
        BY <2>1, <2>2 DEF IInv, TypeInv
      <4>2. \A n \in Node : \A i \in Nat : \A r \in Nat :
               At(n, i, r)' <=> \/ At(n, i, r)
                                \/ n = m /\ i = Len(Transit(m)) + 1 /\ r = cur
        BY <3>2, <3>3, <4>1, AtSend
      <4> QED
        BY <3>4, <4>2
    <3>6. \A n \in Node : \A i \in Nat : ~At(n, i, cur)
      BY <2>2 DEF IInv, FlowInv
    <3>7. ASSUME NEW a \in Node, NEW b \in Node, NEW i \in Nat, NEW j \in Nat, NEW r \in Nat \ {0},
                 At(a, i, r)', At(b, j, r)'
          PROVE  a = b /\ i = j
      <4>1. /\ At(a, i, r) \/ (a = m /\ i = k /\ r = cur)
            /\ At(b, j, r) \/ (b = m /\ j = k /\ r = cur)
        BY <3>5, <3>7
      <4> QED
        BY <3>6, <4>1 DEF IInv, FlowInv
    <3>8. ASSUME NEW n \in Node, NEW i \in Nat, NEW r \in Nat \ {0}, At(n, i, r)'
          PROVE  r \in started' \ stopped' /\ r < cur'
      <4>1. At(n, i, r) \/ r = cur
        BY <3>5, <3>8
      <4>2. CASE At(n, i, r)
        BY <2>1, <2>2, <2>4, <4>2 DEF IInv, FlowInv
      <4>3. CASE r = cur
        BY <2>1, <2>2, <2>4, <4>3
      <4> QED
        BY <4>1, <4>2, <4>3
    <3>9. ASSUME breaks' = 0, NEW r \in started' \ stopped'
          PROVE  \E n \in Node : \E i \in Nat : At(n, i, r)'
      <4>1. CASE r = cur
        BY <2>2, <3>5, <4>1
      <4>2. CASE r # cur
        <5>1. PICK n \in Node, i \in Nat : At(n, i, r)
          BY <2>1, <3>9, <4>2 DEF IInv, FlowInv
        <5> QED
          BY <2>1, <2>2, <3>5, <3>9, <5>1
      <4> QED
        BY <4>1, <4>2
    <3> QED
      BY <3>7, <3>8, <3>9 DEF FlowInv
  <2> QED
    BY <2>1, <2>3, <2>4
<1>11. ASSUME NEW n \in Node, ListenRead(n), UNCHANGED reqVars PROVE FlowInv'
  <2>1. UNCHANGED <<mpc, breaks, started, stopped, cur>>
    BY <1>11 DEF ListenRead
  <2>2. /\ \A m \in Node \ {n} : \A i \in Nat : \A r \in Nat : At(m, i, r)' <=> At(m, i, r)
        /\ \A i \in Nat : \A r \in Nat : At(n, i, r)' <=> At(n, i + 1, r)
        /\ \A r \in Nat : ~At(n, 0, r)
    BY <1>11, AtRead DEF IInv, TypeInv
  <2>3. ASSUME NEW a \in Node, NEW b \in Node, NEW i \in Nat, NEW j \in Nat, NEW r \in Nat \ {0},
               At(a, i, r)', At(b, j, r)'
        PROVE  a = b /\ i = j
    <3>1. PICK p \in Nat : At(a, p, r) /\ p = IF a = n THEN i + 1 ELSE i
      BY <2>2, <2>3
    <3>2. PICK q \in Nat : At(b, q, r) /\ q = IF b = n THEN j + 1 ELSE j
      BY <2>2, <2>3
    <3>3. a = b /\ p = q
      BY <3>1, <3>2 DEF IInv, FlowInv
    <3> QED
      BY <3>1, <3>2, <3>3
  <2>4. ASSUME NEW m \in Node, NEW i \in Nat, NEW r \in Nat \ {0}, At(m, i, r)'
        PROVE  r \in started' \ stopped' /\ r < cur'
    <3>1. PICK p \in Nat : At(m, p, r)
      BY <2>2, <2>4
    <3> QED
      BY <2>1, <3>1 DEF IInv, FlowInv
  <2>5. ASSUME breaks' = 0, NEW r \in started' \ stopped', ~(r = cur' /\ mpc' \in {"take", "write"})
        PROVE  \E m \in Node : \E i \in Nat : At(m, i, r)'
    <3>1. PICK m \in Node, i \in Nat : At(m, i, r)
      BY <2>1, <2>5 DEF IInv, FlowInv
    <3>2. r \in Nat
      BY <1>0, <2>1, <2>5
    <3>3. CASE m = n
      <4>1. i # 0 /\ i - 1 \in Nat /\ (i - 1) + 1 = i
        BY <2>2, <3>1, <3>2, <3>3
      <4> QED
        BY <2>2, <3>1, <3>2, <3>3, <4>1
    <3>4. CASE m # n
      BY <2>2, <3>1, <3>2, <3>4
    <3> QED
      BY <3>3, <3>4
  <2> QED
    BY <2>3, <2>4, <2>5 DEF FlowInv
<1>12. ASSUME NEW n \in Node, ListenFail(n), UNCHANGED reqVars PROVE FlowInv'
  <2>1. \A m \in Node : Transit(m)' = Transit(m)
    BY <1>12, TransitSame DEF ListenFail
  <2>2. \A m \in Node : /\ got'[m] = got[m]
                        /\ got[m] # 0 => (Pending(m)' <=> Pending(m))
    BY <1>12 DEF IInv, TypeInv, ConnType, Pending, ListenFail
  <2>3. /\ started \subseteq started' /\ cur <= cur' /\ UNCHANGED <<breaks, stopped>>
        /\ \A r \in started' : \/ r = cur' /\ mpc' \in {"take", "write"}
                               \/ r \in started /\ ~(r = cur /\ mpc \in {"take", "write"})
    BY <1>0, <1>12 DEF IInv, MainInv, ListenFail
  <2> QED
    BY <1>0, <2>1, <2>2, <2>3, AtSame, FlowInvStays DEF IInv
<1>13. ASSUME NEW n \in Node, ListenUnbusy(n), UNCHANGED reqVars PROVE FlowInv'
  <2>1. \A m \in Node : Transit(m)' = Transit(m)
    BY <1>13, TransitSame DEF ListenUnbusy
  <2>2. \A m \in Node : /\ got'[m] = got[m]
                        /\ got[m] # 0 => (Pending(m)' <=> Pending(m))
    BY <1>13 DEF IInv, TypeInv, ConnType, Pending, ListenUnbusy
  <2>3. /\ started \subseteq started' /\ cur <= cur' /\ UNCHANGED <<breaks, stopped>>
        /\ \A r \in started' : \/ r = cur' /\ mpc' \in {"take", "write"}
                               \/ r \in started /\ ~(r = cur /\ mpc \in {"take", "write"})
    BY <1>0, <1>13 DEF IInv, MainInv, ListenUnbusy
  <2> QED
    BY <1>0, <2>1, <2>2, <2>3, AtSame, FlowInvStays DEF IInv
<1>14. ASSUME NEW n \in Node, ListenAccount(n), UNCHANGED reqVars PROVE FlowInv'
  <2>1. \A m \in Node : Transit(m)' = Transit(m)
    BY <1>14, TransitSame DEF ListenAccount
  <2>2. \A m \in Node : /\ got'[m] = got[m]
                        /\ got[m] # 0 => (Pending(m)' <=> Pending(m))
    BY <1>14 DEF IInv, TypeInv, ConnType, Pending, ListenAccount
  <2>3. /\ started \subseteq started' /\ cur <= cur' /\ UNCHANGED <<breaks, stopped>>
        /\ \A r \in started' : \/ r = cur' /\ mpc' \in {"take", "write"}
                               \/ r \in started /\ ~(r = cur /\ mpc \in {"take", "write"})
    BY <1>0, <1>14 DEF IInv, MainInv, ListenAccount
  <2> QED
    BY <1>0, <2>1, <2>2, <2>3, AtSame, FlowInvStays DEF IInv
<1>15. ASSUME NEW n \in Node, ListenLeave(n), UNCHANGED reqVars PROVE FlowInv'
  <2>1. \A m \in Node : Transit(m)' = Transit(m)
    BY <1>15, TransitSame DEF ListenLeave
  <2>2. \A m \in Node : /\ got'[m] = got[m]
                        /\ got[m] # 0 => (Pending(m)' <=> Pending(m))
    BY <1>15 DEF IInv, TypeInv, ConnType, Pending, ListenLeave
  <2>3. /\ started \subseteq started' /\ cur <= cur' /\ UNCHANGED <<breaks, stopped>>
        /\ \A r \in started' : \/ r = cur' /\ mpc' \in {"take", "write"}
                               \/ r \in started /\ ~(r = cur /\ mpc \in {"take", "write"})
    BY <1>0, <1>15 DEF IInv, MainInv, ListenLeave
  <2> QED
    BY <1>0, <2>1, <2>2, <2>3, AtSame, FlowInvStays DEF IInv
<1>16. ASSUME NEW n \in Node, ListenStamp(n) PROVE FlowInv'
  <2>1. PICK g \in Nat \ {0} : g = got[n] /\ g \in started \ stopped /\ g < cur
    BY <1>16, StampedFlow DEF IInv, ListenStamp, ListenStamped
  <2>2. /\ lpc[n] = "stamp" /\ stopped' = stopped \cup {g}
        /\ UNCHANGED <<toServer, toClient, got, mpc, breaks, started, cur>>
        /\ lpc'[n] = "read" /\ \A m \in Node \ {n} : lpc'[m] = lpc[m]
    BY <1>16, <2>1 DEF ListenStamp, ListenStamped, IInv, TypeInv, ConnType
  <2>3. \A m \in Node : Transit(m)' = Transit(m)
    BY <2>2, TransitSame
  <2>4. At(n, 0, g) /\ ~Pending(n)'
    BY <2>1, <2>2 DEF At, Pending
  <2>5. ASSUME NEW m \in Node, NEW i \in Nat, NEW r \in Nat \ {0}
        PROVE  At(m, i, r)' <=> At(m, i, r) /\ r # g
    <3>1. At(m, i, r) /\ r = g => m = n /\ i = 0
      BY <2>4 DEF IInv, FlowInv
    <3>2. CASE m = n /\ i = 0
      BY <2>1, <2>4, <3>2 DEF At
    <3>3. CASE m # n \/ i # 0
      <4>1. At(m, i, r)' <=> At(m, i, r)
        BY <2>2, <2>3, <3>3 DEF At, Places, Pending
      <4> QED
        BY <3>1, <3>3, <4>1
    <3> QED
      BY <3>2, <3>3
  <2>6. ASSUME NEW a \in Node, NEW b \in Node, NEW i \in Nat, NEW j \in Nat, NEW r \in Nat \ {0},
               At(a, i, r)', At(b, j, r)'
        PROVE  a = b /\ i = j
    <3>1. At(a, i, r) /\ At(b, j, r)
      BY <2>5, <2>6
    <3> QED
      BY <3>1 DEF IInv, FlowInv
  <2>7. ASSUME NEW m \in Node, NEW i \in Nat, NEW r \in Nat \ {0}, At(m, i, r)'
        PROVE  r \in started' \ stopped' /\ r < cur'
    <3>1. At(m, i, r) /\ r # g
      BY <2>5, <2>7
    <3> QED
      BY <2>2, <3>1 DEF IInv, FlowInv
  <2>8. ASSUME breaks' = 0, NEW r \in started' \ stopped', ~(r = cur' /\ mpc' \in {"take", "write"})
        PROVE  \E m \in Node : \E i \in Nat : At(m, i, r)'
    <3>1. r \in started \ stopped /\ r # g /\ breaks = 0 /\ ~(r = cur /\ mpc \in {"take", "write"})
      BY <2>2, <2>8
    <3>2. PICK m \in Node, i \in Nat : At(m, i, r)
      BY <3>1 DEF IInv, FlowInv
    <3>3. r \in Nat \ {0}
      BY <3>1, RequestAssumption DEF IInv, TypeInv, MainType
    <3> QED
      BY <2>5, <3>1, <3>2, <3>3
  <2> QED
    BY <2>6, <2>7, <2>8 DEF FlowInv
<1>17. ASSUME NEW n \in Node, Break(n), UNCHANGED reqVars PROVE FlowInv'
  <2>1. /\ breaks' = breaks + 1 /\ breaks \in Nat /\ UNCHANGED <<started, stopped, cur>>
    BY <1>17, PoolAssumption DEF Break, IInv, TypeInv, ConnType
  <2>2. \A m \in Node : \A i \in Nat : \A r \in Nat : At(m, i, r)' => At(m, i, r)
    BY <1>17, AtBreak DEF IInv, TypeInv
  <2>3. ASSUME NEW a \in Node, NEW b \in Node, NEW i \in Nat, NEW j \in Nat, NEW r \in Nat \ {0},
               At(a, i, r)', At(b, j, r)'
        PROVE  a = b /\ i = j
    <3>1. At(a, i, r) /\ At(b, j, r)
      BY <2>2, <2>3
    <3> QED
      BY <3>1 DEF IInv, FlowInv
  <2>4. ASSUME NEW m \in Node, NEW i \in Nat, NEW r \in Nat \ {0}, At(m, i, r)'
        PROVE  r \in started' \ stopped' /\ r < cur'
    <3>1. At(m, i, r)
      BY <2>2, <2>4
    <3> QED
      BY <2>1, <3>1 DEF IInv, FlowInv
  <2> QED
    BY <2>1, <2>3, <2>4 DEF FlowInv
<1>18. ASSUME UNCHANGED vars PROVE FlowInv'
  <2>1. \A m \in Node : Transit(m)' = Transit(m)
    BY <1>18, TransitSame DEF vars
  <2>2. \A m \in Node : /\ got'[m] = got[m]
                        /\ got[m] # 0 => (Pending(m)' <=> Pending(m))
    BY <1>18 DEF IInv, TypeInv, ConnType, Pending, vars
  <2>3. /\ started \subseteq started' /\ cur <= cur' /\ UNCHANGED <<breaks, stopped>>
        /\ \A r \in started' : \/ r = cur' /\ mpc' \in {"take", "write"}
                               \/ r \in started /\ ~(r = cur /\ mpc \in {"take", "write"})
    BY <1>0, <1>18 DEF IInv, MainInv, vars
  <2> QED
    BY <1>0, <2>1, <2>2, <2>3, AtSame, FlowInvStays DEF IInv
<1> QED
  BY <1>1, <1>2, <1>3, <1>4, <1>5, <1>6, <1>7, <1>8, <1>9, <1>10, <1>11, <1>12, <1>13, <1>14,
     <1>15, <1>16, <1>17, <1>18, StepKinds

\* A step that only takes flows away, and ends no listener, keeps them so.
LEMMA ExitInvStays ==
  ASSUME ExitInv, breaks' = 0 => breaks = 0, RunPhase' => RunPhase,
         \A n \in Node : \A i, r \in Nat : At(n, i, r)' => At(n, i, r),
         \A n \in Node :
            lpc'[n] \in Closing =>
               /\ lpc[n] \in Closing
               /\ RunPhase' /\ ~up[n] /\ toClient[n] = <<>> => ~up'[n] /\ toClient'[n] = <<>>,
         breaks' = 0 => \A n \in Node : ExitSent(n) => ExitSent(n)'
  PROVE  ExitInv'
<1>1. ASSUME RunPhase', NEW n \in Node
      PROVE  /\ \A i \in Nat : ~At(n, i, 0)'
             /\ lpc'[n] \in Closing => ~up'[n] /\ toClient'[n] = <<>>
  BY <1>1 DEF ExitInv
<1>2. ASSUME breaks' = 0, NEW n \in Node, NEW i \in Nat, At(n, i, 0)'
      PROVE  ExitSent(n)' /\ \A j, r \in Nat : j > i => ~At(n, j, r)'
  BY <1>2 DEF ExitInv
<1>3. ASSUME breaks' = 0, NEW n \in Node, lpc'[n] \in Closing
      PROVE  ExitSent(n)' /\ \A j, r \in Nat : ~At(n, j, r)'
  BY <1>3 DEF ExitInv
<1> QED
  BY <1>1, <1>2, <1>3 DEF ExitInv, Closing

\* Making a connection keeps them so.
LEMMA ExitAdded ==
  ASSUME TypeInv, NodeInv, ExitInv, NEW s \in Server, NEW b \in BOOLEAN, AddNode(s, b),
         RunPhase, mpc' \notin {"exit", "exitWrite", "wait", "done"}
  PROVE  ExitInv'
<1>0. PICK k \in Node : k = <<s, len[s] + 1>>
  BY AddNodeEffect DEF TypeInv
<1>1. /\ lpc'[k] \in {"read", "none"} /\ UNCHANGED <<breaks, toClient>>
      /\ \A n \in Node : n # k => lpc'[n] = lpc[n] /\ up'[n] = up[n]
  BY <1>0, AddNodeEffect DEF TypeInv
<1>2. \A n \in Node : \A i, r \in Nat : At(n, i, r)' => At(n, i, r)
  BY FlowsAdded, AtShrinks DEF TypeInv, NodeInv, NodeOK
<1>3. \A n \in Node :
         lpc'[n] \in Closing => lpc[n] \in Closing /\ (~up[n] => ~up'[n])
  BY <1>1 DEF Closing
<1>4. \A n \in Node : ~ExitSent(n)
  BY DEF ExitSent, RunPhase
<1> QED
  BY <1>1, <1>2, <1>3, <1>4, ExitInvStays

\* No step puts a flow behind a termination flow or ends a listener early.
LEMMA ExitInvStep ==
  ASSUME IInv, [Next]_vars
  PROVE  ExitInv'
<1> USE DEF list, node, files, wire, main, poolVars, reqVars
<1>0. /\ \A n \in Node : n[1] \in Nat /\ n[2] \in Nat /\ n[2] >= 1
      /\ si \in Nat /\ xi \in Nat /\ breaks \in Nat
  <2>1. \A n \in Node : n[1] \in Nat /\ n[2] \in Nat /\ n[2] >= 1
    BY NodeNumbers DEF IInv, TypeInv
  <2>2. si \in Nat
    BY NodeParts DEF IInv, TypeInv, MainType
  <2>3. xi \in Nat /\ breaks \in Nat
    BY PoolAssumption DEF IInv, TypeInv, MainType, ConnType
  <2> QED
    BY <2>1, <2>2, <2>3
<1>1. CASE Quiet
  <2>1. \A m \in Node : /\ Transit(m)' = Transit(m)
                        /\ got'[m] = got[m]
                        /\ Pending(m)' => Pending(m)
                        /\ lpc'[m] \in Closing => lpc[m] \in Closing
                        /\ ~up[m] /\ toClient[m] = <<>> => ~up'[m] /\ toClient'[m] = <<>>
    BY <1>1, QuietFlows, QuietListeners DEF Pending, Closing
  <2>2. /\ breaks' = breaks /\ (RunPhase' => RunPhase)
        /\ \A m \in Node : ExitSent(m) => ExitSent(m)'
    BY <1>1, QuietRest
  <2> QED
    BY <2>1, <2>2, AtShrinks, ExitInvStays DEF IInv
<1>2. ASSUME OpenFirst, UNCHANGED reqVars PROVE ExitInv'
  <2>1. /\ AddNode(si, FALSE) /\ si \in Server /\ RunPhase
        /\ mpc' \notin {"exit", "exitWrite", "wait", "done"}
    BY <1>2 DEF OpenFirst, IInv, TypeInv, MainType, RunPhase
  <2> QED
    BY <2>1, ExitAdded DEF IInv
<1>3. ASSUME ExitNode(FALSE), UNCHANGED reqVars PROVE ExitInv'
  <2>1. \A m \in Node : Transit(m)' = Transit(m)
    BY <1>3, TransitSame DEF ExitNode
  <2>2. \A m \in Node : /\ got'[m] = got[m]
                        /\ Pending(m)' => Pending(m)
    BY <1>3 DEF IInv, TypeInv, ConnType, NodeInv, NodeOK, Pending, ExitNode
  <2>3. \A m \in Node : lpc'[m] \in Closing => lpc[m] \in Closing
    BY <1>3 DEF IInv, TypeInv, ConnType, Closing, ExitNode
  <2>4. breaks' = breaks /\ (RunPhase' => RunPhase)
    BY <1>3 DEF RunPhase, ExitNode
  <2>5. \A m \in Node : ~up[m] /\ toClient[m] = <<>> => ~up'[m] /\ toClient'[m] = <<>>
    BY <1>3 DEF IInv, TypeInv, ConnType, ExitNode
  <2>6. \A m \in Node : ExitSent(m) => ExitSent(m)'
    BY <1>0, <1>3 DEF ExitSent, ExitNode
  <2> QED
    BY <2>1, <2>2, <2>3, <2>4, <2>5, <2>6, AtShrinks, ExitInvStays DEF IInv
<1>4. ASSUME ExitWrite, UNCHANGED reqVars PROVE ExitInv'
  <2>1. /\ mpc = "exitWrite" /\ UNCHANGED <<node, breaks>> /\ ~RunPhase'
        /\ \/ WriteSent(<<si, xi>>, 0) /\ mpc' = "exit" /\ si' = si /\ xi' = xi + 1
           \/ ~Connects(<<si, xi>>)
    BY <1>4 DEF ExitWrite, WriteLost, WriteKills, RunPhase
  <2> SUFFICES ASSUME breaks = 0 PROVE ExitInv'
    BY <2>1 DEF ExitInv
  <2>2. PICK n \in Node : n = <<si, xi>> /\ Exists(n) /\ ~ExitSent(n)
    BY <2>1, ExitingNode DEF IInv
  <2>3. sock[n] = "open" /\ up[n] /\ lpc[n] \notin Closing
    BY <2>2, OpenUntilExit DEF IInv, NodeInv, NodeOK
  <2>4. WriteSent(n, 0) /\ mpc' = "exit" /\ si' = si /\ xi' = xi + 1
    BY <2>1, <2>2, <2>3 DEF Connects, Holds
  <2>5. PICK k \in Nat : k = Len(Transit(n)) + 1
    BY TransitType DEF IInv, TypeInv
  <2>6. /\ \A m \in Node : \A i, r \in Nat :
              At(m, i, r)' <=> At(m, i, r) \/ (m = n /\ i = k /\ r = 0)
        /\ \A i, r \in Nat : At(n, i, r) => i < k
    BY <2>1, <2>3, <2>4, <2>5, WrittenAt DEF IInv, TypeInv
  <2>7. ExitSent(n)' /\ \A m \in Node : ExitSent(m) => ExitSent(m)'
    BY <1>0, <2>1, <2>2, <2>4 DEF ExitSent
  <2>8. ASSUME NEW m \in Node, NEW i \in Nat, At(m, i, 0)'
        PROVE  ExitSent(m)' /\ \A j, r \in Nat : j > i => ~At(m, j, r)'
    <3>1. CASE At(m, i, 0)
      <4>1. ExitSent(m) /\ m # n /\ \A j, r \in Nat : j > i => ~At(m, j, r)
        BY <2>2, <3>1 DEF IInv, ExitInv
      <4> QED
        BY <2>6, <2>7, <4>1
    <3>2. CASE m = n /\ i = k
      <4>1. ASSUME NEW j \in Nat, NEW r \in Nat, j > k PROVE ~At(n, j, r)'
        BY <2>6, <4>1
      <4> QED
        BY <2>7, <3>2, <4>1
    <3> QED
      BY <2>6, <2>8, <3>1, <3>2
  <2>9. ASSUME NEW m \in Node, lpc'[m] \in Closing
        PROVE  ExitSent(m)' /\ \A j, r \in Nat : ~At(m, j, r)'
    <3>1. m # n /\ lpc[m] \in Closing
      BY <2>1, <2>3, <2>9
    <3>2. ExitSent(m) /\ \A j, r \in Nat : ~At(m, j, r)
      BY <3>1 DEF IInv, ExitInv
    <3> QED
      BY <2>6, <2>7, <3>1, <3>2
  <2> QED
    BY <2>1, <2>8, <2>9 DEF ExitInv, Closing
<1>5. ASSUME BeginSearch PROVE ExitInv'
  <2>1. \A m \in Node : Transit(m)' = Transit(m)
    BY <1>5, TransitSame DEF BeginSearch
  <2>2. \A m \in Node : /\ got'[m] = got[m]
                        /\ Pending(m)' => Pending(m)
    BY <1>5 DEF IInv, TypeInv, ConnType, NodeInv, NodeOK, Pending, BeginSearch
  <2>3. \A m \in Node : lpc'[m] \in Closing => lpc[m] \in Closing
    BY <1>5 DEF IInv, TypeInv, ConnType, Closing, BeginSearch
  <2>4. breaks' = breaks /\ (RunPhase' => RunPhase)
    BY <1>5 DEF RunPhase, BeginSearch
  <2>5. \A m \in Node : ~up[m] /\ toClient[m] = <<>> => ~up'[m] /\ toClient'[m] = <<>>
    BY <1>5 DEF IInv, TypeInv, ConnType, BeginSearch
  <2>6. \A m \in Node : ExitSent(m) => ExitSent(m)'
    BY <1>0, <1>5 DEF ExitSent, BeginSearch
  <2> QED
    BY <2>1, <2>2, <2>3, <2>4, <2>5, <2>6, AtShrinks, ExitInvStays DEF IInv
<1>6. ASSUME SearchNode PROVE ExitInv'
  <2>1. \A m \in Node : Transit(m)' = Transit(m)
    BY <1>6, TransitSame DEF SearchNode
  <2>2. \A m \in Node : /\ got'[m] = got[m]
                        /\ Pending(m)' => Pending(m)
    BY <1>6 DEF IInv, TypeInv, ConnType, NodeInv, NodeOK, Pending, SearchNode
  <2>3. \A m \in Node : lpc'[m] \in Closing => lpc[m] \in Closing
    BY <1>6 DEF IInv, TypeInv, ConnType, Closing, SearchNode
  <2>4. breaks' = breaks /\ (RunPhase' => RunPhase)
    BY <1>6 DEF RunPhase, SearchNode
  <2>5. \A m \in Node : ~up[m] /\ toClient[m] = <<>> => ~up'[m] /\ toClient'[m] = <<>>
    BY <1>6 DEF IInv, TypeInv, ConnType, SearchNode
  <2>6. \A m \in Node : ExitSent(m) => ExitSent(m)'
    BY <1>0, <1>6 DEF ExitSent, SearchNode
  <2> QED
    BY <2>1, <2>2, <2>3, <2>4, <2>5, <2>6, AtShrinks, ExitInvStays DEF IInv
<1>7. ASSUME Grow PROVE ExitInv'
  <2>1. /\ AddNode(ReqServer[cur], TRUE) /\ mpc = "grow" /\ RunPhase
        /\ mpc' \notin {"exit", "exitWrite", "wait", "done"}
    BY <1>7 DEF Grow, RunPhase
  <2>2. ReqServer[cur] \in Server
    BY <2>1, CurrentRequest DEF IInv, Serving
  <2> QED
    BY <2>1, <2>2, ExitAdded DEF IInv
<1>8. ASSUME MarkBusy PROVE ExitInv'
  <2>1. \A m \in Node : Transit(m)' = Transit(m)
    BY <1>8, TransitSame DEF MarkBusy
  <2>2. \A m \in Node : /\ got'[m] = got[m]
                        /\ Pending(m)' => Pending(m)
    BY <1>8 DEF IInv, TypeInv, ConnType, NodeInv, NodeOK, Pending, MarkBusy
  <2>3. \A m \in Node : lpc'[m] \in Closing => lpc[m] \in Closing
    BY <1>8 DEF IInv, TypeInv, ConnType, Closing, MarkBusy
  <2>4. breaks' = breaks /\ (RunPhase' => RunPhase)
    BY <1>8 DEF RunPhase, MarkBusy
  <2>5. \A m \in Node : ~up[m] /\ toClient[m] = <<>> => ~up'[m] /\ toClient'[m] = <<>>
    BY <1>8 DEF IInv, TypeInv, ConnType, MarkBusy
  <2>6. \A m \in Node : ExitSent(m) => ExitSent(m)'
    BY <1>0, <1>8 DEF ExitSent, MarkBusy
  <2> QED
    BY <2>1, <2>2, <2>3, <2>4, <2>5, <2>6, AtShrinks, ExitInvStays DEF IInv
<1>9. ASSUME TakeAvailable PROVE ExitInv'
  <2>1. \A m \in Node : Transit(m)' = Transit(m)
    BY <1>9, TransitSame DEF TakeAvailable
  <2>2. \A m \in Node : /\ got'[m] = got[m]
                        /\ Pending(m)' => Pending(m)
    BY <1>9 DEF IInv, TypeInv, ConnType, NodeInv, NodeOK, Pending, TakeAvailable
  <2>3. \A m \in Node : lpc'[m] \in Closing => lpc[m] \in Closing
    BY <1>9 DEF IInv, TypeInv, ConnType, Closing, TakeAvailable
  <2>4. breaks' = breaks /\ (RunPhase' => RunPhase)
    BY <1>9 DEF RunPhase, TakeAvailable
  <2>5. \A m \in Node : ~up[m] /\ toClient[m] = <<>> => ~up'[m] /\ toClient'[m] = <<>>
    BY <1>9 DEF IInv, TypeInv, ConnType, TakeAvailable
  <2>6. \A m \in Node : ExitSent(m) => ExitSent(m)'
    BY <1>0, <1>9 DEF ExitSent, TakeAvailable
  <2> QED
    BY <2>1, <2>2, <2>3, <2>4, <2>5, <2>6, AtShrinks, ExitInvStays DEF IInv
<1>10. ASSUME WriteRequest PROVE ExitInv'
  <2>1. /\ mpc = "write" /\ UNCHANGED <<node, breaks, up, toClient>>
        /\ WriteSent(conn, cur) \/ UNCHANGED wire
    BY <1>10 DEF WriteRequest, WriteLost, WriteKills, WriteSent
  <2>2. conn \in Node /\ cur \in Nat \ {0} /\ RunPhase
    BY <2>1, CurrentRequest DEF IInv, MainInv, HasConn, Serving, RunPhase
  <2>3. \A n \in Node : \A i \in Nat : ~At(n, i, 0)'
    <3>1. \A n \in Node : \A i \in Nat : ~At(n, i, 0)
      BY <2>2 DEF IInv, ExitInv
    <3>2. CASE UNCHANGED wire
      <4>1. \A n \in Node : \A i, r \in Nat : At(n, i, r)' => At(n, i, r)
        BY <2>1, <3>2, TransitSame, AtShrinks DEF Pending
      <4> QED
        BY <3>1, <4>1
    <3>3. CASE WriteSent(conn, cur)
      <4>1. PICK m \in Node : toServer' = [toServer EXCEPT ![m] = Append(@, cur)]
        BY <2>2, <3>3, WriteSentEffect DEF IInv, TypeInv
      <4>2. UNCHANGED <<lpc, got, toClient>> /\ ConnType
        BY <2>1 DEF IInv, TypeInv
      <4>3. \A n \in Node : \A i \in Nat : At(n, i, 0)' => At(n, i, 0)
        BY <2>2, <4>1, <4>2, AtSend
      <4> QED
        BY <3>1, <4>3
    <3> QED
      BY <2>1, <3>2, <3>3
  <2>4. \A n \in Node : lpc'[n] \in Closing => ~up'[n] /\ toClient'[n] = <<>>
    BY <2>1, <2>2 DEF IInv, ExitInv
  <2>5. \A n \in Node : lpc'[n] \in Closing => breaks' # 0
    <3>1. ASSUME NEW n \in Node, lpc[n] \in Closing PROVE breaks # 0
      <4>1. ~up[n] /\ lpc[n] # "none"
        BY <2>2, <3>1 DEF IInv, ExitInv, Closing
      <4> QED
        BY <1>0, <4>1 DEF IInv, NodeInv, NodeOK
    <3> QED
      BY <2>1, <3>1
  <2> QED
    BY <2>3, <2>4, <2>5 DEF ExitInv, Closing
<1>11. ASSUME NEW n \in Node, ListenRead(n), UNCHANGED reqVars PROVE ExitInv'
  <2>1. /\ \A m \in Node \ {n} : \A i \in Nat : \A r \in Nat : At(m, i, r)' <=> At(m, i, r)
        /\ \A i \in Nat : \A r \in Nat : At(n, i, r)' <=> At(n, i + 1, r)
    BY <1>11, AtRead DEF IInv, TypeInv
  <2>2. /\ UNCHANGED <<main, up, breaks>>
        /\ lpc'[n] \notin Closing
        /\ \A m \in Node \ {n} : lpc'[m] = lpc[m] /\ toClient'[m] = toClient[m]
    BY <1>11 DEF ListenRead, IInv, TypeInv, ConnType, Closing
  <2>3. \A m \in Node : ExitSent(m)' <=> ExitSent(m)
    BY <2>2 DEF ExitSent
  <2>4. ASSUME RunPhase', NEW m \in Node
        PROVE  /\ \A i \in Nat : ~At(m, i, 0)'
               /\ lpc'[m] \in Closing => ~up'[m] /\ toClient'[m] = <<>>
    <3>1. RunPhase
      BY <2>2, <2>4 DEF RunPhase
    <3> QED
      BY <2>1, <2>2, <3>1 DEF IInv, ExitInv
  <2>5. ASSUME breaks' = 0, NEW m \in Node, NEW i \in Nat, At(m, i, 0)'
        PROVE  ExitSent(m)' /\ \A j, r \in Nat : j > i => ~At(m, j, r)'
    <3>1. CASE m = n
      <4>1. ExitSent(n) /\ \A j, r \in Nat : j > i + 1 => ~At(n, j, r)
        <5>1. At(n, i + 1, 0) /\ i + 1 \in Nat /\ breaks = 0
          BY <2>1, <2>2, <2>5, <3>1
        <5> QED
          BY <5>1 DEF IInv, ExitInv
      <4>2. ASSUME NEW j \in Nat, NEW r \in Nat, j > i PROVE ~At(n, j, r)'
        BY <2>1, <4>1, <4>2
      <4> QED
        BY <2>3, <3>1, <4>1, <4>2
    <3>2. CASE m # n
      <4>1. ExitSent(m) /\ \A j, r \in Nat : j > i => ~At(m, j, r)
        BY <2>1, <2>2, <2>5, <3>2 DEF IInv, ExitInv
      <4> QED
        BY <2>1, <2>3, <3>2, <4>1
    <3> QED
      BY <3>1, <3>2
  <2>6. ASSUME breaks' = 0, NEW m \in Node, lpc'[m] \in Closing
        PROVE  ExitSent(m)' /\ \A j, r \in Nat : ~At(m, j, r)'
    <3>1. m # n /\ lpc[m] \in Closing
      BY <2>2, <2>6
    <3>2. ExitSent(m) /\ \A j, r \in Nat : ~At(m, j, r)
      BY <2>2, <2>6, <3>1 DEF IInv, ExitInv
    <3> QED
      BY <2>1, <2>3, <3>1, <3>2
  <2> QED
    BY <2>4, <2>5, <2>6 DEF ExitInv, Closing
<1>12. ASSUME NEW n \in Node, ListenFail(n), UNCHANGED reqVars PROVE ExitInv'
  <2>1. /\ lpc[n] = "read" /\ toClient[n] = <<>> /\ ~up[n]
        /\ UNCHANGED <<got, up, toServer, toClient, breaks, main>>
        /\ \A m \in Node \ {n} : lpc'[m] = lpc[m]
        /\ lpc'[n] = "close"
    BY <1>12 DEF ListenFail, IInv, TypeInv, ConnType
  <2>2. breaks # 0
    BY <1>0, <2>1 DEF IInv, NodeInv, NodeOK
  <2>3. \A m \in Node : \A i, r \in Nat : At(m, i, r)' => At(m, i, r)
    BY <2>1, TransitSame, AtShrinks DEF Pending
  <2>4. ASSUME RunPhase', NEW m \in Node
        PROVE  /\ \A i \in Nat : ~At(m, i, 0)'
               /\ lpc'[m] \in Closing => ~up'[m] /\ toClient'[m] = <<>>
    <3>1. RunPhase
      BY <2>1, <2>4 DEF RunPhase
    <3> QED
      BY <2>1, <2>3, <3>1 DEF IInv, ExitInv
  <2> QED
    BY <2>1, <2>2, <2>4 DEF ExitInv, Closing
<1>13. ASSUME NEW n \in Node, ListenUnbusy(n), UNCHANGED reqVars PROVE ExitInv'
  <2>1. \A m \in Node : Transit(m)' = Transit(m)
    BY <1>13, TransitSame DEF ListenUnbusy
  <2>2. \A m \in Node : /\ got'[m] = got[m]
                        /\ Pending(m)' => Pending(m)
    BY <1>13 DEF IInv, TypeInv, ConnType, NodeInv, NodeOK, Pending, ListenUnbusy
  <2>3. \A m \in Node : lpc'[m] \in Closing => lpc[m] \in Closing
    BY <1>13 DEF IInv, TypeInv, ConnType, Closing, ListenUnbusy
  <2>4. breaks' = breaks /\ (RunPhase' => RunPhase)
    BY <1>13 DEF RunPhase, ListenUnbusy
  <2>5. \A m \in Node : ~up[m] /\ toClient[m] = <<>> => ~up'[m] /\ toClient'[m] = <<>>
    BY <1>13 DEF IInv, TypeInv, ConnType, ListenUnbusy
  <2>6. \A m \in Node : ExitSent(m) => ExitSent(m)'
    BY <1>0, <1>13 DEF ExitSent, ListenUnbusy
  <2> QED
    BY <2>1, <2>2, <2>3, <2>4, <2>5, <2>6, AtShrinks, ExitInvStays DEF IInv
<1>14. ASSUME NEW n \in Node, ListenAccount(n), UNCHANGED reqVars PROVE ExitInv'
  <2>1. /\ lpc[n] = "account" /\ UNCHANGED <<got, up, toServer, toClient, breaks, main>>
        /\ \A m \in Node \ {n} : lpc'[m] = lpc[m]
        /\ lpc'[n] = IF got[n] # 0 THEN "stamp" ELSE "close"
    BY <1>14 DEF ListenAccount, IInv, TypeInv, ConnType
  <2>2. \A m \in Node : \A i, r \in Nat : At(m, i, r)' => At(m, i, r)
    BY <2>1, TransitSame, AtShrinks DEF Pending
  <2>3. CASE got[n] # 0
    <3>1. \A m \in Node : lpc'[m] \in Closing => lpc[m] \in Closing
      BY <2>1, <2>3 DEF Closing
    <3>2. /\ breaks' = breaks /\ (RunPhase' => RunPhase)
          /\ \A m \in Node : ExitSent(m) => ExitSent(m)'
      BY <2>1 DEF RunPhase, ExitSent
    <3> QED
      BY <2>1, <2>2, <3>1, <3>2, ExitInvStays DEF IInv
  <2>4. CASE got[n] = 0
    <3>1. At(n, 0, 0) /\ ~Pending(n)'
      BY <2>1, <2>4 DEF At, Pending
    <3>2. ~RunPhase
      BY <3>1 DEF IInv, ExitInv
    <3>3. breaks = 0 => ExitSent(n) /\ \A j, r \in Nat : j > 0 => ~At(n, j, r)
      BY <3>1 DEF IInv, ExitInv
    <3>4. \A m \in Node : ExitSent(m)' <=> ExitSent(m)
      BY <2>1 DEF ExitSent
    <3>5. ASSUME breaks' = 0, NEW m \in Node, NEW i \in Nat, At(m, i, 0)'
          PROVE  ExitSent(m)' /\ \A j, r \in Nat : j > i => ~At(m, j, r)'
      BY <2>1, <2>2, <3>4, <3>5 DEF IInv, ExitInv
    <3>6. ASSUME breaks' = 0, NEW m \in Node, lpc'[m] \in Closing
          PROVE  ExitSent(m)' /\ \A j, r \in Nat : ~At(m, j, r)'
      <4>1. CASE m # n
        BY <2>1, <2>2, <3>4, <3>6, <4>1 DEF IInv, ExitInv
      <4>2. CASE m = n
        <5>1. \A r \in Nat : ~At(n, 0, r)'
          BY <3>1 DEF At
        <5>2. ASSUME NEW j \in Nat, NEW r \in Nat PROVE ~At(n, j, r)'
          BY <2>1, <2>2, <3>3, <3>6, <5>1
        <5> QED
          BY <2>1, <3>3, <3>4, <3>6, <4>2, <5>2
      <4> QED
        BY <4>1, <4>2
    <3> QED
      BY <2>1, <3>2, <3>5, <3>6 DEF ExitInv, Closing, RunPhase
  <2> QED
    BY <2>3, <2>4
<1>15. ASSUME NEW n \in Node, ListenLeave(n), UNCHANGED reqVars PROVE ExitInv'
  <2>1. \A m \in Node : Transit(m)' = Transit(m)
    BY <1>15, TransitSame DEF ListenLeave
  <2>2. \A m \in Node : /\ got'[m] = got[m]
                        /\ Pending(m)' => Pending(m)
    BY <1>15 DEF IInv, TypeInv, ConnType, NodeInv, NodeOK, Pending, ListenLeave
  <2>3. \A m \in Node : lpc'[m] \in Closing => lpc[m] \in Closing
    BY <1>15 DEF IInv, TypeInv, ConnType, Closing, ListenLeave
  <2>4. breaks' = breaks /\ (RunPhase' => RunPhase)
    BY <1>15 DEF RunPhase, ListenLeave
  <2>5. \A m \in Node : ~up[m] /\ toClient[m] = <<>> => ~up'[m] /\ toClient'[m] = <<>>
    BY <1>15 DEF IInv, TypeInv, ConnType, ListenLeave
  <2>6. \A m \in Node : ExitSent(m) => ExitSent(m)'
    BY <1>0, <1>15 DEF ExitSent, ListenLeave
  <2> QED
    BY <2>1, <2>2, <2>3, <2>4, <2>5, <2>6, AtShrinks, ExitInvStays DEF IInv
<1>16. ASSUME NEW n \in Node, ListenStamp(n) PROVE ExitInv'
  <2>1. \A m \in Node : Transit(m)' = Transit(m)
    BY <1>16, TransitSame DEF ListenStamp, ListenStamped
  <2>2. \A m \in Node : /\ got'[m] = got[m]
                        /\ Pending(m)' => Pending(m)
    BY <1>16 DEF IInv, TypeInv, ConnType, NodeInv, NodeOK, Pending, ListenStamp, ListenStamped
  <2>3. \A m \in Node : lpc'[m] \in Closing => lpc[m] \in Closing
    BY <1>16 DEF IInv, TypeInv, ConnType, Closing, ListenStamp, ListenStamped
  <2>4. breaks' = breaks /\ (RunPhase' => RunPhase)
    BY <1>16 DEF RunPhase, ListenStamp, ListenStamped
  <2>5. \A m \in Node : ~up[m] /\ toClient[m] = <<>> => ~up'[m] /\ toClient'[m] = <<>>
    BY <1>16 DEF IInv, TypeInv, ConnType, ListenStamp, ListenStamped
  <2>6. \A m \in Node : ExitSent(m) => ExitSent(m)'
    BY <1>0, <1>16 DEF ExitSent, ListenStamp, ListenStamped
  <2> QED
    BY <2>1, <2>2, <2>3, <2>4, <2>5, <2>6, AtShrinks, ExitInvStays DEF IInv
<1>17. ASSUME NEW n \in Node, Break(n), UNCHANGED reqVars PROVE ExitInv'
  <2>1. /\ breaks' = breaks + 1 /\ UNCHANGED <<lpc, main>> /\ up[n]
        /\ \A m \in Node \ {n} : up'[m] = up[m] /\ toClient'[m] = toClient[m]
    BY <1>17 DEF Break, IInv, TypeInv, ConnType
  <2>2. \A m \in Node : \A i \in Nat : \A r \in Nat : At(m, i, r)' => At(m, i, r)
    BY <1>17, AtBreak DEF IInv, TypeInv
  <2>3. ASSUME RunPhase', NEW m \in Node
        PROVE  /\ \A i \in Nat : ~At(m, i, 0)'
               /\ lpc'[m] \in Closing => ~up'[m] /\ toClient'[m] = <<>>
    <3>1. RunPhase
      BY <2>1, <2>3 DEF RunPhase
    <3> QED
      BY <2>1, <2>2, <3>1 DEF IInv, ExitInv
  <2> QED
    BY <1>0, <2>1, <2>3 DEF ExitInv, Closing
<1>18. ASSUME UNCHANGED vars PROVE ExitInv'
  <2>1. \A m \in Node : Transit(m)' = Transit(m)
    BY <1>18, TransitSame DEF vars
  <2>2. \A m \in Node : /\ got'[m] = got[m]
                        /\ Pending(m)' => Pending(m)
    BY <1>18 DEF IInv, TypeInv, ConnType, NodeInv, NodeOK, Pending, vars
  <2>3. \A m \in Node : lpc'[m] \in Closing => lpc[m] \in Closing
    BY <1>18 DEF IInv, TypeInv, ConnType, Closing, vars
  <2>4. breaks' = breaks /\ (RunPhase' => RunPhase)
    BY <1>18 DEF RunPhase, vars
  <2>5. \A m \in Node : ~up[m] /\ toClient[m] = <<>> => ~up'[m] /\ toClient'[m] = <<>>
    BY <1>18 DEF IInv, TypeInv, ConnType, vars
  <2>6. \A m \in Node : ExitSent(m) => ExitSent(m)'
    BY <1>0, <1>18 DEF ExitSent, vars
  <2> QED
    BY <2>1, <2>2, <2>3, <2>4, <2>5, <2>6, AtShrinks, ExitInvStays DEF IInv
<1> QED
  BY <1>1, <1>2, <1>3, <1>4, <1>5, <1>6, <1>7, <1>8, <1>9, <1>10, <1>11, <1>12, <1>13, <1>14,
     <1>15, <1>16, <1>17, <1>18, StepKinds

\* main passes a listener only when it has ended, and none starts again.
LEMMA JoinInvStep ==
  ASSUME IInv, [Next]_vars
  PROVE  JoinInv'
<1> USE DEF list, node, files, wire, main, poolVars, reqVars
<1>0. /\ \A n \in Node : n[1] \in Nat /\ n[2] \in Nat /\ n[2] >= 1
      /\ si \in Nat /\ xi \in Nat /\ breaks \in Nat
  <2>1. \A n \in Node : n[1] \in Nat /\ n[2] \in Nat /\ n[2] >= 1
    BY NodeNumbers DEF IInv, TypeInv
  <2>2. si \in Nat
    BY NodeParts DEF IInv, TypeInv, MainType
  <2>3. xi \in Nat /\ breaks \in Nat
    BY PoolAssumption DEF IInv, TypeInv, MainType, ConnType
  <2> QED
    BY <2>1, <2>2, <2>3
<1>1. ASSUME OpenFirst, UNCHANGED reqVars PROVE JoinInv'
  BY <1>1 DEF IInv, TypeInv, ConnType, JoinInv, Exists, OpenFirst, AddNode
<1>2. ASSUME OpenFirstFails, UNCHANGED reqVars PROVE JoinInv'
  BY <1>2 DEF IInv, TypeInv, ConnType, JoinInv, Exists, OpenFirstFails
<1>3. ASSUME SpawnListeners, UNCHANGED reqVars PROVE JoinInv'
  BY <1>3 DEF IInv, TypeInv, ConnType, JoinInv, Exists, SpawnListeners
<1>4. ASSUME ExitNode(FALSE), UNCHANGED reqVars PROVE JoinInv'
  BY <1>4 DEF IInv, TypeInv, ConnType, JoinInv, Exists, ExitNode
<1>5. ASSUME ExitWrite, UNCHANGED reqVars PROVE JoinInv'
  BY <1>5 DEF IInv, TypeInv, ConnType, JoinInv, Exists, ExitWrite, WriteSent, WriteLost,
     WriteKills
<1>6. ASSUME ExitAllSent, UNCHANGED reqVars PROVE JoinInv'
  <2>1. mpc = "exit" /\ mpc' = "wait" /\ xi' = 1 /\ UNCHANGED <<len, lpc, si>>
    BY <1>6 DEF ExitAllSent
  <2>2. \A n \in Node : (Exists(n)' <=> Exists(n)) /\ ~(n[2] < 1)
    BY <1>0, <2>1 DEF Exists
  <2> QED
    BY <2>1, <2>2 DEF IInv, JoinInv
<1>7. ASSUME WaitNode, UNCHANGED reqVars PROVE JoinInv'
  <2>1. /\ mpc = "wait" /\ lpc[<<si, xi>>] = "done" /\ xi' = xi + 1 /\ xi \in Nat /\ si \in Nat
        /\ UNCHANGED <<len, lpc, mpc, si>>
    BY <1>7, NodeParts, PoolAssumption DEF WaitNode, IInv, TypeInv, MainType
  <2>2. ASSUME NEW n \in Node, Exists(n), n[1] < si \/ (n[1] = si /\ n[2] < xi + 1)
        PROVE  lpc[n] = "done"
    <3>1. n[2] \in Nat /\ n = <<n[1], n[2]>>
      BY NodeNumbers DEF IInv, TypeInv
    <3>2. CASE n[1] < si \/ (n[1] = si /\ n[2] < xi)
      BY <2>1, <2>2, <3>2 DEF IInv, JoinInv
    <3>3. CASE n[1] = si /\ n[2] = xi
      BY <2>1, <3>1, <3>3
    <3> QED
      BY <2>1, <2>2, <3>1, <3>2, <3>3
  <2>3. \A n \in Node : Exists(n)' <=> Exists(n)
    BY <2>1 DEF Exists
  <2> QED
    BY <2>1, <2>2, <2>3 DEF JoinInv
<1>8. ASSUME WaitAllDone, UNCHANGED reqVars PROVE JoinInv'
  <2>1. /\ mpc = "wait" /\ xi > len[si] /\ UNCHANGED <<len, lpc>>
        /\ \/ si < NServer /\ si' = si + 1 /\ mpc' = "exit"
           \/ ~(si < NServer) /\ mpc' = "done" /\ UNCHANGED si
    BY <1>8 DEF WaitAllDone
  <2>2. si \in Nat /\ si <= NServer /\ xi \in Nat /\ NServer \in Nat
    BY NodeParts, PoolAssumption DEF IInv, TypeInv, MainType
  <2>3. ASSUME NEW n \in Node, Exists(n), n[1] <= si
        PROVE  lpc[n] = "done"
    <3>1. n[1] \in Nat /\ n[2] \in Nat /\ len[n[1]] \in Nat
      BY NodeNumbers DEF IInv, TypeInv
    <3>2. n[1] < si \/ (n[1] = si /\ n[2] < xi)
      BY <2>1, <2>2, <2>3, <3>1 DEF Exists
    <3> QED
      BY <2>1, <2>3, <3>2 DEF IInv, JoinInv
  <2>4. \A n \in Node : (Exists(n)' <=> Exists(n)) /\ n[1] \in Nat /\ n[1] <= NServer
    BY <2>1, NodeParts DEF Exists
  <2>5. CASE si < NServer /\ si' = si + 1 /\ mpc' = "exit"
    <3>1. \A n \in Node : n[1] < si + 1 => n[1] <= si
      BY <2>2, <2>4
    <3> QED
      BY <2>1, <2>3, <2>4, <2>5, <3>1 DEF JoinInv
  <2>6. CASE ~(si < NServer) /\ mpc' = "done" /\ UNCHANGED si
    <3>1. \A n \in Node : n[1] <= si
      BY <2>2, <2>4, <2>6
    <3> QED
      BY <2>1, <2>3, <2>4, <2>6, <3>1 DEF JoinInv
  <2> QED
    BY <2>1, <2>5, <2>6
<1>9. ASSUME BeginSearch PROVE JoinInv'
  BY <1>9 DEF IInv, TypeInv, ConnType, JoinInv, Exists, BeginSearch
<1>10. ASSUME SearchNode PROVE JoinInv'
  BY <1>10 DEF IInv, TypeInv, ConnType, JoinInv, Exists, SearchNode
<1>11. ASSUME SearchMisses PROVE JoinInv'
  BY <1>11 DEF IInv, TypeInv, ConnType, JoinInv, Exists, SearchMisses
<1>12. ASSUME Grow PROVE JoinInv'
  BY <1>12 DEF IInv, TypeInv, ConnType, JoinInv, Exists, Grow, AddNode
<1>13. ASSUME GiveUp PROVE JoinInv'
  BY <1>13 DEF IInv, TypeInv, ConnType, JoinInv, Exists, GiveUp, ConnectRefused
<1>14. ASSUME MarkBusy PROVE JoinInv'
  BY <1>14 DEF IInv, TypeInv, ConnType, JoinInv, Exists, MarkBusy
<1>15. ASSUME TakeAvailable PROVE JoinInv'
  BY <1>15 DEF IInv, TypeInv, ConnType, JoinInv, Exists, TakeAvailable
<1>16. ASSUME WriteRequest PROVE JoinInv'
  BY <1>16 DEF IInv, TypeInv, ConnType, JoinInv, Exists, WriteRequest, WriteSent, WriteLost,
     WriteKills
<1>17. ASSUME RequestsDone PROVE JoinInv'
  <2>1. mpc = "request" /\ mpc' = "exit" /\ UNCHANGED <<len, lpc, si>>
    BY <1>17 DEF RequestsDone
  <2>2. si = 1
    BY <2>1 DEF IInv, MainInv
  <2>3. \A n \in Node : n[1] \in Nat \ {0}
    BY NodeParts
  <2>4. \A n \in Node : ~(n[1] < si')
    BY <2>1, <2>2, <2>3
  <2> QED
    BY <2>1, <2>4 DEF JoinInv
<1>18. ASSUME NEW n \in Node, ListenRead(n), UNCHANGED reqVars PROVE JoinInv'
  BY <1>18 DEF IInv, TypeInv, ConnType, JoinInv, Exists, ListenRead
<1>19. ASSUME NEW n \in Node, ListenFail(n), UNCHANGED reqVars PROVE JoinInv'
  BY <1>19 DEF IInv, TypeInv, ConnType, JoinInv, Exists, ListenFail
<1>20. ASSUME NEW n \in Node, ListenUnbusy(n), UNCHANGED reqVars PROVE JoinInv'
  BY <1>20 DEF IInv, TypeInv, ConnType, JoinInv, Exists, ListenUnbusy
<1>21. ASSUME NEW n \in Node, ListenAccount(n), UNCHANGED reqVars PROVE JoinInv'
  BY <1>21 DEF IInv, TypeInv, ConnType, JoinInv, Exists, ListenAccount
<1>22. ASSUME NEW n \in Node, ListenClose(n), UNCHANGED reqVars PROVE JoinInv'
  BY <1>22 DEF IInv, TypeInv, ConnType, JoinInv, Exists, ListenClose
<1>23. ASSUME NEW n \in Node, ListenDisconnect(n), UNCHANGED reqVars PROVE JoinInv'
  BY <1>23 DEF IInv, TypeInv, ConnType, JoinInv, Exists, ListenDisconnect
<1>24. ASSUME NEW n \in Node, ListenLeave(n), UNCHANGED reqVars PROVE JoinInv'
  BY <1>24 DEF IInv, TypeInv, ConnType, JoinInv, Exists, ListenLeave
<1>25. ASSUME NEW n \in Node, ListenStamp(n) PROVE JoinInv'
  BY <1>25 DEF IInv, TypeInv, ConnType, JoinInv, Exists, ListenStamp, ListenStamped
<1>26. ASSUME NEW n \in Node, Serve(n), UNCHANGED reqVars PROVE JoinInv'
  BY <1>26 DEF IInv, TypeInv, ConnType, JoinInv, Exists, Serve
<1>27. ASSUME NEW n \in Node, ServeEnd(n), UNCHANGED reqVars PROVE JoinInv'
  BY <1>27 DEF IInv, TypeInv, ConnType, JoinInv, Exists, ServeEnd
<1>28. ASSUME NEW n \in Node, Break(n), UNCHANGED reqVars PROVE JoinInv'
  BY <1>28 DEF IInv, TypeInv, ConnType, JoinInv, Exists, Break
<1>29. ASSUME UNCHANGED vars PROVE JoinInv'
  BY <1>29 DEF IInv, TypeInv, ConnType, JoinInv, Exists, vars
<1> QED
  BY <1>1, <1>2, <1>3, <1>4, <1>5, <1>6, <1>7, <1>8, <1>9, <1>10, <1>11, <1>12, <1>13, <1>14,
     <1>15, <1>16, <1>17, <1>18, <1>19, <1>20, <1>21, <1>22, <1>23, <1>24, <1>25, <1>26,
     <1>27, <1>28, <1>29, StepCases

\* A step that moves no flow and marks no connection keeps them so.
LEMMA BusyInvStays ==
  ASSUME BusyInv, RunPhase' => RunPhase, astray' = astray, breaks' = breaks,
         \A n \in Node : /\ Transit(n)' = Transit(n)
                         /\ got'[n] = got[n]
                         /\ lpc'[n] = "unbusy" <=> lpc[n] = "unbusy"
                         /\ lpc[n] = "done" => lpc'[n] = "done",
         RunPhase' => UNCHANGED busy,
         RunPhase' /\ mpc' \in HasConn => conn' = conn /\ mpc \in HasConn,
         RunPhase' => (mpc' \in {"take", "write"} <=> mpc \in {"take", "write"})
  PROVE  BusyInv'
<1>1. Calm' => Calm
  BY DEF Calm
<1>2. \A n \in Node : Places(n)' = Places(n)
  BY DEF Places
<1>3. OneRequest'
  BY <1>1, <1>2 DEF BusyInv, OneRequest
<1>4. BusyCovers'
  BY DEF BusyInv, BusyCovers, HasConn
<1>5. BusyNeeded'
  BY DEF BusyInv, BusyNeeded, HasConn
<1> QED
  BY <1>3, <1>4, <1>5 DEF BusyInv

\* A connection that a listener has left carries nothing while requests are
\* made, and one whose listener has read a flow carries no other.
LEMMA NothingBehind ==
  ASSUME TypeInv, NodeInv, ExitInv, BusyInv, RunPhase, NEW n \in Node
  PROVE  /\ lpc[n] \in Closing => Transit(n) = <<>> /\ ~up[n]
         /\ ~astray /\ lpc[n] = "unbusy" => Transit(n) = <<>> /\ got[n] # 0
<1>1. lpc[n] \in Closing => toClient[n] = <<>> /\ toServer[n] = <<>> /\ ~up[n]
  BY DEF ExitInv, NodeInv, NodeOK
<1>2. Transit(n) = <<>> <=> toClient[n] = <<>> /\ toServer[n] = <<>>
  BY TransitType DEF TypeInv
<1>3. ASSUME ~astray, lpc[n] = "unbusy"
      PROVE  Transit(n) = <<>> /\ got[n] # 0
  <2>1. \A i \in Nat : ~At(n, i, 0)
    BY DEF ExitInv
  <2>2. got[n] # 0
    BY <1>3, <2>1 DEF At, Pending
  <2>3. \A i \in Places(n) : Transit(n)[i] = 0
    BY <1>3, <2>2 DEF BusyInv, OneRequest, Calm
  <2>4. Len(Transit(n)) \in Nat /\ (Len(Transit(n)) = 0 <=> Transit(n) = <<>>)
    BY TransitType DEF TypeInv
  <2>5. CASE Transit(n) # <<>>
    <3>1. 1 \in Places(n)
      BY <2>4, <2>5 DEF Places
    <3> QED
      BY <2>1, <2>3, <3>1 DEF At
  <2> QED
    BY <2>2, <2>5
<1> QED
  BY <1>1, <1>2, <1>3

\* A new connection carries nothing and is not busy.
LEMMA BusyAdded ==
  ASSUME TypeInv, NodeInv, BusyInv, NEW s \in Server, NEW b \in BOOLEAN, AddNode(s, b), RunPhase,
         mpc \notin HasConn, mpc' \in HasConn => mpc' = "mark" /\ conn' = <<s, len[s] + 1>>
  PROVE  BusyInv'
<1>0. PICK k \in Node : k = <<s, len[s] + 1>>
  BY AddNodeEffect DEF TypeInv
<1>1. /\ lpc'[k] \in {"read", "none"} /\ ~busy'[k] /\ UNCHANGED <<breaks, astray, got>>
      /\ \A n \in Node : n # k => lpc'[n] = lpc[n] /\ busy'[n] = busy[n]
  BY <1>0, AddNodeEffect DEF TypeInv
<1>2. \A n \in Node : Transit(n)' = Transit(n)
  BY FlowsAdded DEF TypeInv, NodeInv, NodeOK
<1>3. Transit(k) = <<>>
  <2>1. ~Exists(k)
    BY <1>0, NodeNumbers DEF Exists, TypeInv
  <2> QED
    BY <2>1, TransitType DEF NodeInv, NodeOK, TypeInv
<1>4. \A n \in Node : Places(n)' = Places(n)
  BY <1>2 DEF Places
<1>5. OneRequest'
  <2>1. Calm' => Calm
    BY <1>1 DEF Calm
  <2>2. \A n \in Node : lpc'[n] = "unbusy" => lpc[n] = "unbusy"
    BY <1>1
  <2> QED
    BY <1>1, <1>2, <1>4, <2>1, <2>2 DEF BusyInv, OneRequest
<1>6. BusyCovers'
  <2>1. ASSUME NEW n \in Node, ~astray
        PROVE  /\ Transit(n)' # <<>> \/ lpc'[n] = "unbusy" => busy'[n]
               /\ mpc' \in HasConn /\ conn' = n => Transit(n)' = <<>> /\ lpc'[n] # "unbusy"
    BY <1>0, <1>1, <1>2, <1>3, <2>1 DEF BusyInv, BusyCovers
  <2>2. mpc' \notin {"take", "write"}
    BY DEF HasConn
  <2> QED
    BY <1>1, <2>1, <2>2 DEF BusyCovers, HasConn
<1>7. BusyNeeded'
  <2>1. ASSUME NEW n \in Node, busy'[n], breaks = 0
        PROVE  Transit(n)' # <<>> \/ lpc'[n] = "unbusy"
    BY <1>1, <1>2, <2>1 DEF BusyInv, BusyNeeded, HasConn
  <2> QED
    BY <1>1, <2>1 DEF BusyNeeded
<1> QED
  BY <1>5, <1>6, <1>7 DEF BusyInv

\* No step puts a second request on a connection.
LEMMA BusyInvStep ==
  ASSUME IInv, [Next]_vars
  PROVE  BusyInv'
<1> USE DEF list, node, files, wire, main, poolVars, reqVars
<1>0. /\ \A n \in Node : n[1] \in Nat /\ n[2] \in Nat /\ n[2] >= 1
      /\ si \in Nat /\ xi \in Nat /\ breaks \in Nat
  <2>1. \A n \in Node : n[1] \in Nat /\ n[2] \in Nat /\ n[2] >= 1
    BY NodeNumbers DEF IInv, TypeInv
  <2>2. si \in Nat
    BY NodeParts DEF IInv, TypeInv, MainType
  <2>3. xi \in Nat /\ breaks \in Nat
    BY PoolAssumption DEF IInv, TypeInv, MainType, ConnType
  <2> QED
    BY <2>1, <2>2, <2>3
<1>1. CASE Quiet
  <2>1. \A m \in Node : /\ Transit(m)' = Transit(m)
                        /\ got'[m] = got[m]
                        /\ lpc'[m] = "unbusy" <=> lpc[m] = "unbusy"
                        /\ lpc[m] = "done" => lpc'[m] = "done"
    BY <1>1, QuietFlows, QuietListeners
  <2>2. /\ RunPhase' => RunPhase /\ UNCHANGED busy
        /\ UNCHANGED <<astray, breaks>>
        /\ mpc' \in HasConn => conn' = conn /\ mpc \in HasConn
        /\ mpc' \in {"take", "write"} <=> mpc \in {"take", "write"}
    BY <1>1, QuietRest DEF HasConn
  <2> QED
    BY <2>1, <2>2, BusyInvStays DEF IInv
<1>2. ASSUME OpenFirst, UNCHANGED reqVars PROVE BusyInv'
  <2>1. AddNode(si, FALSE) /\ si \in Server /\ RunPhase /\ mpc \notin HasConn /\ mpc' \notin HasConn
    BY <1>2 DEF OpenFirst, IInv, TypeInv, MainType, RunPhase, HasConn
  <2> QED
    BY <2>1, BusyAdded DEF IInv
<1>3. ASSUME ExitNode(FALSE), UNCHANGED reqVars PROVE BusyInv'
  <2>1. \A m \in Node : Transit(m)' = Transit(m)
    BY <1>3, TransitSame DEF ExitNode
  <2>2. \A m \in Node : /\ got'[m] = got[m]
                        /\ lpc'[m] = "unbusy" <=> lpc[m] = "unbusy"
                        /\ lpc[m] = "done" => lpc'[m] = "done"
    BY <1>3 DEF IInv, TypeInv, ConnType, NodeInv, NodeOK, ExitNode
  <2>3. /\ RunPhase' => RunPhase /\ UNCHANGED busy
        /\ UNCHANGED <<astray, breaks>>
    BY <1>3 DEF RunPhase, ExitNode
  <2>4. /\ RunPhase' /\ mpc' \in HasConn => conn' = conn /\ mpc \in HasConn
        /\ RunPhase' => (mpc' \in {"take", "write"} <=> mpc \in {"take", "write"})
    BY <1>3 DEF RunPhase, HasConn, ExitNode
  <2> QED
    BY <2>1, <2>2, <2>3, <2>4, BusyInvStays DEF IInv
<1>4. ASSUME ExitWrite, UNCHANGED reqVars PROVE BusyInv'
  <2>1. /\ mpc = "exitWrite" /\ ~RunPhase' /\ ~RunPhase /\ UNCHANGED <<lpc, got, breaks>>
        /\ WriteSent(<<si, xi>>, 0) \/ UNCHANGED wire
    BY <1>4 DEF ExitWrite, WriteLost, WriteKills, RunPhase
  <2>2. OneRequest'
    <3>1. CASE UNCHANGED wire
      <4>1. \A m \in Node : Transit(m)' = Transit(m) /\ Places(m)' = Places(m)
        BY <3>1, TransitSame DEF Places
      <4> QED
        BY <2>1, <3>1, <4>1 DEF IInv, BusyInv, OneRequest, Calm
    <3>2. CASE WriteSent(<<si, xi>>, 0)
      <4>1. PICK k \in Node : k = <<si, xi>>
        BY <2>1, ExitingNode DEF IInv
      <4>2. PICK m \in Node : /\ toServer' = [toServer EXCEPT ![m] = Append(@, 0)]
                              /\ astray' <=> astray \/ m # k
        <5>1. PICK z \in Nat : z = 0
          OBVIOUS
        <5>2. WriteSent(k, z) /\ ConnType
          BY <3>2, <4>1, <5>1 DEF IInv, TypeInv
        <5>3. PICK m \in Node : /\ sock[m] = "open" /\ sockfd[m] = sockfd[k] /\ up[m]
                                /\ toServer' = [toServer EXCEPT ![m] = Append(@, z)]
                                /\ astray' <=> astray \/ m # k
          BY ONLY <5>2, WriteSentEffect, SMTT(30)
        <5> QED
          BY <5>1, <5>3
      <4>3. UNCHANGED toClient /\ (Calm' => Calm)
        BY <2>1, <3>2, <4>2 DEF WriteSent, Calm
      <4>4. /\ \A n \in Node \ {m} : Transit(n)' = Transit(n)
            /\ Len(Transit(m)') = Len(Transit(m)) + 1
            /\ \A i \in Places(m) : Transit(m)'[i] = Transit(m)[i]
            /\ Transit(m)'[Len(Transit(m)) + 1] = 0
        BY <4>2, <4>3, TransitSend DEF IInv, TypeInv
      <4>5. Len(Transit(m)) \in Nat
        BY TransitType DEF IInv, TypeInv
      <4>6. \A i \in Places(m)' : i \in Places(m) \/ i = Len(Transit(m)) + 1
        BY <4>4, <4>5 DEF Places
      <4>7. \A n \in Node \ {m} : Places(n)' = Places(n)
        BY <4>4 DEF Places
      <4>8. ASSUME Calm, NEW n \in Node
            PROVE  /\ \A i \in Places(n)' : Transit(n)'[i] # 0 => i = 1
                   /\ lpc'[n] = "unbusy" /\ got'[n] # 0 =>
                         \A i \in Places(n)' : Transit(n)'[i] = 0
        BY <2>1, <4>4, <4>6, <4>7, <4>8 DEF IInv, BusyInv, OneRequest
      <4> QED
        BY <4>3, <4>8 DEF OneRequest
    <3> QED
      BY <2>1, <3>1, <3>2
  <2> QED
    BY <2>1, <2>2 DEF BusyInv, BusyCovers, BusyNeeded
<1>5. ASSUME BeginSearch PROVE BusyInv'
  <2>1. \A m \in Node : Transit(m)' = Transit(m)
    BY <1>5, TransitSame DEF BeginSearch
  <2>2. \A m \in Node : /\ got'[m] = got[m]
                        /\ lpc'[m] = "unbusy" <=> lpc[m] = "unbusy"
                        /\ lpc[m] = "done" => lpc'[m] = "done"
    BY <1>5 DEF IInv, TypeInv, ConnType, NodeInv, NodeOK, BeginSearch
  <2>3. /\ RunPhase' => RunPhase /\ UNCHANGED busy
        /\ UNCHANGED <<astray, breaks>>
    BY <1>5 DEF RunPhase, BeginSearch
  <2>4. /\ RunPhase' /\ mpc' \in HasConn => conn' = conn /\ mpc \in HasConn
        /\ RunPhase' => (mpc' \in {"take", "write"} <=> mpc \in {"take", "write"})
    BY <1>5 DEF RunPhase, HasConn, BeginSearch
  <2> QED
    BY <2>1, <2>2, <2>3, <2>4, BusyInvStays DEF IInv
<1>6. ASSUME SearchNode PROVE BusyInv'
  <2>1. /\ mpc = "search" /\ UNCHANGED <<lpc, got, busy, toServer, toClient, breaks, astray>>
        /\ \/ Idle(conn') /\ mpc' = "mark"
           \/ mpc' = "search" /\ conn' = conn
    BY <1>6 DEF SearchNode
  <2>2. \A m \in Node : Transit(m)' = Transit(m) /\ Places(m)' = Places(m)
    BY <2>1, TransitSame DEF Places
  <2>3. OneRequest'
    BY <2>1, <2>2 DEF IInv, BusyInv, OneRequest, Calm, RunPhase
  <2>4. BusyNeeded'
    BY <2>1, <2>2 DEF IInv, BusyInv, BusyNeeded, RunPhase
  <2>5. BusyCovers'
    <3>1. ASSUME ~astray, NEW n \in Node
          PROVE  /\ Transit(n)' # <<>> \/ lpc'[n] = "unbusy" => busy'[n]
                 /\ mpc' \in HasConn /\ conn' = n => Transit(n)' = <<>> /\ lpc'[n] # "unbusy"
      BY <2>1, <2>2, <3>1 DEF IInv, BusyInv, BusyCovers, RunPhase, HasConn, Idle
    <3> QED
      BY <2>1, <3>1 DEF BusyCovers
  <2> QED
    BY <2>3, <2>4, <2>5 DEF BusyInv
<1>7. ASSUME Grow PROVE BusyInv'
  <2>1. /\ AddNode(ReqServer[cur], TRUE) /\ mpc = "grow" /\ RunPhase /\ mpc \notin HasConn
        /\ mpc' = "mark" /\ conn' = <<ReqServer[cur], len[ReqServer[cur]] + 1>>
    BY <1>7 DEF Grow, RunPhase, HasConn
  <2>2. ReqServer[cur] \in Server
    BY <2>1, CurrentRequest DEF IInv, Serving
  <2> QED
    BY <2>1, <2>2, BusyAdded DEF IInv
<1>8. ASSUME MarkBusy PROVE BusyInv'
  <2>1. /\ mpc = "mark" /\ mpc' = "take" /\ busy' = [busy EXCEPT ![conn] = TRUE]
        /\ UNCHANGED <<lpc, got, toServer, toClient, breaks, astray, conn>>
    BY <1>8 DEF MarkBusy
  <2>2. \A m \in Node : Transit(m)' = Transit(m) /\ Places(m)' = Places(m)
    BY <2>1, TransitSame DEF Places
  <2>3. conn \in Node /\ \A m \in Node : busy'[m] = IF m = conn THEN TRUE ELSE busy[m]
    BY <2>1 DEF IInv, MainInv, HasConn, TypeInv, ConnType
  <2>4. OneRequest'
    BY <2>1, <2>2 DEF IInv, BusyInv, OneRequest, Calm, RunPhase
  <2>5. BusyNeeded'
    BY <2>1, <2>2, <2>3 DEF IInv, BusyInv, BusyNeeded, RunPhase
  <2>6. BusyCovers'
    BY <2>1, <2>2, <2>3 DEF IInv, BusyInv, BusyCovers, RunPhase, HasConn
  <2> QED
    BY <2>4, <2>5, <2>6 DEF BusyInv
<1>9. ASSUME TakeAvailable PROVE BusyInv'
  <2>1. \A m \in Node : Transit(m)' = Transit(m)
    BY <1>9, TransitSame DEF TakeAvailable
  <2>2. \A m \in Node : /\ got'[m] = got[m]
                        /\ lpc'[m] = "unbusy" <=> lpc[m] = "unbusy"
                        /\ lpc[m] = "done" => lpc'[m] = "done"
    BY <1>9 DEF IInv, TypeInv, ConnType, NodeInv, NodeOK, TakeAvailable
  <2>3. /\ RunPhase' => RunPhase /\ UNCHANGED busy
        /\ UNCHANGED <<astray, breaks>>
    BY <1>9 DEF RunPhase, TakeAvailable
  <2>4. /\ RunPhase' /\ mpc' \in HasConn => conn' = conn /\ mpc \in HasConn
        /\ RunPhase' => (mpc' \in {"take", "write"} <=> mpc \in {"take", "write"})
    BY <1>9 DEF RunPhase, HasConn, TakeAvailable
  <2> QED
    BY <2>1, <2>2, <2>3, <2>4, BusyInvStays DEF IInv
<1>10. ASSUME WriteRequest PROVE BusyInv'
  <2>1. /\ mpc = "write" /\ RunPhase /\ mpc' \notin HasConn
        /\ UNCHANGED <<lpc, got, busy, breaks, up>>
        /\ \/ WriteSent(conn, cur)
           \/ UNCHANGED wire /\ ~Connects(conn)
    BY <1>10 DEF WriteRequest, WriteLost, WriteKills, RunPhase, WriteSent, HasConn
  <2>2. conn \in Node /\ cur \in Nat \ {0}
    BY <2>1, CurrentRequest DEF IInv, MainInv, HasConn, Serving
  <2>3. CASE UNCHANGED wire /\ ~Connects(conn)
    <3>1. breaks # 0
      BY <2>1, <2>3, WriteConnects DEF IInv
    <3>2. \A m \in Node : Transit(m)' = Transit(m) /\ Places(m)' = Places(m)
      BY <2>3, TransitSame DEF Places
    <3>3. OneRequest'
      BY <2>1, <2>3, <3>2 DEF IInv, BusyInv, OneRequest, Calm
    <3>4. BusyCovers'
      BY <2>1, <2>3, <3>2 DEF IInv, BusyInv, BusyCovers, HasConn
    <3>5. BusyNeeded'
      BY <2>1, <3>1 DEF BusyNeeded
    <3> QED
      BY <3>3, <3>4, <3>5 DEF BusyInv
  <2>4. CASE WriteSent(conn, cur)
    <3> cur \in Nat /\ ConnType
      BY <2>2 DEF IInv, TypeInv
    <3>1. PICK m \in Node : /\ sock[m] = "open" /\ up[m]
                            /\ toServer' = [toServer EXCEPT ![m] = Append(@, cur)]
                            /\ astray' <=> astray \/ m # conn
      <4>1. PICK m \in Node : /\ Holds(m, sockfd[conn]) /\ up[m]
                              /\ toServer' = [toServer EXCEPT ![m] = Append(@, cur)]
                              /\ astray' = (astray \/ m # conn)
        BY <2>4 DEF WriteSent
      <4>2. sock[m] = "open" /\ (astray' <=> astray \/ m # conn)
        BY <4>1 DEF Holds
      <4> QED
        BY <4>1, <4>2
    <3>2. UNCHANGED toClient /\ (Calm' => Calm)
      BY <2>1, <2>4, <3>1 DEF WriteSent, Calm
    <3>3. /\ \A n \in Node \ {m} : Transit(n)' = Transit(n)
          /\ Len(Transit(m)') = Len(Transit(m)) + 1
          /\ Transit(m)' \in Seq(Nat)
      BY <2>2, <3>1, <3>2, TransitSend DEF IInv, TypeInv
    <3>4. /\ Len(Transit(m)) \in Nat /\ (Len(Transit(m)) = 0 <=> Transit(m) = <<>>)
          /\ Transit(m)' # <<>>
      BY <3>3, TransitType, EmptySeq DEF IInv, TypeInv
    <3>5. breaks = 0 => ~astray'
      BY <2>1, FilesInvStep DEF FilesInv
    <3>6. ~astray' => m = conn /\ Transit(m) = <<>> /\ lpc[m] # "unbusy" /\ busy[m]
      <4>1. lpc[m] # "done"
        BY <2>1, <3>1, NothingBehind DEF IInv, Closing
      <4> QED
        BY <2>1, <3>1, <4>1 DEF IInv, BusyInv, BusyCovers, HasConn
    <3>7. OneRequest'
      <4>1. ASSUME Calm' PROVE Places(m)' = {1} /\ lpc[m] # "unbusy"
        <5>1. Transit(m) = <<>> /\ lpc[m] # "unbusy"
          BY <3>6, <4>1 DEF Calm
        <5>2. Len(Transit(m)') = 1
          BY <3>3, <3>4, <5>1
        <5> QED
          BY <5>1, <5>2 DEF Places
      <4>2. \A n \in Node \ {m} : Places(n)' = Places(n)
        BY <3>3 DEF Places
      <4>3. ASSUME Calm', NEW n \in Node \ {m}
            PROVE  /\ \A i \in Places(n)' : Transit(n)'[i] # 0 => i = 1
                   /\ lpc'[n] = "unbusy" /\ got'[n] # 0 =>
                         \A i \in Places(n)' : Transit(n)'[i] = 0
        BY <2>1, <3>2, <3>3, <4>2, <4>3 DEF IInv, BusyInv, OneRequest
      <4>4. ASSUME Calm'
            PROVE  /\ \A i \in Places(m)' : Transit(m)'[i] # 0 => i = 1
                   /\ lpc'[m] # "unbusy"
        BY <2>1, <4>1, <4>4
      <4> QED
        BY <4>3, <4>4 DEF OneRequest
    <3>8. BusyCovers'
      <4>1. ASSUME ~astray', NEW n \in Node
            PROVE  Transit(n)' # <<>> \/ lpc'[n] = "unbusy" => busy'[n]
        BY <2>1, <3>1, <3>3, <3>6, <4>1 DEF IInv, BusyInv, BusyCovers
      <4> QED
        BY <2>1, <4>1 DEF BusyCovers, HasConn
    <3>9. BusyNeeded'
      <4>1. ASSUME breaks = 0, NEW n \in Node, busy[n]
            PROVE  Transit(n)' # <<>> \/ lpc[n] = "unbusy"
        <5>1. m = conn
          BY <3>5, <3>6, <4>1
        <5> QED
          BY <2>1, <3>3, <3>4, <4>1, <5>1 DEF IInv, BusyInv, BusyNeeded
      <4> QED
        BY <2>1, <4>1 DEF BusyNeeded
    <3> QED
      BY <3>7, <3>8, <3>9 DEF BusyInv
  <2> QED
    BY <2>1, <2>3, <2>4
<1>11. ASSUME NEW n \in Node, ListenRead(n), UNCHANGED reqVars PROVE BusyInv'
  <2>1. /\ lpc[n] = "read" /\ UNCHANGED <<busy, breaks, astray, mpc, conn>>
        /\ \A m \in Node \ {n} : got'[m] = got[m] /\ lpc'[m] = lpc[m]
        /\ lpc'[n] = "unbusy"
    BY <1>11 DEF ListenRead, IInv, TypeInv, ConnType
  <2>2. /\ \A m \in Node \ {n} : Transit(m)' = Transit(m)
        /\ Len(Transit(n)) >= 1
        /\ got'[n] = Transit(n)[1]
        /\ Len(Transit(n)') = Len(Transit(n)) - 1
        /\ \A i \in 1 .. (Len(Transit(n)) - 1) : Transit(n)'[i] = Transit(n)[i + 1]
    BY <1>11, TransitRead DEF IInv, TypeInv
  <2>3. Len(Transit(n)) \in Nat /\ Transit(n) # <<>>
    BY <2>2, TransitType DEF IInv, TypeInv
  <2>4. OneRequest'
    <3>1. Calm' => Calm
      BY <2>1 DEF Calm, RunPhase
    <3>2. ASSUME Calm, NEW i \in 1 .. (Len(Transit(n)) - 1) PROVE Transit(n)'[i] = 0
      <4>1. i + 1 \in Places(n) /\ i + 1 # 1
        BY <2>3 DEF Places
      <4> QED
        BY <2>2, <3>2, <4>1 DEF IInv, BusyInv, OneRequest
    <3>3. Calm => \A m \in Node \ {n} :
             /\ \A i \in Places(m)' : Transit(m)'[i] # 0 => i = 1
             /\ lpc'[m] = "unbusy" /\ got'[m] # 0 => \A i \in Places(m)' : Transit(m)'[i] = 0
      BY <2>1, <2>2 DEF IInv, BusyInv, OneRequest, Places
    <3> QED
      BY <2>2, <3>1, <3>2, <3>3 DEF OneRequest, Places
  <2>5. BusyNeeded'
    BY <2>1, <2>2 DEF IInv, BusyInv, BusyNeeded, RunPhase
  <2>6. BusyCovers'
    BY <2>1, <2>2, <2>3 DEF IInv, BusyInv, BusyCovers, RunPhase, HasConn
  <2> QED
    BY <2>4, <2>5, <2>6 DEF BusyInv
<1>12. ASSUME NEW n \in Node, ListenFail(n), UNCHANGED reqVars PROVE BusyInv'
  <2>1. \A m \in Node : Transit(m)' = Transit(m)
    BY <1>12, TransitSame DEF ListenFail
  <2>2. \A m \in Node : /\ got'[m] = got[m]
                        /\ lpc'[m] = "unbusy" <=> lpc[m] = "unbusy"
                        /\ lpc[m] = "done" => lpc'[m] = "done"
    BY <1>12 DEF IInv, TypeInv, ConnType, NodeInv, NodeOK, ListenFail
  <2>3. /\ RunPhase' => RunPhase /\ UNCHANGED busy
        /\ UNCHANGED <<astray, breaks>>
    BY <1>12 DEF RunPhase, ListenFail
  <2>4. /\ RunPhase' /\ mpc' \in HasConn => conn' = conn /\ mpc \in HasConn
        /\ RunPhase' => (mpc' \in {"take", "write"} <=> mpc \in {"take", "write"})
    BY <1>12 DEF RunPhase, HasConn, ListenFail
  <2> QED
    BY <2>1, <2>2, <2>3, <2>4, BusyInvStays DEF IInv
<1>13. ASSUME NEW n \in Node, ListenUnbusy(n), UNCHANGED reqVars PROVE BusyInv'
  <2>1. /\ lpc[n] = "unbusy" /\ UNCHANGED <<got, toServer, toClient, breaks, astray, mpc, conn>>
        /\ \A m \in Node \ {n} : busy'[m] = busy[m] /\ lpc'[m] = lpc[m]
        /\ ~busy'[n] /\ lpc'[n] = "account"
    BY <1>13 DEF ListenUnbusy, IInv, TypeInv, ConnType
  <2>2. \A m \in Node : Transit(m)' = Transit(m) /\ Places(m)' = Places(m)
    BY <2>1, TransitSame DEF Places
  <2>3. OneRequest'
    BY <2>1, <2>2 DEF IInv, BusyInv, OneRequest, Calm, RunPhase
  <2>4. BusyNeeded'
    BY <2>1, <2>2 DEF IInv, BusyInv, BusyNeeded, RunPhase
  <2>5. BusyCovers'
    <3>1. RunPhase /\ ~astray => Transit(n) = <<>>
      BY <2>1, NothingBehind DEF IInv
    <3>2. RunPhase /\ ~astray => ~(mpc \in HasConn /\ conn = n)
      BY <2>1 DEF IInv, BusyInv, BusyCovers
    <3> QED
      BY <2>1, <2>2, <3>1, <3>2 DEF IInv, BusyInv, BusyCovers, RunPhase, HasConn
  <2> QED
    BY <2>3, <2>4, <2>5 DEF BusyInv
<1>14. ASSUME NEW n \in Node, ListenAccount(n), UNCHANGED reqVars PROVE BusyInv'
  <2>1. \A m \in Node : Transit(m)' = Transit(m)
    BY <1>14, TransitSame DEF ListenAccount
  <2>2. \A m \in Node : /\ got'[m] = got[m]
                        /\ lpc'[m] = "unbusy" <=> lpc[m] = "unbusy"
                        /\ lpc[m] = "done" => lpc'[m] = "done"
    BY <1>14 DEF IInv, TypeInv, ConnType, NodeInv, NodeOK, ListenAccount
  <2>3. /\ RunPhase' => RunPhase /\ UNCHANGED busy
        /\ UNCHANGED <<astray, breaks>>
    BY <1>14 DEF RunPhase, ListenAccount
  <2>4. /\ RunPhase' /\ mpc' \in HasConn => conn' = conn /\ mpc \in HasConn
        /\ RunPhase' => (mpc' \in {"take", "write"} <=> mpc \in {"take", "write"})
    BY <1>14 DEF RunPhase, HasConn, ListenAccount
  <2> QED
    BY <2>1, <2>2, <2>3, <2>4, BusyInvStays DEF IInv
<1>15. ASSUME NEW n \in Node, ListenLeave(n), UNCHANGED reqVars PROVE BusyInv'
  <2>1. /\ lpc[n] = "leave" /\ UNCHANGED <<got, toServer, toClient, breaks, astray, mpc, conn>>
        /\ \A m \in Node \ {n} : busy'[m] = busy[m] /\ lpc'[m] = lpc[m]
        /\ ~busy'[n] /\ lpc'[n] = "done"
    BY <1>15 DEF ListenLeave, IInv, TypeInv, ConnType
  <2>2. \A m \in Node : Transit(m)' = Transit(m) /\ Places(m)' = Places(m)
    BY <2>1, TransitSame DEF Places
  <2>3. OneRequest'
    BY <2>1, <2>2 DEF IInv, BusyInv, OneRequest, Calm, RunPhase
  <2>4. BusyNeeded'
    BY <2>1, <2>2 DEF IInv, BusyInv, BusyNeeded, RunPhase
  <2>5. BusyCovers'
    <3>1. RunPhase => Transit(n) = <<>>
      BY <2>1, NothingBehind DEF IInv, Closing
    <3> QED
      BY <2>1, <2>2, <3>1 DEF IInv, BusyInv, BusyCovers, RunPhase, HasConn
  <2> QED
    BY <2>3, <2>4, <2>5 DEF BusyInv
<1>16. ASSUME NEW n \in Node, ListenStamp(n) PROVE BusyInv'
  <2>1. \A m \in Node : Transit(m)' = Transit(m)
    BY <1>16, TransitSame DEF ListenStamp, ListenStamped
  <2>2. \A m \in Node : /\ got'[m] = got[m]
                        /\ lpc'[m] = "unbusy" <=> lpc[m] = "unbusy"
                        /\ lpc[m] = "done" => lpc'[m] = "done"
    BY <1>16 DEF IInv, TypeInv, ConnType, NodeInv, NodeOK, ListenStamp, ListenStamped
  <2>3. /\ RunPhase' => RunPhase /\ UNCHANGED busy
        /\ UNCHANGED <<astray, breaks>>
    BY <1>16 DEF RunPhase, ListenStamp, ListenStamped
  <2>4. /\ RunPhase' /\ mpc' \in HasConn => conn' = conn /\ mpc \in HasConn
        /\ RunPhase' => (mpc' \in {"take", "write"} <=> mpc \in {"take", "write"})
    BY <1>16 DEF RunPhase, HasConn, ListenStamp, ListenStamped
  <2> QED
    BY <2>1, <2>2, <2>3, <2>4, BusyInvStays DEF IInv
<1>17. ASSUME NEW n \in Node, Break(n), UNCHANGED reqVars PROVE BusyInv'
  <2>1. /\ breaks' = breaks + 1 /\ UNCHANGED <<lpc, got, busy, astray, mpc, conn>>
    BY <1>17 DEF Break
  <2>2. /\ \A m \in Node \ {n} : Transit(m)' = Transit(m)
        /\ Len(Transit(n)') <= Len(Transit(n))
        /\ \A i \in 1 .. Len(Transit(n)') : Transit(n)'[i] = Transit(n)[i]
        /\ Transit(n)' \in Seq(Nat)
    BY <1>17, TransitBreak DEF IInv, TypeInv
  <2>3. /\ Len(Transit(n)) \in Nat /\ Len(Transit(n)') \in Nat
        /\ Transit(n) = <<>> => Transit(n)' = <<>>
    <3>1. Len(Transit(n)) \in Nat /\ (Len(Transit(n)) = 0 <=> Transit(n) = <<>>)
      BY TransitType DEF IInv, TypeInv
    <3>2. Len(Transit(n)') \in Nat /\ (Len(Transit(n)') = 0 => Transit(n)' = <<>>)
      BY <2>2, LenProperties, EmptySeq
    <3> QED
      BY <2>2, <3>1, <3>2
  <2>4. OneRequest'
    <3>1. Calm' => Calm
      BY <1>0, <2>1 DEF Calm, RunPhase
    <3>2. /\ \A i \in Places(n)' : i \in Places(n) /\ Transit(n)'[i] = Transit(n)[i]
          /\ \A m \in Node \ {n} : Places(m)' = Places(m)
      BY <2>2, <2>3 DEF Places
    <3>3. ASSUME Calm, NEW m \in Node
          PROVE  /\ \A i \in Places(m)' : Transit(m)'[i] # 0 => i = 1
                 /\ lpc'[m] = "unbusy" /\ got'[m] # 0 =>
                       \A i \in Places(m)' : Transit(m)'[i] = 0
      BY <2>1, <2>2, <3>2, <3>3 DEF IInv, BusyInv, OneRequest
    <3> QED
      BY <3>1, <3>3 DEF OneRequest
  <2>5. BusyCovers'
    BY <2>1, <2>2, <2>3 DEF IInv, BusyInv, BusyCovers, RunPhase, HasConn
  <2>6. BusyNeeded'
    BY <1>0, <2>1 DEF BusyNeeded
  <2> QED
    BY <2>4, <2>5, <2>6 DEF BusyInv
<1>18. ASSUME UNCHANGED vars PROVE BusyInv'
  <2>1. \A m \in Node : Transit(m)' = Transit(m)
    BY <1>18, TransitSame DEF vars
  <2>2. \A m \in Node : /\ got'[m] = got[m]
                        /\ lpc'[m] = "unbusy" <=> lpc[m] = "unbusy"
                        /\ lpc[m] = "done" => lpc'[m] = "done"
    BY <1>18 DEF IInv, TypeInv, ConnType, NodeInv, NodeOK, vars
  <2>3. /\ RunPhase' => RunPhase /\ UNCHANGED busy
        /\ UNCHANGED <<astray, breaks>>
    BY <1>18 DEF RunPhase, vars
  <2>4. /\ RunPhase' /\ mpc' \in HasConn => conn' = conn /\ mpc \in HasConn
        /\ RunPhase' => (mpc' \in {"take", "write"} <=> mpc \in {"take", "write"})
    BY <1>18 DEF RunPhase, HasConn, vars
  <2> QED
    BY <2>1, <2>2, <2>3, <2>4, BusyInvStays DEF IInv
<1> QED
  BY <1>1, <1>2, <1>3, <1>4, <1>5, <1>6, <1>7, <1>8, <1>9, <1>10, <1>11, <1>12, <1>13, <1>14,
     <1>15, <1>16, <1>17, <1>18, StepKinds

\* Numbers between -MaxNode and MaxNode as unsigned integers.
LEMMA UIntNear ==
  ASSUME NEW v \in Int, 0 - MaxNode <= v, v <= MaxNode
  PROVE  UInt(v) = IF v >= 0 THEN v ELSE v + UIntWord
<1> DEFINE w == UIntWord
<1>1. /\ w \in Nat \ {0} /\ MaxNode \in Nat /\ w > 2 * MaxNode
      /\ UInt(v) = v % w
  BY PoolAssumption DEF UInt
<1> HIDE DEF w
<1>2. CASE v >= 0
  <2>1. v \in 0 .. (w - 1) /\ v = w * 0 + v
    BY <1>1, <1>2
  <2>2. v % w = v
    BY <1>1, <2>1
  <2> QED
    BY <1>1, <1>2, <2>2
<1>3. CASE v < 0
  <2> DEFINE u == v + w
  <2>1. u \in 0 .. (w - 1)
    BY <1>1, <1>3
  <2>2. v = w * (-1) + u
    BY <1>1
  <2> HIDE DEF u
  <2>3. v % w = u
    BY <1>1, <2>1, <2>2
  <2> QED
    BY <1>1, <1>3, <2>3 DEF u, w
<1> QED
  BY <1>2, <1>3

\* Raising and lowering an unsigned integer that stands for such a number.
LEMMA UIntUpDown ==
  ASSUME NEW v \in Int, 0 - MaxNode <= v, v <= MaxNode
  PROVE  /\ v < MaxNode => UInt(UInt(v) + 1) = UInt(v + 1)
         /\ 0 - MaxNode < v => UInt(UInt(v) - 1) = UInt(v - 1)
<1>1. UIntWord \in Nat /\ UIntWord > 2 * MaxNode /\ MaxNode \in Nat
  BY PoolAssumption
<1>2. CASE v >= 0
  <2>1. UInt(v) = v
    BY <1>2, UIntNear
  <2> QED
    BY <2>1
<1>3. CASE v < -1
  <2>1. UInt(v) = v + UIntWord /\ v + 1 \in Int /\ v - 1 \in Int
    BY <1>3, UIntNear
  <2>2. UInt(v + 1) = v + 1 + UIntWord
    BY <1>1, <1>3, UIntNear
  <2>3. 0 - MaxNode < v => UInt(v - 1) = v - 1 + UIntWord
    BY <1>1, <1>3, UIntNear
  <2>4. (v + UIntWord) + 1 \in Nat /\ (v + UIntWord) + 1 < UIntWord
        /\ (v + UIntWord) - 1 \in Nat /\ (v + UIntWord) - 1 < UIntWord
    BY <1>1, <1>3
  <2> QED
    BY <1>1, <2>1, <2>2, <2>3, <2>4, UIntSmall
<1>4. CASE v = -1
  <2>1. UInt(v) = v + UIntWord /\ v + UIntWord = UIntWord - 1
    BY <1>1, <1>4, UIntNear
  <2>2. UInt(UIntWord) = 0 /\ UInt(0) = 0
    BY <1>1, UIntSmall
  <2>3. UInt(UInt(v) + 1) = UInt(v + 1)
    BY <1>1, <1>4, <2>1, <2>2
  <2>4. 0 - MaxNode < v => UInt(v - 1) = v - 1 + UIntWord
    BY <1>1, <1>4, UIntNear
  <2>5. UIntWord - 2 \in Nat \/ MaxNode = 1 \/ MaxNode = 0
    BY <1>1
  <2>6. 0 - MaxNode < v => UIntWord - 2 \in Nat
    BY <1>1, <1>4
  <2>7. 0 - MaxNode < v => UInt(UIntWord - 2) = UIntWord - 2
    BY <1>1, <2>6, UIntSmall
  <2> QED
    BY <1>1, <1>4, <2>1, <2>3, <2>4, <2>7
<1> QED
  BY <1>2, <1>3, <1>4

\* The terms of the accounts are numbers in these bounds.
LEMMA CountTypes ==
  ASSUME TypeInv, NEW s \in Server
  PROVE  /\ IsFiniteSet(Unaccounted(s)) /\ Cardinality(Unaccounted(s)) \in Nat
         /\ Taken(s) \in 0 .. 1 /\ Owed(s) \in Nat
         /\ len[s] \in Nat /\ len[s] <= MaxNode
         /\ availableLen[s] \in Nat
         /\ MainInv => Exited(s) \in Nat /\ Exited(s) <= len[s]
<1>1. NReq \in Nat /\ UIntWord \in Nat /\ MaxNode \in Nat
  BY RequestAssumption, PoolAssumption
<1>2. IsFiniteSet(1 .. NReq)
  BY <1>1, FS_Interval
<1>3. Unaccounted(s) \subseteq 1 .. NReq
  BY DEF Unaccounted
<1>4. IsFiniteSet(Unaccounted(s)) /\ Cardinality(Unaccounted(s)) \in Nat
  BY <1>2, <1>3, FS_Subset, FS_CardinalityType
<1>5. Taken(s) \in 0 .. 1
  BY DEF Taken
<1>6. Owed(s) \in Nat
  BY <1>4, <1>5 DEF Owed
<1>7. len[s] \in Nat /\ len[s] <= MaxNode /\ availableLen[s] \in Nat
  BY <1>1 DEF TypeInv, ConnType
<1>8. xi \in Nat /\ xi >= 1 /\ si \in Nat /\ s \in Nat
  BY <1>1, NodeParts DEF TypeInv, MainType
<1>9. MainInv => Exited(s) \in Nat /\ Exited(s) <= len[s]
  BY <1>7, <1>8 DEF MainInv, Exited
<1> QED
  BY <1>4, <1>5, <1>6, <1>7, <1>9

\* While it counts exactly, available_len is raised and lowered with the count.
LEMMA ExactUpDown ==
  ASSUME TypeInv, MainInv, CountInv, breaks = 0, NEW s \in Server
  PROVE  /\ Owed(s) + Exited(s) < MaxNode + len[s] =>
                UInt(availableLen[s] - 1) = UInt(len[s] - Owed(s) - Exited(s) - 1)
         /\ len[s] < MaxNode + Owed(s) + Exited(s) =>
                UInt(availableLen[s] + 1) = UInt(len[s] - Owed(s) - Exited(s) + 1)
<1>1. Owed(s) \in Nat /\ len[s] \in Nat /\ Exited(s) \in Nat
  BY CountTypes
<1>2. Exited(s) <= len[s] /\ len[s] <= MaxNode /\ Owed(s) <= len[s]
  BY CountTypes DEF CountInv, OwedFits
<1>3. availableLen[s] = UInt(len[s] - Owed(s) - Exited(s))
  BY DEF CountInv, CountsExactly
<1> DEFINE v == len[s] - Owed(s) - Exited(s)
<1>4. v \in Int /\ 0 - MaxNode <= v /\ v <= MaxNode
  BY <1>1, <1>2, PoolAssumption
<1>5. /\ Owed(s) + Exited(s) < MaxNode + len[s] => 0 - MaxNode < v
      /\ len[s] < MaxNode + Owed(s) + Exited(s) => v < MaxNode
  BY <1>1, PoolAssumption
<1>6. availableLen[s] = UInt(v)
  BY <1>3
<1> HIDE DEF v
<1>7. /\ v < MaxNode => UInt(UInt(v) + 1) = UInt(v + 1)
      /\ 0 - MaxNode < v => UInt(UInt(v) - 1) = UInt(v - 1)
  BY <1>4, UIntUpDown
<1> QED
  BY <1>5, <1>6, <1>7 DEF v

\* A step that lets go of none of what is owed changes no account.
LEMMA CountInvStays ==
  ASSUME TypeInv, CountInv, RunPhase' => RunPhase /\ UNCHANGED astray,
         \A s \in Server : /\ availableLen'[s] = availableLen[s] /\ len'[s] = len[s]
                           /\ Owed(s)' \in Nat /\ Owed(s)' <= Owed(s),
         breaks' = 0 => /\ breaks = 0
                        /\ \A s \in Server : Owed(s)' = Owed(s) /\ Exited(s)' = Exited(s),
         TakesOne'
  PROVE  CountInv'
<1>1. \A s \in Server : Owed(s) \in Nat /\ availableLen[s] \in Nat /\ len[s] \in Nat
  BY CountTypes
<1>2. CountsAtMost'
  BY <1>1 DEF CountInv, CountsAtMost
<1>3. OwedFits'
  BY DEF CountInv, OwedFits
<1>4. CountsExactly'
  BY DEF CountInv, CountsExactly, UInt
<1> QED
  BY <1>2, <1>3, <1>4 DEF CountInv

\* As many flows are owed when they are owed by the same listeners.
LEMMA OwedStays ==
  ASSUME TypeInv, \A n \in Node : \A r \in Nat \ {0} : Owes(n, r)' <=> Owes(n, r)
  PROVE  \A s \in Server :
            /\ Unaccounted(s)' = Unaccounted(s) /\ Cardinality(Unaccounted(s)) \in Nat
            /\ (mpc' = "write" <=> mpc = "write") /\ (mpc = "write" => conn' = conn) =>
                  Owed(s)' = Owed(s) /\ Owed(s) \in Nat
<1>1. \A s \in Server : Unaccounted(s)' = Unaccounted(s)
  BY DEF Unaccounted
<1>2. \A s \in Server : Cardinality(Unaccounted(s)) \in Nat /\ Owed(s) \in Nat
  BY CountTypes
<1>3. \A s \in Server : (mpc' = "write" <=> mpc = "write") /\ (mpc = "write" => conn' = conn) =>
         Taken(s)' = Taken(s)
  BY DEF Taken
<1>4. \A s \in Server : Taken(s)' = Taken(s) => Owed(s)' = Owed(s)
  BY <1>1 DEF Owed
<1> QED
  BY <1>1, <1>2, <1>3, <1>4

\* A new connection is one more, and it is available.
LEMMA CountAdded ==
  ASSUME TypeInv, TypeInv', MainInv, NodeInv, FilesInv, CountInv, NEW s \in Server,
         NEW b \in BOOLEAN, AddNode(s, b), RunPhase, RunPhase', mpc # "write", mpc' # "write",
         mpc' \in {"search", "mark", "take"} => ReqServer[cur'] = s
  PROVE  CountInv'
<1>0. PICK k \in Node : k = <<s, len[s] + 1>>
  BY AddNodeEffect DEF TypeInv
<1>1. /\ lpc'[k] \in {"read", "none"} /\ \A n \in Node : n # k => lpc'[n] = lpc[n]
      /\ UNCHANGED <<got, toServer, toClient, astray, breaks>>
      /\ availableLen'[s] = UInt(availableLen[s] + 1)
      /\ len'[s] = len[s] + 1 /\ len[s] < MaxNode
      /\ \A t \in Server : t # s => availableLen'[t] = availableLen[t] /\ len'[t] = len[t]
  BY <1>0, AddNodeEffect DEF TypeInv
<1>2. ~Exists(k)
  BY <1>0, NodeNumbers DEF Exists, TypeInv
<1>3. lpc[k] = "none"
  BY <1>2 DEF NodeInv, NodeOK
<1>4. \A n \in Node : /\ Transit(n)' = Transit(n) /\ got'[n] = got[n]
                      /\ lpc'[n] \in {"unbusy", "account"} <=> lpc[n] \in {"unbusy", "account"}
  BY <1>1, <1>3, TransitSame
<1>5. \A t \in Server : /\ Owed(t)' = Owed(t) /\ Owed(t) \in Nat
                        /\ Exited(t) = 0 /\ Exited(t)' = 0
                        /\ len[t] \in Nat /\ len[t] <= MaxNode /\ availableLen[t] \in Nat
  <2>1. \A t \in Server : Owed(t)' = Owed(t)
    BY <1>4, OwesStays, OwedStays
  <2>2. \A t \in Server : Exited(t) = 0 /\ Exited(t)' = 0
    BY DEF Exited, RunPhase
  <2> QED
    BY <2>1, <2>2, CountTypes
<1>6. MaxNode \in Nat /\ UIntWord \in Nat /\ UIntWord > 2 * MaxNode
  BY PoolAssumption
<1>7. ~astray => availableLen[s] + Owed(s) <= len[s]
  BY DEF CountInv, CountsAtMost
<1>8. ~astray => availableLen'[s] = availableLen[s] + 1
  <2>1. ~astray => availableLen[s] + 1 \in Nat /\ availableLen[s] + 1 < UIntWord
    BY <1>1, <1>5, <1>6, <1>7
  <2> QED
    BY <1>1, <2>1, UIntSmall
<1>9. TakesOne'
  BY <1>1, <1>5, <1>8 DEF TakesOne
<1>10. CountsAtMost'
  <2>1. \A t \in Server \ {s} : ~astray => availableLen'[t] + Owed(t)' <= len'[t]
    BY <1>1, <1>5 DEF CountInv, CountsAtMost
  <2>2. ~astray => availableLen'[s] + Owed(s)' <= len'[s]
    BY <1>1, <1>5, <1>7, <1>8
  <2> QED
    BY <1>1, <2>1, <2>2 DEF CountsAtMost
<1>11. OwedFits'
  <2>1. \A t \in Server : breaks = 0 => Owed(t)' <= len'[t]
    BY <1>1, <1>5 DEF CountInv, OwedFits
  <2> QED
    BY <1>1, <2>1 DEF OwedFits
<1>12. CountsExactly'
  <2>1. ASSUME breaks = 0
        PROVE  availableLen'[s] = UInt(len'[s] - Owed(s)' - Exited(s)')
    <3>1. UInt(availableLen[s] + 1) = UInt(len[s] - Owed(s) - Exited(s) + 1)
      BY <1>1, <1>5, <1>6, <2>1, ExactUpDown
    <3>2. len[s] - Owed(s) - Exited(s) + 1 = len'[s] - Owed(s)' - Exited(s)'
      BY <1>1, <1>5
    <3> QED
      BY <1>1, <3>1, <3>2
  <2>2. ASSUME breaks = 0, NEW t \in Server \ {s}
        PROVE  availableLen'[t] = UInt(len'[t] - Owed(t)' - Exited(t)')
    BY <1>1, <1>5, <2>2 DEF CountInv, CountsExactly
  <2> QED
    BY <1>1, <2>1, <2>2 DEF CountsExactly, UInt
<1> QED
  BY <1>9, <1>10, <1>11, <1>12 DEF CountInv

\* Every step that lowers or raises available_len has its flow: it counts the
\* connections that are not in use.
LEMMA CountInvStep ==
  ASSUME IInv, [Next]_vars
  PROVE  CountInv'
<1> USE DEF list, node, files, wire, main, poolVars, reqVars
<1>0. TypeInv' /\ MainInv' /\ breaks \in Nat
  <2>1. TypeInv' /\ MainInv'
    BY TypeInvStep, MainInvStep
  <2>2. breaks \in Nat
    BY PoolAssumption DEF IInv, TypeInv, ConnType
  <2> QED
    BY <2>1, <2>2
<1>1. CASE Quiet
  <2>1. \A m \in Node : /\ Transit(m)' = Transit(m)
                        /\ got'[m] = got[m]
                        /\ got[m] # 0 => (lpc'[m] \in {"unbusy", "account"}
                                             <=> lpc[m] \in {"unbusy", "account"})
    BY <1>1, QuietFlows, QuietListeners
  <2>2. /\ mpc' = "write" <=> mpc = "write"
        /\ mpc = "write" => conn' = conn
        /\ RunPhase' => RunPhase
        /\ UNCHANGED <<availableLen, len, astray, breaks>>
        /\ \A s \in Server : Exited(s)' = Exited(s)
    BY <1>1, QuietRest DEF HasConn
  <2>3. \A s \in Server : Owed(s)' = Owed(s) /\ Owed(s) \in Nat
    BY <2>1, <2>2, OwesStays, OwedStays DEF IInv
  <2>4. TakesOne'
    BY <1>1, QuietRest DEF IInv, CountInv, TakesOne, HasConn
  <2> QED
    BY <2>2, <2>3, <2>4, CountInvStays DEF IInv
<1>2. ASSUME OpenFirst, UNCHANGED reqVars PROVE CountInv'
  <2>1. /\ AddNode(si, FALSE) /\ si \in Server /\ RunPhase /\ RunPhase'
        /\ mpc # "write" /\ mpc' \notin {"search", "mark", "take", "write"}
    BY <1>2 DEF OpenFirst, IInv, TypeInv, MainType, RunPhase
  <2> QED
    BY <1>0, <2>1, CountAdded DEF IInv
<1>3. ASSUME ExitNode(FALSE), UNCHANGED reqVars PROVE CountInv'
  <2>1. /\ mpc = "exit" /\ xi <= len[si] /\ mpc' \in {"exit", "exitWrite"}
        /\ UNCHANGED <<len, lpc, got, toServer, toClient, astray, breaks, si>>
        /\ connected[<<si, xi>>] =>
              /\ mpc' = "exitWrite" /\ xi' = xi
              /\ availableLen' = [availableLen EXCEPT ![si] = UInt(availableLen[si] - 1)]
    BY <1>3 DEF ExitNode
  <2>2. TakesOne' /\ CountsAtMost'
    BY <2>1 DEF TakesOne, CountsAtMost, RunPhase
  <2> SUFFICES ASSUME breaks = 0 PROVE OwedFits' /\ CountsExactly'
    BY <2>1, <2>2 DEF CountInv, OwedFits, CountsExactly
  <2>3. \A s \in Server : Owed(s)' = Owed(s) /\ Owed(s) \in Nat
    <3>1. \A m \in Node : Transit(m)' = Transit(m)
      BY <2>1, TransitSame
    <3> QED
      BY <2>1, <3>1, OwesStays, OwedStays DEF IInv
  <2>4. si \in Server /\ xi \in Nat /\ xi >= 1 /\ len[si] \in Nat /\ len[si] <= MaxNode
    BY MainNumbers, CountTypes DEF IInv, TypeInv, MainType
  <2>5. PICK k \in Node : k = <<si, xi>>
    BY <2>1, <2>4, NodeParts, PoolAssumption
  <2>6. Exists(k) /\ ~ExitSent(k)
    BY <2>1, <2>4, <2>5, MainNumbers DEF IInv, Exists, ExitSent
  <2>7. connected[k]
    <3>1. lpc[k] \notin Closing
      BY <2>6, OpenUntilExit DEF IInv
    <3> QED
      BY <2>6, <3>1 DEF IInv, NodeInv, NodeOK, Closing
  <2>8. /\ mpc' = "exitWrite" /\ xi' = xi
        /\ availableLen' = [availableLen EXCEPT ![si] = UInt(availableLen[si] - 1)]
    BY <2>1, <2>5, <2>7
  <2>9. /\ Exited(si) = xi - 1 /\ Exited(si)' = xi
        /\ \A s \in Server \ {si} : Exited(s)' = Exited(s)
    BY <2>1, <2>4, <2>8, MainNumbers DEF Exited, IInv
  <2>10. OwedFits'
    BY <2>1, <2>3 DEF IInv, CountInv, OwedFits
  <2>11. availableLen'[si] = UInt(len'[si] - Owed(si)' - Exited(si)')
    <3>1. availableLen'[si] = UInt(availableLen[si] - 1)
      BY <2>4, <2>8 DEF IInv, TypeInv, ConnType
    <3>2. Owed(si) <= len[si] /\ MaxNode \in Nat
      BY <2>4, PoolAssumption DEF IInv, CountInv, OwedFits
    <3>3. Owed(si) + Exited(si) < MaxNode + len[si]
      BY <2>1, <2>3, <2>4, <2>9, <3>2
    <3>4. UInt(availableLen[si] - 1) = UInt(len[si] - Owed(si) - Exited(si) - 1)
      BY <2>4, <3>3, ExactUpDown DEF IInv
    <3>5. len[si] - Owed(si) - Exited(si) - 1 = len'[si] - Owed(si)' - Exited(si)'
      BY <2>1, <2>3, <2>4, <2>9
    <3> QED
      BY <3>1, <3>4, <3>5
  <2>12. \A s \in Server \ {si} : availableLen'[s] = UInt(len'[s] - Owed(s)' - Exited(s)')
    BY <2>1, <2>3, <2>8, <2>9 DEF IInv, TypeInv, ConnType, CountInv, CountsExactly
  <2> QED
    BY <2>1, <2>10, <2>11, <2>12 DEF CountsExactly, UInt
<1>4. ASSUME ExitWrite, UNCHANGED reqVars PROVE CountInv'
  <2>1. /\ mpc = "exitWrite" /\ mpc' \in {"exit", "killed"}
        /\ UNCHANGED <<len, availableLen, lpc, got, breaks, si>>
        /\ WriteSent(<<si, xi>>, 0) \/ UNCHANGED wire
        /\ mpc' = "exit" => xi' = xi + 1
        /\ mpc' = "killed" => ~Connects(<<si, xi>>)
    BY <1>4 DEF ExitWrite, WriteLost, WriteKills
  <2>2. PICK k \in Node : k = <<si, xi>> /\ Exists(k) /\ ~ExitSent(k)
    BY <2>1, ExitingNode DEF IInv
  <2>3. \A m \in Node : \A r \in Nat \ {0} : Owes(m, r)' <=> Owes(m, r)
    <3>1. CASE UNCHANGED wire
      BY <2>1, <3>1, TransitSame, OwesStays
    <3>2. CASE WriteSent(<<si, xi>>, 0)
      <4>1. PICK z \in Nat : z = 0
        OBVIOUS
      <4>2. WriteSent(k, z) /\ ConnType
        BY <2>2, <3>2, <4>1 DEF IInv, TypeInv
      <4>3. PICK m \in Node : toServer' = [toServer EXCEPT ![m] = Append(@, z)]
        BY ONLY <4>2, WriteSentEffect
      <4>4. toClient' = toClient
        BY <3>2 DEF WriteSent
      <4>5. \A n \in Node : \A r \in Nat \ {0} :
               Owes(n, r)' <=> Owes(n, r) \/ (n = m /\ r = z)
        BY <2>1, <4>2, <4>3, <4>4, OwesSend
      <4>6. \A r \in Nat \ {0} : r # z
        BY <4>1
      <4> QED
        BY <4>5, <4>6
    <3> QED
      BY <2>1, <3>1, <3>2
  <2>4. \A s \in Server : Owed(s)' = Owed(s) /\ Owed(s) \in Nat
    BY <2>1, <2>3, OwedStays DEF IInv
  <2>5. ASSUME breaks = 0 PROVE \A s \in Server : Exited(s)' = Exited(s)
    <3>1. sock[k] = "open" /\ up[k]
      BY <2>2, <2>5, OpenUntilExit DEF IInv, NodeInv, NodeOK
    <3>2. mpc' = "exit" /\ xi' = xi + 1
      BY <2>1, <2>2, <3>1 DEF Connects, Holds
    <3> QED
      BY <2>1, <3>2, MainNumbers DEF Exited, IInv
  <2>6. TakesOne' /\ ~RunPhase'
    BY <2>1 DEF TakesOne, RunPhase
  <2> QED
    BY <2>1, <2>4, <2>5, <2>6, CountInvStays DEF IInv
<1>5. ASSUME BeginSearch PROVE CountInv'
  <2>1. \A m \in Node : Transit(m)' = Transit(m)
    BY <1>5, TransitSame DEF BeginSearch
  <2>2. \A m \in Node : /\ got'[m] = got[m]
                        /\ got[m] # 0 => (lpc'[m] \in {"unbusy", "account"}
                                             <=> lpc[m] \in {"unbusy", "account"})
    BY <1>5 DEF IInv, TypeInv, ConnType, NodeInv, NodeOK, BeginSearch
  <2>3. /\ mpc' = "write" <=> mpc = "write"
        /\ mpc = "write" => conn' = conn
        /\ RunPhase' => RunPhase
        /\ UNCHANGED <<availableLen, len, astray, breaks>>
    BY <1>5 DEF RunPhase, BeginSearch
  <2>4. \A s \in Server : Owed(s)' = Owed(s) /\ Owed(s) \in Nat
    BY <2>1, <2>2, <2>3, OwesStays, OwedStays DEF IInv
  <2>5. \A s \in Server : Exited(s)' = Exited(s)
    BY <1>0, <1>5, <2>3, MainNumbers DEF IInv, MainInv, Exited, BeginSearch
  <2>6. TakesOne'
    <3>1. /\ cur <= NReq /\ cur' = cur
          /\ mpc' \in {"search", "mark", "take"} => availableLen[ReqServer[cur]] # 0
      BY <1>5 DEF BeginSearch
    <3>2. ReqServer[cur] \in Server
      BY <3>1, RequestAssumption DEF IInv, TypeInv, MainType
    <3>3. availableLen[ReqServer[cur]] \in Nat
      BY <3>2, CountTypes DEF IInv
    <3> QED
      BY <2>3, <3>1, <3>3 DEF TakesOne
  <2> QED
    BY <2>3, <2>4, <2>5, <2>6, CountInvStays DEF IInv
<1>6. ASSUME SearchNode PROVE CountInv'
  <2>1. \A m \in Node : Transit(m)' = Transit(m)
    BY <1>6, TransitSame DEF SearchNode
  <2>2. \A m \in Node : /\ got'[m] = got[m]
                        /\ got[m] # 0 => (lpc'[m] \in {"unbusy", "account"}
                                             <=> lpc[m] \in {"unbusy", "account"})
    BY <1>6 DEF IInv, TypeInv, ConnType, NodeInv, NodeOK, SearchNode
  <2>3. /\ mpc' = "write" <=> mpc = "write"
        /\ mpc = "write" => conn' = conn
        /\ RunPhase' => RunPhase
        /\ UNCHANGED <<availableLen, len, astray, breaks>>
    BY <1>6 DEF RunPhase, SearchNode
  <2>4. \A s \in Server : Owed(s)' = Owed(s) /\ Owed(s) \in Nat
    BY <2>1, <2>2, <2>3, OwesStays, OwedStays DEF IInv
  <2>5. \A s \in Server : Exited(s)' = Exited(s)
    BY <1>0, <1>6, <2>3, MainNumbers DEF IInv, MainInv, Exited, SearchNode
  <2>6. TakesOne'
    BY <1>6, <2>3 DEF IInv, CountInv, TakesOne, SearchNode
  <2> QED
    BY <2>3, <2>4, <2>5, <2>6, CountInvStays DEF IInv
<1>7. ASSUME Grow PROVE CountInv'
  <2>1. /\ AddNode(ReqServer[cur], TRUE) /\ mpc = "grow" /\ mpc' = "mark" /\ cur' = cur
        /\ RunPhase /\ RunPhase'
    BY <1>7 DEF Grow, RunPhase
  <2>2. ReqServer[cur] \in Server
    BY <2>1, CurrentRequest DEF IInv, Serving
  <2> QED
    BY <1>0, <2>1, <2>2, CountAdded DEF IInv
<1>8. ASSUME MarkBusy PROVE CountInv'
  <2>1. \A m \in Node : Transit(m)' = Transit(m)
    BY <1>8, TransitSame DEF MarkBusy
  <2>2. \A m \in Node : /\ got'[m] = got[m]
                        /\ got[m] # 0 => (lpc'[m] \in {"unbusy", "account"}
                                             <=> lpc[m] \in {"unbusy", "account"})
    BY <1>8 DEF IInv, TypeInv, ConnType, NodeInv, NodeOK, MarkBusy
  <2>3. /\ mpc' = "write" <=> mpc = "write"
        /\ mpc = "write" => conn' = conn
        /\ RunPhase' => RunPhase
        /\ UNCHANGED <<availableLen, len, astray, breaks>>
    BY <1>8 DEF RunPhase, MarkBusy
  <2>4. \A s \in Server : Owed(s)' = Owed(s) /\ Owed(s) \in Nat
    BY <2>1, <2>2, <2>3, OwesStays, OwedStays DEF IInv
  <2>5. \A s \in Server : Exited(s)' = Exited(s)
    BY <1>0, <1>8, <2>3, MainNumbers DEF IInv, MainInv, Exited, MarkBusy
  <2>6. TakesOne'
    BY <1>8, <2>3 DEF IInv, CountInv, TakesOne, MarkBusy
  <2> QED
    BY <2>3, <2>4, <2>5, <2>6, CountInvStays DEF IInv
<1>9. ASSUME TakeAvailable PROVE CountInv'
  <2>0. PICK c \in Server : c = conn[1] /\ c = ReqServer[cur]
    BY <1>9, NodeParts DEF TakeAvailable, IInv, MainInv, HasConn
  <2>1. /\ mpc = "take" /\ mpc' = "write"
        /\ availableLen' = [availableLen EXCEPT ![c] = UInt(availableLen[c] - 1)]
        /\ UNCHANGED <<len, lpc, got, toServer, toClient, astray, breaks, conn>>
    BY <1>9, <2>0 DEF TakeAvailable
  <2>2. \A s \in Server : Unaccounted(s)' = Unaccounted(s)
    <3>1. \A m \in Node : Transit(m)' = Transit(m)
      BY <2>1, TransitSame
    <3> QED
      BY <2>1, <3>1, OwesStays, OwedStays DEF IInv
  <2>3. \A s \in Server : /\ Owed(s)' = IF s = c THEN Owed(s) + 1 ELSE Owed(s)
                          /\ Exited(s) = 0 /\ Exited(s)' = 0
                          /\ Owed(s) \in Nat /\ len[s] \in Nat /\ len[s] <= MaxNode
                          /\ availableLen[s] \in Nat
    <3>1. \A s \in Server : /\ Taken(s) = 0 /\ Taken(s)' = IF s = c THEN 1 ELSE 0
                            /\ Exited(s) = 0 /\ Exited(s)' = 0
      BY <2>0, <2>1 DEF Taken, Exited
    <3>2. \A s \in Server : Cardinality(Unaccounted(s)) \in Nat
      BY CountTypes DEF IInv
    <3>3. \A s \in Server : Owed(s)' = IF s = c THEN Owed(s) + 1 ELSE Owed(s)
      BY <2>2, <3>1, <3>2 DEF Owed
    <3> QED
      BY <3>1, <3>3, CountTypes DEF IInv
  <2>4. /\ MaxNode \in Nat /\ UIntWord \in Nat /\ UIntWord > 2 * MaxNode
        /\ RunPhase /\ (breaks = 0 => ~astray)
    BY <2>1, PoolAssumption DEF RunPhase, IInv, FilesInv
  <2>5. /\ availableLen'[c] = UInt(availableLen[c] - 1)
        /\ \A s \in Server \ {c} : availableLen'[s] = availableLen[s]
    BY <2>1 DEF IInv, TypeInv, ConnType
  <2>6. ASSUME ~astray
        PROVE  /\ availableLen'[c] = availableLen[c] - 1 /\ availableLen[c] >= 1
               /\ \A s \in Server : availableLen[s] + Owed(s) <= len[s]
    <3>1. availableLen[c] >= 1
      BY <2>0, <2>1, <2>6 DEF IInv, CountInv, TakesOne
    <3>2. \A s \in Server : availableLen[s] + Owed(s) <= len[s]
      BY <2>4, <2>6 DEF IInv, CountInv, CountsAtMost
    <3>3. availableLen[c] - 1 \in Nat /\ availableLen[c] - 1 < UIntWord
      BY <2>1, <2>3, <2>4, <3>1, <3>2
    <3>4. UInt(availableLen[c] - 1) = availableLen[c] - 1
      BY <3>3, UIntSmall
    <3> QED
      BY <2>5, <3>1, <3>2, <3>4
  <2>7. ~astray => \A s \in Server : availableLen'[s] + Owed(s)' <= len[s]
    <3>1. ~astray => availableLen'[c] + Owed(c)' <= len[c]
      BY <2>1, <2>3, <2>6
    <3>2. \A s \in Server \ {c} : ~astray => availableLen'[s] + Owed(s)' <= len[s]
      BY <2>3, <2>5, <2>6
    <3> QED
      BY <3>1, <3>2
  <2>8. CountsAtMost' /\ TakesOne'
    BY <2>1, <2>7 DEF CountsAtMost, TakesOne
  <2>9. \A s \in Server : breaks = 0 => Owed(s)' <= len[s]
    <3>1. \A s \in Server : Owed(s)' \in Nat
      BY <2>3
    <3>2. \A s \in Server : ~astray => availableLen'[s] \in Nat
      BY <2>1, <2>3, <2>5, <2>6
    <3> QED
      BY <2>3, <2>4, <2>7, <3>1, <3>2
  <2>10. ASSUME breaks = 0 PROVE availableLen'[c] = UInt(len[c] - Owed(c)' - Exited(c)')
    <3>1. Owed(c) + Exited(c) < MaxNode + len[c]
      <4>1. Owed(c) + 1 <= len[c]
        BY <2>1, <2>3, <2>9, <2>10
      <4> QED
        BY <2>1, <2>3, <2>4, <4>1
    <3>2. UInt(availableLen[c] - 1) = UInt(len[c] - Owed(c) - Exited(c) - 1)
      BY <2>1, <2>10, <3>1, ExactUpDown DEF IInv
    <3>3. len[c] - Owed(c) - Exited(c) - 1 = len[c] - Owed(c)' - Exited(c)'
      BY <2>1, <2>3
    <3> QED
      BY <2>5, <3>2, <3>3
  <2>11. ASSUME breaks = 0, NEW s \in Server \ {c}
         PROVE  availableLen'[s] = UInt(len[s] - Owed(s)' - Exited(s)')
    BY <2>3, <2>5, <2>11 DEF IInv, CountInv, CountsExactly
  <2>12. CountsExactly' /\ OwedFits'
    BY <2>1, <2>9, <2>10, <2>11 DEF CountsExactly, OwedFits, UInt
  <2> QED
    BY <2>8, <2>12 DEF CountInv
<1>10. ASSUME WriteRequest PROVE CountInv'
  <2>1. /\ mpc = "write" /\ mpc' \in {"request", "killed"} /\ RunPhase
        /\ UNCHANGED <<len, availableLen, lpc, got, breaks, conn>>
        /\ \/ WriteSent(conn, cur) /\ mpc' = "request"
           \/ UNCHANGED wire /\ ~Connects(conn)
    BY <1>10 DEF WriteRequest, WriteLost, WriteKills, WriteSent, RunPhase
  <2>2. conn \in Node /\ cur \in 1 .. NReq /\ cur \in Nat
    BY <2>1, CurrentRequest, RequestAssumption DEF IInv, MainInv, HasConn, Serving
  <2>3. TakesOne' /\ \A s \in Server : Taken(s)' = 0 /\ Taken(s) = IF s = conn[1] THEN 1 ELSE 0
    BY <2>1 DEF TakesOne, Taken
  <2>4. CASE UNCHANGED wire /\ ~Connects(conn)
    <3>1. breaks # 0
      BY <2>1, <2>4, WriteConnects DEF IInv
    <3>2. \A s \in Server : /\ Unaccounted(s)' = Unaccounted(s)
                            /\ Cardinality(Unaccounted(s)) \in Nat
      BY <2>1, <2>4, TransitSame, OwesStays, OwedStays DEF IInv
    <3>3. \A s \in Server : Owed(s)' \in Nat /\ Owed(s)' <= Owed(s)
      BY <2>3, <3>2 DEF Owed
    <3> QED
      BY <2>1, <2>3, <2>4, <3>1, <3>3, CountInvStays DEF IInv
  <2>5. CASE WriteSent(conn, cur)
    <3>1. PICK m \in Node : /\ sock[m] = "open" /\ sockfd[m] = sockfd[conn] /\ up[m]
                            /\ toServer' = [toServer EXCEPT ![m] = Append(@, cur)]
                            /\ astray' <=> astray \/ m # conn
      BY <2>2, <2>5, WriteSentEffect DEF IInv, TypeInv
    <3>2. toClient' = toClient
      BY <2>5 DEF WriteSent
    <3>3. breaks = 0 => ~astray'
      BY <2>1, FilesInvStep DEF FilesInv
    <3>4. CASE astray'
      BY <2>1, <2>3, <3>3, <3>4 DEF CountInv, CountsAtMost, OwedFits, CountsExactly
    <3>5. CASE ~astray'
      <4>1. m = conn /\ ~astray /\ UNCHANGED astray
        BY <1>0, <3>1, <3>5 DEF IInv, TypeInv, ConnType
      <4>2. \A n \in Node : \A r \in Nat \ {0} :
               Owes(n, r)' <=> Owes(n, r) \/ (n = conn /\ r = cur)
        BY <2>1, <2>2, <3>1, <3>2, <4>1, OwesSend DEF IInv, TypeInv
      <4>3. \A n \in Node : ~Owes(n, cur)
        BY <2>2, OwesAt DEF IInv, TypeInv, FlowInv
      <4>4. ASSUME NEW s \in Server PROVE Owed(s)' = Owed(s) /\ Owed(s) \in Nat
        <5>1. Unaccounted(s)' = IF s = conn[1] THEN Unaccounted(s) \cup {cur} ELSE Unaccounted(s)
          BY <2>2, <4>2 DEF Unaccounted
        <5>2. cur \notin Unaccounted(s)
          BY <4>3 DEF Unaccounted
        <5>3. /\ IsFiniteSet(Unaccounted(s)) /\ Cardinality(Unaccounted(s)) \in Nat
              /\ Owed(s) \in Nat
          BY CountTypes DEF IInv
        <5>4. Cardinality(Unaccounted(s) \cup {cur}) = Cardinality(Unaccounted(s)) + 1
          BY <5>2, <5>3, FS_AddElement
        <5>5. CASE s = conn[1]
          BY <2>3, <5>1, <5>3, <5>4, <5>5 DEF Owed
        <5>6. CASE s # conn[1]
          BY <2>3, <5>1, <5>3, <5>6 DEF Owed
        <5> QED
          BY <5>5, <5>6
      <4>5. \A s \in Server : Exited(s)' = Exited(s)
        BY <2>1, <2>5 DEF Exited
      <4> QED
        BY <2>1, <2>3, <3>5, <4>1, <4>4, <4>5, CountInvStays DEF IInv
    <3> QED
      BY <3>4, <3>5
  <2> QED
    BY <2>1, <2>4, <2>5
<1>11. ASSUME NEW n \in Node, ListenRead(n), UNCHANGED reqVars PROVE CountInv'
  <2>1. UNCHANGED <<availableLen, len, astray, breaks, mpc, conn, cur, si, xi>>
    BY <1>11 DEF ListenRead
  <2>2. \A m \in Node : \A r \in Nat \ {0} : Owes(m, r)' <=> Owes(m, r)
    BY <1>11, OwesRead DEF IInv, TypeInv
  <2>3. \A s \in Server : Owed(s)' = Owed(s) /\ Owed(s) \in Nat
    BY <2>1, <2>2, OwedStays DEF IInv
  <2>4. \A s \in Server : Exited(s)' = Exited(s)
    BY <2>1 DEF Exited
  <2>5. TakesOne' /\ (RunPhase' => RunPhase)
    BY <2>1 DEF IInv, CountInv, TakesOne, RunPhase
  <2> QED
    BY <2>1, <2>3, <2>4, <2>5, CountInvStays DEF IInv
<1>12. ASSUME NEW n \in Node, ListenFail(n), UNCHANGED reqVars PROVE CountInv'
  <2>1. \A m \in Node : Transit(m)' = Transit(m)
    BY <1>12, TransitSame DEF ListenFail
  <2>2. \A m \in Node : /\ got'[m] = got[m]
                        /\ got[m] # 0 => (lpc'[m] \in {"unbusy", "account"}
                                             <=> lpc[m] \in {"unbusy", "account"})
    BY <1>12 DEF IInv, TypeInv, ConnType, NodeInv, NodeOK, ListenFail
  <2>3. /\ mpc' = "write" <=> mpc = "write"
        /\ mpc = "write" => conn' = conn
        /\ RunPhase' => RunPhase
        /\ UNCHANGED <<availableLen, len, astray, breaks>>
    BY <1>12 DEF RunPhase, ListenFail
  <2>4. \A s \in Server : Owed(s)' = Owed(s) /\ Owed(s) \in Nat
    BY <2>1, <2>2, <2>3, OwesStays, OwedStays DEF IInv
  <2>5. \A s \in Server : Exited(s)' = Exited(s)
    BY <1>0, <1>12, <2>3, MainNumbers DEF IInv, MainInv, Exited, ListenFail
  <2>6. TakesOne'
    BY <1>12, <2>3 DEF IInv, CountInv, TakesOne, ListenFail
  <2> QED
    BY <2>3, <2>4, <2>5, <2>6, CountInvStays DEF IInv
<1>13. ASSUME NEW n \in Node, ListenUnbusy(n), UNCHANGED reqVars PROVE CountInv'
  <2>1. \A m \in Node : Transit(m)' = Transit(m)
    BY <1>13, TransitSame DEF ListenUnbusy
  <2>2. \A m \in Node : /\ got'[m] = got[m]
                        /\ got[m] # 0 => (lpc'[m] \in {"unbusy", "account"}
                                             <=> lpc[m] \in {"unbusy", "account"})
    BY <1>13 DEF IInv, TypeInv, ConnType, NodeInv, NodeOK, ListenUnbusy
  <2>3. /\ mpc' = "write" <=> mpc = "write"
        /\ mpc = "write" => conn' = conn
        /\ RunPhase' => RunPhase
        /\ UNCHANGED <<availableLen, len, astray, breaks>>
    BY <1>13 DEF RunPhase, ListenUnbusy
  <2>4. \A s \in Server : Owed(s)' = Owed(s) /\ Owed(s) \in Nat
    BY <2>1, <2>2, <2>3, OwesStays, OwedStays DEF IInv
  <2>5. \A s \in Server : Exited(s)' = Exited(s)
    BY <1>0, <1>13, <2>3, MainNumbers DEF IInv, MainInv, Exited, ListenUnbusy
  <2>6. TakesOne'
    BY <1>13, <2>3 DEF IInv, CountInv, TakesOne, ListenUnbusy
  <2> QED
    BY <2>3, <2>4, <2>5, <2>6, CountInvStays DEF IInv
<1>14. ASSUME NEW n \in Node, ListenAccount(n), UNCHANGED reqVars PROVE CountInv'
  <2> DEFINE s == n[1]
             g == got[n]
  <2>1. /\ lpc[n] = "account" /\ s \in Server /\ g \in Nat
        /\ UNCHANGED <<len, got, toServer, toClient, astray, breaks, mpc, conn, cur, si, xi>>
        /\ \A m \in Node \ {n} : lpc'[m] = lpc[m]
        /\ lpc'[n] \notin {"unbusy", "account"}
    BY <1>14, NodeParts DEF ListenAccount, IInv, TypeInv, ConnType
  <2>2. /\ g = 0 => UNCHANGED availableLen
        /\ g # 0 => /\ availableLen'[s] = UInt(availableLen[s] + 1)
                    /\ \A t \in Server \ {s} : availableLen'[t] = availableLen[t]
    BY <1>14, <2>1 DEF ListenAccount, IInv, TypeInv, ConnType
  <2> HIDE DEF s
  <2>3. /\ \A m \in Node : Transit(m)' = Transit(m) /\ Places(m)' = Places(m)
        /\ \A t \in Server : Exited(t)' = Exited(t) /\ Taken(t)' = Taken(t)
    BY <2>1, TransitSame DEF Places, Exited, Taken
  <2>4. CASE g = 0
    <3>1. \A t \in Server : Owed(t)' = Owed(t) /\ Owed(t) \in Nat
      BY <2>1, <2>3, <2>4, OwesStays, OwedStays DEF IInv
    <3>2. TakesOne' /\ (RunPhase' => RunPhase)
      BY <2>1, <2>2, <2>4 DEF IInv, CountInv, TakesOne, RunPhase
    <3> QED
      BY <2>1, <2>2, <2>3, <2>4, <3>1, <3>2, CountInvStays DEF IInv
  <2>5. CASE g # 0
    <3>1. At(n, 0, g) /\ g \in 1 .. NReq
      <4>1. At(n, 0, g)
        BY <2>1 DEF At, Pending
      <4> QED
        BY <2>1, <2>5, <4>1 DEF IInv, FlowInv, TypeInv, MainType
    <3>2. /\ \A m \in Node \ {n} : ~Owes(m, g)
          /\ \A i \in Places(n) : Transit(n)[i] # g
      <4>1. \A m \in Node : \A i \in Nat : At(m, i, g) => m = n /\ i = 0
        BY <2>1, <2>5, <3>1 DEF IInv, FlowInv
      <4>2. \A m \in Node \ {n} : ~Owes(m, g)
        BY <2>1, <4>1, OwesAt DEF IInv, TypeInv
      <4>3. Places(n) \subseteq Nat \ {0}
        BY TransitType DEF IInv, TypeInv, Places
      <4> QED
        BY <4>1, <4>2, <4>3 DEF At
    <3>3. \A m \in Node : \A r \in Nat \ {0} : Owes(m, r)' <=> Owes(m, r) /\ r # g
      <4>1. \A m \in Node \ {n} : \A r \in Nat \ {0} : Owes(m, r)' <=> Owes(m, r) /\ r # g
        BY <2>1, <2>3, <3>2 DEF Owes
      <4>2. \A r \in Nat \ {0} : Owes(n, r)' <=> Owes(n, r) /\ r # g
        BY <2>1, <2>3, <3>2 DEF Owes
      <4> QED
        BY <4>1, <4>2
    <3>4. Owes(n, g)
      BY <2>1 DEF Owes
    <3> HIDE DEF g
    <3>5. ASSUME NEW t \in Server
          PROVE  /\ Owed(t)' = IF t = s THEN Owed(t) - 1 ELSE Owed(t)
                 /\ Owed(t)' \in Nat /\ Owed(t) \in Nat
                 /\ len[t] \in Nat /\ len[t] <= MaxNode /\ availableLen[t] \in Nat
                 /\ Exited(t) \in Nat
      <4>1. Unaccounted(t)' = Unaccounted(t) \ {g}
        BY <3>3 DEF Unaccounted
      <4>2. g \in Unaccounted(t) <=> t = s
        BY <3>1, <3>2, <3>4 DEF Unaccounted, s
      <4>3. /\ IsFiniteSet(Unaccounted(t)) /\ Cardinality(Unaccounted(t)) \in Nat
            /\ Taken(t) \in 0 .. 1
        BY CountTypes DEF IInv
      <4>4. CASE t = s
        <5>1. /\ Cardinality(Unaccounted(t) \ {g}) = Cardinality(Unaccounted(t)) - 1
              /\ Cardinality(Unaccounted(t) \ {g}) \in Nat
          BY <4>2, <4>3, <4>4, FS_RemoveElement, FS_CardinalityType
        <5> QED
          BY <2>3, <4>1, <4>3, <4>4, <5>1, CountTypes DEF Owed, IInv
      <4>5. CASE t # s
        <5>1. Unaccounted(t)' = Unaccounted(t)
          BY <4>1, <4>2, <4>5
        <5> QED
          BY <2>3, <4>3, <4>5, <5>1, CountTypes DEF Owed, IInv
      <4> QED
        BY <4>4, <4>5
    <3>6. MaxNode \in Nat /\ UIntWord \in Nat /\ UIntWord > 2 * MaxNode
      BY PoolAssumption
    <3>7. ASSUME RunPhase, ~astray
          PROVE  /\ availableLen'[s] = availableLen[s] + 1
                 /\ \A t \in Server : availableLen[t] + Owed(t) <= len[t]
      <4>1. \A t \in Server : availableLen[t] + Owed(t) <= len[t]
        BY <3>7 DEF IInv, CountInv, CountsAtMost
      <4>2. availableLen[s] + 1 \in Nat /\ availableLen[s] + 1 < UIntWord
        BY <2>1, <3>5, <3>6, <4>1
      <4>3. UInt(availableLen[s] + 1) = availableLen[s] + 1
        BY <4>2, UIntSmall
      <4> QED
        BY <2>2, <2>5, <4>1, <4>3
    <3>8. CountsAtMost'
      <4>1. ASSUME RunPhase, ~astray, NEW t \in Server
            PROVE  availableLen'[t] + Owed(t)' <= len[t]
        BY <2>1, <2>2, <2>5, <3>5, <3>7, <4>1
      <4> QED
        BY <2>1, <4>1 DEF CountsAtMost, RunPhase
    <3>9. TakesOne'
      <4>1. ASSUME mpc \in {"search", "mark", "take"}, ~astray
            PROVE  availableLen'[ReqServer[cur]] >= 1
        <5>1. ReqServer[cur] \in Server /\ RunPhase
          BY <4>1, CurrentRequest DEF IInv, Serving, RunPhase
        <5>2. availableLen[ReqServer[cur]] >= 1
          BY <4>1 DEF IInv, CountInv, TakesOne
        <5> QED
          BY <2>2, <2>5, <3>5, <3>7, <4>1, <5>1, <5>2
      <4> QED
        BY <2>1, <4>1 DEF TakesOne
    <3>10. OwedFits'
      <4>1. \A t \in Server : breaks = 0 => Owed(t)' <= len[t]
        BY <3>5 DEF IInv, CountInv, OwedFits
      <4> QED
        BY <2>1, <4>1 DEF OwedFits
    <3>11. ASSUME breaks = 0 PROVE availableLen'[s] = UInt(len[s] - Owed(s)' - Exited(s)')
      <4>1. len[s] < MaxNode + Owed(s) + Exited(s)
        BY <2>1, <3>5, <3>6
      <4>2. UInt(availableLen[s] + 1) = UInt(len[s] - Owed(s) - Exited(s) + 1)
        BY <2>1, <3>11, <4>1, ExactUpDown DEF IInv
      <4>3. len[s] - Owed(s) - Exited(s) + 1 = len[s] - Owed(s)' - Exited(s)'
        BY <2>1, <2>3, <3>5
      <4> QED
        BY <2>2, <2>5, <4>2, <4>3
    <3>12. ASSUME breaks = 0, NEW t \in Server \ {s}
           PROVE  availableLen'[t] = UInt(len[t] - Owed(t)' - Exited(t)')
      BY <2>2, <2>3, <2>5, <3>5, <3>12 DEF IInv, CountInv, CountsExactly
    <3>13. CountsExactly'
      BY <2>1, <3>11, <3>12 DEF CountsExactly, UInt
    <3> QED
      BY <3>8, <3>9, <3>10, <3>13 DEF CountInv
  <2> QED
    BY <2>4, <2>5
<1>15. ASSUME NEW n \in Node, ListenLeave(n), UNCHANGED reqVars PROVE CountInv'
  <2>1. \A m \in Node : Transit(m)' = Transit(m)
    BY <1>15, TransitSame DEF ListenLeave
  <2>2. \A m \in Node : /\ got'[m] = got[m]
                        /\ got[m] # 0 => (lpc'[m] \in {"unbusy", "account"}
                                             <=> lpc[m] \in {"unbusy", "account"})
    BY <1>15 DEF IInv, TypeInv, ConnType, NodeInv, NodeOK, ListenLeave
  <2>3. /\ mpc' = "write" <=> mpc = "write"
        /\ mpc = "write" => conn' = conn
        /\ RunPhase' => RunPhase
        /\ UNCHANGED <<availableLen, len, astray, breaks>>
    BY <1>15 DEF RunPhase, ListenLeave
  <2>4. \A s \in Server : Owed(s)' = Owed(s) /\ Owed(s) \in Nat
    BY <2>1, <2>2, <2>3, OwesStays, OwedStays DEF IInv
  <2>5. \A s \in Server : Exited(s)' = Exited(s)
    BY <1>0, <1>15, <2>3, MainNumbers DEF IInv, MainInv, Exited, ListenLeave
  <2>6. TakesOne'
    BY <1>15, <2>3 DEF IInv, CountInv, TakesOne, ListenLeave
  <2> QED
    BY <2>3, <2>4, <2>5, <2>6, CountInvStays DEF IInv
<1>16. ASSUME NEW n \in Node, ListenStamp(n) PROVE CountInv'
  <2>1. \A m \in Node : Transit(m)' = Transit(m)
    BY <1>16, TransitSame DEF ListenStamp, ListenStamped
  <2>2. \A m \in Node : /\ got'[m] = got[m]
                        /\ got[m] # 0 => (lpc'[m] \in {"unbusy", "account"}
                                             <=> lpc[m] \in {"unbusy", "account"})
    BY <1>16 DEF IInv, TypeInv, ConnType, NodeInv, NodeOK, ListenStamp, ListenStamped
  <2>3. /\ mpc' = "write" <=> mpc = "write"
        /\ mpc = "write" => conn' = conn
        /\ RunPhase' => RunPhase
        /\ UNCHANGED <<availableLen, len, astray, breaks>>
    BY <1>16 DEF RunPhase, ListenStamp, ListenStamped
  <2>4. \A s \in Server : Owed(s)' = Owed(s) /\ Owed(s) \in Nat
    BY <2>1, <2>2, <2>3, OwesStays, OwedStays DEF IInv
  <2>5. \A s \in Server : Exited(s)' = Exited(s)
    BY <1>0, <1>16, <2>3, MainNumbers DEF IInv, MainInv, Exited, ListenStamp, ListenStamped
  <2>6. TakesOne'
    BY <1>16, <2>3 DEF IInv, CountInv, TakesOne, ListenStamp, ListenStamped
  <2> QED
    BY <2>3, <2>4, <2>5, <2>6, CountInvStays DEF IInv
<1>17. ASSUME NEW n \in Node, Break(n), UNCHANGED reqVars PROVE CountInv'
  <2>1. UNCHANGED <<availableLen, len, astray, mpc, conn, cur, si, xi>> /\ breaks' = breaks + 1
    BY <1>17 DEF Break
  <2>2. \A m \in Node : \A r \in 1 .. NReq : Owes(m, r)' => Owes(m, r)
    BY <1>17, OwesBreak DEF IInv, TypeInv
  <2>3. ASSUME NEW s \in Server PROVE Owed(s)' \in Nat /\ Owed(s)' <= Owed(s)
    <3>1. Unaccounted(s)' \subseteq Unaccounted(s)
      BY <2>2 DEF Unaccounted
    <3>2. /\ IsFiniteSet(Unaccounted(s)) /\ Cardinality(Unaccounted(s)) \in Nat
          /\ Taken(s) \in 0 .. 1
      BY CountTypes DEF IInv
    <3>3. /\ Cardinality(Unaccounted(s)') \in Nat
          /\ Cardinality(Unaccounted(s)') <= Cardinality(Unaccounted(s))
      BY <3>1, <3>2, FS_Subset, FS_CardinalityType
    <3>4. Taken(s)' = Taken(s)
      BY <2>1 DEF Taken
    <3> QED
      BY <3>2, <3>3, <3>4 DEF Owed
  <2>4. TakesOne' /\ (RunPhase' => RunPhase)
    BY <2>1 DEF IInv, CountInv, TakesOne, RunPhase
  <2> QED
    BY <1>0, <2>1, <2>3, <2>4, CountInvStays DEF IInv
<1>18. ASSUME UNCHANGED vars PROVE CountInv'
  <2>1. \A m \in Node : Transit(m)' = Transit(m)
    BY <1>18, TransitSame DEF vars
  <2>2. \A m \in Node : /\ got'[m] = got[m]
                        /\ got[m] # 0 => (lpc'[m] \in {"unbusy", "account"}
                                             <=> lpc[m] \in {"unbusy", "account"})
    BY <1>18 DEF IInv, TypeInv, ConnType, NodeInv, NodeOK, vars
  <2>3. /\ mpc' = "write" <=> mpc = "write"
        /\ mpc = "write" => conn' = conn
        /\ RunPhase' => RunPhase
        /\ UNCHANGED <<availableLen, len, astray, breaks>>
    BY <1>18 DEF RunPhase, vars
  <2>4. \A s \in Server : Owed(s)' = Owed(s) /\ Owed(s) \in Nat
    BY <2>1, <2>2, <2>3, OwesStays, OwedStays DEF IInv
  <2>5. \A s \in Server : Exited(s)' = Exited(s)
    BY <1>0, <1>18, <2>3, MainNumbers DEF IInv, MainInv, Exited, vars
  <2>6. TakesOne'
    BY <1>18, <2>3 DEF IInv, CountInv, TakesOne, vars
  <2> QED
    BY <2>3, <2>4, <2>5, <2>6, CountInvStays DEF IInv
<1> QED
  BY <1>1, <1>2, <1>3, <1>4, <1>5, <1>6, <1>7, <1>8, <1>9, <1>10, <1>11, <1>12, <1>13, <1>14,
     <1>15, <1>16, <1>17, <1>18, StepKinds

-----------------------------------------------------------------------------
(* The connections of a server that are in use.                            *)

BusyNodes(s) == {n \in Node : n[1] = s /\ busy[n]}

\* While requests are made and no connection has failed, every connection that
\* is in use is one of these and every other of these is idle.
LEMMA IdleOrBusy ==
  ASSUME TypeInv, NodeInv, ExitInv, RunPhase, breaks = 0, NEW s \in Server
  PROVE  /\ BusyNodes(s) \subseteq Listed(s)
         /\ IdleNodes(s) = Listed(s) \ BusyNodes(s)
         /\ IsFiniteSet(BusyNodes(s)) /\ IsFiniteSet(IdleNodes(s))
         /\ Cardinality(BusyNodes(s)) \in Nat
         /\ Cardinality(IdleNodes(s)) = len[s] - Cardinality(BusyNodes(s))
<1>1. BusyNodes(s) \subseteq Listed(s)
  BY DEF BusyNodes, Listed, NodeInv, NodeOK
<1>2. \A n \in Node : Exists(n) => connected[n]
  <2> SUFFICES ASSUME NEW n \in Node, Exists(n) PROVE connected[n]
    OBVIOUS
  <2>1. ~ExitSent(n)
    BY DEF RunPhase, ExitSent
  <2>2. lpc[n] \notin Closing
    BY <2>1, OpenUntilExit
  <2> QED
    BY <2>2 DEF NodeInv, NodeOK, Closing
<1>3. IdleNodes(s) = Listed(s) \ BusyNodes(s)
  BY <1>2 DEF IdleNodes, Idle, Listed, BusyNodes
<1>4. IsFiniteSet(Listed(s)) /\ Cardinality(Listed(s)) = len[s]
  BY ListedCount DEF TypeInv
<1>5. IsFiniteSet(BusyNodes(s)) /\ Cardinality(BusyNodes(s)) \in Nat
  BY <1>1, <1>4, FS_Subset, FS_CardinalityType
<1>6. Listed(s) \cap BusyNodes(s) = BusyNodes(s)
  BY <1>1
<1>7. /\ IsFiniteSet(Listed(s) \ BusyNodes(s))
      /\ Cardinality(Listed(s) \ BusyNodes(s))
            = Cardinality(Listed(s)) - Cardinality(Listed(s) \cap BusyNodes(s))
  BY <1>4, FS_Difference
<1> QED
  BY <1>1, <1>3, <1>4, <1>5, <1>6, <1>7

\* A connection that carries something or whose listener has just read has a
\* flow that is owed.
LEMMA CarriedIsOwed ==
  ASSUME TypeInv, FlowInv, ExitInv, RunPhase, NEW n \in Node,
         Transit(n) # <<>> \/ lpc[n] = "unbusy"
  PROVE  \E r \in 1 .. NReq : Owes(n, r)
<1>1. \A i \in Nat : \A r \in Nat : At(n, i, r) => r \in 1 .. NReq
  BY DEF ExitInv, FlowInv, TypeInv, MainType
<1>2. CASE Transit(n) # <<>>
  <2>1. 1 \in Places(n) /\ Transit(n)[1] \in Nat
    <3>1. Len(Transit(n)) \in Nat /\ Len(Transit(n)) # 0
      BY <1>2, TransitType DEF TypeInv
    <3>2. 1 \in Places(n)
      BY <3>1 DEF Places
    <3> QED
      BY <3>2, TransitType DEF TypeInv
  <2>2. At(n, 1, Transit(n)[1])
    BY <2>1 DEF At
  <2>3. Transit(n)[1] \in 1 .. NReq
    BY <1>1, <2>1, <2>2
  <2> QED
    BY <2>1, <2>3 DEF Owes
<1>3. CASE lpc[n] = "unbusy"
  <2>1. got[n] \in Nat /\ At(n, 0, got[n])
    BY <1>3 DEF At, Pending, TypeInv, ConnType
  <2>2. got[n] \in 1 .. NReq
    BY <1>1, <2>1
  <2> QED
    BY <1>3, <2>2 DEF Owes
<1> QED
  BY <1>2, <1>3

\* No two listeners owe the same flow.
LEMMA OwesOnce ==
  ASSUME TypeInv, FlowInv, NEW m \in Node, NEW n \in Node, NEW r \in 1 .. NReq,
         Owes(m, r), Owes(n, r)
  PROVE  m = n
<1>1. r \in Nat \ {0}
  BY RequestAssumption
<1>2. (\E i \in Nat : At(m, i, r)) /\ (\E j \in Nat : At(n, j, r))
  BY <1>1, OwesAt DEF TypeInv
<1> QED
  BY <1>1, <1>2 DEF FlowInv

\* There are no more connections in use than flows that are owed, as a
\* connection is in use only for a flow.
LEMMA BusyWithin ==
  ASSUME TypeInv, NodeInv, FlowInv, ExitInv, BusyInv, RunPhase, breaks = 0,
         mpc \notin {"take", "write"}, NEW s \in Server
  PROVE  Cardinality(BusyNodes(s)) <= Cardinality(Unaccounted(s))
<1> DEFINE B == BusyNodes(s)
           U == Unaccounted(s)
           f == [n \in B |-> CHOOSE r \in 1 .. NReq : Owes(n, r)]
<1>1. \A n \in B : \E r \in 1 .. NReq : Owes(n, r)
  BY CarriedIsOwed DEF BusyInv, BusyNeeded, BusyNodes
<1>2. \A n \in B : f[n] \in 1 .. NReq /\ Owes(n, f[n])
  BY <1>1
<1>3. \A n \in B : n \in Node /\ n[1] = s
  BY DEF BusyNodes
<1>4. \A n \in B : f[n] \in U
  BY <1>2, <1>3 DEF Unaccounted
<1>5. f \in [B -> U]
  BY <1>4
<1>6. \A m, n \in B : f[m] = f[n] => m = n
  BY <1>2, <1>3, OwesOnce
<1>7. f \in Injection(B, U)
  BY <1>5, <1>6 DEF Injection, IsInjective
<1>8. IsFiniteSet(U)
  BY CountTypes
<1> HIDE DEF f, B, U
<1>9. Cardinality(B) <= Cardinality(U)
  BY <1>7, <1>8, FS_Injection
<1> QED
  BY <1>9 DEF B, U

\* When available_len is not zero there is an idle connection.
LEMMA IdleThere ==
  ASSUME TypeInv, NodeInv, FilesInv, FlowInv, ExitInv, BusyInv, CountInv, RunPhase, breaks = 0,
         mpc \notin {"take", "write"}, NEW s \in Server, availableLen[s] # 0
  PROVE  \E n \in Node : n[1] = s /\ Idle(n)
<1>1. /\ Cardinality(BusyNodes(s)) <= Cardinality(Unaccounted(s))
      /\ Cardinality(BusyNodes(s)) \in Nat
      /\ IsFiniteSet(IdleNodes(s))
      /\ Cardinality(IdleNodes(s)) = len[s] - Cardinality(BusyNodes(s))
  BY BusyWithin, IdleOrBusy
<1>2. /\ Owed(s) \in Nat /\ availableLen[s] \in Nat /\ len[s] \in Nat
      /\ Cardinality(Unaccounted(s)) \in Nat /\ Taken(s) \in 0 .. 1
  BY CountTypes
<1>3. availableLen[s] + Owed(s) <= len[s]
  BY DEF FilesInv, CountInv, CountsAtMost
<1>4. Cardinality(Unaccounted(s)) <= Owed(s)
  BY <1>2 DEF Owed
<1>5. Cardinality(IdleNodes(s)) # 0
  BY <1>1, <1>2, <1>3, <1>4
<1>6. IdleNodes(s) # {}
  BY <1>5, FS_EmptySet
<1> QED
  BY <1>6 DEF IdleNodes

-----------------------------------------------------------------------------
\* A step that leaves the search where it is and takes no connection.
LEMMA SearchInvStays ==
  ASSUME SearchInv, breaks' = 0 => breaks = 0,
         mpc' = "search" /\ breaks = 0 =>
             /\ mpc = "search" /\ cur' = cur /\ xi' = xi
             /\ \A n \in Node : Idle(n) => Idle(n)'
  PROVE  SearchInv'
BY DEF SearchInv

\* A search finds a connection: there is one when it starts, ahead of where it
\* is, and none is taken away.
LEMMA SearchInvStep ==
  ASSUME IInv, [Next]_vars
  PROVE  SearchInv'
<1> USE DEF list, node, files, wire, main, poolVars, reqVars
<1>0. breaks \in Nat
  BY PoolAssumption DEF IInv, TypeInv, ConnType
<1>1. ASSUME OpenFirst, UNCHANGED reqVars PROVE SearchInv'
  <2>1. mpc' # "search"
    BY <1>1 DEF OpenFirst
  <2> QED
    BY <2>1 DEF SearchInv
<1>2. ASSUME OpenFirstFails, UNCHANGED reqVars PROVE SearchInv'
  <2>1. mpc' # "search"
    BY <1>2 DEF OpenFirstFails
  <2> QED
    BY <2>1 DEF SearchInv
<1>3. ASSUME SpawnListeners, UNCHANGED reqVars PROVE SearchInv'
  <2>1. mpc' # "search"
    BY <1>3 DEF SpawnListeners
  <2> QED
    BY <2>1 DEF SearchInv
<1>4. ASSUME ExitNode(FALSE), UNCHANGED reqVars PROVE SearchInv'
  <2>1. mpc' # "search"
    BY <1>4 DEF ExitNode
  <2> QED
    BY <2>1 DEF SearchInv
<1>5. ASSUME ExitWrite, UNCHANGED reqVars PROVE SearchInv'
  <2>1. mpc' # "search"
    BY <1>5 DEF ExitWrite, WriteKills
  <2> QED
    BY <2>1 DEF SearchInv
<1>6. ASSUME ExitAllSent, UNCHANGED reqVars PROVE SearchInv'
  <2>1. mpc' # "search"
    BY <1>6 DEF ExitAllSent
  <2> QED
    BY <2>1 DEF SearchInv
<1>7. ASSUME WaitNode, UNCHANGED reqVars PROVE SearchInv'
  <2>1. mpc' # "search"
    BY <1>7 DEF WaitNode
  <2> QED
    BY <2>1 DEF SearchInv
<1>8. ASSUME WaitAllDone, UNCHANGED reqVars PROVE SearchInv'
  <2>1. mpc' # "search"
    BY <1>8 DEF WaitAllDone
  <2> QED
    BY <2>1 DEF SearchInv
<1>9. ASSUME BeginSearch PROVE SearchInv'
  <2> SUFFICES ASSUME mpc' = "search", breaks = 0
               PROVE  \E n \in Node : n[1] = ReqServer[cur] /\ n[2] >= xi /\ Idle(n)
    BY <1>9 DEF BeginSearch, SearchInv, Idle, Exists
  <2>1. mpc = "request" /\ cur <= NReq /\ availableLen[ReqServer[cur]] # 0 /\ xi = 1
    BY <1>9 DEF BeginSearch, IInv, MainInv
  <2>2. ReqServer[cur] \in Server
    BY <2>1, RequestAssumption DEF IInv, TypeInv, MainType
  <2>3. PICK n \in Node : n[1] = ReqServer[cur] /\ Idle(n)
    BY <2>1, <2>2, IdleThere DEF IInv, RunPhase
  <2>4. n[2] >= 1
    BY NodeNumbers DEF IInv, TypeInv
  <2> QED
    BY <2>1, <2>3, <2>4
<1>10. ASSUME SearchNode PROVE SearchInv'
  <2> SUFFICES ASSUME mpc' = "search", breaks = 0
               PROVE  \E n \in Node : n[1] = ReqServer[cur] /\ n[2] >= xi' /\ Idle(n)
    BY <1>10 DEF SearchNode, SearchInv, Idle, Exists
  <2>1. mpc = "search" /\ xi' = xi + 1 /\ ~Idle(<<ReqServer[cur], xi>>)
    BY <1>10 DEF SearchNode
  <2>2. PICK n \in Node : n[1] = ReqServer[cur] /\ n[2] >= xi /\ Idle(n)
    BY <2>1 DEF IInv, SearchInv
  <2>3. n = <<n[1], n[2]>> /\ n[2] \in Nat /\ xi \in Nat
    BY NodeNumbers, MainNumbers DEF IInv, TypeInv
  <2>4. n[2] # xi
    BY <2>1, <2>2, <2>3
  <2> QED
    BY <2>1, <2>2, <2>3, <2>4
<1>11. ASSUME SearchMisses PROVE SearchInv'
  <2>1. mpc' # "search"
    BY <1>11 DEF SearchMisses
  <2> QED
    BY <2>1 DEF SearchInv
<1>12. ASSUME Grow PROVE SearchInv'
  <2>1. mpc' # "search"
    BY <1>12 DEF Grow
  <2> QED
    BY <2>1 DEF SearchInv
<1>13. ASSUME GiveUp PROVE SearchInv'
  <2>1. mpc' # "search"
    BY <1>13 DEF GiveUp
  <2> QED
    BY <2>1 DEF SearchInv
<1>14. ASSUME MarkBusy PROVE SearchInv'
  <2>1. mpc' # "search"
    BY <1>14 DEF MarkBusy
  <2> QED
    BY <2>1 DEF SearchInv
<1>15. ASSUME TakeAvailable PROVE SearchInv'
  <2>1. mpc' # "search"
    BY <1>15 DEF TakeAvailable
  <2> QED
    BY <2>1 DEF SearchInv
<1>16. ASSUME WriteRequest PROVE SearchInv'
  <2>1. mpc' # "search"
    BY <1>16 DEF WriteRequest, WriteKills
  <2> QED
    BY <2>1 DEF SearchInv
<1>17. ASSUME RequestsDone PROVE SearchInv'
  <2>1. mpc' # "search"
    BY <1>17 DEF RequestsDone
  <2> QED
    BY <2>1 DEF SearchInv
<1>18. ASSUME NEW n \in Node, ListenRead(n), UNCHANGED reqVars PROVE SearchInv'
  <2>1. UNCHANGED <<mpc, cur, xi>> /\ (breaks' = 0 => breaks = 0)
    BY <1>0, <1>18 DEF ListenRead
  <2>2. \A m \in Node : Idle(m) => Idle(m)'
    BY <1>18 DEF IInv, TypeInv, ConnType, Idle, Exists, ListenRead
  <2> QED
    BY <2>1, <2>2, SearchInvStays DEF IInv
<1>19. ASSUME NEW n \in Node, ListenFail(n), UNCHANGED reqVars PROVE SearchInv'
  <2>1. UNCHANGED <<mpc, cur, xi>> /\ (breaks' = 0 => breaks = 0)
    BY <1>0, <1>19 DEF ListenFail
  <2>2. \A m \in Node : Idle(m) => Idle(m)'
    BY <1>19 DEF IInv, TypeInv, ConnType, Idle, Exists, ListenFail
  <2> QED
    BY <2>1, <2>2, SearchInvStays DEF IInv
<1>20. ASSUME NEW n \in Node, ListenUnbusy(n), UNCHANGED reqVars PROVE SearchInv'
  <2>1. UNCHANGED <<mpc, cur, xi>> /\ (breaks' = 0 => breaks = 0)
    BY <1>0, <1>20 DEF ListenUnbusy
  <2>2. \A m \in Node : Idle(m) => Idle(m)'
    BY <1>20 DEF IInv, TypeInv, ConnType, Idle, Exists, ListenUnbusy
  <2> QED
    BY <2>1, <2>2, SearchInvStays DEF IInv
<1>21. ASSUME NEW n \in Node, ListenAccount(n), UNCHANGED reqVars PROVE SearchInv'
  <2>1. UNCHANGED <<mpc, cur, xi>> /\ (breaks' = 0 => breaks = 0)
    BY <1>0, <1>21 DEF ListenAccount
  <2>2. \A m \in Node : Idle(m) => Idle(m)'
    BY <1>21 DEF IInv, TypeInv, ConnType, Idle, Exists, ListenAccount
  <2> QED
    BY <2>1, <2>2, SearchInvStays DEF IInv
<1>22. ASSUME NEW n \in Node, ListenClose(n), UNCHANGED reqVars PROVE SearchInv'
  <2>1. UNCHANGED <<mpc, cur, xi>> /\ (breaks' = 0 => breaks = 0)
    BY <1>0, <1>22 DEF ListenClose
  <2>2. \A m \in Node : Idle(m) => Idle(m)'
    BY <1>22 DEF IInv, TypeInv, ConnType, Idle, Exists, ListenClose
  <2> QED
    BY <2>1, <2>2, SearchInvStays DEF IInv
<1>23. ASSUME NEW n \in Node, ListenDisconnect(n), UNCHANGED reqVars PROVE SearchInv'
  <2>1. UNCHANGED <<len, busy, mpc, cur, xi, breaks>> /\ lpc[n] = "disconnect"
    BY <1>23 DEF ListenDisconnect
  <2>2. ASSUME mpc = "search", breaks = 0 PROVE FALSE
    <3>1. Exists(n) /\ ~ExitSent(n)
      BY <2>1, <2>2 DEF IInv, NodeInv, NodeOK, ExitSent
    <3> QED
      BY <2>1, <2>2, <3>1, OpenUntilExit DEF IInv, Closing
  <2> QED
    BY <2>1, <2>2, SearchInvStays DEF IInv
<1>24. ASSUME NEW n \in Node, ListenLeave(n), UNCHANGED reqVars PROVE SearchInv'
  <2>1. UNCHANGED <<mpc, cur, xi>> /\ (breaks' = 0 => breaks = 0)
    BY <1>0, <1>24 DEF ListenLeave
  <2>2. \A m \in Node : Idle(m) => Idle(m)'
    BY <1>24 DEF IInv, TypeInv, ConnType, Idle, Exists, ListenLeave
  <2> QED
    BY <2>1, <2>2, SearchInvStays DEF IInv
<1>25. ASSUME NEW n \in Node, ListenStamp(n) PROVE SearchInv'
  <2>1. UNCHANGED <<mpc, cur, xi>> /\ (breaks' = 0 => breaks = 0)
    BY <1>0, <1>25 DEF ListenStamp, ListenStamped
  <2>2. \A m \in Node : Idle(m) => Idle(m)'
    BY <1>25 DEF IInv, TypeInv, ConnType, Idle, Exists, ListenStamp, ListenStamped
  <2> QED
    BY <2>1, <2>2, SearchInvStays DEF IInv
<1>26. ASSUME NEW n \in Node, Serve(n), UNCHANGED reqVars PROVE SearchInv'
  <2>1. UNCHANGED <<mpc, cur, xi>> /\ (breaks' = 0 => breaks = 0)
    BY <1>0, <1>26 DEF Serve
  <2>2. \A m \in Node : Idle(m) => Idle(m)'
    BY <1>26 DEF IInv, TypeInv, ConnType, Idle, Exists, Serve
  <2> QED
    BY <2>1, <2>2, SearchInvStays DEF IInv
<1>27. ASSUME NEW n \in Node, ServeEnd(n), UNCHANGED reqVars PROVE SearchInv'
  <2>1. UNCHANGED <<mpc, cur, xi>> /\ (breaks' = 0 => breaks = 0)
    BY <1>0, <1>27 DEF ServeEnd
  <2>2. \A m \in Node : Idle(m) => Idle(m)'
    BY <1>27 DEF IInv, TypeInv, ConnType, Idle, Exists, ServeEnd
  <2> QED
    BY <2>1, <2>2, SearchInvStays DEF IInv
<1>28. ASSUME NEW n \in Node, Break(n), UNCHANGED reqVars PROVE SearchInv'
  <2>1. UNCHANGED <<mpc, cur, xi>> /\ (breaks' = 0 => breaks = 0)
    BY <1>0, <1>28 DEF Break
  <2>2. \A m \in Node : Idle(m) => Idle(m)'
    BY <1>28 DEF IInv, TypeInv, ConnType, Idle, Exists, Break
  <2> QED
    BY <2>1, <2>2, SearchInvStays DEF IInv
<1>29. ASSUME UNCHANGED vars PROVE SearchInv'
  <2>1. UNCHANGED <<mpc, cur, xi>> /\ (breaks' = 0 => breaks = 0)
    BY <1>0, <1>29 DEF vars
  <2>2. \A m \in Node : Idle(m) => Idle(m)'
    BY <1>29 DEF IInv, TypeInv, ConnType, Idle, Exists, vars
  <2> QED
    BY <2>1, <2>2, SearchInvStays DEF IInv
<1> QED
  BY <1>1, <1>2, <1>3, <1>4, <1>5, <1>6, <1>7, <1>8, <1>9, <1>10, <1>11, <1>12, <1>13, <1>14,
     <1>15, <1>16, <1>17, <1>18, <1>19, <1>20, <1>21, <1>22, <1>23, <1>24, <1>25, <1>26,
     <1>27, <1>28, <1>29, StepCases

-----------------------------------------------------------------------------
(* The invariant, and the properties of the client that follow from it.    *)

\* Before the first step there are no connections, and so no flows.
LEMMA InitIInv == Init => IInv
<1> SUFFICES ASSUME Init PROVE IInv
  OBVIOUS
<1> USE PoolAssumption, RequestAssumption
<1>0. PoolInit
  BY DEF Init
<1>1. TypeInv
  <2>1. MainType
    BY NodeParts DEF Init, PoolInit, MainType, MainPc
  <2> QED
    BY <1>0, <2>1, PoolStarts DEF TypeInv
<1>2. \A n \in Node : /\ ~Exists(n) /\ sock[n] = "none" /\ lpc[n] = "none" /\ ~busy[n] /\ ~up[n]
                      /\ ~connected[n] /\ toServer[n] = <<>> /\ toClient[n] = <<>>
  BY <1>0, PoolStarts
<1>3. mpc = "open" /\ started = {} /\ stopped = {} /\ xi = 1 /\ breaks = 0 /\ ~astray
  BY DEF Init, PoolInit
<1>4. \A n \in Node : Transit(n) = <<>> /\ Places(n) = {}
  BY <1>0, PoolStarts
<1>5. \A n \in Node : \A i, r \in Nat : ~At(n, i, r)
  BY <1>0, PoolStarts
<1>6. MainInv
  BY <1>3 DEF MainInv, Serving, HasConn
<1>7. NodeInv
  BY <1>2, <1>3 DEF NodeInv, NodeOK
<1>8. FilesInv
  BY <1>0, PoolStarts
<1>9. FlowInv
  BY <1>3, <1>5 DEF FlowInv
<1>10. ExitInv
  BY <1>2, <1>5 DEF ExitInv, Closing
<1>11. JoinInv
  BY <1>2 DEF JoinInv
<1>12. BusyInv
  BY <1>2, <1>3, <1>4 DEF BusyInv, OneRequest, BusyCovers, BusyNeeded, HasConn
<1>13. CountInv
  <2>1. ASSUME NEW s \in Server
        PROVE  Owed(s) = 0 /\ Exited(s) = 0 /\ len[s] = 0 /\ availableLen[s] = 0
    <3>1. Unaccounted(s) = {}
      BY <1>2, <1>4 DEF Unaccounted, Owes
    <3>2. Taken(s) = 0 /\ Exited(s) = 0
      BY <1>3 DEF Taken, Exited
    <3> QED
      BY <3>1, <3>2, FS_EmptySet DEF Owed, Init, PoolInit
  <2>2. UInt(0) = 0
    BY UIntSmall
  <2> QED
    BY <1>3, <2>1, <2>2 DEF CountInv, TakesOne, CountsAtMost, OwedFits, CountsExactly
<1>14. SearchInv
  BY <1>3 DEF SearchInv
<1> QED
  BY <1>1, <1>6, <1>7, <1>8, <1>9, <1>10, <1>11, <1>12, <1>13, <1>14 DEF IInv

\* The inductive invariant of the client, its connections and the network.
THEOREM Invariance == Spec => []IInv
<1>1. Init => IInv
  BY InitIInv
<1>2. IInv /\ [Next]_vars => IInv'
  <2> SUFFICES ASSUME IInv, [Next]_vars PROVE IInv'
    OBVIOUS
  <2> QED
    BY TypeInvStep, MainInvStep, NodeInvStep, FilesInvStep, FlowInvStep, ExitInvStep,
       JoinInvStep, BusyInvStep, CountInvStep, SearchInvStep DEF IInv
<1> QED
  BY <1>1, <1>2, PTL DEF Spec

\* The client's state stays within the C types and its threads at known places,
\* however many servers, connections, requests and failures there are.
THEOREM TypesKept == Spec => []TypeOK
<1>1. IInv => TypeOK
  <2> SUFFICES ASSUME IInv PROVE TypeOK
    OBVIOUS
  <2>1. ConnType /\ MainType
    BY DEF IInv, TypeInv
  <2> QED
    BY <2>1, PoolTypeParts DEF MainType, TypeOK
<1> QED
  BY <1>1, Invariance, PTL

\* listen_connection clears busy before it has accounted for the flow that
\* has ended, yet until the connections are terminated, and until a write has
\* reached a socket that has another's descriptor, none carries two flows.
THEOREM FlowsDoNotQueue == Spec => []OneFlowPerConnection
<1>1. IInv => OneFlowPerConnection
  <2> SUFFICES ASSUME IInv, RunPhase, ~astray, NEW n \in Node
               PROVE  Len(toServer[n]) + Len(toClient[n]) <= 1
    BY DEF OneFlowPerConnection
  <2>1. /\ Len(Transit(n)) = Len(toClient[n]) + Len(toServer[n])
        /\ Len(toClient[n]) \in Nat /\ Len(toServer[n]) \in Nat /\ Len(Transit(n)) \in Nat
    BY TransitType DEF IInv, TypeInv
  <2>2. \A i \in Places(n) : i = 1
    <3> TAKE i \in Places(n)
    <3>1. i \in Nat \ {0}
      BY <2>1 DEF Places
    <3>2. Transit(n)[i] # 0
      BY <3>1 DEF IInv, ExitInv, At
    <3> QED
      BY <3>2 DEF IInv, BusyInv, OneRequest, Calm
  <2>3. Len(Transit(n)) <= 1
    <3>1. Len(Transit(n)) \in Nat
      BY <2>1
    <3>2. Len(Transit(n)) >= 2 => 2 \in Places(n)
      BY <3>1 DEF Places
    <3> QED
      BY <2>2, <3>1, <3>2
  <2>4. PICK a, b \in Nat : a = Len(toClient[n]) /\ b = Len(toServer[n])
    BY <2>1
  <2>5. a + b <= 1
    BY <2>1, <2>3, <2>4
  <2>6. b + a <= 1
    BY <2>5
  <2> QED
    BY <2>4, <2>6
<1> QED
  BY <1>1, Invariance, PTL

\* The connections that are in use are as many as the flows that are owed, in
\* particular none is in use for two, when no thread is in an update.
LEMMA OwedWithin ==
  ASSUME TypeInv, FlowInv, BusyInv, Quiescent, ~astray, NEW s \in Server
  PROVE  Cardinality(Unaccounted(s)) <= Cardinality(BusyNodes(s))
<1> DEFINE B == BusyNodes(s)
           U == Unaccounted(s)
           f == [r \in U |-> CHOOSE n \in Node : n[1] = s /\ Owes(n, r)]
<1>1. RunPhase /\ \A n \in Node : lpc[n] \notin {"unbusy", "account"}
  BY DEF Quiescent, RunPhase
<1>2. \A r \in U : /\ r \in 1 .. NReq
                   /\ f[r] \in Node /\ f[r][1] = s /\ Owes(f[r], r)
  BY DEF Unaccounted
<1>3. ASSUME NEW n \in Node, NEW r \in 1 .. NReq, Owes(n, r)
      PROVE  busy[n] /\ Transit(n)[1] = r
  <2>1. PICK i \in Places(n) : Transit(n)[i] = r
    BY <1>1, <1>3 DEF Owes
  <2>2. r # 0
    BY RequestAssumption
  <2>3. i = 1
    BY <1>1, <2>1, <2>2 DEF BusyInv, OneRequest, Calm
  <2>4. Transit(n) # <<>>
    BY <2>1, TransitType DEF Places, TypeInv
  <2> QED
    BY <1>1, <2>1, <2>3, <2>4 DEF BusyInv, BusyCovers
<1>4. \A r \in U : f[r] \in B /\ Transit(f[r])[1] = r
  BY <1>2, <1>3 DEF BusyNodes
<1>5. f \in [U -> B]
  BY <1>4
<1>6. \A q, r \in U : f[q] = f[r] => q = r
  BY <1>4
<1>7. f \in Injection(U, B)
  BY <1>5, <1>6 DEF Injection, IsInjective
<1>8. IsFiniteSet(B)
  BY NodesFinite, FS_Subset DEF BusyNodes
<1> HIDE DEF f, B, U
<1>9. Cardinality(U) <= Cardinality(B)
  BY <1>7, <1>8, FS_Injection
<1> QED
  BY <1>9 DEF B, U

\* When all listeners have ended and no connection has failed, there are no
\* flows any more.
LEMMA ListenersDone ==
  ASSUME TypeInv, NodeInv, ExitInv, breaks = 0, \A n \in Node : Exists(n) => lpc[n] = "done"
  PROVE  \A n \in Node : \A i, r \in Nat : ~At(n, i, r)
<1> TAKE n \in Node
<1>1. CASE Exists(n)
  <2>1. lpc[n] = "done"
    BY <1>1
  <2>2. \A j, r \in Nat : ~At(n, j, r)
    BY <2>1 DEF ExitInv, Closing
  <2> QED
    BY <2>2
<1>2. CASE ~Exists(n)
  <2>1. lpc[n] = "none" /\ Transit(n) = <<>>
    BY <1>2, TransitType DEF TypeInv, NodeInv, NodeOK
  <2>2. Places(n) = {}
    BY <2>1, TransitType DEF TypeInv, Places
  <2> QED
    BY <2>1, <2>2 DEF At, Pending
<1> QED
  BY <1>1, <1>2

\* available_len, which main lowers and the listeners raise each at its own
\* pace and partly without the lock, never wraps while requests are made, is
\* the number of idle connections whenever no thread is in an update, and
\* balances at the end.
THEOREM AvailableLenExact == Spec => []AvailableLenCounts
<1>1. IInv => AvailableNeverWraps
  <2> SUFFICES ASSUME IInv, RunPhase, ~astray, NEW s \in Server
               PROVE  availableLen[s] <= len[s]
    BY DEF AvailableNeverWraps
  <2>1. availableLen[s] + Owed(s) <= len[s]
    BY DEF IInv, CountInv, CountsAtMost
  <2>2. Owed(s) \in Nat /\ availableLen[s] \in Nat /\ len[s] \in Nat
    BY CountTypes DEF IInv
  <2> QED
    BY <2>1, <2>2
<1>2. IInv => AvailableIsExact
  <2> SUFFICES ASSUME IInv, Quiescent, breaks = 0, NEW s \in Server
               PROVE  availableLen[s] = Cardinality(IdleNodes(s))
    BY DEF AvailableIsExact
  <2>1. RunPhase /\ mpc \notin {"take", "write"} /\ ~astray
    BY DEF Quiescent, RunPhase, IInv, FilesInv
  <2>2. /\ Cardinality(BusyNodes(s)) \in Nat
        /\ Cardinality(IdleNodes(s)) = len[s] - Cardinality(BusyNodes(s))
    BY <2>1, IdleOrBusy DEF IInv
  <2>3. /\ Cardinality(BusyNodes(s)) <= Cardinality(Unaccounted(s))
        /\ Cardinality(Unaccounted(s)) <= Cardinality(BusyNodes(s))
    BY <2>1, BusyWithin, OwedWithin DEF IInv
  <2>4. Taken(s) = 0 /\ Exited(s) = 0
    BY <2>1 DEF Taken, Exited, RunPhase
  <2>5. /\ Cardinality(Unaccounted(s)) \in Nat /\ len[s] \in Nat /\ len[s] <= MaxNode
        /\ availableLen[s] \in Nat /\ MaxNode \in Nat
    BY CountTypes, PoolAssumption DEF IInv
  <2>6. Owed(s) = Cardinality(BusyNodes(s))
    BY <2>2, <2>3, <2>4, <2>5 DEF Owed
  <2>7. availableLen[s] = UInt(len[s] - Owed(s) - Exited(s)) /\ Owed(s) <= len[s]
    BY DEF IInv, CountInv, CountsExactly, OwedFits
  <2>8. len[s] - Owed(s) - Exited(s) = len[s] - Cardinality(BusyNodes(s))
    BY <2>2, <2>4, <2>5, <2>6
  <2>9. UInt(len[s] - Cardinality(BusyNodes(s))) = len[s] - Cardinality(BusyNodes(s))
    <3>1. /\ len[s] - Cardinality(BusyNodes(s)) \in Nat
          /\ len[s] - Cardinality(BusyNodes(s)) < UIntWord
      BY <2>2, <2>5, <2>6, <2>7, PoolAssumption
    <3> QED
      BY <3>1, UIntSmall
  <2> QED
    BY <2>2, <2>7, <2>8, <2>9
<1>3. IInv => BalancedAtEnd
  <2> SUFFICES ASSUME IInv, mpc = "done", breaks = 0, NEW s \in Server
               PROVE  availableLen[s] = 0
    BY DEF BalancedAtEnd
  <2>1. Unaccounted(s) = {}
    <3>1. \A n \in Node : Exists(n) => lpc[n] = "done"
      BY DEF IInv, JoinInv
    <3>2. \A n \in Node : \A i, r \in Nat : ~At(n, i, r)
      BY <3>1, ListenersDone DEF IInv
    <3>3. \A n \in Node : \A r \in 1 .. NReq : ~Owes(n, r)
      BY <3>2, OwesAt, RequestAssumption DEF IInv, TypeInv
    <3> QED
      BY <3>3 DEF Unaccounted
  <2>2. Owed(s) = 0 /\ Exited(s) = len[s] /\ len[s] \in Nat
    BY <2>1, FS_EmptySet, CountTypes DEF Owed, Taken, Exited, IInv
  <2>3. len[s] - Owed(s) - Exited(s) = 0
    BY <2>2
  <2>4. UInt(0) = 0
    BY UIntSmall, PoolAssumption
  <2> QED
    BY <2>3, <2>4 DEF IInv, CountInv, CountsExactly
<1>4. IInv => AvailableLenCounts
  BY <1>1, <1>2, <1>3 DEF AvailableLenCounts
<1> QED
  BY <1>4, Invariance, PTL

\* A search that available_len allowed ends at a connection, though it walks
\* the list without the lock while the listeners change it: the walk does not
\* reach the end of the list unless a connection has failed.
THEOREM SearchSucceeds == Spec => []SearchFinds
<1>1. IInv => SearchFinds
  <2> SUFFICES ASSUME IInv, mpc = "search", breaks = 0
               PROVE  xi <= len[ReqServer[cur]]
    BY DEF SearchFinds
  <2>1. PICK n \in Node : n[1] = ReqServer[cur] /\ n[2] >= xi /\ Idle(n)
    BY DEF IInv, SearchInv
  <2>2. n[2] <= len[ReqServer[cur]]
    BY <2>1 DEF Idle, Exists
  <2>3. n[2] \in Nat /\ xi \in Nat /\ len[ReqServer[cur]] \in Nat
    BY <2>1, NodeNumbers, MainNumbers DEF IInv, TypeInv
  <2> QED
    BY <2>1, <2>2, <2>3
<1> QED
  BY <1>1, Invariance, PTL

-----------------------------------------------------------------------------
(* The client implements FlowLog.                                          *)

\* Once the client is gone only threads of the servers go on.
LEMMA GoneForGood ==
  ASSUME [Next]_vars, ~Running
  PROVE  UNCHANGED <<started, stopped, mpc, breaks>>
BY DEF Next, vars, ServeEnd, main, poolVars, reqVars

\* A step that records no time and breaks no connection is one of no interest.
LEMMA LogStutters ==
  ASSUME UNCHANGED <<started, stopped, breaks>>, Running' <=> Running
  PROVE  UNCHANGED Log!logVars
<1>1. Running' = Running
  BY DEF Running
<1> QED
  BY <1>1 DEF Log!logVars

\* When the client ends, either a connection has failed or every flow that was
\* started has been logged as finished.
LEMMA LogCloses ==
  ASSUME Running, ~Running', UNCHANGED <<started, stopped, breaks>>,
         breaks > 0 \/ started = stopped
  PROVE  Log!Close
<1>1. Running' = FALSE
  BY DEF Running
<1> QED
  BY <1>1 DEF Log!Close

\* Every step of the client is one of the log it promises, or none.
LEMMA StepImplements ==
  ASSUME IInv, [Next]_vars
  PROVE  [Log!Next]_(Log!logVars)
<1> USE DEF list, node, files, wire, main, poolVars, reqVars
<1>0. CASE ~Running
  <2>1. UNCHANGED <<started, stopped, mpc, breaks>>
    BY <1>0, GoneForGood
  <2> QED
    BY <2>1, LogStutters DEF Running
<1> SUFFICES ASSUME Running PROVE [Log!Next]_(Log!logVars)
  BY <1>0
<1>1. CASE /\ OpenFirst \/ SpawnListeners \/ ExitNode(FALSE) \/ ExitAllSent \/ WaitNode
           /\ UNCHANGED reqVars
  <2>1. UNCHANGED <<started, stopped, breaks>> /\ (Running' <=> Running)
    BY <1>1 DEF Running, OpenFirst, AddNode, SpawnListeners, ExitNode, ExitAllSent, WaitNode
  <2> QED
    BY <2>1, LogStutters
<1>2. CASE \/ BeginSearch \/ SearchNode \/ SearchMisses \/ Grow \/ GiveUp
           \/ TakeAvailable \/ RequestsDone
  <2>1. UNCHANGED <<started, stopped, breaks>> /\ (Running' <=> Running)
    BY <1>2 DEF Running, BeginSearch, SearchNode, SearchMisses, Grow, AddNode, GiveUp,
       ConnectRefused, TakeAvailable, RequestsDone
  <2> QED
    BY <2>1, LogStutters
<1>3. CASE UNCHANGED reqVars /\ \E n \in Node : Listen(n) \/ Serve(n) \/ ServeEnd(n)
  <2>1. UNCHANGED <<started, stopped, breaks>> /\ (Running' <=> Running)
    BY <1>3 DEF Running, Listen, ListenRead, ListenFail, ListenUnbusy, ListenAccount,
       ListenClose, ListenDisconnect, ListenLeave, Serve, ServeEnd
  <2> QED
    BY <2>1, LogStutters
<1>4. CASE UNCHANGED vars
  <2>1. UNCHANGED <<started, stopped, breaks>> /\ (Running' <=> Running)
    BY <1>4 DEF Running, vars
  <2> QED
    BY <2>1, LogStutters
<1>5. ASSUME OpenFirstFails, UNCHANGED reqVars PROVE [Log!Next]_(Log!logVars)
  <2>1. started = stopped /\ UNCHANGED <<started, stopped, breaks>> /\ mpc' = "failed"
    BY <1>5 DEF OpenFirstFails, IInv, MainInv
  <2> QED
    BY <2>1, LogCloses DEF Log!Next, Running
<1>6. ASSUME ExitWrite, UNCHANGED reqVars PROVE [Log!Next]_(Log!logVars)
  <2>1. /\ mpc = "exitWrite" /\ UNCHANGED <<started, stopped, breaks>>
        /\ mpc' = "exit" \/ (mpc' = "killed" /\ ~Connects(<<si, xi>>))
    BY <1>6 DEF ExitWrite, WriteKills
  <2>2. CASE mpc' = "exit"
    BY <2>1, <2>2, LogStutters DEF Running
  <2>3. CASE mpc' = "killed" /\ ~Connects(<<si, xi>>)
    <3>1. PICK n \in Node : n = <<si, xi>> /\ Exists(n) /\ ~ExitSent(n)
      BY <2>1, ExitingNode DEF IInv
    <3>2. breaks = 0 => sock[n] = "open" /\ up[n]
      BY <3>1, OpenUntilExit DEF IInv, NodeInv, NodeOK
    <3>3. breaks > 0
      <4>1. breaks \in Nat
        BY PoolAssumption DEF IInv, TypeInv, ConnType
      <4>2. breaks # 0
        BY <2>3, <3>1, <3>2 DEF Connects, Holds
      <4> QED
        BY <4>1, <4>2
    <3> QED
      BY <2>1, <2>3, <3>3, LogCloses DEF Log!Next, Running
  <2> QED
    BY <2>1, <2>2, <2>3
<1>7. ASSUME WaitAllDone, UNCHANGED reqVars PROVE [Log!Next]_(Log!logVars)
  <2>1. /\ mpc = "wait" /\ xi > len[si] /\ UNCHANGED <<started, stopped, breaks>>
        /\ mpc' = "exit" \/ (mpc' = "done" /\ ~(si < NServer))
    BY <1>7 DEF WaitAllDone
  <2>2. CASE mpc' = "exit"
    BY <2>1, <2>2, LogStutters DEF Running
  <2>3. CASE mpc' = "done" /\ ~(si < NServer)
    <3>1. breaks = 0 => \A n \in Node : \A i, r \in Nat : ~At(n, i, r)
      <4>1. JoinInv'
        BY JoinInvStep
      <4>2. \A n \in Node : Exists(n) => lpc[n] = "done"
        BY <1>7, <2>3, <4>1 DEF JoinInv, WaitAllDone, Exists
      <4> QED
        BY <4>2, ListenersDone DEF IInv
    <3>2. breaks > 0 \/ started = stopped
      <4>1. breaks \in Nat /\ started \subseteq Nat \ {0}
        BY PoolAssumption, RequestAssumption DEF IInv, TypeInv, ConnType, MainType
      <4>2. breaks = 0 => \A r \in started \ stopped : FALSE
        BY <2>1, <3>1, <4>1 DEF IInv, FlowInv
      <4>3. stopped \subseteq started
        BY DEF IInv, MainInv
      <4>4. breaks = 0 => started = stopped
        BY <4>2, <4>3
      <4> QED
        BY <4>1, <4>4
    <3> QED
      BY <2>1, <2>3, <3>2, LogCloses DEF Log!Next, Running
  <2> QED
    BY <2>1, <2>2, <2>3
<1>8. ASSUME MarkBusy PROVE [Log!Next]_(Log!logVars)
  <2>1. /\ mpc = "mark" /\ mpc' = "take" /\ started' = started \cup {cur}
        /\ UNCHANGED <<stopped, breaks>>
    BY <1>8 DEF MarkBusy
  <2>2. cur \in 1 .. NReq /\ started \subseteq 1 .. NReq
    BY <2>1, CurrentRequest DEF IInv, TypeInv, MainType, Serving
  <2>3. \A r \in started : r < cur
    BY <2>1 DEF IInv, MainInv
  <2>4. cur \notin started
    BY <2>2, <2>3, RequestAssumption
  <2>5. /\ [r \in 1 .. NReq |-> r][cur] # 0
        /\ \A g \in started : [r \in 1 .. NReq |-> r][g] <= [r \in 1 .. NReq |-> r][cur]
    BY <2>2, <2>3, RequestAssumption
  <2>6. Running' = Running /\ Running
    BY <2>1 DEF Running
  <2>7. Log!Start(cur)
    BY <2>1, <2>4, <2>5, <2>6 DEF Log!Start
  <2> QED
    BY <2>2, <2>7 DEF Log!Next
<1>9. ASSUME WriteRequest PROVE [Log!Next]_(Log!logVars)
  <2>1. /\ mpc = "write" /\ UNCHANGED <<started, stopped, breaks>>
        /\ mpc' = "request" \/ (mpc' = "killed" /\ ~Connects(conn))
    BY <1>9 DEF WriteRequest, WriteKills
  <2>2. CASE mpc' = "request"
    BY <2>1, <2>2, LogStutters DEF Running
  <2>3. CASE mpc' = "killed" /\ ~Connects(conn)
    <3>1. breaks > 0
      BY <2>1, <2>3, WriteConnects DEF IInv
    <3> QED
      BY <2>1, <2>3, <3>1, LogCloses DEF Log!Next, Running
  <2> QED
    BY <2>1, <2>2, <2>3
<1>10. ASSUME NEW n \in Node, ListenStamp(n) PROVE [Log!Next]_(Log!logVars)
  <2>1. /\ lpc[n] = "stamp" /\ stopped' = stopped \cup {got[n]}
        /\ UNCHANGED <<started, breaks, mpc>>
    BY <1>10 DEF ListenStamp, ListenStamped
  <2>2. got[n] \in 1 .. NReq /\ got[n] \in started \ stopped
    BY <2>1, StampedFlow DEF IInv, TypeInv, MainType
  <2>3. Running' = Running /\ Running
    BY <2>1 DEF Running
  <2>4. Log!Stop(got[n])
    BY <2>1, <2>2, <2>3 DEF Log!Stop
  <2> QED
    BY <2>2, <2>4 DEF Log!Next
<1>11. ASSUME NEW n \in Node, Break(n), UNCHANGED reqVars PROVE [Log!Next]_(Log!logVars)
  <2>1. breaks' = breaks + 1 /\ UNCHANGED <<started, stopped, mpc>> /\ breaks \in Nat
    BY <1>11, PoolAssumption DEF Break, IInv, TypeInv, ConnType
  <2>2. (breaks' > 0) = TRUE /\ Running' = Running /\ Running
    BY <2>1 DEF Running
  <2>3. Log!Lose
    BY <2>1, <2>2 DEF Log!Lose
  <2> QED
    BY <2>3 DEF Log!Next
<1> QED
  BY <1>1, <1>2, <1>3, <1>4, <1>5, <1>6, <1>7, <1>8, <1>9, <1>10, <1>11, StepCases DEF Listen

\* The log that the client writes is what FlowLog promises: each request is
\* started once and in order, each is finished once and after its start, and
\* when the client ends the log is complete unless a connection failed.
THEOREM ClientImplementsLog == Spec => ImplementsLog
<1>1. Init => Log!Init
  <2> SUFFICES ASSUME Init PROVE Log!Init
    OBVIOUS
  <2>1. started = {} /\ stopped = {} /\ Running = TRUE /\ (breaks > 0) = FALSE
    BY DEF Init, PoolInit, Running
  <2>2. [r \in 1 .. NReq |-> r] \in [1 .. NReq -> Nat]
    BY RequestAssumption
  <2> QED
    BY <2>1, <2>2 DEF Log!Init
<1>2. IInv /\ [Next]_vars => [Log!Next]_(Log!logVars)
  BY StepImplements
<1> QED
  BY <1>1, <1>2, Invariance, PTL DEF Spec, ImplementsLog, Log!Spec
=============================================================================
