------------------------------ MODULE ConnPool ------------------------------
(***************************************************************************)
(* The connection pool that both traffic generator clients share: one list *)
(* of TCP connections per server, a listener thread for each connection,   *)
(* the server's thread at the other end, and the parts of the main thread  *)
(* that do not depend on how requests are made: opening the first          *)
(* connections, terminating them and waiting for the listeners.            *)
(*                                                                         *)
(* A flow is its ID: sizes, DSCP values and rates travel with it and are   *)
(* echoed, and no decision depends on them.  ID 0 terminates a connection. *)
(* A thread step is one access to state that another thread may touch.     *)
(***************************************************************************)
EXTENDS Integers, Sequences, FiniteSets, FiniteSetsExt

CONSTANTS
    NServer,       \* num_server
    InitConn,      \* TG_PAIR_INIT_CONN
    MaxNode,       \* bound on the connections to one server
    UIntWord,      \* 2^32, the range of unsigned int
    MaxBreaks,     \* bound on the connections that fail while in use
    ConnectFails   \* may connect() be refused?

Server == 1 .. NServer
Node == Server \X (1 .. MaxNode)

ASSUME PoolAssumption ==
    /\ NServer \in Nat \ {0}
    /\ InitConn \in Nat \ {0}
    /\ MaxNode \in Nat
    /\ MaxNode >= InitConn
    /\ UIntWord \in Nat
    /\ UIntWord > 2 * MaxNode
    /\ MaxBreaks \in Nat
    /\ ConnectFails \in BOOLEAN

VARIABLES
    len, availableLen, flowFinished,   \* struct conn_list, per server
    busy, connected,                   \* struct conn_node, per node
    lpc, got,                          \* listener: where it is, flow ID read
    sock,                              \* "none", "open" or "closed"
    up,                                \* is the TCP connection alive?
    serving,                           \* is the server's thread running?
    toServer, toClient,                \* flows in transit on the connection
    sockfd,                            \* the descriptor of each node's socket
    leaked,                            \* those of refused connections
    astray,                            \* a write has reached another's socket
    breaks,                            \* connections broken so far
    mpc, si, xi                        \* main thread: where, server, node

list == <<len, availableLen, flowFinished>>
node == <<busy, connected, lpc, got>>
files == <<sockfd, leaked, astray>>
wire == <<sock, up, serving, toServer, toClient, files>>
main == <<mpc, si, xi>>
poolVars == <<list, node, wire, breaks, main>>

Exists(n) == n[2] <= len[n[1]]

\* Is the client process there?
Running == mpc \notin {"done", "failed", "killed"}

\* Faulty variant: a busy connection counts as idle.
IdleConnected(n) == Exists(n) /\ connected[n]

\* What search_conn_list and search_n_conn_list look for.
Idle(n) == Exists(n) /\ ~busy[n] /\ connected[n]

IdleNodes(s) == {n \in Node : n[1] = s /\ Idle(n)}

\* unsigned int arithmetic.
UInt(x) == x % UIntWord

-----------------------------------------------------------------------------
(* Descriptors.  A node keeps the number of its socket when the socket is  *)
(* closed, and the number goes to the next socket that is made.            *)

Holds(n, d) == sock[n] = "open" /\ sockfd[n] = d
InUse == leaked \cup {sockfd[n] : n \in {m \in Node : sock[m] = "open"}}
LowestFree == Min(1 .. (Cardinality(InUse) + 1) \ InUse)

-----------------------------------------------------------------------------
(* insert_conn_list and init_conn_node, one node.                          *)

\* The connection is made; the listener runs once it is created.
AddNode(s, listening) ==
    LET n == <<s, len[s] + 1>>
    IN /\ len[s] < MaxNode
       /\ len' = [len EXCEPT ![s] = @ + 1]
       /\ availableLen' = [availableLen EXCEPT ![s] = UInt(@ + 1)]
       /\ busy' = [busy EXCEPT ![n] = FALSE]
       /\ connected' = [connected EXCEPT ![n] = TRUE]
       /\ lpc' = [lpc EXCEPT ![n] = IF listening THEN "read" ELSE "none"]
       /\ sock' = [sock EXCEPT ![n] = "open"]
       /\ up' = [up EXCEPT ![n] = TRUE]
       /\ serving' = [serving EXCEPT ![n] = TRUE]
       /\ sockfd' = [sockfd EXCEPT ![n] = LowestFree]
       /\ UNCHANGED <<flowFinished, got, toServer, toClient, leaked, astray, breaks>>

\* connect() is refused: the node is freed, but its socket is not closed.
ConnectRefused ==
    /\ ConnectFails
    /\ leaked' = leaked \cup {LowestFree}
    /\ UNCHANGED <<list, node, sock, up, serving, toServer, toClient, sockfd, astray, breaks>>

-----------------------------------------------------------------------------
(* write_flow_req to the descriptor of a node, whose connection may have   *)
(* failed and whose listener may have closed it.  Neither client ignores   *)
(* SIGPIPE: writing to a socket that is not connected any more, or never   *)
(* was, either fails or kills the process.                                 *)

WriteSent(n, id) ==
    /\ \E m \in Node :
          /\ Holds(m, sockfd[n])
          /\ up[m]
          /\ toServer' = [toServer EXCEPT ![m] = Append(@, id)]
          /\ astray' = (astray \/ m # n)
    /\ UNCHANGED <<sock, up, serving, toClient, sockfd, leaked>>

Connects(n) == \E m \in Node : Holds(m, sockfd[n]) /\ up[m]

WriteLost(n) ==
    /\ ~Connects(n)
    /\ UNCHANGED wire

WriteKills(n) ==
    /\ ~Connects(n)
    /\ sockfd[n] \in InUse
    /\ mpc' = "killed"
    /\ UNCHANGED <<list, node, wire, breaks, si, xi>>

-----------------------------------------------------------------------------
(* listen_connection.                                                      *)

\* Metadata and payload have arrived in full.
ListenRead(n) ==
    /\ lpc[n] = "read"
    /\ toClient[n] # <<>>
    /\ got' = [got EXCEPT ![n] = Head(toClient[n])]
    /\ toClient' = [toClient EXCEPT ![n] = Tail(@)]
    /\ lpc' = [lpc EXCEPT ![n] = "unbusy"]
    /\ UNCHANGED <<list, busy, connected, sock, up, serving, toServer, files, breaks, main>>

\* End of file or an error: nothing more can be read.
ListenFail(n) ==
    /\ lpc[n] = "read"
    /\ toClient[n] = <<>>
    /\ ~up[n]
    /\ lpc' = [lpc EXCEPT ![n] = "close"]
    /\ UNCHANGED <<list, busy, connected, got, wire, breaks, main>>

\* Faulty variant: busy is not cleared.
ListenStaysBusy(n) ==
    /\ lpc[n] = "unbusy"
    /\ lpc' = [lpc EXCEPT ![n] = "account"]
    /\ UNCHANGED <<list, busy, connected, got, wire, breaks, main>>

\* busy is cleared before the lock is taken.
ListenUnbusy(n) ==
    /\ lpc[n] = "unbusy"
    /\ busy' = [busy EXCEPT ![n] = FALSE]
    /\ lpc' = [lpc EXCEPT ![n] = "account"]
    /\ UNCHANGED <<list, connected, got, wire, breaks, main>>

\* Faulty variant: the listener does not leave on the termination flow.
ListenAccountOn(n) ==
    LET s == n[1]
    IN /\ lpc[n] = "account"
       /\ IF got[n] # 0
            THEN /\ flowFinished' = [flowFinished EXCEPT ![s] = @ + 1]
                 /\ availableLen' = [availableLen EXCEPT ![s] = UInt(@ + 1)]
                 /\ lpc' = [lpc EXCEPT ![n] = "stamp"]
            ELSE /\ lpc' = [lpc EXCEPT ![n] = "read"]
                 /\ UNCHANGED <<flowFinished, availableLen>>
       /\ UNCHANGED <<len, busy, connected, got, wire, breaks, main>>

ListenAccount(n) ==
    LET s == n[1]
    IN /\ lpc[n] = "account"
       /\ IF got[n] # 0
            THEN /\ flowFinished' = [flowFinished EXCEPT ![s] = @ + 1]
                 /\ availableLen' = [availableLen EXCEPT ![s] = UInt(@ + 1)]
                 /\ lpc' = [lpc EXCEPT ![n] = "stamp"]
            ELSE /\ lpc' = [lpc EXCEPT ![n] = "close"]
                 /\ UNCHANGED <<flowFinished, availableLen>>
       /\ UNCHANGED <<len, busy, connected, got, wire, breaks, main>>

\* Faulty variant: the connection is given back a second time.
ListenStampedTwice(n) ==
    /\ lpc[n] = "stamp"
    /\ lpc' = [lpc EXCEPT ![n] = "read"]
    /\ availableLen' = [availableLen EXCEPT ![n[1]] = UInt(@ + 1)]
    /\ UNCHANGED <<len, flowFinished, busy, connected, got, wire, breaks, main>>

\* The stop time is recorded after the lock is released; which entry it goes
\* to is the client's business.
ListenStamped(n) ==
    /\ lpc[n] = "stamp"
    /\ lpc' = [lpc EXCEPT ![n] = "read"]
    /\ UNCHANGED <<list, busy, connected, got, wire, breaks, main>>

ListenClose(n) ==
    /\ lpc[n] = "close"
    /\ sock' = [sock EXCEPT ![n] = "closed"]
    /\ lpc' = [lpc EXCEPT ![n] = "disconnect"]
    /\ UNCHANGED <<list, busy, connected, got, up, serving, toServer, toClient, files,
                   breaks, main>>

ListenDisconnect(n) ==
    /\ lpc[n] = "disconnect"
    /\ connected' = [connected EXCEPT ![n] = FALSE]
    /\ lpc' = [lpc EXCEPT ![n] = "leave"]
    /\ UNCHANGED <<list, busy, got, wire, breaks, main>>

ListenLeave(n) ==
    /\ lpc[n] = "leave"
    /\ busy' = [busy EXCEPT ![n] = FALSE]
    /\ lpc' = [lpc EXCEPT ![n] = "done"]
    /\ UNCHANGED <<list, connected, got, wire, breaks, main>>

Listen(n) ==
    \/ ListenRead(n) \/ ListenFail(n) \/ ListenUnbusy(n) \/ ListenAccount(n)
    \/ ListenClose(n) \/ ListenDisconnect(n) \/ ListenLeave(n)

-----------------------------------------------------------------------------
(* The traffic server's handle_connection, and the network.                *)

\* A request is answered with a flow of its ID.
Serve(n) ==
    /\ serving[n]
    /\ up[n]
    /\ sock[n] = "open"
    /\ toServer[n] # <<>>
    /\ toServer' = [toServer EXCEPT ![n] = Tail(@)]
    /\ toClient' = [toClient EXCEPT ![n] = Append(@, Head(toServer[n]))]
    /\ UNCHANGED <<list, node, sock, up, serving, files, breaks, main>>

\* Faulty variant: the server's thread leaves only when it is told to.
ServeEndOnClose(n) ==
    /\ serving[n]
    /\ sock[n] = "closed"
    /\ serving' = [serving EXCEPT ![n] = FALSE]
    /\ UNCHANGED <<list, node, sock, up, toServer, toClient, files, breaks, main>>

\* The client closed the connection or is gone, or the connection failed:
\* the thread leaves.
ServeEnd(n) ==
    /\ serving[n]
    /\ sock[n] = "closed" \/ ~up[n] \/ ~Running
    /\ serving' = [serving EXCEPT ![n] = FALSE]
    /\ UNCHANGED <<list, node, sock, up, toServer, toClient, files, breaks, main>>

\* The connection fails.  Requests in transit are lost, and so is any flow
\* that has not arrived in full.
Break(n) ==
    /\ breaks < MaxBreaks
    /\ sock[n] = "open"
    /\ up[n]
    /\ breaks' = breaks + 1
    /\ up' = [up EXCEPT ![n] = FALSE]
    /\ toServer' = [toServer EXCEPT ![n] = <<>>]
    /\ \E i \in 0 .. Len(toClient[n]) :
          toClient' = [toClient EXCEPT ![n] = SubSeq(@, 1, i)]
    /\ UNCHANGED <<list, node, sock, serving, files, main>>

-----------------------------------------------------------------------------
(* main: the first connections, then the listener threads.                 *)

OpenFirst ==
    /\ mpc = "open"
    /\ AddNode(si, FALSE)
    /\ IF len'[si] < InitConn
         THEN UNCHANGED <<mpc, si>>
         ELSE IF si < NServer
                THEN si' = si + 1 /\ UNCHANGED mpc
                ELSE si' = 1 /\ mpc' = "spawn"
    /\ UNCHANGED xi

\* insert_conn_list fails: cleanup and error().
OpenFirstFails ==
    /\ mpc = "open"
    /\ ConnectFails
    /\ mpc' = "failed"
    /\ UNCHANGED <<list, node, wire, breaks, si, xi>>

SpawnListeners ==
    /\ mpc = "spawn"
    /\ lpc' = [n \in Node |-> IF Exists(n) THEN "read" ELSE lpc[n]]
    /\ mpc' = "request"
    /\ UNCHANGED <<list, busy, connected, got, wire, breaks, si, xi>>

-----------------------------------------------------------------------------
(* main: exit_connections and wait_conn_list, server by server.            *)

\* exit_connection on the next node, if it is still connected.
ExitNode(marksBusy) ==
    LET n == <<si, xi>>
    IN /\ mpc = "exit"
       /\ xi <= len[si]
       /\ IF connected[n]
            THEN /\ busy' = [busy EXCEPT ![n] = marksBusy \/ @]
                 /\ availableLen' = [availableLen EXCEPT ![si] = UInt(@ - 1)]
                 /\ mpc' = "exitWrite"
                 /\ UNCHANGED xi
            ELSE /\ xi' = xi + 1
                 /\ UNCHANGED <<busy, availableLen, mpc>>
       /\ UNCHANGED <<len, flowFinished, connected, lpc, got, wire, breaks, si>>

ExitWrite ==
    LET n == <<si, xi>>
    IN /\ mpc = "exitWrite"
       /\ \/ /\ WriteSent(n, 0) \/ WriteLost(n)
             /\ mpc' = "exit"
             /\ xi' = xi + 1
             /\ UNCHANGED <<list, node, breaks, si>>
          \/ WriteKills(n)

ExitAllSent ==
    /\ mpc = "exit"
    /\ xi > len[si]
    /\ mpc' = "wait"
    /\ xi' = 1
    /\ UNCHANGED <<list, node, wire, breaks, si>>

\* pthread_join, or for a node that has already disconnected a timed join:
\* its thread has one assignment left, so the five seconds do not expire.
WaitNode ==
    LET n == <<si, xi>>
    IN /\ mpc = "wait"
       /\ xi <= len[si]
       /\ lpc[n] = "done"
       /\ xi' = xi + 1
       /\ UNCHANGED <<list, node, wire, breaks, mpc, si>>

WaitAllDone ==
    /\ mpc = "wait"
    /\ xi > len[si]
    /\ xi' = 1
    /\ IF si < NServer
         THEN si' = si + 1 /\ mpc' = "exit"
         ELSE mpc' = "done" /\ UNCHANGED si
    /\ UNCHANGED <<list, node, wire, breaks>>

-----------------------------------------------------------------------------
\* init_conn_list for every server.
PoolInit ==
    /\ len = [s \in Server |-> 0]
    /\ availableLen = [s \in Server |-> 0]
    /\ flowFinished = [s \in Server |-> 0]
    /\ busy = [n \in Node |-> FALSE]
    /\ connected = [n \in Node |-> FALSE]
    /\ lpc = [n \in Node |-> "none"]
    /\ got = [n \in Node |-> 0]
    /\ sock = [n \in Node |-> "none"]
    /\ up = [n \in Node |-> FALSE]
    /\ serving = [n \in Node |-> FALSE]
    /\ toServer = [n \in Node |-> <<>>]
    /\ toClient = [n \in Node |-> <<>>]
    /\ sockfd = [n \in Node |-> 0]
    /\ leaked = {}
    /\ astray = FALSE
    /\ breaks = 0
    /\ mpc = "open"
    /\ si = 1
    /\ xi = 1

\* Every thread but main, and the network.
Others ==
    \E n \in Node :
        \/ Listen(n)
        \/ Serve(n)
        \/ ServeEnd(n)
        \/ Break(n)

ListenerPc == {"none", "read", "unbusy", "account", "stamp", "close",
               "disconnect", "leave", "done"}

\* No request has been sent to terminate a connection yet.
RunPhase == mpc \notin {"exit", "exitWrite", "wait", "done", "failed", "killed"}

PoolTypeOK ==
    /\ len \in [Server -> 0 .. MaxNode]
    /\ availableLen \in [Server -> 0 .. (UIntWord - 1)]
    /\ flowFinished \in [Server -> Nat]
    /\ busy \in [Node -> BOOLEAN]
    /\ connected \in [Node -> BOOLEAN]
    /\ lpc \in [Node -> ListenerPc]
    /\ got \in [Node -> Nat]
    /\ sock \in [Node -> {"none", "open", "closed"}]
    /\ up \in [Node -> BOOLEAN]
    /\ serving \in [Node -> BOOLEAN]
    /\ toServer \in [Node -> Seq(Nat)]
    /\ toClient \in [Node -> Seq(Nat)]
    /\ sockfd \in [Node -> Nat]
    /\ leaked \subseteq Nat
    /\ astray \in BOOLEAN
    /\ breaks \in 0 .. MaxBreaks
    /\ si \in Server
    /\ xi \in 1 .. (MaxNode + 1)

-----------------------------------------------------------------------------
(* Properties of the pool, for either client.                              *)

\* A connection carries one flow at a time: while requests are generated no
\* connection has a second request queued behind an unfinished flow, although
\* the listener clears busy before it has accounted for the flow it finished.
\* (Once a write has gone astray one may: listen_connection closes the
\* descriptor before it says so, and main may use it when it is another's.)
OneFlowPerConnection ==
    (RunPhase /\ ~astray) =>
        \A n \in Node : Len(toServer[n]) + Len(toClient[n]) <= 1

\* available_len does not wrap below zero while requests are generated: the
\* main thread takes a connection only after it has seen one available, and
\* listeners only ever add, for flows that main has accounted to their list.
AvailableNeverWraps ==
    (RunPhase /\ ~astray) => \A s \in Server : availableLen[s] <= len[s]

\* Without failures the accounts balance at the end, although exit_connection
\* takes connections that are still in use a second time and the counter
\* passes below zero until their flows end: none is counted as available.
BalancedAtEnd ==
    (mpc = "done" /\ breaks = 0) => \A s \in Server : availableLen[s] = 0

\* No thread of the client or the main thread is inside an update.
Quiescent ==
    /\ mpc = "request"
    /\ \A n \in Node : lpc[n] \in {"none", "read", "done"}

\* available_len is the total number of available nodes, as conn.h has it,
\* whenever no thread is in the middle of an update: the updates made in
\* pieces by main and by the listeners add up, in any order.  (Once an idle
\* connection has failed it is not: listen_connection leaves it counted.)
AvailableIsExact ==
    (Quiescent /\ breaks = 0) =>
        \A s \in Server : availableLen[s] = Cardinality(IdleNodes(s))

\* So available_len can be relied on from the first request to the last join,
\* though main lowers it and listeners raise it at their own pace.
AvailableLenCounts == AvailableNeverWraps /\ AvailableIsExact /\ BalancedAtEnd
=============================================================================
