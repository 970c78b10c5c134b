--------------------------- MODULE ConnPoolProofs ---------------------------
(***************************************************************************)
(* What the steps of the connection pool do, for either client: the flows  *)
(* on a connection as one sequence, and the numbers of descriptors.        *)
(***************************************************************************)
EXTENDS ConnPool, FiniteSetTheorems, SequenceTheorems, TLAPS

-----------------------------------------------------------------------------
(* Types.                                                                  *)

\* A node is a server and a position in its list.
LEMMA NodeParts ==
  /\ \A n \in Node : n[1] \in Server /\ n[2] \in 1 .. MaxNode /\ n = <<n[1], n[2]>>
  /\ \A s \in Server, i \in 1 .. MaxNode : <<s, i>> \in Node
  /\ Server \subseteq Nat \ {0} /\ NServer \in Server /\ 1 \in Server
  /\ \A s \in Server : s <= NServer /\ (s # NServer => s + 1 \in Server)
  /\ 1 \in 1 .. (MaxNode + 1)
BY PoolAssumption DEF Node, Server

\* The node at an index within a list, and the index after it.
LEMMA NextIndex ==
  ASSUME NEW s \in Server, NEW n \in 0 .. MaxNode, NEW x \in 1 .. (MaxNode + 1), x <= n
  PROVE  <<s, x>> \in Node /\ x + 1 \in 1 .. (MaxNode + 1)
BY PoolAssumption DEF Node

\* A sum or difference of unsigned integers is one.
LEMMA UIntType ==
  ASSUME NEW x \in Int
  PROVE  UInt(x) \in 0 .. (UIntWord - 1)
BY PoolAssumption DEF UInt

\* What the pool's state is made of, but for where the main thread is.
ConnType ==
    /\ len \in [Server -> 0 .. MaxNode]
    /\ availableLen \in [Server -> 0 .. (UIntWord - 1)]
    /\ flowFinished \in [Server -> Nat]
    /\ busy \in [Node -> BOOLEAN]
    /\ connected \in [Node -> BOOLEAN]
    /\ lpc \in [Node -> ListenerPc]
    /\ got \in [Node -> Nat]
    /\ sock \in [Node -> {"none", "open", "closed"}]
    /\ up \in [Node -> BOOLEAN]
    /\ serving \in [Node -> BOOLEAN]
    /\ toServer \in [Node -> Seq(Nat)]
    /\ toClient \in [Node -> Seq(Nat)]
    /\ sockfd \in [Node -> Nat]
    /\ leaked \subseteq Nat
    /\ astray \in BOOLEAN
    /\ breaks \in 0 .. MaxBreaks

\* A function that is updated within its range keeps its type.
LEMMA UpdateType ==
  ASSUME NEW D, NEW R, NEW f \in [D -> R], NEW k, NEW v \in R,
         NEW g, g = f \/ g = [f EXCEPT ![k] = v]
  PROVE  g \in [D -> R]
OBVIOUS

\* available_len is raised and lowered as an unsigned integer.
LEMMA AvailableType ==
  ASSUME ConnType, NEW s \in Server
  PROVE  /\ availableLen[s] \in Nat /\ availableLen[s] < UIntWord
         /\ UInt(availableLen[s] + 1) \in 0 .. (UIntWord - 1)
         /\ UInt(availableLen[s] - 1) \in 0 .. (UIntWord - 1)
<1>1. availableLen[s] \in 0 .. (UIntWord - 1)
  BY DEF ConnType
<1> QED
  BY <1>1, PoolAssumption, UIntType

\* The type of the pool is that of its connections and of the main thread.
LEMMA PoolTypeParts ==
  PoolTypeOK <=> ConnType /\ si \in Server /\ xi \in 1 .. (MaxNode + 1)
BY DEF PoolTypeOK, ConnType

\* Positions and lengths are numbers.
LEMMA NodeNumbers ==
  ASSUME ConnType
  PROVE  /\ \A n \in Node : /\ n[1] \in Server /\ n[2] \in Nat /\ n[2] >= 1
                            /\ n = <<n[1], n[2]>>
                            /\ len[n[1]] \in Nat
         /\ \A s \in Server : len[s] \in Nat /\ s \in Nat
<1>1. \A s \in Server : len[s] \in Nat /\ s \in Nat
  BY NodeParts, PoolAssumption DEF ConnType
<1>2. \A n \in Node : n[1] \in Server /\ n[2] \in 1 .. MaxNode /\ n = <<n[1], n[2]>>
  BY NodeParts
<1> QED
  BY <1>1, <1>2, PoolAssumption

-----------------------------------------------------------------------------
(* Descriptors.                                                            *)

\* A non-empty set of naturals has a least element.
LEMMA MinIsMember ==
  ASSUME NEW S, S \subseteq Nat, S # {}
  PROVE  Min(S) \in S
<1>1. PICK m \in S : \A n \in S : ~(<<n, m>> \in OpToRel(<, Nat))
  BY NatLessThanWellFounded, WFMin
<1>2. \A n \in S : m <= n
  <2> TAKE n \in S
  <2>1. n \in Nat /\ m \in Nat
    OBVIOUS
  <2>2. ~(n < m)
    BY <1>1, <2>1 DEF OpToRel
  <2> QED
    BY <2>1, <2>2
<1> QED
  BY <1>2 DEF Min

\* There are finitely many connections.
LEMMA NodesFinite == IsFiniteSet(Node)
<1>1. IsFiniteSet(Server) /\ IsFiniteSet(1 .. MaxNode)
  BY FS_Interval, PoolAssumption DEF Server
<1> QED
  BY <1>1, FS_Product DEF Node

\* socket() returns the number of no other socket.
LEMMA LowestFreeIsFree ==
  ASSUME ConnType, IsFiniteSet(leaked)
  PROVE  LowestFree \in Nat /\ LowestFree \notin InUse
<1> DEFINE Opened == {m \in Node : sock[m] = "open"}
           Fds == {sockfd[n] : n \in Opened}
           f == [n \in Opened |-> sockfd[n]]
<1>1. IsFiniteSet(Opened)
  BY NodesFinite, FS_Subset
<1>2. f \in Surjection(Opened, Fds)
  BY DEF Surjection
<1>3. IsFiniteSet(Fds)
  BY <1>1, <1>2, FS_Surjection
<1>4. IsFiniteSet(InUse)
  BY <1>3, FS_Union DEF InUse
<1> DEFINE c == Cardinality(InUse)
           Free == 1 .. (c + 1) \ InUse
<1>5. c \in Nat
  BY <1>4, FS_CardinalityType
<1>6. Free # {}
  <2> SUFFICES ASSUME 1 .. (c + 1) \subseteq InUse PROVE FALSE
    OBVIOUS
  <2> HIDE DEF c
  <2>1. Cardinality(1 .. (c + 1)) = c + 1
    BY <1>5, FS_Interval
  <2>2. Cardinality(1 .. (c + 1)) <= Cardinality(InUse)
    BY <1>4, FS_Subset
  <2> QED
    BY <1>5, <2>1, <2>2 DEF c
<1>7. Free \subseteq Nat
  BY <1>5
<1>8. LowestFree = Min(Free)
  BY DEF LowestFree
<1> HIDE DEF Free
<1>9. LowestFree \in Free
  BY <1>6, <1>7, <1>8, MinIsMember
<1> QED
  BY <1>7, <1>9 DEF Free

-----------------------------------------------------------------------------
(* Making a connection, and writing to one.                                *)

\* insert_conn_list appends a node to the list of its server, and the new
\* socket has a descriptor that no other has.
LEMMA AddNodeEffect ==
  ASSUME ConnType, IsFiniteSet(leaked), NEW s \in Server, NEW b \in BOOLEAN, AddNode(s, b)
  PROVE  /\ ConnType' /\ leaked' = leaked /\ astray' = astray /\ breaks' = breaks
         /\ <<s, len[s] + 1>> \in Node
         /\ len[s] < MaxNode
         /\ \A t \in Server : /\ len'[t] = IF t = s THEN len[t] + 1 ELSE len[t]
                              /\ t # s => availableLen'[t] = availableLen[t]
         /\ availableLen'[s] = UInt(availableLen[s] + 1)
         /\ sockfd'[<<s, len[s] + 1>>] \notin InUse
         /\ \A m \in Node :
               IF m = <<s, len[s] + 1>>
                 THEN /\ lpc'[m] = IF b THEN "read" ELSE "none"
                      /\ ~busy'[m] /\ connected'[m] /\ sock'[m] = "open" /\ up'[m]
                 ELSE /\ lpc'[m] = lpc[m] /\ busy'[m] = busy[m]
                      /\ connected'[m] = connected[m] /\ sock'[m] = sock[m]
                      /\ up'[m] = up[m] /\ sockfd'[m] = sockfd[m]
         /\ UNCHANGED <<flowFinished, got, toServer, toClient>>
<1> DEFINE k == <<s, len[s] + 1>>
           f == LowestFree
<1>1. len[s] \in 0 .. MaxNode /\ len[s] < MaxNode /\ availableLen[s] \in Int
  BY PoolAssumption DEF ConnType, AddNode
<1>2. k \in Node
  BY <1>1, PoolAssumption, NodeParts
<1>3. f \in Nat /\ f \notin InUse
  BY LowestFreeIsFree DEF ConnType
<1>4. /\ len' = [len EXCEPT ![s] = len[s] + 1]
      /\ availableLen' = [availableLen EXCEPT ![s] = UInt(availableLen[s] + 1)]
      /\ busy' = [busy EXCEPT ![k] = FALSE]
      /\ connected' = [connected EXCEPT ![k] = TRUE]
      /\ lpc' = [lpc EXCEPT ![k] = IF b THEN "read" ELSE "none"]
      /\ sock' = [sock EXCEPT ![k] = "open"]
      /\ up' = [up EXCEPT ![k] = TRUE]
      /\ serving' = [serving EXCEPT ![k] = TRUE]
      /\ sockfd' = [sockfd EXCEPT ![k] = f]
      /\ UNCHANGED <<flowFinished, got, toServer, toClient, leaked, astray, breaks>>
  BY DEF AddNode
<1>5. UInt(availableLen[s] + 1) \in 0 .. (UIntWord - 1)
  BY <1>1, UIntType
<1> HIDE DEF k, f
<1>6. len' \in [Server -> 0 .. MaxNode] /\ availableLen' \in [Server -> 0 .. (UIntWord - 1)]
  BY <1>1, <1>4, <1>5, PoolAssumption DEF ConnType
<1>7. /\ busy' \in [Node -> BOOLEAN] /\ connected' \in [Node -> BOOLEAN]
      /\ up' \in [Node -> BOOLEAN] /\ serving' \in [Node -> BOOLEAN]
  BY <1>2, <1>4 DEF ConnType
<1>8. /\ lpc' \in [Node -> ListenerPc] /\ sock' \in [Node -> {"none", "open", "closed"}]
      /\ sockfd' \in [Node -> Nat]
  BY <1>2, <1>3, <1>4 DEF ConnType, ListenerPc
<1>9. ConnType'
  BY <1>4, <1>6, <1>7, <1>8 DEF ConnType
<1>10. \A t \in Server : /\ len'[t] = IF t = s THEN len[t] + 1 ELSE len[t]
                         /\ t # s => availableLen'[t] = availableLen[t]
                         /\ t = s => availableLen'[t] = UInt(availableLen[t] + 1)
  BY <1>4 DEF ConnType
<1>11. \A m \in Node :
          IF m = k
            THEN /\ lpc'[m] = IF b THEN "read" ELSE "none"
                 /\ ~busy'[m] /\ connected'[m] /\ sock'[m] = "open" /\ up'[m]
                 /\ sockfd'[m] = f
            ELSE /\ lpc'[m] = lpc[m] /\ busy'[m] = busy[m]
                 /\ connected'[m] = connected[m] /\ sock'[m] = sock[m]
                 /\ up'[m] = up[m] /\ sockfd'[m] = sockfd[m]
  BY <1>2, <1>4 DEF ConnType
<1> QED
  BY <1>1, <1>2, <1>3, <1>4, <1>9, <1>10, <1>11 DEF k

\* A flow that is written goes to the socket that has the descriptor.
LEMMA WriteSentEffect ==
  ASSUME ConnType, NEW n \in Node, NEW id \in Nat, WriteSent(n, id)
  PROVE  /\ toServer' \in [Node -> Seq(Nat)] /\ astray' \in BOOLEAN
         /\ \E m \in Node : /\ sock[m] = "open" /\ sockfd[m] = sockfd[n] /\ up[m]
                            /\ toServer' = [toServer EXCEPT ![m] = Append(@, id)]
                            /\ astray' <=> astray \/ m # n
         /\ UNCHANGED <<sock, up, serving, toClient, sockfd, leaked>>
<1>1. PICK m \in Node : /\ Holds(m, sockfd[n]) /\ up[m]
                        /\ toServer' = [toServer EXCEPT ![m] = Append(@, id)]
                        /\ astray' = (astray \/ m # n)
  BY DEF WriteSent
<1>2. Append(toServer[m], id) \in Seq(Nat)
  <2>1. toServer[m] \in Seq(Nat)
    BY DEF ConnType
  <2> QED
    BY <2>1, AppendProperties
<1>3. toServer' \in [Node -> Seq(Nat)]
  BY <1>1, <1>2 DEF ConnType
<1> QED
  BY <1>1, <1>3 DEF ConnType, WriteSent, Holds

-----------------------------------------------------------------------------
(* The flows on a connection, the one that arrives first in front.         *)

Transit(n) == toClient[n] \o toServer[n]
Places(n) == 1 .. Len(Transit(n))

\* What a connection carries is what its two directions carry.
LEMMA TransitType ==
  ASSUME ConnType, NEW n \in Node
  PROVE  /\ toServer[n] \in Seq(Nat) /\ toClient[n] \in Seq(Nat)
         /\ Transit(n) \in Seq(Nat)
         /\ Len(Transit(n)) = Len(toClient[n]) + Len(toServer[n])
         /\ Len(toServer[n]) \in Nat /\ Len(toClient[n]) \in Nat
         /\ Len(Transit(n)) \in Nat
         /\ \A i \in Places(n) : Transit(n)[i] \in Nat
         /\ Len(Transit(n)) = 0 <=> Transit(n) = <<>>
         /\ Transit(n) = <<>> <=> toClient[n] = <<>> /\ toServer[n] = <<>>
<1>1. toServer[n] \in Seq(Nat) /\ toClient[n] \in Seq(Nat)
  BY DEF ConnType
<1>2. /\ Transit(n) \in Seq(Nat)
      /\ Len(Transit(n)) = Len(toClient[n]) + Len(toServer[n])
  BY <1>1, ConcatProperties DEF Transit
<1>3. \A q \in Seq(Nat) : Len(q) \in Nat /\ (Len(q) = 0 <=> q = <<>>)
  BY EmptySeq, LenProperties
<1>4. \A i \in Places(n) : Transit(n)[i] \in Nat
  BY <1>2, ElementOfSeq DEF Places
<1>5. Len(toServer[n]) \in Nat /\ Len(toClient[n]) \in Nat
  BY <1>1, LenProperties
<1>7. Len(Transit(n)) \in Nat
  BY <1>2, LenProperties
<1>8. /\ Len(Transit(n)) = 0 <=> Transit(n) = <<>>
      /\ Len(toServer[n]) = 0 <=> toServer[n] = <<>>
      /\ Len(toClient[n]) = 0 <=> toClient[n] = <<>>
  BY <1>1, <1>2, <1>3
<1>6. Transit(n) = <<>> <=> toClient[n] = <<>> /\ toServer[n] = <<>>
  BY <1>1, ConcatEqualIffEmpty, ConcatEmptySeq DEF Transit
<1> QED
  BY <1>1, <1>2, <1>4, <1>5, <1>6, <1>7, <1>8

\* A connection none of whose directions changes carries the same flows.
LEMMA TransitSame ==
  ASSUME NEW n \in Node, toServer[n]' = toServer[n], toClient[n]' = toClient[n]
  PROVE  Transit(n)' = Transit(n)
BY DEF Transit

\* Appending to the second of two sequences appends to their concatenation.
LEMMA ConcatAppend ==
  ASSUME NEW S, NEW a \in Seq(S), NEW b \in Seq(S), NEW x \in S
  PROVE  a \o Append(b, x) = Append(a \o b, x)
<1> DEFINE c == <<x>>
<1>1. c \in Seq(S)
  OBVIOUS
<1>2. Append(b, x) = b \o c
  BY AppendIsConcat
<1>3. a \o b \in Seq(S)
  BY ConcatProperties
<1>4. Append(a \o b, x) = (a \o b) \o c
  BY <1>3, AppendIsConcat
<1> HIDE DEF c
<1>5. (a \o b) \o c = a \o (b \o c)
  BY <1>1, ConcatAssociative, SMTT(30)
<1> QED
  BY <1>2, <1>4, <1>5

\* The same for flows, for any of them.
LEMMA ConcatAppendFlow ==
  ASSUME NEW a \in Seq(Nat), NEW b \in Seq(Nat)
  PROVE  \A id \in Nat : a \o Append(b, id) = Append(a \o b, id)
BY ConcatAppend

\* Moving the head of the second of two sequences to the end of the first
\* does not change their concatenation.
LEMMA ConcatMove ==
  ASSUME NEW S, NEW a \in Seq(S), NEW b \in Seq(S), b # <<>>
  PROVE  /\ Append(a, Head(b)) \o Tail(b) = a \o b
         /\ Head(b) \in S /\ Tail(b) \in Seq(S)
<1> DEFINE h == Head(b)
           t == Tail(b)
           c == <<h>>
<1>1. h \in S /\ t \in Seq(S)
  BY HeadTailProperties
<1>2. Len(b) \in Nat \ {0}
  BY EmptySeq
<1>3. b = c \o t
  <2>1. SubSeq(b, 1, Len(b)) = <<b[1]>> \o SubSeq(b, 2, Len(b))
    BY <1>2, SubSeqRecursiveFirst
  <2>2. SubSeq(b, 1, Len(b)) = b
    BY SubSeqFull
  <2>3. t = SubSeq(b, 2, Len(b))
    BY TailIsSubSeq
  <2>4. h = b[1]
    OBVIOUS
  <2> QED
    BY <2>1, <2>2, <2>3, <2>4
<1>4. c \in Seq(S)
  BY <1>1
<1> HIDE DEF h, t
<1>5. Append(a, h) = a \o c
  BY <1>1, AppendIsConcat
<1> HIDE DEF c
<1>6. (a \o c) \o t = a \o (c \o t)
  <2>1. a \in Seq(S) /\ c \in Seq(S) /\ t \in Seq(S)
    BY <1>1, <1>4
  <2> HIDE <1>1, <1>2, <1>3, <1>4, <1>5
  <2> QED
    BY <2>1, ConcatAssociative
<1>7. Append(a, h) \o t = a \o b
  BY <1>3, <1>5, <1>6
<1> QED
  BY <1>1, <1>7 DEF h, t

\* A flow that is sent goes to the end.
LEMMA TransitSend ==
  ASSUME ConnType, NEW m \in Node, NEW id \in Nat,
         toServer' = [toServer EXCEPT ![m] = Append(@, id)], toClient' = toClient
  PROVE  /\ \A n \in Node \ {m} : Transit(n)' = Transit(n)
         /\ Len(Transit(m)') = Len(Transit(m)) + 1
         /\ \A i \in Places(m) : Transit(m)'[i] = Transit(m)[i]
         /\ Transit(m)'[Len(Transit(m)) + 1] = id
         /\ Transit(m)' \in Seq(Nat)
<1>1. toServer[m] \in Seq(Nat) /\ toClient[m] \in Seq(Nat) /\ Transit(m) \in Seq(Nat)
  BY TransitType
<1>2. /\ toServer[m]' = Append(toServer[m], id)
      /\ toClient[m]' = toClient[m]
  BY DEF ConnType
<1>3. \A n \in Node \ {m} : Transit(n)' = Transit(n)
  BY DEF ConnType, Transit
<1>4. Transit(m)' = Append(Transit(m), id)
  <2>2. toClient[m] \o Append(toServer[m], id) = Append(toClient[m] \o toServer[m], id)
    BY <1>1, ConcatAppendFlow
  <2> QED
    BY <1>2, <2>2 DEF Transit
<1> QED
  BY <1>1, <1>3, <1>4, AppendProperties DEF Places

\* The server's thread hands a flow from one direction to the other.
LEMMA TransitServe ==
  ASSUME ConnType, NEW m \in Node, Serve(m)
  PROVE  \A n \in Node : Transit(n)' = Transit(n)
<1>1. toServer[m] \in Seq(Nat) /\ toClient[m] \in Seq(Nat) /\ toServer[m] # <<>>
  BY TransitType DEF Serve
<1>2. /\ toServer[m]' = Tail(toServer[m])
      /\ toClient[m]' = Append(toClient[m], Head(toServer[m]))
  BY DEF ConnType, Serve
<1>3. \A n \in Node \ {m} : Transit(n)' = Transit(n)
  BY DEF ConnType, Transit, Serve
<1>4. Transit(m)' = Transit(m)
  <2>1. Append(toClient[m], Head(toServer[m])) \o Tail(toServer[m])
           = toClient[m] \o toServer[m]
    BY <1>1, ConcatMove
  <2> QED
    BY <1>2, <2>1 DEF Transit
<1> QED
  BY <1>3, <1>4

\* The listener reads the flow in front.
LEMMA TransitRead ==
  ASSUME ConnType, NEW m \in Node, ListenRead(m)
  PROVE  /\ \A n \in Node \ {m} : Transit(n)' = Transit(n)
         /\ Len(Transit(m)) >= 1
         /\ got[m]' = Transit(m)[1]
         /\ Len(Transit(m)') = Len(Transit(m)) - 1
         /\ \A i \in 1 .. (Len(Transit(m)) - 1) : Transit(m)'[i] = Transit(m)[i + 1]
         /\ Transit(m)' \in Seq(Nat)
<1> DEFINE a == toClient[m]
           b == toServer[m]
<1>1. a \in Seq(Nat) /\ b \in Seq(Nat) /\ a # <<>>
  BY TransitType DEF ListenRead
<1>2. toServer[m]' = b /\ toClient[m]' = Tail(a) /\ got[m]' = Head(a)
  BY DEF ConnType, ListenRead, wire
<1>3. \A n \in Node \ {m} : Transit(n)' = Transit(n)
  BY DEF ConnType, Transit, ListenRead, wire
<1>4. Transit(m) = a \o b /\ Transit(m)' = Tail(a) \o b
  BY <1>2 DEF Transit
<1> HIDE DEF a, b
<1>5. /\ Tail(a) \in Seq(Nat) /\ Len(Tail(a)) = Len(a) - 1
      /\ \A i \in 1 .. Len(Tail(a)) : Tail(a)[i] = a[i + 1]
  BY <1>1, HeadTailProperties
<1>6. Len(a) \in Nat \ {0} /\ Len(b) \in Nat
  BY <1>1, EmptySeq, LenProperties
<1>7. /\ Len(a \o b) = Len(a) + Len(b)
      /\ \A i \in 1 .. Len(a) + Len(b) :
            (a \o b)[i] = IF i <= Len(a) THEN a[i] ELSE b[i - Len(a)]
  BY <1>1, ConcatProperties
<1>8. /\ Tail(a) \o b \in Seq(Nat)
      /\ Len(Tail(a) \o b) = Len(a) - 1 + Len(b)
      /\ \A i \in 1 .. Len(a) - 1 + Len(b) :
            (Tail(a) \o b)[i] = IF i <= Len(a) - 1 THEN Tail(a)[i] ELSE b[i - (Len(a) - 1)]
  BY <1>1, <1>5, ConcatProperties
<1>9. Head(a) = a[1]
  BY <1>1
<1>10. \A i \in 1 .. (Len(a) + Len(b) - 1) : (Tail(a) \o b)[i] = (a \o b)[i + 1]
  <2> TAKE i \in 1 .. (Len(a) + Len(b) - 1)
  <2>1. CASE i <= Len(a) - 1
    BY <1>5, <1>6, <1>7, <1>8, <2>1
  <2>2. CASE i > Len(a) - 1
    BY <1>6, <1>7, <1>8, <2>2
  <2> QED
    BY <1>6, <2>1, <2>2
<1> QED
  BY <1>2, <1>3, <1>4, <1>6, <1>7, <1>8, <1>9, <1>10

\* A prefix of a sequence of flows.
LEMMA PrefixType ==
  ASSUME NEW a \in Seq(Nat)
  PROVE  \A k \in 0 .. Len(a) :
            /\ SubSeq(a, 1, k) \in Seq(Nat)
            /\ Len(SubSeq(a, 1, k)) = k
            /\ \A i \in 1 .. k : SubSeq(a, 1, k)[i] = a[i]
<1> TAKE k \in 0 .. Len(a)
<1>1. Len(a) \in Nat
  BY LenProperties
<1>2. \A i \in 1 .. k : a[i] \in Nat
  BY <1>1, ElementOfSeq
<1> QED
  BY <1>1, <1>2, SubSeqProperties

\* When a connection fails, what is left of its flows is a prefix.
LEMMA TransitBreak ==
  ASSUME ConnType, NEW m \in Node, Break(m)
  PROVE  /\ \A n \in Node \ {m} : Transit(n)' = Transit(n)
         /\ Len(Transit(m)') <= Len(Transit(m))
         /\ \A i \in 1 .. Len(Transit(m)') : Transit(m)'[i] = Transit(m)[i]
         /\ Transit(m)' \in Seq(Nat)
<1> DEFINE a == toClient[m]
           b == toServer[m]
<1>1. a \in Seq(Nat) /\ b \in Seq(Nat)
  BY TransitType
<1>2. PICK k \in 0 .. Len(a) : toClient' = [toClient EXCEPT ![m] = SubSeq(@, 1, k)]
  BY DEF Break
<1>3. toServer[m]' = <<>> /\ toClient[m]' = SubSeq(a, 1, k)
  BY <1>2 DEF ConnType, Break
<1>4. \A n \in Node \ {m} : Transit(n)' = Transit(n)
  BY <1>2 DEF ConnType, Transit, Break
<1>5. Len(a) \in Nat /\ Len(b) \in Nat
  BY <1>1, LenProperties
<1>6. /\ SubSeq(a, 1, k) \in Seq(Nat)
      /\ Len(SubSeq(a, 1, k)) = k
      /\ \A i \in 1 .. k : SubSeq(a, 1, k)[i] = a[i]
  BY <1>1, PrefixType
<1>7. Transit(m)' = SubSeq(a, 1, k) \o <<>> /\ Transit(m) = a \o b
  BY <1>3 DEF Transit
<1> HIDE DEF a, b
<1>8. Transit(m)' = SubSeq(a, 1, k)
  BY <1>6, <1>7, ConcatEmptySeq
<1> QED
  BY <1>1, <1>4, <1>5, <1>6, <1>7, <1>8, ConcatProperties

-----------------------------------------------------------------------------
(* Where a flow is: on the connection or with the listener.                *)

\* The listener has read a flow and is not done with it.
Pending(n) == lpc[n] \in {"unbusy", "account", "stamp"}

\* Flow r is the i-th on the connection, or with i = 0 at its listener.
At(n, i, r) ==
    IF i = 0 THEN Pending(n) /\ got[n] = r
             ELSE i \in Places(n) /\ Transit(n)[i] = r

\* No flow has moved when neither the connections nor the listeners have.
LEMMA AtSame ==
  ASSUME \A n \in Node : /\ Transit(n)' = Transit(n)
                         /\ got'[n] = got[n]
                         /\ got[n] # 0 => (Pending(n)' <=> Pending(n))
  PROVE  \A n \in Node : \A i \in Nat : \A r \in Nat \ {0} : At(n, i, r)' <=> At(n, i, r)
BY DEF At, Places

\* A flow that is sent is behind all others on its connection.
LEMMA AtSend ==
  ASSUME ConnType, NEW m \in Node, NEW id \in Nat, UNCHANGED <<lpc, got>>,
         toServer' = [toServer EXCEPT ![m] = Append(@, id)], toClient' = toClient
  PROVE  \A n \in Node : \A i \in Nat : \A r \in Nat :
            At(n, i, r)' <=> \/ At(n, i, r)
                             \/ n = m /\ i = Len(Transit(m)) + 1 /\ r = id
<1>1. /\ \A n \in Node \ {m} : Transit(n)' = Transit(n)
      /\ Len(Transit(m)') = Len(Transit(m)) + 1
      /\ \A i \in Places(m) : Transit(m)'[i] = Transit(m)[i]
      /\ Transit(m)'[Len(Transit(m)) + 1] = id
  BY TransitSend
<1>2. Len(Transit(m)) \in Nat
  BY TransitType
<1>3. \A n \in Node : Pending(n)' <=> Pending(n)
  BY DEF Pending
<1>4. ASSUME NEW n \in Node \ {m}, NEW i \in Nat, NEW r \in Nat
      PROVE  At(n, i, r)' <=> At(n, i, r)
  BY <1>1, <1>3 DEF At, Places
<1>5. ASSUME NEW i \in Nat, NEW r \in Nat
      PROVE  At(m, i, r)' <=> At(m, i, r) \/ (i = Len(Transit(m)) + 1 /\ r = id)
  <2>1. CASE i = 0
    BY <1>2, <1>3, <2>1 DEF At
  <2>2. CASE i \in Places(m)
    BY <1>1, <1>2, <2>2 DEF At, Places
  <2>3. CASE i = Len(Transit(m)) + 1
    BY <1>1, <1>2, <2>3 DEF At, Places
  <2>4. CASE i > Len(Transit(m)) + 1
    BY <1>1, <1>2, <2>4 DEF At, Places
  <2> QED
    BY <1>2, <2>1, <2>2, <2>3, <2>4 DEF Places
<1> QED
  BY <1>4, <1>5

\* Reading moves every flow of the connection one place on.
LEMMA AtRead ==
  ASSUME ConnType, NEW m \in Node, ListenRead(m)
  PROVE  /\ \A n \in Node \ {m} : \A i \in Nat : \A r \in Nat : At(n, i, r)' <=> At(n, i, r)
         /\ \A i \in Nat : \A r \in Nat : At(m, i, r)' <=> At(m, i + 1, r)
         /\ ~Pending(m) /\ \A r \in Nat : ~At(m, 0, r)
<1>1. /\ \A n \in Node \ {m} : Transit(n)' = Transit(n)
      /\ Len(Transit(m)) >= 1
      /\ got[m]' = Transit(m)[1]
      /\ Len(Transit(m)') = Len(Transit(m)) - 1
      /\ \A i \in 1 .. (Len(Transit(m)) - 1) : Transit(m)'[i] = Transit(m)[i + 1]
  BY TransitRead
<1>2. Len(Transit(m)) \in Nat
  BY TransitType
<1>3. /\ lpc[m] = "read" /\ lpc'[m] = "unbusy"
      /\ \A n \in Node \ {m} : lpc'[n] = lpc[n] /\ got'[n] = got[n]
  BY DEF ListenRead, ConnType
<1>4. ~Pending(m) /\ Pending(m)' /\ \A n \in Node \ {m} : Pending(n)' <=> Pending(n)
  BY <1>3 DEF Pending
<1>5. ASSUME NEW n \in Node \ {m}, NEW i \in Nat, NEW r \in Nat
      PROVE  At(n, i, r)' <=> At(n, i, r)
  BY <1>1, <1>3, <1>4 DEF At, Places
<1>6. ASSUME NEW i \in Nat, NEW r \in Nat
      PROVE  At(m, i, r)' <=> At(m, i + 1, r)
  <2>1. CASE i = 0
    BY <1>1, <1>2, <1>4, <2>1 DEF At, Places
  <2>2. CASE i # 0
    <3>1. i \in 1 .. Len(Transit(m)') <=> i + 1 \in 1 .. Len(Transit(m))
      BY <1>1, <1>2, <2>2
    <3>2. i \in 1 .. Len(Transit(m)') => Transit(m)'[i] = Transit(m)[i + 1]
      BY <1>1
    <3> QED
      BY <2>2, <3>1, <3>2 DEF At, Places
  <2> QED
    BY <2>1, <2>2
<1>7. \A r \in Nat : ~At(m, 0, r)
  BY <1>4 DEF At
<1> QED
  BY <1>4, <1>5, <1>6, <1>7

\* A connection that fails loses flows and moves none.
LEMMA AtBreak ==
  ASSUME ConnType, NEW m \in Node, Break(m)
  PROVE  \A n \in Node : \A i \in Nat : \A r \in Nat : At(n, i, r)' => At(n, i, r)
<1>1. /\ \A n \in Node \ {m} : Transit(n)' = Transit(n)
      /\ Len(Transit(m)') <= Len(Transit(m))
      /\ \A i \in 1 .. Len(Transit(m)') : Transit(m)'[i] = Transit(m)[i]
      /\ Transit(m)' \in Seq(Nat)
  BY TransitBreak
<1>2. Len(Transit(m)) \in Nat /\ Len(Transit(m)') \in Nat
  BY <1>1, TransitType, LenProperties
<1>3. UNCHANGED <<lpc, got>>
  BY DEF Break, node
<1>4. \A n \in Node : Pending(n)' <=> Pending(n)
  BY <1>3 DEF Pending
<1>5. ASSUME NEW n \in Node, NEW i \in Nat, NEW r \in Nat, At(n, i, r)'
      PROVE  At(n, i, r)
  <2>1. CASE i = 0
    BY <1>3, <1>4, <1>5, <2>1 DEF At
  <2>2. CASE i # 0 /\ n # m
    BY <1>1, <1>5, <2>2 DEF At, Places
  <2>3. CASE i # 0 /\ n = m
    <3>1. i \in 1 .. Len(Transit(m)') /\ Transit(m)'[i] = r
      BY <1>5, <2>3 DEF At, Places
    <3> QED
      BY <1>1, <1>2, <2>3, <3>1 DEF At, Places
  <2> QED
    BY <2>1, <2>2, <2>3
<1> QED
  BY <1>5

-----------------------------------------------------------------------------
(* Descriptors that no other open socket has.                              *)

\* An open socket is the only one with its descriptor, so a write goes where
\* it is meant to go unless a connection failed.
FilesInv ==
    /\ \A m, n \in Node : (sock[m] = "open" /\ Holds(n, sockfd[m])) => m = n
    /\ \A n \in Node : sock[n] = "open" => sockfd[n] \notin leaked
    /\ breaks = 0 => ~astray

\* The socket of a new connection has a descriptor of its own.
LEMMA FilesAdded ==
  ASSUME ConnType, IsFiniteSet(leaked), FilesInv, NEW s \in Server, NEW b \in BOOLEAN, AddNode(s, b)
  PROVE  FilesInv'
<1>0. PICK k \in Node : k = <<s, len[s] + 1>>
  BY AddNodeEffect
<1>1. /\ sockfd'[k] \notin InUse /\ sock'[k] = "open"
      /\ \A m \in Node : m # k => sock'[m] = sock[m] /\ sockfd'[m] = sockfd[m]
      /\ UNCHANGED <<leaked, astray, breaks>>
  BY <1>0, AddNodeEffect
<1>2. sockfd'[k] \notin leaked /\ \A m \in Node : sock[m] = "open" => sockfd[m] # sockfd'[k]
  BY <1>1 DEF InUse
<1>3. ASSUME NEW m \in Node, NEW n \in Node,
             sock'[m] = "open", sock'[n] = "open", sockfd'[n] = sockfd'[m]
      PROVE  m = n
  BY <1>1, <1>2, <1>3 DEF FilesInv, Holds
<1>4. \A n \in Node : sock'[n] = "open" => sockfd'[n] \notin leaked'
  BY <1>1, <1>2 DEF FilesInv
<1> QED
  BY <1>1, <1>3, <1>4 DEF FilesInv, Holds

\* A write to a node whose socket is open goes to that node.
LEMMA FilesWritten ==
  ASSUME ConnType, FilesInv, NEW n \in Node, NEW id \in Nat, WriteSent(n, id), breaks' = breaks,
         breaks = 0 => sock[n] = "open"
  PROVE  FilesInv'
<1>1. PICK m \in Node : /\ sock[m] = "open" /\ sockfd[m] = sockfd[n]
                        /\ astray' <=> astray \/ m # n
  BY WriteSentEffect
<1>2. UNCHANGED <<sock, sockfd, leaked>>
  BY WriteSentEffect
<1>3. breaks = 0 => m = n
  BY <1>1 DEF FilesInv, Holds
<1>4. breaks' = 0 => ~astray'
  BY <1>1, <1>3 DEF FilesInv, ConnType
<1> QED
  BY <1>2, <1>4 DEF FilesInv, Holds

\* A flow written to a node whose socket is open is behind all others there.
LEMMA WrittenAt ==
  ASSUME ConnType, FilesInv, NEW n \in Node, NEW id \in Nat, WriteSent(n, id),
         UNCHANGED <<lpc, got>>, sock[n] = "open"
  PROVE  /\ \A m \in Node : \A i, r \in Nat :
               At(m, i, r)' <=> \/ At(m, i, r)
                                \/ m = n /\ i = Len(Transit(n)) + 1 /\ r = id
         /\ \A i, r \in Nat : At(n, i, r) => i < Len(Transit(n)) + 1
         /\ Len(Transit(n)) + 1 \in Nat
<1>1. PICK m \in Node : /\ sock[m] = "open" /\ sockfd[m] = sockfd[n]
                        /\ toServer' = [toServer EXCEPT ![m] = Append(@, id)]
  BY DEF WriteSent, Holds
<1>2. m = n
  BY <1>1 DEF FilesInv, Holds
<1>3. toClient' = toClient
  BY DEF WriteSent
<1>4. Len(Transit(n)) \in Nat
  BY TransitType
<1>5. \A i, r \in Nat : At(n, i, r) => i < Len(Transit(n)) + 1
  BY <1>4 DEF At, Places
<1>6. toServer' = [toServer EXCEPT ![n] = Append(@, id)]
  BY <1>1, <1>2
<1>7. \A q \in Node : \A i \in Nat : \A r \in Nat :
         At(q, i, r)' <=> At(q, i, r) \/ (q = n /\ i = Len(Transit(n)) + 1 /\ r = id)
  BY <1>3, <1>6, AtSend
<1> QED
  BY <1>4, <1>5, <1>7

-----------------------------------------------------------------------------
(* The end of a listener.                                                  *)

\* Where a listener is once it has left its loop.
Closing == {"close", "disconnect", "leave", "done"}

\* The termination flow has been sent on a connection.
ExitSent(n) ==
    \/ mpc = "done"
    \/ mpc \in {"exit", "exitWrite"} /\ (n[1] < si \/ (n[1] = si /\ n[2] < xi))
    \/ mpc = "wait" /\ n[1] <= si

\* Making a connection moves no flow.
LEMMA FlowsAdded ==
  ASSUME ConnType, IsFiniteSet(leaked), \A n \in Node : ~Exists(n) => lpc[n] = "none",
         NEW s \in Server, NEW b \in BOOLEAN, AddNode(s, b)
  PROVE  /\ UNCHANGED breaks
         /\ \A n \in Node : /\ Transit(n)' = Transit(n)
                            /\ got'[n] = got[n]
                            /\ Pending(n)' <=> Pending(n)
<1>0. PICK k \in Node : k = <<s, len[s] + 1>>
  BY AddNodeEffect
<1>1. /\ lpc'[k] \in {"read", "none"} /\ \A n \in Node : n # k => lpc'[n] = lpc[n]
      /\ UNCHANGED <<got, toServer, toClient, breaks>>
  BY <1>0, AddNodeEffect
<1>2. ~Exists(k)
  BY <1>0, NodeNumbers DEF Exists
<1>3. lpc[k] = "none"
  BY <1>2
<1> QED
  BY <1>1, <1>3, TransitSame DEF Pending

\* Flows are gone only where a listener was at one, or none was.
LEMMA AtShrinks ==
  ASSUME \A n \in Node : /\ Transit(n)' = Transit(n)
                         /\ got'[n] = got[n]
                         /\ Pending(n)' => Pending(n)
  PROVE  \A n \in Node : \A i, r \in Nat : At(n, i, r)' => At(n, i, r)
BY DEF At, Places

-----------------------------------------------------------------------------
(* Flows that are owed, and the counts.                                    *)

\* The listener has not accounted for flow r of its connection yet.
Owes(n, r) ==
    \/ lpc[n] \in {"unbusy", "account"} /\ got[n] = r
    \/ \E i \in Places(n) : Transit(n)[i] = r

\* A step that moves no flow and takes no listener past its update.
LEMMA OwesStays ==
  ASSUME \A n \in Node : /\ Transit(n)' = Transit(n)
                         /\ got'[n] = got[n]
                         /\ got[n] # 0 => (lpc'[n] \in {"unbusy", "account"}
                                              <=> lpc[n] \in {"unbusy", "account"})
  PROVE  \A n \in Node : \A r \in Nat \ {0} : Owes(n, r)' <=> Owes(n, r)
<1> TAKE n \in Node
<1> TAKE r \in Nat \ {0}
<1>2. Places(n)' = Places(n)
  BY DEF Places
<1> QED
  BY <1>2 DEF Owes

\* The flow that a listener reads is still owed.
LEMMA OwesRead ==
  ASSUME ConnType, NEW m \in Node, ListenRead(m)
  PROVE  \A n \in Node : \A r \in Nat \ {0} : Owes(n, r)' <=> Owes(n, r)
<1>1. /\ \A n \in Node \ {m} : Transit(n)' = Transit(n)
      /\ Len(Transit(m)) >= 1
      /\ got[m]' = Transit(m)[1]
      /\ Len(Transit(m)') = Len(Transit(m)) - 1
      /\ \A i \in 1 .. (Len(Transit(m)) - 1) : Transit(m)'[i] = Transit(m)[i + 1]
  BY TransitRead
<1>2. /\ lpc[m] = "read" /\ lpc'[m] = "unbusy"
      /\ \A n \in Node \ {m} : lpc'[n] = lpc[n] /\ got'[n] = got[n]
  BY DEF ListenRead, ConnType
<1>3. Len(Transit(m)) \in Nat
  BY TransitType
<1>4. \A n \in Node \ {m} : \A r \in Nat \ {0} : Owes(n, r)' <=> Owes(n, r)
  BY <1>1, <1>2 DEF Owes, Places
<1>5. ASSUME NEW r \in Nat \ {0}, Owes(m, r) PROVE Owes(m, r)'
  <2>1. PICK i \in 1 .. Len(Transit(m)) : Transit(m)[i] = r
    BY <1>2, <1>5 DEF Owes, Places
  <2>2. CASE i = 1
    BY <1>1, <1>2, <2>1, <2>2 DEF Owes
  <2>3. CASE i # 1
    <3>1. i - 1 \in 1 .. (Len(Transit(m)) - 1) /\ (i - 1) + 1 = i
      BY <1>3, <2>3
    <3>2. Transit(m)'[i - 1] = r
      BY <1>1, <2>1, <3>1
    <3> QED
      BY <1>1, <3>1, <3>2 DEF Owes, Places
  <2> QED
    BY <2>2, <2>3
<1>6. ASSUME NEW r \in Nat \ {0}, Owes(m, r)' PROVE Owes(m, r)
  <2>1. CASE got[m]' = r
    <3>1. 1 \in 1 .. Len(Transit(m))
      BY <1>1, <1>3
    <3> QED
      BY <1>1, <2>1, <3>1 DEF Owes, Places
  <2>2. CASE got[m]' # r
    <3>1. PICK i \in 1 .. (Len(Transit(m)) - 1) : Transit(m)'[i] = r
      BY <1>1, <1>6, <2>2 DEF Owes, Places
    <3>2. i + 1 \in 1 .. Len(Transit(m)) /\ Transit(m)[i + 1] = r
      BY <1>1, <1>3, <3>1
    <3> QED
      BY <3>2 DEF Owes, Places
  <2> QED
    BY <2>1, <2>2
<1> QED
  BY <1>4, <1>5, <1>6

\* A flow that is sent is owed by the listener of its connection.
LEMMA OwesSend ==
  ASSUME ConnType, NEW m \in Node, NEW id \in Nat, UNCHANGED <<lpc, got>>,
         toServer' = [toServer EXCEPT ![m] = Append(@, id)], toClient' = toClient
  PROVE  \A n \in Node : \A r \in Nat \ {0} :
            Owes(n, r)' <=> Owes(n, r) \/ (n = m /\ r = id)
<1>1. /\ \A n \in Node \ {m} : Transit(n)' = Transit(n)
      /\ Len(Transit(m)') = Len(Transit(m)) + 1
      /\ \A i \in Places(m) : Transit(m)'[i] = Transit(m)[i]
      /\ Transit(m)'[Len(Transit(m)) + 1] = id
  BY TransitSend
<1>2. Len(Transit(m)) \in Nat
  BY TransitType
<1>3. /\ Places(m) \subseteq Places(m)' /\ Len(Transit(m)) + 1 \in Places(m)'
      /\ \A i \in Places(m)' : i \in Places(m) \/ i = Len(Transit(m)) + 1
  BY <1>1, <1>2 DEF Places
<1>4. \A n \in Node \ {m} : \A r \in Nat \ {0} : Owes(n, r)' <=> Owes(n, r)
  BY <1>1 DEF Owes, Places
<1>5. \A r \in Nat \ {0} : Owes(m, r)' <=> Owes(m, r) \/ r = id
  BY <1>1, <1>3 DEF Owes
<1> QED
  BY <1>4, <1>5

\* A connection that fails may lose what is owed on it.
LEMMA OwesBreak ==
  ASSUME ConnType, NEW m \in Node, Break(m)
  PROVE  \A n \in Node : \A r \in Nat \ {0} : Owes(n, r)' => Owes(n, r)
<1>1. /\ \A n \in Node \ {m} : Transit(n)' = Transit(n)
      /\ Len(Transit(m)') <= Len(Transit(m))
      /\ \A i \in 1 .. Len(Transit(m)') : Transit(m)'[i] = Transit(m)[i]
      /\ Transit(m)' \in Seq(Nat)
  BY TransitBreak
<1>2. Len(Transit(m)) \in Nat /\ Len(Transit(m)') \in Nat
  BY <1>1, TransitType, LenProperties
<1>3. UNCHANGED <<lpc, got>>
  BY DEF Break, node
<1>4. \A i \in Places(m)' : i \in Places(m) /\ Transit(m)'[i] = Transit(m)[i]
  BY <1>1, <1>2 DEF Places
<1> QED
  BY <1>1, <1>3, <1>4 DEF Owes, Places

\* A flow that is owed is on its connection or with its listener.
LEMMA OwesAt ==
  ASSUME ConnType
  PROVE  \A n \in Node : \A r \in Nat :
            Owes(n, r) <=> \E i \in Nat : At(n, i, r) /\ (i = 0 => lpc[n] # "stamp")
<1> SUFFICES ASSUME NEW n \in Node, NEW r \in Nat
             PROVE  Owes(n, r) <=> \E i \in Nat : At(n, i, r) /\ (i = 0 => lpc[n] # "stamp")
  OBVIOUS
<1>1. Len(Transit(n)) \in Nat
  BY TransitType
<1>2. Places(n) \subseteq Nat \ {0}
  BY <1>1 DEF Places
<1>3. lpc[n] \in {"unbusy", "account"} /\ got[n] = r <=> At(n, 0, r) /\ lpc[n] # "stamp"
  BY DEF At, Pending
<1>4. (\E i \in Places(n) : Transit(n)[i] = r) <=> \E i \in Nat \ {0} : At(n, i, r)
  BY <1>2 DEF At
<1> QED
  BY <1>3, <1>4 DEF Owes

\* Unsigned integers within their range, and the first beyond it.
LEMMA UIntSmall ==
  /\ \A v \in Nat : v < UIntWord => UInt(v) = v
  /\ UInt(UIntWord) = 0
<1> DEFINE w == UIntWord
<1>1. w \in Nat \ {0}
  BY PoolAssumption
<1> HIDE DEF w
<1>2. \A v \in Nat : v < w => v % w = v
  <2> TAKE v \in Nat
  <2> HAVE v < w
  <2>1. v \in 0 .. (w - 1) /\ v = w * 0 + v
    BY <1>1
  <2> QED
    BY <1>1, <2>1
<1>3. w % w = 0
  <2>1. 0 \in 0 .. (w - 1) /\ w = w * 1 + 0
    BY <1>1
  <2> QED
    BY <1>1, <2>1
<1> QED
  BY <1>2, <1>3 DEF UInt, w

\* The connections of a server that are in its list.
Listed(s) == {n \in Node : n[1] = s /\ Exists(n)}

\* There are as many connections as len says.
LEMMA ListedCount ==
  ASSUME ConnType, NEW s \in Server
  PROVE  IsFiniteSet(Listed(s)) /\ Cardinality(Listed(s)) = len[s]
<1> DEFINE k == len[s]
           L == Listed(s)
           f == [i \in 1 .. k |-> <<s, i>>]
<1>1. k \in Nat /\ k <= MaxNode /\ MaxNode \in Nat
  BY PoolAssumption DEF ConnType
<1>2. \A i \in 1 .. k : <<s, i>> \in L
  <2> TAKE i \in 1 .. k
  <2>1. i \in 1 .. MaxNode
    BY <1>1
  <2>2. PICK n \in Node : n = <<s, i>>
    BY <2>1, NodeParts
  <2> QED
    BY <2>2 DEF Listed, Exists
<1>3. \A n \in L : n[2] \in 1 .. k /\ n = <<s, n[2]>>
  BY NodeNumbers DEF Listed, Exists
<1> HIDE DEF k, L
<1>4. f \in Bijection(1 .. k, L)
  <2>1. f \in Injection(1 .. k, L)
    BY <1>2 DEF Injection, IsInjective
  <2>2. f \in Surjection(1 .. k, L)
    BY <1>2, <1>3 DEF Surjection
  <2> QED
    BY <2>1, <2>2 DEF Bijection
<1>5. IsFiniteSet(1 .. k) /\ Cardinality(1 .. k) = k
  BY <1>1, FS_Interval
<1>6. ExistsBijection(1 .. k, L)
  BY <1>4 DEF ExistsBijection
<1> QED
  BY <1>5, <1>6, FS_Bijection DEF k, L

-----------------------------------------------------------------------------
(* What the steps do to the types.                                         *)

\* The steps of listeners and servers keep the types of the pool, and do not
\* touch main.
LEMMA ThreadTypes ==
  ASSUME ConnType, NEW n \in Node,
         Listen(n) \/ ListenStamped(n) \/ Serve(n) \/ ServeEnd(n) \/ Break(n)
  PROVE  ConnType' /\ UNCHANGED <<leaked, main>>
<1> USE PoolAssumption, NodeParts DEF list, node, files, wire, main
<1>1. CASE ListenRead(n)
  <2>1. /\ toClient[n] # <<>>
        /\ got' = [got EXCEPT ![n] = Head(toClient[n])]
        /\ toClient' = [toClient EXCEPT ![n] = Tail(toClient[n])]
        /\ lpc' = [lpc EXCEPT ![n] = "unbusy"]
        /\ UNCHANGED <<list, busy, connected, sock, up, serving, toServer, files, breaks, main>>
    BY <1>1 DEF ListenRead
  <2>2. Head(toClient[n]) \in Nat /\ Tail(toClient[n]) \in Seq(Nat)
    BY <2>1, HeadTailProperties DEF ConnType
  <2> QED
    BY <2>1, <2>2 DEF ConnType, ListenerPc
<1>2. CASE ListenFail(n)
  BY <1>2 DEF ConnType, ListenerPc, ListenFail
<1>3. CASE ListenUnbusy(n)
  BY <1>3 DEF ConnType, ListenerPc, ListenUnbusy
<1>4. CASE ListenAccount(n)
  <2>1. /\ \/ flowFinished' = [flowFinished EXCEPT ![n[1]] = flowFinished[n[1]] + 1]
           \/ UNCHANGED flowFinished
        /\ \/ availableLen' = [availableLen EXCEPT ![n[1]] = UInt(availableLen[n[1]] + 1)]
           \/ UNCHANGED availableLen
        /\ lpc' = [lpc EXCEPT ![n] = "stamp"] \/ lpc' = [lpc EXCEPT ![n] = "close"]
        /\ UNCHANGED <<len, busy, connected, got, wire, breaks, main>>
    BY <1>4 DEF ListenAccount
  <2>2. n[1] \in Server
    OBVIOUS
  <2>3. UInt(availableLen[n[1]] + 1) \in 0 .. (UIntWord - 1)
    BY <2>2, AvailableType
  <2>4. availableLen' \in [Server -> 0 .. (UIntWord - 1)] /\ flowFinished' \in [Server -> Nat]
    <3> DEFINE v == UInt(availableLen[n[1]] + 1)
               s == n[1]
    <3>1. UNCHANGED availableLen \/ availableLen' = [availableLen EXCEPT ![s] = v]
      BY <2>1
    <3>2. UNCHANGED flowFinished \/ flowFinished' = [flowFinished EXCEPT ![s] = flowFinished[s] + 1]
      BY <2>1
    <3>3. v \in 0 .. (UIntWord - 1) /\ s \in Server
      BY <2>2, <2>3
    <3> HIDE DEF v, s
    <3>4. availableLen' \in [Server -> 0 .. (UIntWord - 1)]
      <4>1. availableLen \in [Server -> 0 .. (UIntWord - 1)]
        BY DEF ConnType
      <4> QED
        BY ONLY <3>1, <3>3, <4>1, UpdateType
    <3>5. flowFinished' \in [Server -> Nat]
      <4>1. flowFinished \in [Server -> Nat]
        BY DEF ConnType
      <4>2. flowFinished[s] + 1 \in Nat
        BY ONLY <3>3, <4>1
      <4> QED
        BY ONLY <3>2, <4>1, <4>2, UpdateType
    <3> QED
      BY <3>4, <3>5
  <2>5. lpc' \in [Node -> ListenerPc]
    BY <2>1 DEF ConnType, ListenerPc
  <2> QED
    BY <2>1, <2>4, <2>5 DEF ConnType
<1>5. CASE ListenClose(n)
  BY <1>5 DEF ConnType, ListenerPc, ListenClose
<1>6. CASE ListenDisconnect(n)
  BY <1>6 DEF ConnType, ListenerPc, ListenDisconnect
<1>7. CASE ListenLeave(n)
  BY <1>7 DEF ConnType, ListenerPc, ListenLeave
<1>8. CASE ListenStamped(n)
  BY <1>8 DEF ConnType, ListenerPc, ListenStamped
<1>9. CASE Serve(n)
  <2>1. /\ toServer[n] # <<>>
        /\ toServer' = [toServer EXCEPT ![n] = Tail(toServer[n])]
        /\ toClient' = [toClient EXCEPT ![n] = Append(toClient[n], Head(toServer[n]))]
        /\ UNCHANGED <<list, node, sock, up, serving, files, breaks, main>>
    BY <1>9 DEF Serve
  <2>2. toServer[n] \in Seq(Nat) /\ toClient[n] \in Seq(Nat)
    BY DEF ConnType
  <2>3. Head(toServer[n]) \in Nat /\ Tail(toServer[n]) \in Seq(Nat)
    BY <2>1, <2>2, HeadTailProperties
  <2>4. Append(toClient[n], Head(toServer[n])) \in Seq(Nat)
    BY <2>2, <2>3, AppendProperties
  <2> QED
    BY <2>1, <2>3, <2>4 DEF ConnType
<1>10. CASE ServeEnd(n)
  BY <1>10 DEF ConnType, ListenerPc, ServeEnd
<1>11. CASE Break(n)
  <2>1. /\ breaks < MaxBreaks /\ breaks' = breaks + 1 /\ up' = [up EXCEPT ![n] = FALSE]
        /\ toServer' = [toServer EXCEPT ![n] = <<>>]
        /\ UNCHANGED <<list, node, sock, serving, files, main>>
    BY <1>11 DEF Break
  <2>2. PICK i \in 0 .. Len(toClient[n]) :
           toClient' = [toClient EXCEPT ![n] = SubSeq(toClient[n], 1, i)]
    BY <1>11 DEF Break
  <2>3. SubSeq(toClient[n], 1, i) \in Seq(Nat)
    BY PrefixType DEF ConnType
  <2>4. toClient' \in [Node -> Seq(Nat)] /\ toServer' \in [Node -> Seq(Nat)]
    <3> DEFINE left == SubSeq(toClient[n], 1, i)
    <3>1. toClient' = [toClient EXCEPT ![n] = left] /\ left \in Seq(Nat)
      BY <2>2, <2>3
    <3>2. <<>> \in Seq(Nat)
      OBVIOUS
    <3> HIDE DEF left
    <3> QED
      BY <2>1, <3>1, <3>2 DEF ConnType
  <2>5. up' \in [Node -> BOOLEAN]
    BY <2>1 DEF ConnType
  <2>6. breaks \in 0 .. MaxBreaks
    BY DEF ConnType
  <2>7. breaks' \in 0 .. MaxBreaks
    BY ONLY <2>1, <2>6, PoolAssumption
  <2> QED
    BY <2>1, <2>4, <2>5, <2>7 DEF ConnType
<1> QED
  BY <1>1, <1>2, <1>3, <1>4, <1>5, <1>6, <1>7, <1>8, <1>9, <1>10, <1>11 DEF Listen

\* Where main may get to by opening and terminating connections.
PoolPc == {"open", "spawn", "request", "exit", "exitWrite", "wait", "done", "failed", "killed"}

\* So do the steps of main that open and terminate connections, or wait.
LEMMA MainPoolTypes ==
  ASSUME ConnType, IsFiniteSet(leaked), si \in Server, xi \in 1 .. (MaxNode + 1),
         mpc = "exitWrite" => xi <= len[si], NEW b \in BOOLEAN,
         \/ OpenFirst \/ OpenFirstFails \/ SpawnListeners
         \/ ExitNode(b) \/ ExitWrite \/ ExitAllSent \/ WaitNode \/ WaitAllDone
  PROVE  /\ ConnType' /\ leaked' = leaked
         /\ si' \in Server /\ xi' \in 1 .. (MaxNode + 1) /\ mpc' \in PoolPc
<1> USE PoolAssumption, NodeParts DEF list, node, files, wire, PoolPc
<1>0. len[si] \in 0 .. MaxNode /\ availableLen[si] \in 0 .. (UIntWord - 1)
  BY DEF ConnType
<1>1. CASE OpenFirst
  <2>1. /\ mpc = "open" /\ AddNode(si, FALSE) /\ xi' = xi
        /\ \/ UNCHANGED <<mpc, si>>
           \/ si < NServer /\ si' = si + 1 /\ UNCHANGED mpc
           \/ si' = 1 /\ mpc' = "spawn"
    BY <1>1 DEF OpenFirst
  <2>2. ConnType' /\ leaked' = leaked
    BY <2>1, AddNodeEffect
  <2> QED
    BY <2>1, <2>2
<1>2. CASE OpenFirstFails
  BY <1>2 DEF ConnType, OpenFirstFails
<1>3. CASE SpawnListeners
  BY <1>3 DEF ConnType, ListenerPc, SpawnListeners
<1>4. CASE ExitNode(b)
  <2>1. /\ mpc = "exit" /\ xi <= len[si]
        /\ \/ /\ busy' = [busy EXCEPT ![<<si, xi>>] = b \/ busy[<<si, xi>>]]
              /\ availableLen' = [availableLen EXCEPT ![si] = UInt(availableLen[si] - 1)]
              /\ mpc' = "exitWrite" /\ UNCHANGED xi
           \/ xi' = xi + 1 /\ UNCHANGED <<busy, availableLen, mpc>>
        /\ UNCHANGED <<len, flowFinished, connected, lpc, got, wire, breaks, si>>
    BY <1>4 DEF ExitNode
  <2>2. xi + 1 \in 1 .. MaxNode + 1 /\ <<si, xi>> \in Node
    BY <1>0, <2>1, NextIndex
  <2>3. UInt(availableLen[si] - 1) \in 0 .. (UIntWord - 1)
    BY AvailableType
  <2>4. busy' \in [Node -> BOOLEAN] /\ availableLen' \in [Server -> 0 .. (UIntWord - 1)]
    <3> DEFINE v == UInt(availableLen[si] - 1)
               c == b \/ busy[<<si, xi>>]
    <3>1. /\ UNCHANGED busy \/ busy' = [busy EXCEPT ![<<si, xi>>] = c]
          /\ UNCHANGED availableLen \/ availableLen' = [availableLen EXCEPT ![si] = v]
      BY <2>1
    <3>2. v \in 0 .. (UIntWord - 1) /\ c \in BOOLEAN
      BY <2>2, <2>3 DEF ConnType
    <3> HIDE DEF v, c
    <3>3. availableLen' \in [Server -> 0 .. (UIntWord - 1)]
      <4>1. availableLen \in [Server -> 0 .. (UIntWord - 1)]
        BY DEF ConnType
      <4> QED
        BY ONLY <3>1, <3>2, <4>1, UpdateType
    <3>4. busy' \in [Node -> BOOLEAN]
      BY <3>1, <3>2 DEF ConnType
    <3> QED
      BY <3>3, <3>4
  <2>5. ConnType'
    BY <2>1, <2>4 DEF ConnType
  <2> QED
    BY <2>1, <2>2, <2>5
<1>5. CASE ExitWrite
  <2>1. /\ mpc = "exitWrite"
        /\ UNCHANGED <<list, node, breaks, si, sock, up, serving, toClient, sockfd, leaked>>
        /\ \/ /\ WriteSent(<<si, xi>>, 0) \/ UNCHANGED wire
              /\ mpc' = "exit" /\ xi' = xi + 1
           \/ mpc' = "killed" /\ UNCHANGED <<wire, xi>>
    BY <1>5 DEF ExitWrite, WriteLost, WriteKills, WriteSent
  <2>2. xi + 1 \in 1 .. MaxNode + 1 /\ <<si, xi>> \in Node
    BY <1>0, <2>1, NextIndex
  <2>3. toServer' \in [Node -> Seq(Nat)] /\ astray' \in BOOLEAN
    <3>1. CASE UNCHANGED wire
      BY <3>1 DEF ConnType
    <3>2. CASE WriteSent(<<si, xi>>, 0)
      BY <2>2, <3>2, WriteSentEffect
    <3> QED
      BY <2>1, <3>1, <3>2
  <2>4. ConnType'
    BY <2>1, <2>3 DEF ConnType
  <2> QED
    BY <2>1, <2>2, <2>4
<1>6. CASE ExitAllSent
  BY <1>6 DEF ConnType, ExitAllSent
<1>7. CASE WaitNode
  <2>1. mpc = "wait" /\ xi <= len[si] /\ xi' = xi + 1 /\ UNCHANGED <<list, node, wire, breaks, mpc, si>>
    BY <1>7 DEF WaitNode
  <2>2. xi' \in 1 .. MaxNode + 1
    BY <1>0, <2>1, NextIndex
  <2>3. ConnType'
    BY <2>1 DEF ConnType
  <2> QED
    BY <2>1, <2>2, <2>3
<1>8. CASE WaitAllDone
  <2>1. /\ xi' = 1 /\ UNCHANGED <<list, node, wire, breaks>>
        /\ \/ si < NServer /\ si' = si + 1 /\ mpc' = "exit"
           \/ mpc' = "done" /\ UNCHANGED si
    BY <1>8 DEF WaitAllDone
  <2>2. ConnType'
    BY <2>1 DEF ConnType
  <2> QED
    BY <2>1, <2>2
<1> QED
  BY <1>1, <1>2, <1>3, <1>4, <1>5, <1>6, <1>7, <1>8

-----------------------------------------------------------------------------
\* At first there are no connections, and so no flows.
LEMMA PoolStarts ==
  ASSUME PoolInit
  PROVE  /\ ConnType /\ IsFiniteSet(leaked) /\ si \in Server /\ xi \in 1 .. (MaxNode + 1)
         /\ \A n \in Node : /\ ~Exists(n) /\ sock[n] = "none" /\ lpc[n] = "none"
                            /\ ~busy[n] /\ ~up[n] /\ ~connected[n]
                            /\ toServer[n] = <<>> /\ toClient[n] = <<>>
                            /\ Transit(n) = <<>> /\ Places(n) = {}
                            /\ \A i, r \in Nat : ~At(n, i, r)
         /\ FilesInv
<1> USE PoolAssumption
<1>1. ConnType
  <2>1. /\ <<>> \in Seq(Nat) /\ 0 \in 0 .. MaxNode /\ 0 \in 0 .. (UIntWord - 1)
        /\ 0 \in 0 .. MaxBreaks
    OBVIOUS
  <2> QED
    BY ONLY <2>1, PoolInit DEF PoolInit, ConnType, ListenerPc
<1>2. \A n \in Node : /\ ~Exists(n) /\ sock[n] = "none" /\ lpc[n] = "none" /\ ~busy[n] /\ ~up[n]
                      /\ ~connected[n] /\ toServer[n] = <<>> /\ toClient[n] = <<>>
  BY NodeParts DEF PoolInit, Exists
<1>3. \A n \in Node : Transit(n) = <<>> /\ Places(n) = {}
  <2> TAKE n \in Node
  <2>1. Transit(n) = <<>> /\ Len(Transit(n)) = 0
    BY <1>1, <1>2, TransitType
  <2> QED
    BY <2>1 DEF Places
<1>4. \A n \in Node : \A i, r \in Nat : ~At(n, i, r)
  BY <1>2, <1>3 DEF At, Pending
<1>5. FilesInv
  BY <1>2 DEF FilesInv, PoolInit
<1>6. leaked = {} /\ si \in Server /\ xi \in 1 .. (MaxNode + 1)
  BY NodeParts DEF PoolInit
<1> QED
  BY <1>1, <1>2, <1>3, <1>4, <1>5, <1>6, FS_EmptySet
=============================================================================
