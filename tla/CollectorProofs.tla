--------------------------- MODULE CollectorProofs ---------------------------
(***************************************************************************)
(* Proofs about Collector: a report is whole however its threads and the   *)
(* receivers interleave, for any number of connections and any sketches.   *)
(***************************************************************************)
EXTENDS Collector, SumProofs

\* The sums of a report over the copies of the sketches in S.
CardSum(f, S) == MapThenSumSet(LAMBDA k : f[k].card, S)
TotSum(f, S) == MapThenSumSet(LAMBDA k : f[k].tot, S)

\* Where a process_data thread is once it has made its copy, put the
\* distribution in place, added to the sums and pushed its heavy flows.
Copied == {"dist", "card", "addCard", "tot", "addTot", "heavy", "done"}
Placed == Copied \ {"dist"}
Counted == {"tot", "addTot", "heavy", "done"}
Totalled == {"heavy", "done"}

\* The sketches whose thread is at one of these places.
Past(Pcs) == {k \in Index : tpc[k] \in Pcs}

\* The device of a sketch is known.
Known(k) == \E c \in Conn : slot[c] = k /\ rpc[c] = "serve"

\* What an entry of the distributions can be: that of a sketch, or none yet.
Dists == {s.dist : s \in Content} \cup {<<>>}

\* The types.
TypeInv ==
    /\ rpc \in [Conn -> {"hello", "name", "serve"}]
    /\ slot \in [Conn -> Nat]
    /\ sketches \in Seq(Content)
    /\ clientId \in [Index -> Int]
    /\ mtx \in Conn \cup {Nobody}
    /\ it \in Nat \ {0}
    /\ tpc \in [Index -> {"none", "copy"} \cup Copied]
    /\ copy = [k \in Index |-> copy[k]]
    /\ \A k \in Index : tpc[k] \in Copied => copy[k] \in Content
    /\ reg \in [Index -> Int]
    /\ mtx2 \in Index \cup {Nobody}
    /\ mtx3 \in Index \cup {Nobody}
    /\ cardinality \in Int
    /\ tot \in Int
    /\ dist \in Seq(Dists)

\* Every sketch is of one connection; the one that has no name yet is of the
\* receiver in mtx.
SlotInv ==
    /\ \A c \in Conn : rpc[c] = "hello" <=> slot[c] = 0
    /\ \A c \in Conn : slot[c] <= Len(sketches)
    /\ \A c, d \in Conn : slot[c] = slot[d] /\ slot[c] # 0 => c = d
    /\ \A k \in 1 .. Len(sketches) : \E c \in Conn : slot[c] = k
    /\ \A c \in Conn : rpc[c] = "name" <=> mtx = c

\* The threads of a report are those of the sketches walked so far.
WalkInv ==
    /\ it - 1 <= Len(sketches)
    /\ \A k \in Index : tpc[k] # "none" <=> k < it
    /\ \A k \in Index : tpc[k] \in Copied => Known(k)
    /\ spc \in {"get", "post", "send"} =>
          \A k \in Index : tpc[k] \in {"none", "done"}

\* A sum is that of the threads that have added to it, and the register of
\* the one that is adding still holds it.
SumInv ==
    /\ mtx2 # Nobody => tpc[mtx2] = "addCard"
    /\ mtx3 # Nobody => tpc[mtx3] = "addTot"
    /\ \A k \in Index : tpc[k] = "addCard" => mtx2 = k /\ reg[k] = cardinality
    /\ \A k \in Index : tpc[k] = "addTot" => mtx3 = k /\ reg[k] = tot
    /\ cardinality = CardSum(copy, Past(Counted))
    /\ tot = TotSum(copy, Past(Totalled))
    /\ heavyPart = Past({"done"})

\* Every thread past its place has a distribution in it, and every place is
\* that of such a thread or empty.
PlacesInv ==
    /\ \A k \in Past(Placed) : clientId[k] \in DOMAIN dist
    /\ \A p \in DOMAIN dist :
          \/ /\ \A k \in Past(Placed) : clientId[k] # p
             /\ dist[p] = <<>>
          \/ \E k \in Past(Placed) : clientId[k] = p /\ dist[p] = copy[k].dist

\* No thread past its place was that of a device of number 0.
Numbered == \A k \in Past(Placed) : clientId[k] >= 1

\* The distributions in place so far.
DistInv == Up /\ Numbered => PlacesInv

\* The inductive invariant.
IInv == TypeInv /\ SlotInv /\ WalkInv /\ SumInv /\ DistInv

-----------------------------------------------------------------------------
(* The sums.                                                               *)

\* The sum of the cardinalities is a sum of the numbers they are.
LEMMA CardSumIs ==
  ASSUME NEW S, IsFiniteSet(S), NEW f
  PROVE  CardSum(f, S) = Sum([k \in S |-> f[k].card], S)
<1> DEFINE e == [k \in S |-> f[k].card]
           IsCards(g) == g = [s \in SUBSET S |->
               IF s = {} THEN 0 ELSE f[Chosen(s)].card + g[s \ {Chosen(s)}]]
           iter == CHOOSE g : IsCards(g)
<1>1. \A s \in SUBSET S : s # {} => e[Chosen(s)] = f[Chosen(s)].card
  BY DEF Chosen
<1>2. ASSUME NEW g PROVE IsCards(g) <=> IsFold(g, e, SUBSET S)
  BY <1>1 DEF IsFold
<1>3. PICK g : IsFold(g, e, SUBSET S)
  BY FoldExists
<1>4. IsFold(iter, e, SUBSET S)
  <2>1. IsCards(g)
    BY <1>2, <1>3
  <2>2. IsCards(iter)
    BY <2>1
  <2> QED
    BY <1>2, <2>2
<1>5. CardSum(f, S) = iter[S]
  BY DEF CardSum, MapThenSumSet, MapThenFoldSet, Chosen
<1>6. PICK h : IsFold(h, e, SUBSET S) /\ Sum(e, S) = h[S]
  BY SumIsFold
<1>7. iter[S] = h[S]
  <2> HIDE DEF iter, e
  <2> QED
    BY <1>4, <1>6, FoldUnique
<1> QED
  BY <1>5, <1>6, <1>7

\* And so is that of the totals.
LEMMA TotSumIs ==
  ASSUME NEW S, IsFiniteSet(S), NEW f
  PROVE  TotSum(f, S) = Sum([k \in S |-> f[k].tot], S)
<1> DEFINE e == [k \in S |-> f[k].tot]
           IsTots(g) == g = [s \in SUBSET S |->
               IF s = {} THEN 0 ELSE f[Chosen(s)].tot + g[s \ {Chosen(s)}]]
           iter == CHOOSE g : IsTots(g)
<1>1. \A s \in SUBSET S : s # {} => e[Chosen(s)] = f[Chosen(s)].tot
  BY DEF Chosen
<1>2. ASSUME NEW g PROVE IsTots(g) <=> IsFold(g, e, SUBSET S)
  BY <1>1 DEF IsFold
<1>3. PICK g : IsFold(g, e, SUBSET S)
  BY FoldExists
<1>4. IsFold(iter, e, SUBSET S)
  <2>1. IsTots(g)
    BY <1>2, <1>3
  <2>2. IsTots(iter)
    BY <2>1
  <2> QED
    BY <1>2, <2>2
<1>5. TotSum(f, S) = iter[S]
  BY DEF TotSum, MapThenSumSet, MapThenFoldSet, Chosen
<1>6. PICK h : IsFold(h, e, SUBSET S) /\ Sum(e, S) = h[S]
  BY SumIsFold
<1>7. iter[S] = h[S]
  <2> HIDE DEF iter, e
  <2> QED
    BY <1>4, <1>6, FoldUnique
<1> QED
  BY <1>5, <1>6, <1>7

\* A thread adds what is in its copy.
LEMMA CardSumAdd ==
  ASSUME NEW S, IsFiniteSet(S), NEW k, k \notin S,
         NEW f, \A j \in S \cup {k} : f[j].card \in Int
  PROVE  CardSum(f, S \cup {k}) = CardSum(f, S) + f[k].card
<1> DEFINE T == S \cup {k}
           e == [j \in T |-> f[j].card]
           d == [j \in S |-> f[j].card]
<1>1. IsFiniteSet(T)
  BY FS_AddElement
<1>2. e \in [T -> Int] /\ d \in [S -> Int] /\ e[k] = f[k].card
  OBVIOUS
<1>3. CardSum(f, T) = Sum(e, T) /\ CardSum(f, S) = Sum(d, S)
  BY <1>1, CardSumIs
<1>4. Sum(e, S) = Sum(d, S)
  <2>1. \A j \in S : e[j] = d[j]
    OBVIOUS
  <2> HIDE DEF e, d
  <2> QED
    BY <2>1, SumSame
<1>5. Sum(e, T) = e[k] + Sum(e, S)
  <2> HIDE DEF e
  <2> QED
    BY <1>2, SumAdd
<1>6. Sum(d, S) \in Int
  <2> HIDE DEF d
  <2> QED
    BY <1>2, SumType
<1> HIDE DEF T, e, d
<1>7. CardSum(f, T) = CardSum(f, S) + f[k].card
  BY <1>2, <1>3, <1>4, <1>5, <1>6
<1> QED
  BY <1>7 DEF T

\* The same for the totals.
LEMMA TotSumAdd ==
  ASSUME NEW S, IsFiniteSet(S), NEW k, k \notin S,
         NEW f, \A j \in S \cup {k} : f[j].tot \in Int
  PROVE  TotSum(f, S \cup {k}) = TotSum(f, S) + f[k].tot
<1> DEFINE T == S \cup {k}
           e == [j \in T |-> f[j].tot]
           d == [j \in S |-> f[j].tot]
<1>1. IsFiniteSet(T)
  BY FS_AddElement
<1>2. e \in [T -> Int] /\ d \in [S -> Int] /\ e[k] = f[k].tot
  OBVIOUS
<1>3. TotSum(f, T) = Sum(e, T) /\ TotSum(f, S) = Sum(d, S)
  BY <1>1, TotSumIs
<1>4. Sum(e, S) = Sum(d, S)
  <2>1. \A j \in S : e[j] = d[j]
    OBVIOUS
  <2> HIDE DEF e, d
  <2> QED
    BY <2>1, SumSame
<1>5. Sum(e, T) = e[k] + Sum(e, S)
  <2> HIDE DEF e
  <2> QED
    BY <1>2, SumAdd
<1>6. Sum(d, S) \in Int
  <2> HIDE DEF d
  <2> QED
    BY <1>2, SumType
<1> HIDE DEF T, e, d
<1>7. TotSum(f, T) = TotSum(f, S) + f[k].tot
  BY <1>2, <1>3, <1>4, <1>5, <1>6
<1> QED
  BY <1>7 DEF T

\* A copy that is not summed up yet may change.
LEMMA SumsSame ==
  ASSUME NEW S, IsFiniteSet(S), NEW f, NEW e, \A k \in S : f[k] = e[k]
  PROVE  CardSum(f, S) = CardSum(e, S) /\ TotSum(f, S) = TotSum(e, S)
<1>1. /\ [k \in S |-> f[k].card] = [k \in S |-> e[k].card]
      /\ [k \in S |-> f[k].tot] = [k \in S |-> e[k].tot]
  OBVIOUS
<1> QED
  BY <1>1, CardSumIs, TotSumIs

\* A report starts from zero.
LEMMA SumsEmpty ==
  ASSUME NEW f PROVE CardSum(f, {}) = 0 /\ TotSum(f, {}) = 0
BY CardSumIs, TotSumIs, SumEmpty, FS_EmptySet

\* There are finitely many sketches.
LEMMA PastFinite ==
  ASSUME NEW Pcs PROVE IsFiniteSet(Past(Pcs))
<1>1. IsFiniteSet(Index)
  BY FS_Interval, CollectorAssumption DEF Index
<1> QED
  BY <1>1, FS_Subset DEF Past

-----------------------------------------------------------------------------
(* The distributions.                                                      *)

\* Where process_data puts a distribution: in dist, made longer if need be.
PlaceFor(cid) == IF cid > Len(dist) THEN Grown(dist, cid) ELSE dist

\* There is a place for every number from 1, and new places are empty.
LEMMA PlaceIsThere ==
  ASSUME dist \in Seq(Dists), NEW cid \in Int, cid >= 1
  PROVE  /\ PlaceFor(cid) \in Seq(Dists)
         /\ cid \in DOMAIN PlaceFor(cid)
         /\ DOMAIN dist \subseteq DOMAIN PlaceFor(cid)
         /\ \A p \in DOMAIN PlaceFor(cid) :
               PlaceFor(cid)[p] = IF p \in DOMAIN dist THEN dist[p] ELSE <<>>
<1> DEFINE n == Len(dist)
           tail == [j \in 1 .. (cid - n) |-> <<>>]
<1>0. n \in Nat /\ dist \in [1 .. n -> Dists] /\ DOMAIN dist = 1 .. n
  OBVIOUS
<1>1. CASE cid > n
  <2>1. tail \in Seq(Dists) /\ Len(tail) = cid - n /\ \A j \in 1 .. (cid - n) : tail[j] = <<>>
    <3>1. cid - n \in Nat /\ <<>> \in Dists
      BY <1>0, <1>1 DEF Dists
    <3> QED
      BY <3>1
  <2>2. PlaceFor(cid) = dist \o tail
    BY <1>1 DEF PlaceFor, Grown
  <2> HIDE DEF tail
  <2>3. /\ dist \o tail \in Seq(Dists)
        /\ Len(dist \o tail) = cid
        /\ \A p \in 1 .. cid : (dist \o tail)[p] = IF p <= n THEN dist[p] ELSE tail[p - n]
    BY <1>0, <2>1
  <2>4. \A p \in 1 .. cid : p > n => tail[p - n] = <<>>
    <3> TAKE p \in 1 .. cid
    <3> HAVE p > n
    <3>1. p - n \in 1 .. (cid - n)
      BY <1>0
    <3> QED
      BY <2>1, <3>1
  <2>5. DOMAIN (dist \o tail) = 1 .. cid
    BY <2>3
  <2> QED
    BY <1>0, <1>1, <2>2, <2>3, <2>4, <2>5
<1>2. CASE ~(cid > n)
  BY <1>0, <1>2 DEF PlaceFor
<1> QED
  BY <1>1, <1>2

\* An element of a sequence is replaced.
LEMMA SeqExcept ==
  ASSUME NEW S, NEW q \in Seq(S), NEW i, NEW x \in S
  PROVE  /\ [q EXCEPT ![i] = x] \in Seq(S)
         /\ DOMAIN [q EXCEPT ![i] = x] = DOMAIN q
         /\ \A j \in DOMAIN q : [q EXCEPT ![i] = x][j] = IF j = i THEN x ELSE q[j]
<1> DEFINE r == [q EXCEPT ![i] = x]
           n == Len(q)
<1>1. n \in Nat /\ q \in [1 .. n -> S] /\ DOMAIN q = 1 .. n
  OBVIOUS
<1>2. r = [j \in 1 .. n |-> IF j = i THEN x ELSE q[j]]
  BY <1>1
<1> HIDE DEF r, n
<1>3. r \in Seq(S)
  BY <1>1, <1>2
<1>4. DOMAIN r = DOMAIN q /\ \A j \in DOMAIN q : r[j] = IF j = i THEN x ELSE q[j]
  BY <1>1, <1>2
<1> QED
  BY <1>3, <1>4 DEF r

\* A thread was started for a sketch that is there.
LEMMA WalkedIsThere ==
  ASSUME TypeInv, WalkInv, NEW k \in Index, tpc[k] # "none"
  PROVE  k \in 1 .. Len(sketches)
<1>1. Len(sketches) \in Nat /\ it \in Nat
  BY DEF TypeInv
<1>2. k \in Nat /\ k >= 1
  BY DEF Index
<1>3. k < it /\ it - 1 <= Len(sketches)
  BY DEF WalkInv
<1> QED
  BY <1>1, <1>2, <1>3

-----------------------------------------------------------------------------
(* The inductive invariant.                                                *)

LEMMA InitIInv == Init => IInv
<1> SUFFICES ASSUME Init PROVE IInv
  OBVIOUS
<1> USE CollectorAssumption DEF Init, Nobody, Unset
<1>1. TypeInv
  BY DEF TypeInv, Copied
<1>2. SlotInv
  BY DEF SlotInv, Conn
<1>3. WalkInv
  BY DEF WalkInv, Index, Copied
<1>4. \A Pcs : "none" \notin Pcs => Past(Pcs) = {}
  BY DEF Past
<1>5. SumInv
  BY <1>4, SumsEmpty DEF SumInv, Counted, Totalled
<1>6. DistInv
  BY <1>4 DEF DistInv, PlacesInv, Placed, Copied
<1> QED
  BY <1>1, <1>2, <1>3, <1>5, <1>6 DEF IInv

\* Every step keeps the types.
LEMMA TypeInvStep ==
  ASSUME IInv, [Next]_vars
  PROVE  TypeInv'
<1> USE CollectorAssumption DEF vars, receivers, sender, workers, results, Nobody, Copied,
    Placed, Counted, Totalled
<1>1. ASSUME NEW c \in Conn, PushSketch(c) PROVE TypeInv'
  <2>1. PICK s \in Content : sketches' = Append(sketches, s)
    BY <1>1 DEF PushSketch
  <2>2. /\ slot' = [slot EXCEPT ![c] = Len(sketches')] /\ mtx' = c
        /\ rpc' = [rpc EXCEPT ![c] = "name"]
        /\ UNCHANGED <<clientId, sender, workers, results>>
    BY <1>1 DEF PushSketch
  <2>3. sketches' \in Seq(Content) /\ Len(sketches') \in Nat
    <3>1. sketches \in Seq(Content)
      BY DEF IInv, TypeInv
    <3> QED
      BY <2>1, <3>1
  <2>4. slot' \in [Conn -> Nat] /\ rpc' \in [Conn -> {"hello", "name", "serve"}]
    BY <2>2, <2>3 DEF IInv, TypeInv
  <2> QED
    BY <2>2, <2>3, <2>4 DEF IInv, TypeInv
<1>2. ASSUME NEW c \in Conn, NameSketch(c) PROVE TypeInv'
  BY <1>2 DEF IInv, TypeInv, NameSketch
<1>3. ASSUME NEW c \in Conn, InstallSketch(c) PROVE TypeInv'
  <2>1. PICK s \in Content : sketches' = [sketches EXCEPT ![slot[c]] = s]
    BY <1>3 DEF InstallSketch
  <2>2. sketches' \in Seq(Content)
    <3>1. sketches \in Seq(Content)
      BY DEF IInv, TypeInv
    <3> QED
      BY <2>1, <3>1, SeqExcept
  <2> QED
    BY <1>3, <2>2 DEF IInv, TypeInv, InstallSketch
<1>4. ASSUME NEW c \in Conn, ReceiveFails(c) PROVE TypeInv'
  BY <1>4 DEF IInv, TypeInv, ReceiveFails
<1>5. ASSUME ConnectRefused PROVE TypeInv'
  BY <1>5 DEF IInv, TypeInv, ConnectRefused, Refused
<1>6. ASSUME Clean PROVE TypeInv'
  BY <1>6 DEF IInv, TypeInv, Clean
<1>7. ASSUME BeginReport PROVE TypeInv'
  <2>1. /\ cardinality' = 0 /\ tot' = 0 /\ dist' = <<>> /\ it' = 1
        /\ tpc' = [k \in Index |-> "none"]
        /\ UNCHANGED <<copy, reg, mtx2, mtx3, receivers>>
    BY <1>7 DEF BeginReport
  <2>2. dist' \in Seq(Dists) /\ it' \in Nat \ {0}
    BY <2>1
  <2>3. /\ tpc' \in [Index -> {"none", "copy"} \cup Copied]
        /\ \A k \in Index : tpc'[k] \notin Copied
    BY <2>1
  <2> QED
    BY <2>1, <2>2, <2>3 DEF IInv, TypeInv
<1>8. ASSUME WalkSketches PROVE TypeInv'
  <2>1. /\ UNCHANGED <<copy, reg, mtx2, mtx3, receivers, results>>
        /\ it' \in {it, it + 1}
        /\ tpc' = tpc \/ tpc' = [tpc EXCEPT ![it] = "copy"]
    BY <1>8 DEF WalkSketches
  <2>2. tpc' \in [Index -> {"none", "copy"} \cup Copied]
    BY <2>1 DEF IInv, TypeInv
  <2>3. it' \in Nat \ {0}
    BY <2>1 DEF IInv, TypeInv
  <2>4. \A k \in Index : tpc'[k] \in Copied => tpc[k] \in Copied
    BY <2>1 DEF IInv, TypeInv
  <2> QED
    BY <2>1, <2>2, <2>3, <2>4 DEF IInv, TypeInv
<1>9. ASSUME JoinWorkers PROVE TypeInv'
  BY <1>9 DEF IInv, TypeInv, JoinWorkers
<1>10. ASSUME SendReport PROVE TypeInv'
  BY <1>10 DEF IInv, TypeInv, SendReport
<1>11. ASSUME NEW k \in Index, CopySketch(k) PROVE TypeInv'
  <2>1. /\ copy' = [copy EXCEPT ![k] = sketches[k]]
        /\ tpc' = [tpc EXCEPT ![k] = "dist"]
        /\ tpc[k] = "copy"
        /\ UNCHANGED <<reg, mtx2, mtx3, receivers, sender, results>>
    BY <1>11 DEF CopySketch
  <2>2. k \in 1 .. Len(sketches)
    BY <2>1, WalkedIsThere DEF IInv
  <2>3. sketches[k] \in Content
    BY <2>2 DEF IInv, TypeInv
  <2>4. copy' = [j \in Index |-> IF j = k THEN sketches[k] ELSE copy[j]]
    BY <2>1 DEF IInv, TypeInv
  <2>5. \A j \in Index : tpc'[j] = IF j = k THEN "dist" ELSE tpc[j]
    BY <2>1 DEF IInv, TypeInv
  <2>6. tpc' \in [Index -> {"none", "copy"} \cup Copied]
    BY <2>1 DEF IInv, TypeInv
  <2>7. \A j \in Index : tpc'[j] \in Copied => copy'[j] \in Content
    BY <2>3, <2>4, <2>5 DEF IInv, TypeInv
  <2>8. copy' = [j \in Index |-> copy'[j]]
    BY <2>4
  <2> QED
    BY <2>1, <2>6, <2>7, <2>8 DEF IInv, TypeInv
<1>12. ASSUME NEW k \in Index, PutDistribution(k) PROVE TypeInv'
  <2>1. /\ tpc[k] = "dist" /\ (tpc' = [tpc EXCEPT ![k] = "card"] \/ tpc' = tpc)
        /\ UNCHANGED <<copy, reg, mtx2, mtx3, cardinality, tot, it, receivers>>
    BY <1>12 DEF PutDistribution
  <2>2. \/ dist' = dist
        \/ dist' = <<>>
        \/ /\ clientId[k] >= 1
           /\ dist' = [PlaceFor(clientId[k]) EXCEPT ![clientId[k]] = copy[k].dist]
    BY <1>12 DEF PutDistribution, PlaceFor
  <2>3. dist' \in Seq(Dists)
    <3>1. copy[k].dist \in Dists
      <4>1. copy[k] \in Content
        BY <2>1 DEF IInv, TypeInv
      <4> QED
        BY <4>1 DEF Dists
    <3>2. CASE /\ clientId[k] >= 1
               /\ dist' = [PlaceFor(clientId[k]) EXCEPT ![clientId[k]] = copy[k].dist]
      <4>1. clientId[k] \in Int /\ dist \in Seq(Dists)
        BY DEF IInv, TypeInv
      <4>2. PlaceFor(clientId[k]) \in Seq(Dists)
        BY <3>2, <4>1, PlaceIsThere
      <4> QED
        BY <3>1, <3>2, <4>2, SeqExcept
    <3>3. CASE dist' = dist
      BY <3>3 DEF IInv, TypeInv
    <3>4. CASE dist' = <<>>
      BY <3>4
    <3> QED
      BY <2>2, <3>2, <3>3, <3>4
  <2>4. tpc' \in [Index -> {"none", "copy"} \cup Copied]
    BY <2>1 DEF IInv, TypeInv
  <2>5. \A j \in Index : tpc'[j] \in Copied => tpc[j] \in Copied
    BY <2>1 DEF IInv, TypeInv
  <2> QED
    BY <2>1, <2>3, <2>4, <2>5 DEF IInv, TypeInv
<1>13. ASSUME NEW k \in Index, LockCardinality(k) PROVE TypeInv'
  BY <1>13 DEF IInv, TypeInv, LockCardinality
<1>14. ASSUME NEW k \in Index, AddCardinality(k) PROVE TypeInv'
  <2>1. /\ tpc[k] = "addCard"
        /\ cardinality' = reg[k] + copy[k].card
        /\ tpc' = [tpc EXCEPT ![k] = "tot"]
    BY <1>14 DEF AddCardinality
  <2>2. copy[k] \in Content
    BY <2>1 DEF IInv, TypeInv
  <2>3. cardinality' \in Int
    BY <2>1, <2>2 DEF IInv, TypeInv
  <2>4. tpc' \in [Index -> {"none", "copy"} \cup Copied]
    BY <2>1 DEF IInv, TypeInv
  <2>5. \A j \in Index : tpc'[j] \in Copied => tpc[j] \in Copied
    BY <2>1 DEF IInv, TypeInv
  <2> QED
    BY <1>14, <2>3, <2>4, <2>5 DEF IInv, TypeInv, AddCardinality
<1>15. ASSUME NEW k \in Index, LockTotal(k) PROVE TypeInv'
  BY <1>15 DEF IInv, TypeInv, LockTotal
<1>16. ASSUME NEW k \in Index, AddTotal(k) PROVE TypeInv'
  <2>1. /\ tpc[k] = "addTot"
        /\ tot' = reg[k] + copy[k].tot
        /\ tpc' = [tpc EXCEPT ![k] = "heavy"]
    BY <1>16 DEF AddTotal
  <2>2. copy[k] \in Content
    BY <2>1 DEF IInv, TypeInv
  <2>3. tot' \in Int
    BY <2>1, <2>2 DEF IInv, TypeInv
  <2>4. tpc' \in [Index -> {"none", "copy"} \cup Copied]
    BY <2>1 DEF IInv, TypeInv
  <2>5. \A j \in Index : tpc'[j] \in Copied => tpc[j] \in Copied
    <3>1. tpc \in [Index -> {"none", "copy"} \cup Copied]
      BY DEF IInv, TypeInv
    <3>2. \A j \in Index : j # k => tpc'[j] = tpc[j]
      BY <2>1, <3>1
    <3>3. tpc[k] \in Copied
      BY <2>1
    <3> QED
      BY <3>2, <3>3, Zenon
  <2> QED
    BY <1>16, <2>3, <2>4, <2>5 DEF IInv, TypeInv, AddTotal
<1>17. ASSUME NEW k \in Index, PushHeavy(k) PROVE TypeInv'
  BY <1>17 DEF IInv, TypeInv, PushHeavy
<1>18. ASSUME UNCHANGED vars PROVE TypeInv'
  BY <1>18 DEF IInv, TypeInv
<1> QED
  BY <1>1, <1>2, <1>3, <1>4, <1>5, <1>6, <1>7, <1>8, <1>9, <1>10, <1>11, <1>12, <1>13, <1>14,
     <1>15, <1>16, <1>17, <1>18
     DEF Next, Sender, Receiver, Worker

\* Receivers never share a sketch, and mtx is held while one has no name.
LEMMA SlotInvStep ==
  ASSUME IInv, [Next]_vars
  PROVE  SlotInv'
<1> USE CollectorAssumption DEF vars, receivers, sender, workers, results, Nobody, Copied,
    Placed, Counted, Totalled
<1>1. ASSUME NEW c \in Conn, PushSketch(c) PROVE SlotInv'
  <2>1. PICK garbage \in Content : sketches' = Append(sketches, garbage)
    BY <1>1 DEF PushSketch
  <2> DEFINE n == Len(sketches) + 1
  <2>2. Len(sketches') = n /\ n \in Nat /\ n # 0
    BY <2>1, SMTT(30) DEF IInv, TypeInv
  <2>3. /\ rpc[c] = "hello" /\ mtx = 0 /\ mtx' = c
        /\ slot' = [slot EXCEPT ![c] = n]
        /\ rpc' = [rpc EXCEPT ![c] = "name"]
    BY <1>1, <2>2 DEF PushSketch
  <2>4. \A d \in Conn : slot[d] \in Nat /\ slot[d] <= Len(sketches) /\ slot[d] < n
    BY <2>2 DEF IInv, TypeInv, SlotInv
  <2>5. \A d \in Conn : /\ slot'[d] = IF d = c THEN n ELSE slot[d]
                        /\ rpc'[d] = IF d = c THEN "name" ELSE rpc[d]
    BY <2>3 DEF IInv, TypeInv
  <2>6. \A d \in Conn : rpc[d] # "name"
    BY <2>3 DEF IInv, SlotInv, Conn
  <2> HIDE DEF n
  <2>7. \A d \in Conn : rpc'[d] = "hello" <=> slot'[d] = 0
    BY <2>2, <2>5 DEF IInv, SlotInv
  <2>8. \A d \in Conn : slot'[d] <= n
    BY <2>2, <2>4, <2>5
  <2>9. \A d, e \in Conn : slot'[d] = slot'[e] /\ slot'[d] # 0 => d = e
    BY <2>2, <2>4, <2>5 DEF IInv, SlotInv
  <2>10. \A k \in 1 .. n : \E d \in Conn : slot'[d] = k
    <3> TAKE k \in 1 .. n
    <3>1. CASE k = n
      BY <2>5, <3>1
    <3>2. CASE k # n
      <4>1. k \in 1 .. Len(sketches)
        <5>1. n = Len(sketches) + 1 /\ Len(sketches) \in Nat
          BY <2>2 DEF IInv, TypeInv, n
        <5> QED
          BY <3>2, <5>1
      <4>2. PICK d \in Conn : slot[d] = k
        BY <4>1 DEF IInv, SlotInv
      <4>3. d # c
        BY <2>3, <4>1, <4>2 DEF IInv, SlotInv
      <4> QED
        BY <2>5, <4>2, <4>3
    <3> QED
      BY <3>1, <3>2
  <2>11. \A d \in Conn : rpc'[d] = "name" <=> mtx' = d
    BY <2>3, <2>5, <2>6
  <2> QED
    BY <2>2, <2>7, <2>8, <2>9, <2>10, <2>11 DEF SlotInv
<1>2. ASSUME NEW c \in Conn, NameSketch(c) PROVE SlotInv'
  <2>1. /\ rpc[c] = "name" /\ mtx' = 0 /\ rpc' = [rpc EXCEPT ![c] = "serve"]
        /\ UNCHANGED <<slot, sketches>>
    BY <1>2 DEF NameSketch
  <2>2. \A d \in Conn : rpc'[d] = IF d = c THEN "serve" ELSE rpc[d]
    BY <2>1 DEF IInv, TypeInv
  <2>3. \A d \in Conn : rpc[d] = "name" => d = c
    BY <2>1 DEF IInv, SlotInv
  <2>4. \A d \in Conn : rpc'[d] # "name" /\ mtx' # d
    BY <2>1, <2>2, <2>3 DEF Conn
  <2>5. \A d \in Conn : rpc'[d] = "hello" <=> slot'[d] = 0
    BY <2>1, <2>2 DEF IInv, SlotInv
  <2> QED
    BY <2>1, <2>4, <2>5 DEF IInv, SlotInv
<1>3. ASSUME NEW c \in Conn, InstallSketch(c) PROVE SlotInv'
  BY <1>3 DEF IInv, TypeInv, SlotInv, InstallSketch
<1>4. ASSUME NEW c \in Conn, ReceiveFails(c) PROVE SlotInv'
  BY <1>4 DEF IInv, TypeInv, SlotInv, ReceiveFails
<1>5. ASSUME ConnectRefused PROVE SlotInv'
  <2>1. UNCHANGED receivers
    BY <1>5 DEF ConnectRefused, Refused
  <2> QED
    BY <2>1 DEF IInv, SlotInv
<1>6. ASSUME Clean PROVE SlotInv'
  BY <1>6 DEF IInv, TypeInv, SlotInv, Clean
<1>7. ASSUME BeginReport PROVE SlotInv'
  BY <1>7 DEF IInv, TypeInv, SlotInv, BeginReport
<1>8. ASSUME WalkSketches PROVE SlotInv'
  BY <1>8 DEF IInv, TypeInv, SlotInv, WalkSketches
<1>9. ASSUME JoinWorkers PROVE SlotInv'
  BY <1>9 DEF IInv, TypeInv, SlotInv, JoinWorkers
<1>10. ASSUME SendReport PROVE SlotInv'
  BY <1>10 DEF IInv, TypeInv, SlotInv, SendReport
<1>11. ASSUME NEW k \in Index, CopySketch(k) PROVE SlotInv'
  BY <1>11 DEF IInv, TypeInv, SlotInv, CopySketch
<1>12. ASSUME NEW k \in Index, PutDistribution(k) PROVE SlotInv'
  BY <1>12 DEF IInv, TypeInv, SlotInv, PutDistribution
<1>13. ASSUME NEW k \in Index, LockCardinality(k) PROVE SlotInv'
  BY <1>13 DEF IInv, TypeInv, SlotInv, LockCardinality
<1>14. ASSUME NEW k \in Index, AddCardinality(k) PROVE SlotInv'
  BY <1>14 DEF IInv, TypeInv, SlotInv, AddCardinality
<1>15. ASSUME NEW k \in Index, LockTotal(k) PROVE SlotInv'
  BY <1>15 DEF IInv, TypeInv, SlotInv, LockTotal
<1>16. ASSUME NEW k \in Index, AddTotal(k) PROVE SlotInv'
  BY <1>16 DEF IInv, TypeInv, SlotInv, AddTotal
<1>17. ASSUME NEW k \in Index, PushHeavy(k) PROVE SlotInv'
  BY <1>17 DEF IInv, TypeInv, SlotInv, PushHeavy
<1>18. ASSUME UNCHANGED vars PROVE SlotInv'
  BY <1>18 DEF IInv, TypeInv, SlotInv
<1> QED
  BY <1>1, <1>2, <1>3, <1>4, <1>5, <1>6, <1>7, <1>8, <1>9, <1>10, <1>11, <1>12, <1>13, <1>14,
     <1>15, <1>16, <1>17, <1>18
     DEF Next, Sender, Receiver, Worker

\* The sender gives up, or goes on where it was.
LEMMA WalkStays ==
  ASSUME WalkInv, UNCHANGED <<it, tpc, sketches, slot, rpc>>, spc' \in {spc, "exited"}
  PROVE  WalkInv'
<1>1. \A j \in Index : Known(j)' <=> Known(j)
  BY DEF Known
<1>2. spc' \in {"get", "post", "send"} => spc \in {"get", "post", "send"}
  OBVIOUS
<1> QED
  BY <1>1, <1>2 DEF WalkInv

\* A step of a thread whose device is known.
LEMMA WorkerWalks ==
  ASSUME TypeInv, WalkInv, NEW k \in Index, Known(k), NEW to \in Copied,
         tpc[k] \notin {"none", "done"}, tpc' = [tpc EXCEPT ![k] = to],
         UNCHANGED <<sketches, rpc, slot, it, spc>>
  PROVE  WalkInv'
<1>1. \A j \in Index : tpc'[j] = IF j = k THEN to ELSE tpc[j]
  BY DEF TypeInv
<1>2. \A j \in Index : Known(j)' <=> Known(j)
  BY DEF Known
<1>3. \A j \in Index : tpc'[j] # "none" <=> j < it
  BY <1>1 DEF WalkInv, Copied
<1>4. \A j \in Index : tpc'[j] \in Copied => Known(j)'
  BY <1>1, <1>2 DEF WalkInv
<1>5. spc' \notin {"get", "post", "send"}
  BY DEF WalkInv
<1> QED
  BY <1>3, <1>4, <1>5 DEF WalkInv

\* A thread of a report is past its copy only when its device is known.
LEMMA WalkInvStep ==
  ASSUME IInv, [Next]_vars
  PROVE  WalkInv'
<1> USE CollectorAssumption DEF vars, receivers, sender, workers, results, Nobody, Copied,
    Placed, Counted, Totalled
<1>1. ASSUME NEW c \in Conn, PushSketch(c) PROVE WalkInv'
  <2>1. PICK g \in Content : sketches' = Append(sketches, g)
    BY <1>1 DEF PushSketch
  <2>2. /\ rpc[c] = "hello" /\ rpc' = [rpc EXCEPT ![c] = "name"]
        /\ slot' = [slot EXCEPT ![c] = Len(sketches')]
        /\ UNCHANGED <<it, tpc, spc>>
    BY <1>1 DEF PushSketch
  <2>3. it - 1 <= Len(sketches')
    BY <2>1 DEF IInv, TypeInv, WalkInv
  <2>4. \A d \in Conn : rpc[d] = "serve" => rpc'[d] = "serve" /\ slot'[d] = slot[d]
    BY <2>2 DEF IInv, TypeInv
  <2>5. \A k \in Index : Known(k) => Known(k)'
    BY <2>4 DEF Known
  <2> QED
    BY <2>2, <2>3, <2>5 DEF IInv, WalkInv
<1>2. ASSUME NEW c \in Conn, NameSketch(c) PROVE WalkInv'
  BY <1>2 DEF IInv, TypeInv, WalkInv, Known, NameSketch
<1>3. ASSUME NEW c \in Conn, InstallSketch(c) PROVE WalkInv'
  <2>1. PICK s \in Content : sketches' = [sketches EXCEPT ![slot[c]] = s]
    BY <1>3 DEF InstallSketch
  <2>2. UNCHANGED <<it, tpc, spc, rpc, slot>>
    BY <1>3 DEF InstallSketch
  <2>3. Len(sketches') = Len(sketches)
    BY <2>1 DEF IInv, TypeInv
  <2> QED
    BY <2>2, <2>3 DEF IInv, WalkInv, Known
<1>4. ASSUME NEW c \in Conn, ReceiveFails(c) PROVE WalkInv'
  <2>1. UNCHANGED <<it, tpc, sketches, slot, rpc>> /\ spc' = "exited"
    BY <1>4 DEF ReceiveFails
  <2> QED
    BY <2>1, WalkStays DEF IInv
<1>5. ASSUME ConnectRefused PROVE WalkInv'
  <2>1. UNCHANGED <<it, tpc, sketches, slot, rpc>> /\ spc' \in {spc, "exited"}
    BY <1>5 DEF ConnectRefused, Refused
  <2> QED
    BY <2>1, WalkStays DEF IInv
<1>6. ASSUME Clean PROVE WalkInv'
  BY <1>6 DEF IInv, TypeInv, WalkInv, Known, Clean
<1>7. ASSUME BeginReport PROVE WalkInv'
  <2>1. tpc' = [k \in Index |-> "none"] /\ it' = 1 /\ spc' = "walk" /\ UNCHANGED sketches
    BY <1>7 DEF BeginReport, receivers
  <2>2. \A k \in Index : tpc'[k] = "none" /\ ~(k < it')
    BY <2>1 DEF Index
  <2>3. it' - 1 <= Len(sketches')
    BY <2>1 DEF IInv, TypeInv
  <2> QED
    BY <2>1, <2>2, <2>3 DEF WalkInv
<1>8. ASSUME WalkSketches PROVE WalkInv'
  <2>1. CASE it <= Len(sketches) /\ tpc' = [tpc EXCEPT ![it] = "copy"] /\ it' = it + 1 /\ spc' = spc
    <3>1. spc = "walk" /\ UNCHANGED <<sketches, rpc, slot>>
      BY <1>8 DEF WalkSketches
    <3>2. \A k \in Index : tpc'[k] = IF k = it THEN "copy" ELSE tpc[k]
      BY <2>1 DEF IInv, TypeInv
    <3>3. \A k \in Index : tpc'[k] # "none" <=> k < it'
      <4>1. \A k \in Index : (tpc[k] # "none" <=> k < it) /\ k \in Int
        BY DEF IInv, WalkInv, Index
      <4>2. it \in Int /\ it' = it + 1
        BY <2>1 DEF IInv, TypeInv
      <4>3. \A k \in Index : k < it' <=> (k < it \/ k = it)
        BY <4>1, <4>2
      <4> QED
        BY <3>2, <4>1, <4>3
    <3>4. it' - 1 <= Len(sketches')
      BY <2>1, <3>1 DEF IInv, TypeInv
    <3>5. \A k \in Index : tpc'[k] \in Copied => Known(k)'
      BY <3>1, <3>2 DEF IInv, WalkInv, Known
    <3> QED
      BY <2>1, <3>1, <3>3, <3>4, <3>5 DEF WalkInv
  <2>2. CASE spc' \in {"join", "crashed"} /\ UNCHANGED <<it, tpc>>
    <3>1. UNCHANGED <<sketches, rpc, slot>>
      BY <1>8 DEF WalkSketches
    <3> QED
      BY <2>2, <3>1 DEF IInv, WalkInv, Known
  <2> QED
    BY <1>8, <2>1, <2>2 DEF WalkSketches
<1>9. ASSUME JoinWorkers PROVE WalkInv'
  <2>1. /\ \A k \in 1 .. (it - 1) : tpc[k] = "done"
        /\ UNCHANGED <<sketches, rpc, slot, it, tpc>>
    BY <1>9 DEF JoinWorkers
  <2>2. \A k \in Index : tpc[k] \in {"none", "done"}
    <3> TAKE k \in Index
    <3>1. CASE k < it
      BY <2>1, <3>1 DEF IInv, TypeInv, Index
    <3>2. CASE ~(k < it)
      BY <3>2 DEF IInv, WalkInv
    <3> QED
      BY <3>1, <3>2
  <2> QED
    BY <2>1, <2>2 DEF IInv, WalkInv, Known
<1>10. ASSUME SendReport PROVE WalkInv'
  BY <1>10 DEF IInv, TypeInv, WalkInv, Known, SendReport
<1>11. ASSUME NEW k \in Index, CopySketch(k) PROVE WalkInv'
  <2>1. /\ tpc[k] = "copy" /\ mtx = 0
        /\ tpc' = [tpc EXCEPT ![k] = "dist"]
        /\ UNCHANGED <<sketches, rpc, slot, it, spc>>
    BY <1>11 DEF CopySketch
  <2>2. Known(k)
    <3>1. k \in 1 .. Len(sketches)
      BY <2>1, WalkedIsThere DEF IInv
    <3>2. PICK c \in Conn : slot[c] = k
      BY <3>1 DEF IInv, SlotInv
    <3>3. rpc[c] # "hello"
      BY <3>1, <3>2 DEF IInv, SlotInv
    <3>4. rpc[c] # "name"
      BY <2>1 DEF IInv, SlotInv, Conn
    <3>5. rpc[c] = "serve"
      BY <3>3, <3>4 DEF IInv, TypeInv
    <3> QED
      BY <3>2, <3>5 DEF Known
  <2> QED
    BY <2>1, <2>2, WorkerWalks DEF IInv
<1>12. ASSUME NEW k \in Index, PutDistribution(k) PROVE WalkInv'
  <2>1. tpc[k] = "dist" /\ UNCHANGED <<sketches, rpc, slot, it>>
    BY <1>12 DEF PutDistribution
  <2>2. CASE spc' = "crashed" /\ UNCHANGED tpc
    BY <2>1, <2>2 DEF IInv, WalkInv, Known
  <2>3. CASE UNCHANGED spc /\ tpc' = [tpc EXCEPT ![k] = "card"]
    <3>1. Known(k)
      BY <2>1 DEF IInv, WalkInv
    <3> QED
      BY <2>1, <2>3, <3>1, WorkerWalks DEF IInv
  <2> QED
    BY <1>12, <2>2, <2>3 DEF PutDistribution
<1>13. ASSUME NEW k \in Index, LockCardinality(k) PROVE WalkInv'
  <2>1. /\ tpc[k] = "card" /\ tpc' = [tpc EXCEPT ![k] = "addCard"]
        /\ UNCHANGED <<sketches, rpc, slot, it, spc>>
    BY <1>13 DEF LockCardinality
  <2>2. Known(k)
    BY <2>1 DEF IInv, WalkInv
  <2> QED
    BY <2>1, <2>2, WorkerWalks DEF IInv
<1>14. ASSUME NEW k \in Index, AddCardinality(k) PROVE WalkInv'
  <2>1. /\ tpc[k] = "addCard" /\ tpc' = [tpc EXCEPT ![k] = "tot"]
        /\ UNCHANGED <<sketches, rpc, slot, it, spc>>
    BY <1>14 DEF AddCardinality
  <2>2. Known(k)
    BY <2>1 DEF IInv, WalkInv
  <2> QED
    BY <2>1, <2>2, WorkerWalks DEF IInv
<1>15. ASSUME NEW k \in Index, LockTotal(k) PROVE WalkInv'
  <2>1. /\ tpc[k] = "tot" /\ tpc' = [tpc EXCEPT ![k] = "addTot"]
        /\ UNCHANGED <<sketches, rpc, slot, it, spc>>
    BY <1>15 DEF LockTotal
  <2>2. Known(k)
    BY <2>1 DEF IInv, WalkInv
  <2> QED
    BY <2>1, <2>2, WorkerWalks DEF IInv
<1>16. ASSUME NEW k \in Index, AddTotal(k) PROVE WalkInv'
  <2>1. /\ tpc[k] = "addTot" /\ tpc' = [tpc EXCEPT ![k] = "heavy"]
        /\ UNCHANGED <<sketches, rpc, slot, it, spc>>
    BY <1>16 DEF AddTotal
  <2>2. Known(k)
    BY <2>1 DEF IInv, WalkInv
  <2> QED
    BY <2>1, <2>2, WorkerWalks DEF IInv
<1>17. ASSUME NEW k \in Index, PushHeavy(k) PROVE WalkInv'
  <2>1. /\ tpc[k] = "heavy" /\ tpc' = [tpc EXCEPT ![k] = "done"]
        /\ UNCHANGED <<sketches, rpc, slot, it, spc>>
    BY <1>17 DEF PushHeavy
  <2>2. Known(k)
    BY <2>1 DEF IInv, WalkInv
  <2> QED
    BY <2>1, <2>2, WorkerWalks DEF IInv
<1>18. ASSUME UNCHANGED vars PROVE WalkInv'
  BY <1>18 DEF IInv, TypeInv, WalkInv, Known
<1> QED
  BY <1>1, <1>2, <1>3, <1>4, <1>5, <1>6, <1>7, <1>8, <1>9, <1>10, <1>11, <1>12, <1>13, <1>14,
     <1>15, <1>16, <1>17, <1>18
     DEF Next, Sender, Receiver, Worker

\* Steps that leave the sums, the copies and their threads alone.
LEMMA SumsStay ==
  ASSUME SumInv, UNCHANGED <<tpc, copy, reg, mtx2, mtx3, cardinality, tot, heavyPart>>
  PROVE  SumInv'
<1>1. \A Pcs : Past(Pcs)' = Past(Pcs)
  BY DEF Past
<1>2. /\ CardSum(copy', Past(Counted)') = CardSum(copy, Past(Counted))
      /\ TotSum(copy', Past(Totalled)') = TotSum(copy, Past(Totalled))
  BY <1>1
<1> QED
  BY <1>1, <1>2 DEF SumInv

\* No update of a sum is lost.
LEMMA SumInvStep ==
  ASSUME IInv, [Next]_vars
  PROVE  SumInv'
<1> USE CollectorAssumption DEF vars, receivers, sender, workers, results, Nobody, Copied,
    Placed, Counted, Totalled
<1>1. ASSUME NEW c \in Conn, PushSketch(c) PROVE SumInv'
  BY <1>1 DEF IInv, TypeInv, SumInv, Past, PushSketch
<1>2. ASSUME NEW c \in Conn, NameSketch(c) PROVE SumInv'
  BY <1>2 DEF IInv, TypeInv, SumInv, Past, NameSketch
<1>3. ASSUME NEW c \in Conn, InstallSketch(c) PROVE SumInv'
  BY <1>3 DEF IInv, TypeInv, SumInv, Past, InstallSketch
<1>4. ASSUME NEW c \in Conn, ReceiveFails(c) PROVE SumInv'
  BY <1>4 DEF IInv, TypeInv, SumInv, Past, ReceiveFails
<1>5. ASSUME ConnectRefused PROVE SumInv'
  BY <1>5 DEF IInv, TypeInv, SumInv, Past, ConnectRefused, Refused
<1>6. ASSUME Clean PROVE SumInv'
  BY <1>6 DEF IInv, TypeInv, SumInv, Past, Clean
<1>7. ASSUME BeginReport PROVE SumInv'
  <2>1. /\ tpc' = [k \in Index |-> "none"] /\ spc = "post"
        /\ cardinality' = 0 /\ tot' = 0 /\ heavyPart' = {}
        /\ UNCHANGED <<mtx2, mtx3>>
    BY <1>7 DEF BeginReport
  <2>2. \A Pcs : "none" \notin Pcs => Past(Pcs)' = {}
    BY <2>1 DEF Past
  <2>3. Past(Counted)' = {} /\ Past(Totalled)' = {} /\ Past({"done"})' = {}
    BY <2>2
  <2>4. mtx2 = 0 /\ mtx3 = 0
    <3>1. \A k \in Index : tpc[k] \in {"none", "done"}
      BY <2>1 DEF IInv, WalkInv
    <3> QED
      BY <3>1 DEF IInv, TypeInv, SumInv
  <2>5. CardSum(copy', {}) = 0 /\ TotSum(copy', {}) = 0
    BY SumsEmpty
  <2>6. \A k \in Index : tpc'[k] = "none"
    BY <2>1
  <2>7. /\ cardinality' = CardSum(copy', Past(Counted)')
        /\ tot' = TotSum(copy', Past(Totalled)')
        /\ heavyPart' = Past({"done"})'
    BY <2>1, <2>3, <2>5
  <2> QED
    BY <2>1, <2>4, <2>6, <2>7 DEF SumInv
<1>8. ASSUME WalkSketches PROVE SumInv'
  <2>1. UNCHANGED <<copy, reg, mtx2, mtx3, cardinality, tot, heavyPart>>
    BY <1>8 DEF WalkSketches
  <2>2. CASE UNCHANGED tpc
    BY <2>1, <2>2, SumsStay DEF IInv
  <2>3. CASE tpc' = [tpc EXCEPT ![it] = "copy"]
    <3>1. \A k \in Index : tpc'[k] = IF k = it THEN "copy" ELSE tpc[k]
      BY <2>3 DEF IInv, TypeInv
    <3>2. \A k \in Index : k = it => tpc[k] = "none"
      BY DEF IInv, TypeInv, WalkInv, Index
    <3>3. \A k \in Index : tpc'[k] = tpc[k] \/ (tpc'[k] = "copy" /\ tpc[k] = "none")
      BY <3>1, <3>2
    <3>4. Past(Counted)' = Past(Counted) /\ Past(Totalled)' = Past(Totalled) /\ Past({"done"})' = Past({"done"})
      BY <3>3 DEF Past
    <3>5. /\ cardinality' = CardSum(copy', Past(Counted)')
          /\ tot' = TotSum(copy', Past(Totalled)')
          /\ heavyPart' = Past({"done"})'
      BY <2>1, <3>4 DEF IInv, SumInv
    <3> QED
      BY <2>1, <3>3, <3>5 DEF IInv, TypeInv, SumInv
  <2> QED
    BY <1>8, <2>2, <2>3 DEF WalkSketches
<1>9. ASSUME JoinWorkers PROVE SumInv'
  BY <1>9 DEF IInv, TypeInv, SumInv, Past, JoinWorkers
<1>10. ASSUME SendReport PROVE SumInv'
  BY <1>10 DEF IInv, TypeInv, SumInv, Past, SendReport
<1>11. ASSUME NEW k \in Index, CopySketch(k) PROVE SumInv'
  <2>1. /\ tpc[k] = "copy" /\ tpc' = [tpc EXCEPT ![k] = "dist"]
        /\ copy' = [copy EXCEPT ![k] = sketches[k]]
        /\ UNCHANGED <<reg, mtx2, mtx3, cardinality, tot, heavyPart>>
    BY <1>11 DEF CopySketch
  <2>2. tpc \in [Index -> {"none", "copy"} \cup Copied]
    BY DEF IInv, TypeInv
  <2>3. \A j \in Index : tpc'[j] = IF j = k THEN "dist" ELSE tpc[j]
    BY <2>1, <2>2

  <2>4. /\ Past(Counted)' = Past(Counted) /\ Past(Totalled)' = Past(Totalled)
        /\ Past({"done"})' = Past({"done"})
    BY <2>1, <2>3 DEF Past
  <2>5. \A j \in Index : j # k => copy'[j] = copy[j]
    BY <2>1 DEF IInv, TypeInv
  <2>6. /\ \A j \in Past(Counted) : copy[j] = copy'[j]
        /\ \A j \in Past(Totalled) : copy[j] = copy'[j]
    BY <2>1, <2>5 DEF Past
  <2>7. /\ CardSum(copy', Past(Counted)) = CardSum(copy, Past(Counted))
        /\ TotSum(copy', Past(Totalled)) = TotSum(copy, Past(Totalled))
    <3>1. IsFiniteSet(Past(Counted)) /\ IsFiniteSet(Past(Totalled))
      BY PastFinite
    <3> QED
      BY <2>6, <3>1, SumsSame
  <2>8. /\ cardinality' = CardSum(copy', Past(Counted)')
        /\ tot' = TotSum(copy', Past(Totalled)')
        /\ heavyPart' = Past({"done"})'
    BY <2>1, <2>4, <2>7 DEF IInv, SumInv
  <2>9. (mtx2' # 0 => tpc'[mtx2'] = "addCard") /\ (mtx3' # 0 => tpc'[mtx3'] = "addTot")
    BY <2>1, <2>3 DEF IInv, TypeInv, SumInv
  <2> QED
    BY <2>1, <2>3, <2>8, <2>9 DEF IInv, SumInv
<1>12. ASSUME NEW k \in Index, PutDistribution(k) PROVE SumInv'
  <2>1. /\ tpc[k] = "dist" /\ (tpc' = [tpc EXCEPT ![k] = "card"] \/ tpc' = tpc)
        /\ UNCHANGED <<copy, reg, mtx2, mtx3, cardinality, tot, heavyPart>>
    BY <1>12 DEF PutDistribution
  <2>2. tpc \in [Index -> {"none", "copy"} \cup Copied]
    BY DEF IInv, TypeInv
  <2>3. \A j \in Index : tpc'[j] = tpc[j] \/ (j = k /\ tpc'[j] = "card")
    BY <2>1, <2>2
  <2>4. /\ Past(Counted)' = Past(Counted) /\ Past(Totalled)' = Past(Totalled)
        /\ Past({"done"})' = Past({"done"})
    BY <2>1, <2>3 DEF Past
  <2>5. /\ cardinality' = CardSum(copy', Past(Counted)')
        /\ tot' = TotSum(copy', Past(Totalled)')
        /\ heavyPart' = Past({"done"})'
    BY <2>1, <2>4 DEF IInv, SumInv
  <2>6. (mtx2' # 0 => tpc'[mtx2'] = "addCard") /\ (mtx3' # 0 => tpc'[mtx3'] = "addTot")
    BY <2>1, <2>3 DEF IInv, TypeInv, SumInv
  <2> QED
    BY <2>1, <2>3, <2>5, <2>6 DEF IInv, SumInv
<1>13. ASSUME NEW k \in Index, LockCardinality(k) PROVE SumInv'
  <2>1. /\ tpc[k] = "card" /\ tpc' = [tpc EXCEPT ![k] = "addCard"] /\ mtx2 = 0 /\ mtx2' = k
        /\ reg' = [reg EXCEPT ![k] = cardinality]
        /\ UNCHANGED <<copy, mtx3, cardinality, tot, heavyPart>>
    BY <1>13 DEF LockCardinality
  <2>2. tpc \in [Index -> {"none", "copy"} \cup Copied]
    BY DEF IInv, TypeInv
  <2>3. \A j \in Index : tpc'[j] = IF j = k THEN "addCard" ELSE tpc[j]
    BY <2>1, <2>2

  <2>4. \A j \in Index : reg'[j] = IF j = k THEN cardinality ELSE reg[j]
    BY <2>1 DEF IInv, TypeInv
  <2>5. \A j \in Index : tpc[j] # "addCard"
    BY <2>1 DEF IInv, SumInv, Index
  <2>6. /\ Past(Counted)' = Past(Counted) /\ Past(Totalled)' = Past(Totalled)
        /\ Past({"done"})' = Past({"done"})
    BY <2>1, <2>3 DEF Past
  <2>7. /\ cardinality' = CardSum(copy', Past(Counted)')
        /\ tot' = TotSum(copy', Past(Totalled)')
        /\ heavyPart' = Past({"done"})'
    BY <2>1, <2>6 DEF IInv, SumInv
  <2>8. mtx3' # 0 => tpc'[mtx3'] = "addTot"
    BY <2>1, <2>3 DEF IInv, TypeInv, SumInv
  <2>9. \A j \in Index : tpc'[j] = "addTot" => mtx3' = j /\ reg'[j] = tot'
    BY <2>1, <2>3, <2>4 DEF IInv, SumInv
  <2>10. \A j \in Index : tpc'[j] = "addCard" => mtx2' = j /\ reg'[j] = cardinality'
    BY <2>1, <2>3, <2>4, <2>5
  <2>11. tpc'[mtx2'] = "addCard"
    BY <2>1, <2>3
  <2> QED
    BY <2>7, <2>8, <2>9, <2>10, <2>11 DEF SumInv
<1>14. ASSUME NEW k \in Index, AddCardinality(k) PROVE SumInv'
  <2>1. /\ tpc[k] = "addCard" /\ tpc' = [tpc EXCEPT ![k] = "tot"] /\ mtx2' = 0
        /\ cardinality' = reg[k] + copy[k].card
        /\ UNCHANGED <<copy, reg, mtx3, tot, heavyPart>>
    BY <1>14 DEF AddCardinality
  <2>2. tpc \in [Index -> {"none", "copy"} \cup Copied]
    BY DEF IInv, TypeInv
  <2>3. \A j \in Index : tpc'[j] = IF j = k THEN "tot" ELSE tpc[j]
    BY <2>1, <2>2

  <2>4. \A j \in Index : tpc[j] = "addCard" => j = k
    BY <2>1 DEF IInv, SumInv
  <2>5. /\ Past(Counted)' = Past(Counted) \cup {k} /\ k \notin Past(Counted)
        /\ Past(Totalled)' = Past(Totalled)
        /\ Past({"done"})' = Past({"done"})
    BY <2>1, <2>3 DEF Past
  <2>6. \A j \in Past(Counted) \cup {k} : copy[j].card \in Int
    <3>1. \A j \in Past(Counted) \cup {k} : j \in Index /\ tpc[j] \in Copied
      BY <2>1 DEF Past
    <3>2. \A j \in Past(Counted) \cup {k} : copy[j] \in Content
      BY <3>1 DEF IInv, TypeInv
    <3> QED
      BY <3>2
  <2>7. CardSum(copy, Past(Counted) \cup {k}) = CardSum(copy, Past(Counted)) + copy[k].card
    <3>1. IsFiniteSet(Past(Counted))
      BY PastFinite
    <3> QED
      BY <2>5, <2>6, <3>1, CardSumAdd
  <2>8. reg[k] = cardinality
    BY <2>1 DEF IInv, SumInv
  <2>9. /\ cardinality' = CardSum(copy', Past(Counted)')
        /\ tot' = TotSum(copy', Past(Totalled)')
        /\ heavyPart' = Past({"done"})'
    BY <2>1, <2>5, <2>7, <2>8 DEF IInv, SumInv
  <2>10. mtx3' # 0 => tpc'[mtx3'] = "addTot"
    BY <2>1, <2>3 DEF IInv, TypeInv, SumInv
  <2>11. \A j \in Index : tpc'[j] = "addTot" => mtx3' = j /\ reg'[j] = tot'
    BY <2>1, <2>3 DEF IInv, SumInv
  <2>12. \A j \in Index : tpc'[j] # "addCard"
    BY <2>3, <2>4
  <2> QED
    BY <2>1, <2>9, <2>10, <2>11, <2>12 DEF SumInv
<1>15. ASSUME NEW k \in Index, LockTotal(k) PROVE SumInv'
  <2>1. /\ tpc[k] = "tot" /\ tpc' = [tpc EXCEPT ![k] = "addTot"] /\ mtx3 = 0 /\ mtx3' = k
        /\ reg' = [reg EXCEPT ![k] = tot]
        /\ UNCHANGED <<copy, mtx2, cardinality, tot, heavyPart>>
    BY <1>15 DEF LockTotal
  <2>2. tpc \in [Index -> {"none", "copy"} \cup Copied]
    BY DEF IInv, TypeInv
  <2>3. \A j \in Index : tpc'[j] = IF j = k THEN "addTot" ELSE tpc[j]
    BY <2>1, <2>2

  <2>4. \A j \in Index : reg'[j] = IF j = k THEN tot ELSE reg[j]
    BY <2>1 DEF IInv, TypeInv
  <2>5. \A j \in Index : tpc[j] # "addTot"
    BY <2>1 DEF IInv, SumInv, Index
  <2>6. /\ Past(Counted)' = Past(Counted) /\ Past(Totalled)' = Past(Totalled)
        /\ Past({"done"})' = Past({"done"})
    BY <2>1, <2>3 DEF Past
  <2>7. /\ cardinality' = CardSum(copy', Past(Counted)')
        /\ tot' = TotSum(copy', Past(Totalled)')
        /\ heavyPart' = Past({"done"})'
    BY <2>1, <2>6 DEF IInv, SumInv
  <2>8. mtx2' # 0 => tpc'[mtx2'] = "addCard"
    BY <2>1, <2>3 DEF IInv, TypeInv, SumInv
  <2>9. \A j \in Index : tpc'[j] = "addCard" => mtx2' = j /\ reg'[j] = cardinality'
    BY <2>1, <2>3, <2>4 DEF IInv, SumInv
  <2>10. \A j \in Index : tpc'[j] = "addTot" => mtx3' = j /\ reg'[j] = tot'
    BY <2>1, <2>3, <2>4, <2>5
  <2>11. tpc'[mtx3'] = "addTot"
    BY <2>1, <2>3
  <2> QED
    BY <2>7, <2>8, <2>9, <2>10, <2>11 DEF SumInv
<1>16. ASSUME NEW k \in Index, AddTotal(k) PROVE SumInv'
  <2>1. /\ tpc[k] = "addTot" /\ tpc' = [tpc EXCEPT ![k] = "heavy"] /\ mtx3' = 0
        /\ tot' = reg[k] + copy[k].tot
        /\ UNCHANGED <<copy, reg, mtx2, cardinality, heavyPart>>
    BY <1>16 DEF AddTotal
  <2>2. tpc \in [Index -> {"none", "copy"} \cup Copied]
    BY DEF IInv, TypeInv
  <2>3. \A j \in Index : tpc'[j] = IF j = k THEN "heavy" ELSE tpc[j]
    BY <2>1, <2>2

  <2>4. \A j \in Index : tpc[j] = "addTot" => j = k
    BY <2>1 DEF IInv, SumInv
  <2>5. /\ Past(Totalled)' = Past(Totalled) \cup {k} /\ k \notin Past(Totalled)
        /\ Past(Counted)' = Past(Counted)
        /\ Past({"done"})' = Past({"done"})
    BY <2>1, <2>3 DEF Past
  <2>6. \A j \in Past(Totalled) \cup {k} : copy[j].tot \in Int
    <3>1. \A j \in Past(Totalled) \cup {k} : j \in Index /\ tpc[j] \in Copied
      BY <2>1 DEF Past
    <3>2. \A j \in Past(Totalled) \cup {k} : copy[j] \in Content
      BY <3>1 DEF IInv, TypeInv
    <3> QED
      BY <3>2
  <2>7. TotSum(copy, Past(Totalled) \cup {k}) = TotSum(copy, Past(Totalled)) + copy[k].tot
    <3>1. IsFiniteSet(Past(Totalled))
      BY PastFinite
    <3> QED
      BY <2>5, <2>6, <3>1, TotSumAdd
  <2>8. reg[k] = tot
    BY <2>1 DEF IInv, SumInv
  <2>9. /\ tot' = TotSum(copy', Past(Totalled)')
        /\ cardinality' = CardSum(copy', Past(Counted)')
        /\ heavyPart' = Past({"done"})'
    BY <2>1, <2>5, <2>7, <2>8 DEF IInv, SumInv
  <2>10. mtx2' # 0 => tpc'[mtx2'] = "addCard"
    BY <2>1, <2>3 DEF IInv, TypeInv, SumInv
  <2>11. \A j \in Index : tpc'[j] = "addCard" => mtx2' = j /\ reg'[j] = cardinality'
    BY <2>1, <2>3 DEF IInv, SumInv
  <2>12. \A j \in Index : tpc'[j] # "addTot"
    BY <2>3, <2>4
  <2> QED
    BY <2>1, <2>9, <2>10, <2>11, <2>12 DEF SumInv
<1>17. ASSUME NEW k \in Index, PushHeavy(k) PROVE SumInv'
  <2>1. /\ tpc[k] = "heavy" /\ tpc' = [tpc EXCEPT ![k] = "done"]
        /\ heavyPart' = heavyPart \cup {k}
        /\ UNCHANGED <<copy, reg, mtx2, mtx3, cardinality, tot>>
    BY <1>17 DEF PushHeavy
  <2>2. tpc \in [Index -> {"none", "copy"} \cup Copied]
    BY DEF IInv, TypeInv
  <2>3. \A j \in Index : tpc'[j] = IF j = k THEN "done" ELSE tpc[j]
    BY <2>1, <2>2

  <2>4. /\ Past(Counted)' = Past(Counted) /\ Past(Totalled)' = Past(Totalled)
        /\ Past({"done"})' = Past({"done"}) \cup {k}
    BY <2>1, <2>3 DEF Past
  <2>5. /\ cardinality' = CardSum(copy', Past(Counted)')
        /\ tot' = TotSum(copy', Past(Totalled)')
        /\ heavyPart' = Past({"done"})'
    BY <2>1, <2>4 DEF IInv, SumInv
  <2>6. (mtx2' # 0 => tpc'[mtx2'] = "addCard") /\ (mtx3' # 0 => tpc'[mtx3'] = "addTot")
    BY <2>1, <2>3 DEF IInv, TypeInv, SumInv
  <2> QED
    BY <2>1, <2>3, <2>5, <2>6 DEF IInv, SumInv
<1>18. ASSUME UNCHANGED vars PROVE SumInv'
  BY <1>18 DEF IInv, TypeInv, SumInv, Past
<1> QED
  BY <1>1, <1>2, <1>3, <1>4, <1>5, <1>6, <1>7, <1>8, <1>9, <1>10, <1>11, <1>12, <1>13, <1>14,
     <1>15, <1>16, <1>17, <1>18
     DEF Next, Sender, Receiver, Worker

\* Steps that leave the places alone and put no thread past its place.
LEMMA PlacesStay ==
  ASSUME Up, DistInv, Past(Placed)' = Past(Placed), UNCHANGED dist,
         \A k \in Past(Placed) : clientId'[k] = clientId[k] /\ copy'[k] = copy[k]
  PROVE  DistInv'
<1>1. \A k \in Past(Placed)' : k \in Past(Placed)
  OBVIOUS
<1>2. ASSUME Numbered' PROVE PlacesInv
  <2>1. \A k \in Past(Placed) : clientId[k] >= 1
    BY <1>2 DEF Numbered
  <2> QED
    BY <2>1 DEF DistInv, Numbered
<1>3. ASSUME PlacesInv PROVE PlacesInv'
  <2>1. \A k \in Past(Placed)' : clientId'[k] \in DOMAIN dist'
    BY <1>1, <1>3 DEF PlacesInv
  <2>2. ASSUME NEW p \in DOMAIN dist'
        PROVE  \/ /\ \A k \in Past(Placed)' : clientId'[k] # p
                  /\ dist'[p] = <<>>
               \/ \E k \in Past(Placed)' : clientId'[k] = p /\ dist'[p] = copy'[k].dist
    <3>1. p \in DOMAIN dist
      OBVIOUS
    <3>2. CASE (\A k \in Past(Placed) : clientId[k] # p) /\ dist[p] = <<>>
      BY <1>1, <3>2
    <3>3. CASE \E k \in Past(Placed) : clientId[k] = p /\ dist[p] = copy[k].dist
      BY <3>3
    <3> QED
      BY <1>3, <3>1, <3>2, <3>3 DEF PlacesInv
  <2> QED
    BY <2>1, <2>2 DEF PlacesInv
<1> QED
  BY <1>2, <1>3 DEF DistInv

\* Distributions are put in their places.
LEMMA DistInvStep ==
  ASSUME IInv, [Next]_vars
  PROVE  DistInv'
<1> USE CollectorAssumption DEF vars, receivers, sender, workers, results, Nobody, Copied,
    Placed, Counted, Totalled
<1>0. CASE ~Up
  <2>1. UNCHANGED vars
    BY <1>0 DEF Next
  <2>2. UNCHANGED Up
    BY <2>1 DEF Up
  <2> QED
    BY <1>0, <2>2 DEF DistInv
<1> SUFFICES ASSUME Up PROVE DistInv'
  BY <1>0
<1>1. ASSUME NEW c \in Conn, PushSketch(c) PROVE DistInv'
  <2>1. UNCHANGED <<dist, copy, clientId, tpc>>
    BY <1>1 DEF PushSketch
  <2>2. Past(Placed)' = Past(Placed)
    BY <2>1 DEF Past
  <2> QED
    BY <2>1, <2>2, PlacesStay DEF IInv
<1>2. ASSUME NEW c \in Conn, NameSketch(c) PROVE DistInv'
  <2>1. PICK number \in DeviceId : clientId' = [clientId EXCEPT ![slot[c]] = number]
    BY <1>2 DEF NameSketch
  <2>2. rpc[c] = "name" /\ UNCHANGED <<dist, copy, tpc>>
    BY <1>2 DEF NameSketch
  <2>3. \A j \in Past(Placed) : j # slot[c]
    <3> TAKE j \in Past(Placed)
    <3>1. j \in Index /\ tpc[j] \in Copied
      BY DEF Past
    <3>2. PICK d \in Conn : slot[d] = j /\ rpc[d] = "serve"
      BY <3>1 DEF IInv, WalkInv, Known
    <3>3. d # c /\ slot[d] # 0
      BY <2>2, <3>1, <3>2 DEF Index
    <3> QED
      BY <3>2, <3>3 DEF IInv, SlotInv
  <2>4. \A j \in Past(Placed) : clientId'[j] = clientId[j]
    BY <2>1, <2>3 DEF IInv, TypeInv, Past
  <2>5. Past(Placed)' = Past(Placed)
    BY <2>2 DEF Past
  <2> QED
    BY <2>2, <2>4, <2>5, PlacesStay DEF IInv
<1>3. ASSUME NEW c \in Conn, InstallSketch(c) PROVE DistInv'
  <2>1. UNCHANGED <<dist, copy, clientId, tpc>>
    BY <1>3 DEF InstallSketch
  <2>2. Past(Placed)' = Past(Placed)
    BY <2>1 DEF Past
  <2> QED
    BY <2>1, <2>2, PlacesStay DEF IInv
<1>4. ASSUME NEW c \in Conn, ReceiveFails(c) PROVE DistInv'
  <2>1. UNCHANGED <<dist, copy, clientId, tpc>>
    BY <1>4 DEF ReceiveFails
  <2>2. Past(Placed)' = Past(Placed)
    BY <2>1 DEF Past
  <2> QED
    BY <2>1, <2>2, PlacesStay DEF IInv
<1>5. ASSUME ConnectRefused PROVE DistInv'
  <2>1. UNCHANGED <<dist, copy, clientId, tpc>>
    BY <1>5 DEF ConnectRefused, Refused
  <2>2. Past(Placed)' = Past(Placed)
    BY <2>1 DEF Past
  <2> QED
    BY <2>1, <2>2, PlacesStay DEF IInv
<1>6. ASSUME Clean PROVE DistInv'
  <2>1. UNCHANGED <<dist, copy, clientId, tpc>>
    BY <1>6 DEF Clean
  <2>2. Past(Placed)' = Past(Placed)
    BY <2>1 DEF Past
  <2> QED
    BY <2>1, <2>2, PlacesStay DEF IInv
<1>7. ASSUME BeginReport PROVE DistInv'
  <2>1. dist' = <<>> /\ tpc' = [k \in Index |-> "none"]
    BY <1>7 DEF BeginReport
  <2>2. Past(Placed)' = {} /\ DOMAIN dist' = {}
    BY <2>1 DEF Past
  <2> QED
    BY <2>2 DEF DistInv, PlacesInv
<1>8. ASSUME WalkSketches PROVE DistInv'
  <2>1. /\ UNCHANGED <<dist, copy, clientId>>
        /\ tpc' = tpc \/ tpc' = [tpc EXCEPT ![it] = "copy"]
    BY <1>8 DEF WalkSketches
  <2>2. \A k \in Index : k = it => tpc[k] = "none"
    BY DEF IInv, TypeInv, WalkInv, Index
  <2>3. \A k \in Index : tpc'[k] = tpc[k] \/ (tpc'[k] = "copy" /\ tpc[k] = "none")
    BY <2>1, <2>2 DEF IInv, TypeInv
  <2>4. Past(Placed)' = Past(Placed)
    BY <2>3 DEF Past
  <2> QED
    BY <2>1, <2>4, PlacesStay DEF IInv
<1>9. ASSUME JoinWorkers PROVE DistInv'
  <2>1. UNCHANGED <<dist, copy, clientId, tpc>>
    BY <1>9 DEF JoinWorkers
  <2>2. Past(Placed)' = Past(Placed)
    BY <2>1 DEF Past
  <2> QED
    BY <2>1, <2>2, PlacesStay DEF IInv
<1>10. ASSUME SendReport PROVE DistInv'
  <2>1. UNCHANGED <<dist, copy, clientId, tpc>>
    BY <1>10 DEF SendReport
  <2>2. Past(Placed)' = Past(Placed)
    BY <2>1 DEF Past
  <2> QED
    BY <2>1, <2>2, PlacesStay DEF IInv
<1>11. ASSUME NEW k \in Index, CopySketch(k) PROVE DistInv'
  <2>1. /\ UNCHANGED <<dist, clientId>>
        /\ tpc[k] = "copy" /\ tpc' = [tpc EXCEPT ![k] = "dist"]
        /\ copy' = [copy EXCEPT ![k] = sketches[k]]
    BY <1>11 DEF CopySketch
  <2>2. Past(Placed)' = Past(Placed) /\ k \notin Past(Placed)
    BY <2>1 DEF Past, IInv, TypeInv
  <2>3. \A j \in Past(Placed) : copy'[j] = copy[j]
    <3>1. \A j \in Index : j # k => copy'[j] = copy[j]
      BY <2>1 DEF IInv, TypeInv
    <3> QED
      BY <2>2, <3>1 DEF Past
  <2> QED
    BY <2>1, <2>2, <2>3, PlacesStay DEF IInv
<1>12. ASSUME NEW k \in Index, PutDistribution(k) PROVE DistInv'
  <2>1. CASE spc' = "crashed"
    <3>1. ~Up'
      BY <2>1 DEF Up
    <3> QED
      BY <3>1 DEF DistInv
  <2>2. CASE clientId[k] = 0 /\ tpc' = [tpc EXCEPT ![k] = "card"]
    <3>1. k \in Past(Placed)'
      BY <2>2 DEF Past, IInv, TypeInv
    <3>2. clientId'[k] = 0
      BY <1>12, <2>2 DEF PutDistribution
    <3>3. ~Numbered'
      BY <3>1, <3>2 DEF Numbered
    <3> QED
      BY <3>3 DEF DistInv
  <2> DEFINE cid == clientId[k]
             grown == PlaceFor(cid)
  <2>3. CASE /\ cid >= 1
             /\ dist' = [grown EXCEPT ![cid] = copy[k].dist]
             /\ tpc' = [tpc EXCEPT ![k] = "card"]
    <3>1. tpc[k] = "dist" /\ UNCHANGED <<copy, clientId>>
      BY <1>12 DEF PutDistribution
    <3>2. Past(Placed)' = Past(Placed) \cup {k}
      <4>1. \A j \in Index : tpc'[j] = IF j = k THEN "card" ELSE tpc[j]
        BY <2>3 DEF IInv, TypeInv
      <4> QED
        BY <4>1 DEF Past
    <3>3. copy[k].dist \in Dists /\ cid \in Int /\ dist \in Seq(Dists)
      BY <3>1 DEF IInv, TypeInv, Dists
    <3>4. /\ grown \in Seq(Dists) /\ cid \in DOMAIN grown /\ DOMAIN dist \subseteq DOMAIN grown
          /\ \A p \in DOMAIN grown : grown[p] = IF p \in DOMAIN dist THEN dist[p] ELSE <<>>
      BY <2>3, <3>3, PlaceIsThere
    <3> HIDE DEF grown
    <3>5. /\ DOMAIN dist' = DOMAIN grown
          /\ \A p \in DOMAIN grown : dist'[p] = IF p = cid THEN copy[k].dist ELSE grown[p]
      BY <2>3, <3>3, <3>4, SeqExcept
    <3>6. ASSUME Numbered' PROVE PlacesInv
      <4>1. \A j \in Past(Placed) : clientId[j] >= 1
        BY <3>1, <3>2, <3>6 DEF Numbered
      <4> QED
        BY <4>1 DEF IInv, DistInv, Numbered
    <3>7. ASSUME PlacesInv PROVE \A j \in Past(Placed)' : clientId'[j] \in DOMAIN dist'
      BY <3>1, <3>2, <3>4, <3>5, <3>7 DEF PlacesInv
    <3>8. ASSUME PlacesInv, NEW p \in DOMAIN dist'
          PROVE  \/ /\ \A j \in Past(Placed)' : clientId'[j] # p
                    /\ dist'[p] = <<>>
                 \/ \E j \in Past(Placed)' : clientId'[j] = p /\ dist'[p] = copy'[j].dist
      <4>1. CASE p = cid
        BY <3>1, <3>2, <3>5, <4>1
      <4>2. CASE p # cid /\ p \notin DOMAIN dist
        <5>1. dist'[p] = <<>>
          BY <3>4, <3>5, <3>8, <4>2
        <5>2. \A j \in Past(Placed) : clientId[j] # p
          BY <3>8, <4>2 DEF PlacesInv
        <5> QED
          BY <3>1, <3>2, <4>2, <5>1, <5>2
      <4>3. CASE p # cid /\ p \in DOMAIN dist
        <5>1. dist'[p] = dist[p]
          BY <3>4, <3>5, <3>8, <4>3
        <5>2. CASE (\A j \in Past(Placed) : clientId[j] # p) /\ dist[p] = <<>>
          BY <3>1, <3>2, <4>3, <5>1, <5>2
        <5>3. CASE \E j \in Past(Placed) : clientId[j] = p /\ dist[p] = copy[j].dist
          BY <3>1, <3>2, <5>1, <5>3
        <5> QED
          BY <3>8, <4>3, <5>2, <5>3 DEF PlacesInv
      <4> QED
        BY <4>1, <4>2, <4>3
    <3> QED
      BY <3>6, <3>7, <3>8 DEF DistInv, PlacesInv
  <2> QED
    BY <1>12, <2>1, <2>2, <2>3 DEF PutDistribution, PlaceFor
<1>13. ASSUME NEW k \in Index, LockCardinality(k) PROVE DistInv'
  <2>1. /\ UNCHANGED <<dist, copy, clientId>>
        /\ tpc[k] = "card" /\ tpc' = [tpc EXCEPT ![k] = "addCard"]
    BY <1>13 DEF LockCardinality
  <2>2. Past(Placed)' = Past(Placed)
    BY <2>1 DEF Past, IInv, TypeInv
  <2> QED
    BY <2>1, <2>2, PlacesStay DEF IInv
<1>14. ASSUME NEW k \in Index, AddCardinality(k) PROVE DistInv'
  <2>1. /\ UNCHANGED <<dist, copy, clientId>>
        /\ tpc[k] = "addCard" /\ tpc' = [tpc EXCEPT ![k] = "tot"]
    BY <1>14 DEF AddCardinality
  <2>2. Past(Placed)' = Past(Placed)
    BY <2>1 DEF Past, IInv, TypeInv
  <2> QED
    BY <2>1, <2>2, PlacesStay DEF IInv
<1>15. ASSUME NEW k \in Index, LockTotal(k) PROVE DistInv'
  <2>1. /\ UNCHANGED <<dist, copy, clientId>>
        /\ tpc[k] = "tot" /\ tpc' = [tpc EXCEPT ![k] = "addTot"]
    BY <1>15 DEF LockTotal
  <2>2. Past(Placed)' = Past(Placed)
    BY <2>1 DEF Past, IInv, TypeInv
  <2> QED
    BY <2>1, <2>2, PlacesStay DEF IInv
<1>16. ASSUME NEW k \in Index, AddTotal(k) PROVE DistInv'
  <2>1. /\ UNCHANGED <<dist, copy, clientId>>
        /\ tpc[k] = "addTot" /\ tpc' = [tpc EXCEPT ![k] = "heavy"]
    BY <1>16 DEF AddTotal
  <2>2. Past(Placed)' = Past(Placed)
    BY <2>1 DEF Past, IInv, TypeInv
  <2> QED
    BY <2>1, <2>2, PlacesStay DEF IInv
<1>17. ASSUME NEW k \in Index, PushHeavy(k) PROVE DistInv'
  <2>1. /\ UNCHANGED <<dist, copy, clientId>>
        /\ tpc[k] = "heavy" /\ tpc' = [tpc EXCEPT ![k] = "done"]
    BY <1>17 DEF PushHeavy
  <2>2. Past(Placed)' = Past(Placed)
    BY <2>1 DEF Past, IInv, TypeInv
  <2> QED
    BY <2>1, <2>2, PlacesStay DEF IInv
<1>18. ASSUME UNCHANGED vars PROVE DistInv'
  <2>1. UNCHANGED <<dist, copy, clientId, tpc>>
    BY <1>18
  <2>2. Past(Placed)' = Past(Placed)
    BY <2>1 DEF Past
  <2> QED
    BY <2>1, <2>2, PlacesStay DEF IInv
<1> QED
  BY <1>1, <1>2, <1>3, <1>4, <1>5, <1>6, <1>7, <1>8, <1>9, <1>10, <1>11, <1>12, <1>13, <1>14,
     <1>15, <1>16, <1>17, <1>18
     DEF Next, Sender, Receiver, Worker

-----------------------------------------------------------------------------
(* What holds in every behaviour.                                          *)

\* The invariant holds at the start and after every step.
THEOREM Invariance == Spec => []IInv
<1>1. IInv /\ [Next]_vars => IInv'
  BY TypeInvStep, SlotInvStep, WalkInvStep, SumInvStep, DistInvStep DEF IInv
<1> QED
  BY InitIInv, <1>1, PTL DEF Spec

\* There are not more sketches than connections: each has one of its own.
LEMMA SketchesFit == ASSUME TypeInv, SlotInv PROVE Len(sketches) <= NConn
<1> DEFINE Places == 1 .. Len(sketches)
           owner == [k \in Places |-> CHOOSE c \in Conn : slot[c] = k]
<1>1. \A k \in Places : owner[k] \in Conn /\ slot[owner[k]] = k
  BY DEF SlotInv
<1>2. owner \in Injection(Places, Conn)
  BY <1>1 DEF Injection, IsInjective
<1>3. IsFiniteSet(Conn) /\ Cardinality(Conn) = NConn
  <2>1. NConn \in Nat /\ 1 \in Int /\ NConn \in Int
    BY CollectorAssumption
  <2>2. Cardinality(1 .. NConn) = IF 1 > NConn THEN 0 ELSE NConn - 1 + 1
    BY <2>1, FS_Interval
  <2>3. Cardinality(1 .. NConn) = NConn
    BY <2>1, <2>2
  <2> QED
    BY <2>1, <2>3, FS_Interval DEF Conn
<1>4. Cardinality(Places) = Len(sketches)
  <2>1. Len(sketches) \in Nat /\ 1 \in Int /\ Len(sketches) \in Int
    BY DEF TypeInv
  <2>2. Cardinality(1 .. Len(sketches))
          = IF 1 > Len(sketches) THEN 0 ELSE Len(sketches) - 1 + 1
    BY <2>1, FS_Interval
  <2> QED
    BY <2>1, <2>2
<1> HIDE DEF Places, owner
<1>5. Cardinality(Places) <= Cardinality(Conn)
  BY <1>2, <1>3, FS_Injection
<1> QED
  BY <1>3, <1>4, <1>5

\* process_data never looks up the number of a device that has not sent it.
THEOREM DevicesKnown == Spec => []DeviceIsKnown
<1>1. IInv => DeviceIsKnown
  BY DEF IInv, WalkInv, Copied, Known, DeviceIsKnown
<1> QED
  BY Invariance, <1>1, PTL

\* What is posted is whole: no update of a sum is lost, and, without a device
\* of number 0, each device has a distribution and each distribution is in the
\* place of its device.
THEOREM ReportsWhole == Spec => []ReportIsWhole
<1>1. ASSUME IInv, spc = "send" PROVE /\ Past(Counted) = Walked /\ Past(Totalled) = Walked
                                      /\ Past({"done"}) = Walked /\ Past(Placed) = Walked
  <2>1. Walked \subseteq Index
    <3>1. Len(sketches) <= NConn /\ it - 1 <= Len(sketches) /\ it \in Nat /\ Len(sketches) \in Nat
      BY <1>1, SketchesFit DEF IInv, TypeInv, WalkInv
    <3> QED
      BY <3>1, CollectorAssumption DEF Walked, Index
  <2>2. \A k \in Index : k \in Walked <=> tpc[k] # "none"
    BY <1>1, CollectorAssumption DEF IInv, TypeInv, WalkInv, Walked, Index
  <2>3. \A k \in Index : tpc[k] \in {"none", "done"}
    BY <1>1 DEF IInv, WalkInv
  <2> QED
    BY <2>1, <2>2, <2>3 DEF Past, Counted, Totalled, Placed, Copied
<1>2. IInv => SumsAreComplete
  BY <1>1 DEF IInv, SumInv, SumsAreComplete, CardSum, TotSum
<1>3. IInv => DistributionsInPlace
  <2> SUFFICES ASSUME IInv, spc = "send", \A k \in Walked : clientId[k] >= 1
               PROVE  /\ \A k \in Walked :
                            /\ clientId[k] \in DOMAIN dist
                            /\ \E j \in Walked : /\ clientId[j] = clientId[k]
                                                /\ dist[clientId[k]] = copy[j].dist
                      /\ \A p \in DOMAIN dist :
                            (\A k \in Walked : clientId[k] # p) => dist[p] = <<>>
    BY DEF DistributionsInPlace
  <2>1. Past(Placed) = Walked
    BY <1>1
  <2>2. Up /\ Numbered
    BY <2>1 DEF Up, Numbered
  <2>3. PlacesInv
    BY <2>2 DEF IInv, DistInv
  <2>4. \A k \in Walked : clientId[k] \in DOMAIN dist
    BY <2>1, <2>3 DEF PlacesInv
  <2>5. \A p \in DOMAIN dist :
          \/ (\A k \in Walked : clientId[k] # p) /\ dist[p] = <<>>
          \/ \E j \in Walked : clientId[j] = p /\ dist[p] = copy[j].dist
    BY <2>1, <2>3 DEF PlacesInv
  <2> QED
    BY <2>4, <2>5
<1>4. IInv => ReportIsWhole
  BY <1>2, <1>3 DEF ReportIsWhole
<1> QED
  BY Invariance, <1>4, PTL
=============================================================================
