------------------------------ MODULE Collector ------------------------------
(***************************************************************************)
(* The collector (server/server.cpp): one receiver thread per device       *)
(* connection, and the thread that over and over makes a report of all     *)
(* sketches, with one process_data thread per sketch, and posts it to the  *)
(* database.                                                               *)
(*                                                                         *)
(* How a receiver gets a sketch from its connection and why copying one    *)
(* under mtx is atomic is the subject of SketchStream; here a sketch is    *)
(* installed or copied in one step.  A sketch stands for what is computed  *)
(* from it: its cardinality, its total and its distribution.               *)
(***************************************************************************)
EXTENDS Integers, FiniteSets, FiniteSetsExt, SequencesExt

CONSTANTS
    NConn,        \* device connections accepted during the run
    DeviceId,     \* numbers that devices send: the last octet of an address - 1
    Content,      \* sketches: [card : Nat, tot : Nat, dist : Seq(Nat)]
    GetTries,     \* failed connects tolerated before the clean request, 10
    PostTries,    \* and before each post, 5
    MaxReports    \* bound on the reports made

Conn == 1 .. NConn

ASSUME CollectorAssumption ==
    /\ NConn \in Nat
    /\ DeviceId \subseteq Int
    /\ \A s \in Content : s.card \in Nat /\ s.tot \in Nat
    /\ {GetTries, PostTries, MaxReports} \subseteq Nat

\* Indices of sketches, from 1 where the code counts from 0.
Index == 1 .. NConn
Unset == 0       \* what client_id[k] creates when k is not there
Nobody == 0      \* a mutex that is free

VARIABLES
    rpc, slot,             \* receivers: where, the sketch's index
    sketches, clientId,    \* sketches, client_id
    received,              \* sketches that hold something received
    capacity, storage,     \* of the vector: its capacity, how often it moved
    mtx,                   \* mtx: a receiver that is in it
    spc, tries, id,        \* sendMsg: where, t, id
    it, itStorage,         \* makeJSON: the iterator and what it points into
    tpc, copy, reg,        \* process_data: where, its copy, a register
    mtx2, mtx3,            \* the mutexes of cardinality and tot
    cardinality, tot,      \* the sums of the report
    heavyPart, dist        \* its heavy flows (by sketch) and distributions

receivers == <<rpc, slot, sketches, clientId, received, capacity, storage, mtx>>
sender == <<spc, tries, id, it, itStorage>>
workers == <<tpc, copy, reg, mtx2, mtx3>>
results == <<cardinality, tot, heavyPart, dist>>
vars == <<receivers, sender, workers, results>>

Up == spc \notin {"exited", "crashed"}

-----------------------------------------------------------------------------
(* recieveSketch.                                                          *)

\* The device's number has been read; sketches gets a new, uncleared sketch.
\* A vector that is full moves.
PushSketch(c) ==
    /\ rpc[c] = "hello"
    /\ mtx = Nobody
    /\ mtx' = c
    /\ \E garbage \in Content : sketches' = Append(sketches, garbage)
    /\ slot' = [slot EXCEPT ![c] = Len(sketches')]
    /\ IF Len(sketches) = capacity
         THEN /\ capacity' = IF capacity = 0 THEN 1 ELSE 2 * capacity
              /\ storage' = storage + 1
         ELSE UNCHANGED <<capacity, storage>>
    /\ rpc' = [rpc EXCEPT ![c] = "name"]
    /\ UNCHANGED <<clientId, received, sender, workers, results>>

\* client_id of the new sketch, still under mtx.
NameSketch(c) ==
    /\ rpc[c] = "name"
    /\ \E number \in DeviceId : clientId' = [clientId EXCEPT ![slot[c]] = number]
    /\ mtx' = Nobody
    /\ rpc' = [rpc EXCEPT ![c] = "serve"]
    /\ UNCHANGED <<slot, sketches, received, capacity, storage, sender,
                   workers, results>>

\* A whole sketch has arrived.
InstallSketch(c) ==
    /\ rpc[c] = "serve"
    /\ mtx = Nobody
    /\ \E s \in Content : sketches' = [sketches EXCEPT ![slot[c]] = s]
    /\ received' = received \cup {slot[c]}
    /\ UNCHANGED <<rpc, slot, clientId, capacity, storage, mtx, sender,
                   workers, results>>

\* recv fails: the whole collector exits.
ReceiveFails(c) ==
    /\ rpc[c] \in {"hello", "serve"}
    /\ spc' = "exited"
    /\ UNCHANGED <<tries, id, it, itStorage, receivers, workers, results>>

Receiver(c) ==
    PushSketch(c) \/ NameSketch(c) \/ InstallSketch(c) \/ ReceiveFails(c)

-----------------------------------------------------------------------------
(* sendMsg and makeJSON.                                                   *)

Refused(at, limit) ==
    /\ spc = at
    /\ tries' = tries + 1
    /\ spc' = IF tries' > limit THEN "exited" ELSE at
    /\ UNCHANGED <<id, it, itStorage, receivers, workers, results>>

ConnectRefused == Refused("get", GetTries) \/ Refused("post", PostTries)

\* The clean request is sent and answered.
Clean ==
    /\ spc = "get"
    /\ spc' = "post"
    /\ tries' = 0
    /\ UNCHANGED <<id, it, itStorage, receivers, workers, results>>

BeginReport ==
    /\ spc = "post"
    /\ id < MaxReports
    /\ id' = id + 1
    /\ cardinality' = 0
    /\ tot' = 0
    /\ heavyPart' = {}
    /\ dist' = <<>>
    /\ tpc' = [k \in Index |-> "none"]
    /\ it' = 1
    /\ itStorage' = storage
    /\ spc' = "walk"
    /\ UNCHANGED <<tries, copy, reg, mtx2, mtx3, receivers>>

\* The walk over sketches holds no lock: an iterator into a vector that has
\* moved leads nowhere.
WalkSketches ==
    /\ spc = "walk"
    /\ \/ /\ itStorage = storage
          /\ it <= Len(sketches)
          /\ tpc' = [tpc EXCEPT ![it] = "copy"]
          /\ it' = it + 1
          /\ UNCHANGED spc
       \/ /\ itStorage = storage
          /\ it > Len(sketches)
          /\ spc' = "join"
          /\ UNCHANGED <<it, tpc>>
       \/ /\ itStorage # storage
          /\ spc' = "crashed"
          /\ UNCHANGED <<it, tpc>>
    /\ UNCHANGED <<tries, id, itStorage, copy, reg, mtx2, mtx3, receivers, results>>

JoinWorkers ==
    /\ spc = "join"
    /\ \A k \in 1 .. (it - 1) : tpc[k] = "done"
    /\ spc' = "send"
    /\ UNCHANGED <<tries, id, it, itStorage, receivers, workers, results>>

\* The report is written out, sent and answered.
SendReport ==
    /\ spc = "send"
    /\ spc' = "post"
    /\ tries' = 0
    /\ UNCHANGED <<id, it, itStorage, receivers, workers, results>>

Sender ==
    \/ ConnectRefused \/ Clean \/ BeginReport \/ WalkSketches \/ JoinWorkers
    \/ SendReport

-----------------------------------------------------------------------------
(* process_data of the k-th sketch.                                        *)

\* Faulty variant: the copy is made without mtx.
CopySketchUnlocked(k) ==
    /\ tpc[k] = "copy"
    /\ copy' = [copy EXCEPT ![k] = sketches[k]]
    /\ tpc' = [tpc EXCEPT ![k] = "dist"]
    /\ UNCHANGED <<reg, mtx2, mtx3, receivers, sender, results>>

\* Under mtx.
CopySketch(k) ==
    /\ tpc[k] = "copy"
    /\ mtx = Nobody
    /\ copy' = [copy EXCEPT ![k] = sketches[k]]
    /\ tpc' = [tpc EXCEPT ![k] = "dist"]
    /\ UNCHANGED <<reg, mtx2, mtx3, receivers, sender, results>>

\* vector::resize: new entries are empty.
Grown(d, n) == d \o [j \in 1 .. (n - Len(d)) |-> <<>>]

\* Faulty variant: dist is resized whether or not it is long enough.
PutDistributionCuts(k) ==
    LET cid == clientId[k]
    IN /\ tpc[k] = "dist"
       /\ cid >= 1
       /\ dist' = [SubSeq(Grown(dist, cid), 1, cid) EXCEPT ![cid] = copy[k].dist]
       /\ tpc' = [tpc EXCEPT ![k] = "card"]
       /\ UNCHANGED <<copy, reg, mtx2, mtx3, cardinality, tot, heavyPart,
                      receivers, sender>>

\* Under mtx1.  The place of number 0 is -1, which as an unsigned number is
\* past the end: dist is resized to no entries, which erases all that are in
\* it, and the entry before the first is written to: a crash, or memory of
\* something else.  No vector has the size that a negative number asks for.
\* client_id is written under mtx: a lookup while a receiver inserts is a race.
PutDistribution(k) ==
    LET cid == clientId[k]
        grown == IF cid > Len(dist) THEN Grown(dist, cid) ELSE dist
    IN /\ tpc[k] = "dist"
       /\ \/ /\ cid >= 1
             /\ dist' = [grown EXCEPT ![cid] = copy[k].dist]
             /\ tpc' = [tpc EXCEPT ![k] = "card"]
             /\ UNCHANGED spc
          \/ /\ cid = 0
             /\ dist' = <<>>
             /\ \/ tpc' = [tpc EXCEPT ![k] = "card"] /\ UNCHANGED spc
                \/ spc' = "crashed" /\ UNCHANGED tpc
          \/ /\ cid < 0 \/ \E c \in Conn : rpc[c] = "name"
             /\ spc' = "crashed"
             /\ UNCHANGED <<dist, tpc>>
       /\ UNCHANGED <<copy, reg, mtx2, mtx3, cardinality, tot, heavyPart,
                      tries, id, it, itStorage, receivers>>

\* Faulty variant: mtx2 is not waited for.
LockCardinalityNot(k) ==
    /\ tpc[k] = "card"
    /\ reg' = [reg EXCEPT ![k] = cardinality]
    /\ tpc' = [tpc EXCEPT ![k] = "addCard"]
    /\ UNCHANGED <<copy, mtx2, mtx3, receivers, sender, results>>

\* cardinality += ..., in two steps under mtx2.
LockCardinality(k) ==
    /\ tpc[k] = "card"
    /\ mtx2 = Nobody
    /\ mtx2' = k
    /\ reg' = [reg EXCEPT ![k] = cardinality]
    /\ tpc' = [tpc EXCEPT ![k] = "addCard"]
    /\ UNCHANGED <<copy, mtx3, receivers, sender, results>>

\* Faulty variant: mtx2 is not released.
AddCardinalityHeld(k) ==
    /\ tpc[k] = "addCard"
    /\ cardinality' = reg[k] + copy[k].card
    /\ tpc' = [tpc EXCEPT ![k] = "tot"]
    /\ UNCHANGED <<copy, reg, mtx2, mtx3, tot, heavyPart, dist, receivers, sender>>

AddCardinality(k) ==
    /\ tpc[k] = "addCard"
    /\ cardinality' = reg[k] + copy[k].card
    /\ mtx2' = Nobody
    /\ tpc' = [tpc EXCEPT ![k] = "tot"]
    /\ UNCHANGED <<copy, reg, mtx3, tot, heavyPart, dist, receivers, sender>>

\* tot, in many such steps under mtx3 of which one stands for all.
LockTotal(k) ==
    /\ tpc[k] = "tot"
    /\ mtx3 = Nobody
    /\ mtx3' = k
    /\ reg' = [reg EXCEPT ![k] = tot]
    /\ tpc' = [tpc EXCEPT ![k] = "addTot"]
    /\ UNCHANGED <<copy, mtx2, receivers, sender, results>>

AddTotal(k) ==
    /\ tpc[k] = "addTot"
    /\ tot' = reg[k] + copy[k].tot
    /\ mtx3' = Nobody
    /\ tpc' = [tpc EXCEPT ![k] = "heavy"]
    /\ UNCHANGED <<copy, reg, mtx2, cardinality, heavyPart, dist, receivers, sender>>

\* Under mtx4.
PushHeavy(k) ==
    /\ tpc[k] = "heavy"
    /\ heavyPart' = heavyPart \cup {k}
    /\ tpc' = [tpc EXCEPT ![k] = "done"]
    /\ UNCHANGED <<copy, reg, mtx2, mtx3, cardinality, tot, dist, receivers, sender>>

Worker(k) ==
    \/ CopySketch(k) \/ PutDistribution(k)
    \/ LockCardinality(k) \/ AddCardinality(k)
    \/ LockTotal(k) \/ AddTotal(k) \/ PushHeavy(k)

-----------------------------------------------------------------------------
Init ==
    /\ rpc = [c \in Conn |-> "hello"]
    /\ slot = [c \in Conn |-> 0]
    /\ sketches = <<>>
    /\ clientId = [k \in Index |-> Unset]
    /\ received = {}
    /\ capacity = 0
    /\ storage = 0
    /\ mtx = Nobody
    /\ spc = "get"
    /\ tries = 0
    /\ id = 0
    /\ it = 1
    /\ itStorage = 0
    /\ tpc = [k \in Index |-> "none"]
    /\ copy = [k \in Index |-> CHOOSE s \in Content : TRUE]
    /\ reg = [k \in Index |-> 0]
    /\ mtx2 = Nobody
    /\ mtx3 = Nobody
    /\ cardinality = 0
    /\ tot = 0
    /\ heavyPart = {}
    /\ dist = <<>>

Next ==
    /\ Up
    /\ \/ Sender
       \/ \E c \in Conn : Receiver(c)
       \/ \E k \in Index : Worker(k)

\* The scheduler runs every thread that can run.  Weak fairness is enough for
\* the mutexes: each is taken a bounded number of times while one waits.
Fairness ==
    /\ WF_vars(Up /\ Sender)
    /\ \A c \in Conn : WF_vars(Up /\ NameSketch(c))
    /\ \A k \in Index : WF_vars(Up /\ Worker(k))

Spec == Init /\ [][Next]_vars /\ Fairness

-----------------------------------------------------------------------------
(* What writeDist writes for one distribution, as tokens: entries that are *)
(* 0 are left out, and a comma follows each entry but the last of tmp.     *)
DistRow(tmp) ==
    FlattenSeq([j \in DOMAIN tmp |->
        IF tmp[j] > 0
        THEN <<"pair">> \o (IF j < Len(tmp) THEN <<",">> ELSE <<>>)
        ELSE <<>>])

-----------------------------------------------------------------------------
(* Properties.                                                             *)

Walked == 1 .. (it - 1)

\* A process_data thread never looks up a device number that is not there
\* yet, although the walk may see a sketch before its number and client_id
\* is read under another mutex: the copy it makes first, under mtx, comes
\* after the receiver has left mtx.
DeviceIsKnown ==
    \A k \in Index : tpc[k] = "dist" =>
        \E c \in Conn : slot[c] = k /\ rpc[c] = "serve"

\* No update of a sum is lost between the threads of a report: what is posted
\* is the sum over the copies they worked on.
SumsAreComplete ==
    spc = "send" =>
        /\ cardinality = MapThenSumSet(LAMBDA k : copy[k].card, Walked)
        /\ tot = MapThenSumSet(LAMBDA k : copy[k].tot, Walked)
        /\ heavyPart = Walked

\* Every device in the report has a distribution in it, at the place of its
\* number, and it is one of that device's sketches; the places of other
\* numbers are empty.  For this no device may have the number 0, whose thread
\* erases what the others have put in place.
DistributionsInPlace ==
    spc = "send" /\ (\A k \in Walked : clientId[k] >= 1) =>
        /\ \A k \in Walked :
              /\ clientId[k] \in DOMAIN dist
              /\ \E j \in Walked : /\ clientId[j] = clientId[k]
                                  /\ dist[clientId[k]] = copy[j].dist
        /\ \A p \in DOMAIN dist :
              (\A k \in Walked : clientId[k] # p) => dist[p] = <<>>

\* What is posted is whole: its sums and, without a device of number 0, its
\* distributions, whichever way the threads of the report and the receivers
\* interleave.
ReportIsWhole == SumsAreComplete /\ DistributionsInPlace

\* A report is a list of lists: no list ends in a comma.
DistributionsAreLists ==
    spc = "send" =>
        \A p \in DOMAIN dist :
            dist[p] # <<>> /\ DistRow(dist[p]) # <<>> => Last(DistRow(dist[p])) # ","

\* A report that was begun is posted, unless the collector stops; no thread
\* of a report waits for a mutex for ever.
ReportsFinish == (spc = "walk") ~> (spc = "send" \/ ~Up)
=============================================================================
