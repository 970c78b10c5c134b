------------------------ MODULE ElasticSketchProofs ------------------------
(***************************************************************************)
(* Proofs about the Elastic sketch and the measurements on it, for every   *)
(* set of flows, every pair of hash functions and every size of the two    *)
(* parts.                                                                  *)
(***************************************************************************)
EXTENDS SketchMeasures, SumProofs

-----------------------------------------------------------------------------
(* What the scan of a bucket returns. *)

\* The slot the scan of HeavyPart::insert stops at is one of those it seeks.
LEMMA FirstIsMember ==
  ASSUME NEW S, S \subseteq Slot, S # {}
  PROVE  First(S) \in S /\ First(S) \in Slot
<1>1. S \subseteq Nat
  BY SizeAssumption DEF Slot
<1>2. \E s \in S : \A t \in S : s <= t
  BY <1>1, LeastNumber
<1> QED
  BY <1>2 DEF First

\* The slot that loses its key is a slot of the bucket with the least count.
LEMMA MinCounterIsSmallest ==
  ASSUME TypeOK, NEW b \in Bucket
  PROVE  /\ MinCounter(b) \in Slot
         /\ \A t \in Slot : MinCount(b) <= GetCounterVal(val[b][t])
<1> DEFINE Counts == {GetCounterVal(val[b][s]) : s \in Slot}
<1>1. Counts \subseteq Nat /\ Counts # {}
  <2>1. 0 \in Slot
    BY SizeAssumption DEF Slot
  <2>2. \A s \in Slot : GetCounterVal(val[b][s]) \in Nat
    BY SizeAssumption DEF TypeOK, GetCounterVal, Word
  <2> QED
    BY <2>1, <2>2
<1>2. \E m \in Counts : \A n \in Counts : m <= n
  BY <1>1, LeastNumber
<1>3. Smallest(b) # {}
  BY <1>2 DEF Smallest
<1>4. Smallest(b) \subseteq Slot
  BY DEF Smallest
<1>5. MinCounter(b) \in Smallest(b) /\ MinCounter(b) \in Slot
  BY <1>3, <1>4, FirstIsMember DEF MinCounter
<1> QED
  BY <1>5 DEF Smallest, MinCount

-----------------------------------------------------------------------------
(* What a step does to the light part: it only ever raises a counter. *)

\* LightPart::insert adds, and stops at the maximum.
LEMMA LightInsertEffect ==
  ASSUME TypeOK, NEW k \in Key, NEW f \in Nat, LightInsert(k, f)
  PROVE  /\ counters' \in [Counter -> 0 .. LightMax]
         /\ miceDist' \in [0 .. LightMax -> Int]
         /\ \A p \in Counter : counters'[p] >= counters[p]
         /\ \/ counters'[LightHash[k]] = counters[LightHash[k]] + f
            \/ counters'[LightHash[k]] = LightMax
<1> DEFINE p == LightHash[k]
           new == AtMost(counters[p] + f, LightMax)
<1>1. p \in Counter
  BY HashAssumption
<1>2. counters[p] \in 0 .. LightMax
  BY <1>1 DEF TypeOK
<1>3. /\ new \in 0 .. LightMax
      /\ new >= counters[p]
      /\ new = counters[p] + f \/ new = LightMax
  BY <1>2, SizeAssumption DEF AtMost
<1>4. /\ counters' = [counters EXCEPT ![p] = new]
      /\ miceDist' = [[miceDist EXCEPT ![counters[p]] = @ - 1] EXCEPT ![new] = @ + 1]
  BY DEF LightInsert, StoreCounter
<1>5. counters' \in [Counter -> 0 .. LightMax]
  BY <1>1, <1>3, <1>4 DEF TypeOK
<1>6. miceDist' \in [0 .. LightMax -> Int]
  <2> DEFINE less == [miceDist EXCEPT ![counters[p]] = @ - 1]
  <2>1. less \in [0 .. LightMax -> Int]
    BY <1>2 DEF TypeOK
  <2>2. miceDist' = [less EXCEPT ![new] = less[new] + 1]
    BY <1>4
  <2> HIDE DEF less, new
  <2> QED
    BY <2>1, <2>2, <1>3
<1>7. counters'[p] = new /\ \A q \in Counter \ {p} : counters'[q] = counters[q]
  BY <1>1, <1>4 DEF TypeOK
<1>8. \A q \in Counter : counters'[q] >= counters[q]
  <2> HIDE DEF new, p
  <2>1. \A q \in Counter : counters[q] \in Int
    BY SizeAssumption DEF TypeOK
  <2> QED
    BY <1>3, <1>7, <2>1
<1> QED
  BY <1>3, <1>5, <1>6, <1>7, <1>8

\* LightPart::swap_insert stores the maximum of the two counts.
LEMMA LightSwapInsertEffect ==
  ASSUME TypeOK, NEW k \in Key, NEW f \in Nat, LightSwapInsert(k, f)
  PROVE  /\ counters' \in [Counter -> 0 .. LightMax]
         /\ miceDist' \in [0 .. LightMax -> Int]
         /\ \A p \in Counter : counters'[p] >= counters[p]
         /\ \/ counters'[LightHash[k]] >= f
            \/ counters'[LightHash[k]] = LightMax
<1> DEFINE p == LightHash[k]
           new == AtMost(f, LightMax)
<1>1. p \in Counter
  BY HashAssumption
<1>2. counters[p] \in 0 .. LightMax
  BY <1>1 DEF TypeOK
<1>3. new \in 0 .. LightMax /\ (new = f \/ new = LightMax)
  BY SizeAssumption DEF AtMost
<1>4. CASE counters[p] < new
  <2>1. /\ counters' = [counters EXCEPT ![p] = new]
        /\ miceDist' = [[miceDist EXCEPT ![counters[p]] = @ - 1] EXCEPT ![new] = @ + 1]
    BY <1>4 DEF LightSwapInsert, StoreCounter
  <2>2. counters' \in [Counter -> 0 .. LightMax]
    BY <1>1, <1>3, <2>1 DEF TypeOK
  <2>3. miceDist' \in [0 .. LightMax -> Int]
    <3> DEFINE less == [miceDist EXCEPT ![counters[p]] = @ - 1]
    <3>1. less \in [0 .. LightMax -> Int]
      BY <1>2 DEF TypeOK
    <3>2. miceDist' = [less EXCEPT ![new] = less[new] + 1]
      BY <2>1
    <3> HIDE DEF less, new
    <3> QED
      BY <3>1, <3>2, <1>3
  <2>4. counters'[p] = new /\ \A q \in Counter \ {p} : counters'[q] = counters[q]
    BY <1>1, <2>1 DEF TypeOK
  <2>5. \A q \in Counter : counters'[q] >= counters[q]
    <3> HIDE DEF new, p
    <3>1. \A q \in Counter : counters[q] \in Int
      BY SizeAssumption DEF TypeOK
    <3>2. new \in Int /\ counters[p] < new
      BY <1>3, <1>4, SizeAssumption
    <3> QED
      BY <2>4, <3>1, <3>2, <1>1
  <2> QED
    BY <1>3, <2>2, <2>3, <2>4, <2>5
<1>5. CASE ~(counters[p] < new)
  <2>1. UNCHANGED light
    BY <1>5 DEF LightSwapInsert
  <2>2. counters' = counters /\ miceDist' = miceDist
    BY <2>1 DEF light
  <2>3. \A q \in Counter : counters[q] >= counters[q]
    BY SizeAssumption DEF TypeOK
  <2>4. counters[p] >= f \/ counters[p] = LightMax
    BY <1>2, <1>3, <1>5, SizeAssumption
  <2> QED
    BY <2>2, <2>3, <2>4 DEF TypeOK
<1> QED
  BY <1>4, <1>5

\* Whatever is evicted can be found in the light part afterwards.
LEMMA DemoteEffect ==
  ASSUME TypeOK, NEW k \in Key, NEW v \in 0 .. (Word - 1), Demote(k, v)
  PROVE  /\ counters' \in [Counter -> 0 .. LightMax]
         /\ miceDist' \in [0 .. LightMax -> Int]
         /\ \A p \in Counter : counters'[p] >= counters[p]
         /\ \/ counters'[LightHash[k]] = LightMax
            \/ /\ HighestBitIs1(v)
               /\ counters'[LightHash[k]] = counters[LightHash[k]] + GetCounterVal(v)
            \/ /\ ~HighestBitIs1(v)
               /\ counters'[LightHash[k]] >= v
<1>1. CASE HighestBitIs1(v)
  <2>1. LightInsert(k, GetCounterVal(v))
    BY <1>1 DEF Demote
  <2>2. GetCounterVal(v) \in Nat
    BY SizeAssumption DEF GetCounterVal, Word
  <2> QED
    BY <1>1, <2>1, <2>2, LightInsertEffect
<1>2. CASE ~HighestBitIs1(v)
  <2>1. LightSwapInsert(k, v)
    BY <1>2 DEF Demote
  <2>2. v \in Nat
    BY SizeAssumption DEF Word
  <2> QED
    BY <1>2, <2>1, <2>2, LightSwapInsertEffect
<1> QED
  BY <1>1, <1>2

-----------------------------------------------------------------------------
(* The four ways through insert, slot by slot. *)

\* A bucket table with one slot overwritten.
LEMMA SlotUpdate ==
  ASSUME NEW T, NEW f \in [Bucket -> [Slot -> T]], NEW b \in Bucket,
         NEW s \in Slot, NEW x \in T, NEW g, g = [f EXCEPT ![b][s] = x]
  PROVE  /\ g \in [Bucket -> [Slot -> T]]
         /\ g[b][s] = x
         /\ \A c \in Bucket : \A t \in Slot :
              (c # b \/ t # s) => g[c][t] = f[c][t]
  OBVIOUS

\* A key that matches gains one packet in the slot it owns.
LEMMA MatchedEffect ==
  ASSUME TypeOK, NEW k \in Flow, InsertMatched(k, PacketLen)
  PROVE  \E s \in Slot :
           /\ key[HeavyHash[k]][s] = Cut[k]
           /\ val' \in [Bucket -> [Slot -> 0 .. (Word - 1)]]
           /\ val'[HeavyHash[k]][s] = Add32(val[HeavyHash[k]][s], 1)
           /\ \A c \in Bucket : \A t \in Slot :
                (c # HeavyHash[k] \/ t # s) => val'[c][t] = val[c][t]
           /\ key' = key /\ guard' = guard
           /\ counters' = counters /\ miceDist' = miceDist
<1> DEFINE b == HeavyHash[k]
           s == First(Matching(b, k))
<1>1. b \in Bucket
  BY KeyAssumption, HashAssumption
<1>2. Matching(b, k) # {} /\ Matching(b, k) \subseteq Slot
  BY DEF InsertMatched, Matching
<1>3. s \in Matching(b, k) /\ s \in Slot
  BY <1>2, FirstIsMember
<1>4. val[b][s] \in 0 .. (Word - 1)
  BY <1>1, <1>3 DEF TypeOK
<1>5. Add32(val[b][s], 1) \in 0 .. (Word - 1)
  BY <1>4, SizeAssumption DEF Add32, Word
<1>6. val' = [val EXCEPT ![b][s] = Add32(val[b][s], 1)]
  BY DEF InsertMatched, PacketLen
<1>7. key' = key /\ guard' = guard /\ counters' = counters /\ miceDist' = miceDist
  BY DEF InsertMatched, light
<1>8. key[b][s] = Cut[k]
  BY <1>3 DEF Matching
<1>9. val \in [Bucket -> [Slot -> 0 .. (Word - 1)]]
  BY DEF TypeOK
<1> HIDE DEF b, s
<1>10. /\ val' \in [Bucket -> [Slot -> 0 .. (Word - 1)]]
       /\ val'[b][s] = Add32(val[b][s], 1)
       /\ \A c \in Bucket : \A t \in Slot : (c # b \/ t # s) => val'[c][t] = val[c][t]
  BY <1>1, <1>3, <1>5, <1>6, <1>9, SlotUpdate
<1> QED
  BY <1>3, <1>7, <1>8, <1>10 DEF b

\* A new key takes a free slot with count 1.
LEMMA EmptyEffect ==
  ASSUME TypeOK, NEW k \in Flow, InsertEmpty(k, PacketLen)
  PROVE  \E s \in Slot :
           /\ key[HeavyHash[k]][s] = NoKey
           /\ \A t \in Slot : key[HeavyHash[k]][t] # Cut[k]
           /\ key' \in [Bucket -> [Slot -> Key]]
           /\ key'[HeavyHash[k]][s] = Cut[k]
           /\ \A c \in Bucket : \A t \in Slot :
                (c # HeavyHash[k] \/ t # s) => key'[c][t] = key[c][t]
           /\ val' \in [Bucket -> [Slot -> 0 .. (Word - 1)]]
           /\ val'[HeavyHash[k]][s] = 1
           /\ \A c \in Bucket : \A t \in Slot :
                (c # HeavyHash[k] \/ t # s) => val'[c][t] = val[c][t]
           /\ guard' = guard /\ counters' = counters /\ miceDist' = miceDist
<1> DEFINE b == HeavyHash[k]
           s == First(Unused(b))
<1>1. b \in Bucket /\ Cut[k] \in Key
  BY KeyAssumption, HashAssumption
<1>2. Unused(b) # {} /\ Unused(b) \subseteq Slot /\ Matching(b, k) = {}
  BY DEF InsertEmpty, Unused
<1>3. s \in Unused(b) /\ s \in Slot
  BY <1>2, FirstIsMember
<1>4. key' = [key EXCEPT ![b][s] = Cut[k]] /\ val' = [val EXCEPT ![b][s] = 1]
  BY DEF InsertEmpty, PacketLen
<1>5. guard' = guard /\ counters' = counters /\ miceDist' = miceDist
  BY DEF InsertEmpty, light
<1>6. key[b][s] = NoKey /\ \A t \in Slot : key[b][t] # Cut[k]
  BY <1>2, <1>3 DEF Matching, Unused
<1>7. /\ val \in [Bucket -> [Slot -> 0 .. (Word - 1)]]
      /\ key \in [Bucket -> [Slot -> Key]]
      /\ 1 \in 0 .. (Word - 1)
  BY SizeAssumption DEF TypeOK, Word
<1> HIDE DEF b, s
<1>8. /\ key' \in [Bucket -> [Slot -> Key]]
      /\ key'[b][s] = Cut[k]
      /\ \A c \in Bucket : \A t \in Slot : (c # b \/ t # s) => key'[c][t] = key[c][t]
  BY <1>1, <1>3, <1>4, <1>7, SlotUpdate
<1>9. /\ val' \in [Bucket -> [Slot -> 0 .. (Word - 1)]]
      /\ val'[b][s] = 1
      /\ \A c \in Bucket : \A t \in Slot : (c # b \/ t # s) => val'[c][t] = val[c][t]
  BY <1>1, <1>3, <1>4, <1>7, SlotUpdate
<1> QED
  BY <1>3, <1>5, <1>6, <1>8, <1>9 DEF b

\* A packet that loses the vote is counted in the light part.
LEMMA VoteEffect ==
  ASSUME TypeOK, NEW k \in Flow, InsertVote(k, PacketLen)
  PROVE  /\ \A t \in Slot : /\ key[HeavyHash[k]][t] # Cut[k]
                            /\ key[HeavyHash[k]][t] # NoKey
         /\ key' = key /\ val' = val
         /\ guard' = [guard EXCEPT ![HeavyHash[k]] = Add32(guard[HeavyHash[k]], 1)]
         /\ guard' \in [Bucket -> 0 .. (Word - 1)]
         /\ ~JudgeIfSwap(MinCount(HeavyHash[k]), Add32(guard[HeavyHash[k]], 1))
         /\ counters' \in [Counter -> 0 .. LightMax]
         /\ miceDist' \in [0 .. LightMax -> Int]
         /\ \A p \in Counter : counters'[p] >= counters[p]
         /\ \/ counters'[LightHash[k]] = counters[LightHash[k]] + 1
            \/ counters'[LightHash[k]] = LightMax
<1> DEFINE b == HeavyHash[k]
<1>1. b \in Bucket /\ k \in Key
  BY KeyAssumption, HashAssumption
<1>2. \A t \in Slot : key[b][t] # Cut[k] /\ key[b][t] # NoKey
  BY DEF InsertVote, Contested, Matching, Unused
<1>3. key' = key /\ val' = val /\ guard' = [guard EXCEPT ![b] = Add32(guard[b], 1)]
  BY DEF InsertVote
<1>4. Add32(guard[b], 1) \in 0 .. (Word - 1)
  BY <1>1, SizeAssumption DEF TypeOK, Add32, Word
<1>5. guard' \in [Bucket -> 0 .. (Word - 1)]
  BY <1>1, <1>3, <1>4 DEF TypeOK
<1>6. LightInsert(k, 1) /\ ~JudgeIfSwap(MinCount(b), Add32(guard[b], 1))
  BY DEF InsertVote
<1> QED
  BY <1>1, <1>2, <1>3, <1>5, <1>6, LightInsertEffect

\* A packet that wins the vote takes the smallest slot; what the slot held
\* moves to the light part.
LEMMA SwapEffect ==
  ASSUME TypeOK, NEW k \in Flow, InsertSwap(k, PacketLen)
  PROVE  \E s \in Slot :
           /\ \A t \in Slot : /\ key[HeavyHash[k]][t] # Cut[k]
                              /\ key[HeavyHash[k]][t] # NoKey
           /\ key' \in [Bucket -> [Slot -> Key]]
           /\ key'[HeavyHash[k]][s] = Cut[k]
           /\ \A c \in Bucket : \A t \in Slot :
                (c # HeavyHash[k] \/ t # s) => key'[c][t] = key[c][t]
           /\ val' \in [Bucket -> [Slot -> 0 .. (Word - 1)]]
           /\ val'[HeavyHash[k]][s] = HighBit + 1
           /\ \A c \in Bucket : \A t \in Slot :
                (c # HeavyHash[k] \/ t # s) => val'[c][t] = val[c][t]
           /\ guard' = [guard EXCEPT ![HeavyHash[k]] = 0]
           /\ guard' \in [Bucket -> 0 .. (Word - 1)]
           /\ Demote(key[HeavyHash[k]][s], val[HeavyHash[k]][s])
<1> DEFINE b == HeavyHash[k]
           s == MinCounter(b)
<1>1. b \in Bucket /\ Cut[k] \in Key
  BY KeyAssumption, HashAssumption
<1>2. \A t \in Slot : key[b][t] # Cut[k] /\ key[b][t] # NoKey
  BY DEF InsertSwap, Contested, Matching, Unused
<1>3. s \in Slot
  BY <1>1, MinCounterIsSmallest
<1>4. /\ guard' = [guard EXCEPT ![b] = 0]
      /\ key' = [key EXCEPT ![b][s] = Cut[k]]
      /\ val' = [val EXCEPT ![b][s] = HighBit + 1]
      /\ Demote(key[b][s], val[b][s])
  BY DEF InsertSwap
<1>5. /\ val \in [Bucket -> [Slot -> 0 .. (Word - 1)]]
      /\ key \in [Bucket -> [Slot -> Key]]
      /\ HighBit + 1 \in 0 .. (Word - 1)
  BY SizeAssumption DEF TypeOK, Word
<1>6. guard' \in [Bucket -> 0 .. (Word - 1)]
  BY <1>1, <1>4, SizeAssumption DEF TypeOK, Word
<1> HIDE DEF b, s
<1>7. /\ key' \in [Bucket -> [Slot -> Key]]
      /\ key'[b][s] = Cut[k]
      /\ \A c \in Bucket : \A t \in Slot : (c # b \/ t # s) => key'[c][t] = key[c][t]
  BY <1>1, <1>3, <1>4, <1>5, SlotUpdate
<1>8. /\ val' \in [Bucket -> [Slot -> 0 .. (Word - 1)]]
      /\ val'[b][s] = HighBit + 1
      /\ \A c \in Bucket : \A t \in Slot : (c # b \/ t # s) => val'[c][t] = val[c][t]
  BY <1>1, <1>3, <1>4, <1>5, SlotUpdate
<1> QED
  BY <1>2, <1>3, <1>4, <1>6, <1>7, <1>8 DEF b

-----------------------------------------------------------------------------
(* Types. *)

\* An insert keeps every counter within its C type.
LEMMA InsertKeepsType ==
  ASSUME TypeOK, NEW k \in Flow, Insert(k)
  PROVE  TypeOK'
<1>1. /\ truth' = [truth EXCEPT ![k] = @ + 1]
      /\ pnum' = pnum + 1
  BY DEF Insert
<1>2. truth' \in [Flow -> Nat] /\ pnum' \in Nat
  BY <1>1 DEF TypeOK
<1>3. CASE InsertMatched(k, PacketLen)
  BY <1>2, <1>3, MatchedEffect DEF TypeOK
<1>4. CASE InsertEmpty(k, PacketLen)
  BY <1>2, <1>4, EmptyEffect DEF TypeOK
<1>5. CASE InsertVote(k, PacketLen)
  BY <1>2, <1>5, VoteEffect DEF TypeOK
<1>6. CASE InsertSwap(k, PacketLen)
  <2>1. PICK s \in Slot :
           /\ key' \in [Bucket -> [Slot -> Key]]
           /\ val' \in [Bucket -> [Slot -> 0 .. (Word - 1)]]
           /\ guard' \in [Bucket -> 0 .. (Word - 1)]
           /\ Demote(key[HeavyHash[k]][s], val[HeavyHash[k]][s])
    BY <1>6, SwapEffect
  <2>2. key[HeavyHash[k]][s] \in Key /\ val[HeavyHash[k]][s] \in 0 .. (Word - 1)
    BY KeyAssumption, HashAssumption DEF TypeOK
  <2>3. counters' \in [Counter -> 0 .. LightMax] /\ miceDist' \in [0 .. LightMax -> Int]
    BY <2>1, <2>2, DemoteEffect
  <2> QED
    BY <1>2, <2>1, <2>3 DEF TypeOK
<1> QED
  BY <1>3, <1>4, <1>5, <1>6 DEF Insert

\* The empty sketch is well typed.
LEMMA InitType == Init => TypeOK
  BY SizeAssumption, KeyAssumption DEF Init, TypeOK, Word, Slot, Counter

\* TypeOK holds in every reachable state: no insert takes a heavy counter, a
\* guard or a light counter out of its C type.
THEOREM TypeCorrect == Spec => []TypeOK
<1>1. Init => TypeOK
  BY InitType
<1>2. TypeOK /\ [Next]_vars => TypeOK'
  <2> SUFFICES ASSUME TypeOK, [Next]_vars PROVE TypeOK'
    OBVIOUS
  <2>1. CASE Next
    BY <2>1, InsertKeepsType DEF Next
  <2>2. CASE UNCHANGED vars
    BY <2>2 DEF vars, TypeOK
  <2> QED
    BY <2>1, <2>2
<1> QED
  BY <1>1, <1>2, PTL DEF Spec

-----------------------------------------------------------------------------
(* The inductive invariant, part by part. *)

\* Every stored key stays one that strncpy wrote.
LEMMA StoredKeysCutStep ==
  ASSUME TypeOK, StoredKeysCut, NEW k \in Flow, Insert(k)
  PROVE  StoredKeysCut'
<1>1. k \in Key /\ Cut[Cut[k]] = Cut[k] /\ HeavyHash[k] \in Bucket
  BY KeyAssumption, HashAssumption
<1>2. CASE InsertMatched(k, PacketLen)
  BY <1>2, MatchedEffect DEF StoredKeysCut
<1>3. CASE InsertEmpty(k, PacketLen)
  BY <1>1, <1>3, EmptyEffect DEF StoredKeysCut
<1>4. CASE InsertVote(k, PacketLen)
  BY <1>4, VoteEffect DEF StoredKeysCut
<1>5. CASE InsertSwap(k, PacketLen)
  BY <1>1, <1>5, SwapEffect DEF StoredKeysCut
<1> QED
  BY <1>2, <1>3, <1>4, <1>5 DEF Insert

\* A key is stored in a bucket only when the bucket does not hold it yet.
LEMMA SlotsDistinctStep ==
  ASSUME TypeOK, SlotsDistinct, NEW k \in Flow, Insert(k)
  PROVE  SlotsDistinct'
<1>1. HeavyHash[k] \in Bucket
  BY KeyAssumption, HashAssumption
<1>2. CASE InsertMatched(k, PacketLen)
  BY <1>2, MatchedEffect DEF SlotsDistinct
<1>3. CASE InsertEmpty(k, PacketLen)
  BY <1>1, <1>3, EmptyEffect DEF SlotsDistinct
<1>4. CASE InsertVote(k, PacketLen)
  BY <1>4, VoteEffect DEF SlotsDistinct
<1>5. CASE InsertSwap(k, PacketLen)
  <2>1. PICK s \in Slot :
           /\ \A t \in Slot : key[HeavyHash[k]][t] # Cut[k]
           /\ key'[HeavyHash[k]][s] = Cut[k]
           /\ \A c \in Bucket : \A t \in Slot :
                (c # HeavyHash[k] \/ t # s) => key'[c][t] = key[c][t]
    BY <1>5, SwapEffect
  <2> QED
    BY <1>1, <2>1 DEF SlotsDistinct
<1> QED
  BY <1>2, <1>3, <1>4, <1>5 DEF Insert

\* While a bucket has room, all its flows own a slot.
LEMMA FreshWhileRoomStep ==
  ASSUME TypeOK, FreshWhileRoom, NEW k \in Flow, Insert(k)
  PROVE  FreshWhileRoom'
<1> SUFFICES ASSUME NEW j \in Flow,
                    NEW u \in Slot, key'[HeavyHash[j]][u] = NoKey,
                    \A t \in Slot : key'[HeavyHash[j]][t] # Cut[j]
             PROVE  truth'[j] = 0
  BY DEF FreshWhileRoom, Unused, Matching
<1>1. HeavyHash[k] \in Bucket /\ HeavyHash[j] \in Bucket
  BY KeyAssumption, HashAssumption
<1>2. Cut[k] # NoKey
  BY FlowAssumption
<1>3. /\ j # k => truth'[j] = truth[j]
      /\ (\A t \in Slot : key[HeavyHash[j]][t] # Cut[j])
           /\ (\E t \in Slot : key[HeavyHash[j]][t] = NoKey) => truth[j] = 0
  BY DEF Insert, TypeOK, FreshWhileRoom, Unused, Matching
<1>4. CASE InsertMatched(k, PacketLen)
  BY <1>3, <1>4, MatchedEffect
<1>5. CASE InsertEmpty(k, PacketLen)
  <2>1. PICK s \in Slot :
           /\ key[HeavyHash[k]][s] = NoKey
           /\ key'[HeavyHash[k]][s] = Cut[k]
           /\ \A c \in Bucket : \A t \in Slot :
                (c # HeavyHash[k] \/ t # s) => key'[c][t] = key[c][t]
    BY <1>5, EmptyEffect
  <2>2. j # k
    BY <2>1
  <2>3. \E t \in Slot : key[HeavyHash[j]][t] = NoKey
    BY <1>1, <1>2, <2>1
  <2>4. \A t \in Slot : key[HeavyHash[j]][t] # Cut[j]
    BY <1>1, <2>1, FlowAssumption
  <2> QED
    BY <1>3, <2>2, <2>3, <2>4
<1>6. CASE InsertVote(k, PacketLen)
  BY <1>3, <1>6, VoteEffect
<1>7. CASE InsertSwap(k, PacketLen)
  <2>1. PICK s \in Slot :
           /\ \A t \in Slot : key[HeavyHash[k]][t] # NoKey
           /\ key'[HeavyHash[k]][s] = Cut[k]
           /\ \A c \in Bucket : \A t \in Slot :
                (c # HeavyHash[k] \/ t # s) => key'[c][t] = key[c][t]
    BY <1>7, SwapEffect
  <2>2. HeavyHash[j] # HeavyHash[k]
    BY <1>1, <1>2, <2>1
  <2> QED
    BY <1>1, <1>3, <2>1, <2>2
<1> QED
  BY <1>4, <1>5, <1>6, <1>7 DEF Insert

\* Away from the overflow, adding a packet adds one to the count and leaves
\* the flag bit alone.
LEMMA CountGrows ==
  ASSUME NEW v \in 0 .. (Word - 1), NEW n \in Nat,
         GetCounterVal(v) <= n, n + 1 < HighBit
  PROVE  /\ GetCounterVal(Add32(v, 1)) = GetCounterVal(v) + 1
         /\ HighestBitIs1(Add32(v, 1)) <=> HighestBitIs1(v)
         /\ ~HighestBitIs1(v) => Add32(v, 1) = v + 1
  BY SizeAssumption DEF GetCounterVal, Add32, HighestBitIs1, Word

\* The count of a slot is a natural number.
LEMMA CountIsNat ==
  ASSUME TypeOK, NEW b \in Bucket, NEW s \in Slot
  PROVE  GetCounterVal(val[b][s]) \in Nat /\ val[b][s] \in 0 .. (Word - 1)
  BY SizeAssumption DEF TypeOK, GetCounterVal, Word

\* Before the overflow, no slot counts more packets than were inserted.
LEMMA CountsInRangeStep ==
  ASSUME TypeOK, CountsInRange, pnum + 1 < HighBit, NEW k \in Flow, Insert(k)
  PROVE  CountsInRange'
<1>1. HeavyHash[k] \in Bucket /\ Cut[k] # NoKey
  BY KeyAssumption, HashAssumption, FlowAssumption
<1>2. pnum' = pnum + 1 /\ pnum \in Nat
  BY DEF Insert, TypeOK
<1> SUFFICES ASSUME NEW c \in Bucket, NEW t \in Slot
             PROVE  IF key'[c][t] = NoKey
                      THEN val'[c][t] = 0
                      ELSE GetCounterVal(val'[c][t]) \in 1 .. pnum'
  BY DEF CountsInRange, GetCounterVal
<1>3. IF key[c][t] = NoKey
        THEN val[c][t] = 0
        ELSE GetCounterVal(val[c][t]) \in 1 .. pnum
  BY DEF CountsInRange
<1>4. ASSUME key'[c][t] = key[c][t], val'[c][t] = val[c][t]
      PROVE  IF key'[c][t] = NoKey
               THEN val'[c][t] = 0
               ELSE GetCounterVal(val'[c][t]) \in 1 .. pnum'
  BY <1>2, <1>3, <1>4
<1>5. GetCounterVal(1) = 1 /\ GetCounterVal(HighBit + 1) = 1
  BY SizeAssumption DEF GetCounterVal
<1>6. CASE InsertMatched(k, PacketLen)
  <2>1. PICK s \in Slot :
           /\ key[HeavyHash[k]][s] = Cut[k]
           /\ val'[HeavyHash[k]][s] = Add32(val[HeavyHash[k]][s], 1)
           /\ \A d \in Bucket : \A u \in Slot :
                (d # HeavyHash[k] \/ u # s) => val'[d][u] = val[d][u]
           /\ key' = key
    BY <1>6, MatchedEffect
  <2>2. CASE c = HeavyHash[k] /\ t = s
    <3>1. GetCounterVal(val[c][t]) \in 1 .. pnum
      BY <1>1, <1>3, <2>1, <2>2
    <3>2. GetCounterVal(val'[c][t]) = GetCounterVal(val[c][t]) + 1
      BY <1>2, <2>1, <2>2, <3>1, CountIsNat, CountGrows
    <3> QED
      BY <1>1, <1>2, <2>1, <2>2, <3>1, <3>2
  <2>3. CASE ~(c = HeavyHash[k] /\ t = s)
    BY <1>4, <2>1, <2>3
  <2> QED
    BY <2>2, <2>3
<1>7. CASE InsertEmpty(k, PacketLen)
  BY <1>1, <1>2, <1>4, <1>5, <1>7, EmptyEffect
<1>8. CASE InsertVote(k, PacketLen)
  BY <1>4, <1>8, VoteEffect
<1>9. CASE InsertSwap(k, PacketLen)
  BY <1>1, <1>2, <1>4, <1>5, <1>9, SwapEffect
<1> QED
  BY <1>6, <1>7, <1>8, <1>9 DEF Insert

\* Multiplication by a natural number is monotonic.
LEMMA ProductMonotonic ==
  ASSUME NEW a \in Nat, NEW b \in Nat, NEW f \in Nat, a <= b
  PROVE  f * a <= f * b /\ a * f = f * a /\ f * a \in Nat
<1>1. PICK d \in Nat : b = a + d
  <2> WITNESS b - a \in Nat
  <2> QED
    OBVIOUS
<1>2. f * b = f * a + f * d
  BY <1>1
<1>3. f * d \in Nat /\ f * a \in Nat /\ a * f = f * a
  OBVIOUS
<1> QED
  BY <1>2, <1>3

\* A value below the word size survives the shift.
LEMMA ModSmall ==
  ASSUME NEW x \in Nat, NEW w \in Nat, x < w
  PROVE  x % w = x
  OBVIOUS

\* The guard never passes SwapFactor times a count of its bucket.
LEMMA GuardStep ==
  ASSUME TypeOK, GuardBelowThreshold, pnum < HighBit => CountsInRange,
         NEW k \in Flow, Insert(k)
  PROVE  GuardBelowThreshold'
<1>1. HeavyHash[k] \in Bucket
  BY KeyAssumption, HashAssumption
<1>2. pnum' = pnum + 1 /\ pnum \in Nat /\ SwapFactor \in Nat
  BY SizeAssumption DEF Insert, TypeOK
<1> SUFFICES ASSUME pnum' * SwapFactor < Word, pnum' < HighBit,
                    NEW c \in Bucket, NEW t \in Slot
             PROVE  guard'[c] <= SwapFactor * GetCounterVal(val'[c][t])
  BY DEF GuardBelowThreshold, GetCounterVal
<1>3. pnum < HighBit /\ pnum * SwapFactor < Word
  BY <1>2, SizeAssumption, ProductMonotonic DEF Word
<1>4. CountsInRange
  BY <1>3
<1>5. \A d \in Bucket : \A u \in Slot :
         guard[d] <= SwapFactor * GetCounterVal(val[d][u])
  BY <1>3 DEF GuardBelowThreshold
<1>6. CASE InsertMatched(k, PacketLen)
  <2>1. PICK s \in Slot :
           /\ key[HeavyHash[k]][s] = Cut[k]
           /\ val'[HeavyHash[k]][s] = Add32(val[HeavyHash[k]][s], 1)
           /\ \A d \in Bucket : \A u \in Slot :
                (d # HeavyHash[k] \/ u # s) => val'[d][u] = val[d][u]
           /\ guard' = guard
    BY <1>6, MatchedEffect
  <2>2. CASE c = HeavyHash[k] /\ t = s
    <3>1. GetCounterVal(val[c][t]) <= pnum /\ GetCounterVal(val[c][t]) \in Nat
      BY <1>2, <1>4, CountIsNat, FlowAssumption, <2>1, <2>2 DEF CountsInRange
    <3>2. GetCounterVal(val'[c][t]) = GetCounterVal(val[c][t]) + 1
      BY <1>2, <2>1, <2>2, <3>1, CountIsNat, CountGrows
    <3>3. SwapFactor * GetCounterVal(val[c][t]) <= SwapFactor * (GetCounterVal(val[c][t]) + 1)
      BY <1>2, <3>1, ProductMonotonic
    <3>4. /\ guard[c] \in Int
          /\ SwapFactor * GetCounterVal(val[c][t]) \in Int
          /\ SwapFactor * (GetCounterVal(val[c][t]) + 1) \in Int
      BY <1>2, <3>1, SizeAssumption DEF TypeOK, Word
    <3> QED
      BY <1>5, <2>1, <3>2, <3>3, <3>4
  <2>3. CASE ~(c = HeavyHash[k] /\ t = s)
    BY <1>5, <2>1, <2>3
  <2> QED
    BY <2>2, <2>3
<1>7. CASE InsertEmpty(k, PacketLen)
  <2>1. PICK s \in Slot :
           /\ key[HeavyHash[k]][s] = NoKey
           /\ \A d \in Bucket : \A u \in Slot :
                (d # HeavyHash[k] \/ u # s) => val'[d][u] = val[d][u]
           /\ val' \in [Bucket -> [Slot -> 0 .. (Word - 1)]]
           /\ guard' = guard
    BY <1>7, EmptyEffect
  <2>2. CASE c = HeavyHash[k]
    <3>1. val[c][s] = 0
      BY <1>4, <2>1, <2>2 DEF CountsInRange
    <3>2. GetCounterVal(val[c][s]) = 0
      BY <3>1, SizeAssumption DEF GetCounterVal
    <3>3. guard[c] <= 0
      BY <1>2, <1>5, <3>2
    <3>4. GetCounterVal(val'[c][t]) \in Nat
      BY <2>1, SizeAssumption DEF GetCounterVal, Word
    <3>5. SwapFactor * GetCounterVal(val'[c][t]) >= 0
      BY <1>2, <3>4, ProductMonotonic
    <3>6. guard[c] \in Int /\ SwapFactor * GetCounterVal(val'[c][t]) \in Int
      BY <1>2, <3>4, SizeAssumption DEF TypeOK, Word
    <3> QED
      BY <2>1, <3>3, <3>5, <3>6
  <2>3. CASE c # HeavyHash[k]
    BY <1>5, <2>1, <2>3
  <2> QED
    BY <2>2, <2>3
<1>8. CASE InsertVote(k, PacketLen)
  <2> DEFINE g == Add32(guard[HeavyHash[k]], 1)
  <2>1. /\ val' = val
        /\ guard' = [guard EXCEPT ![HeavyHash[k]] = g]
        /\ ~JudgeIfSwap(MinCount(HeavyHash[k]), g)
        /\ guard' \in [Bucket -> 0 .. (Word - 1)]
    BY <1>8, VoteEffect
  <2>2. CASE c = HeavyHash[k]
    <3> DEFINE m == MinCount(c)
    <3>1. MinCounter(c) \in Slot /\ m <= GetCounterVal(val[c][t])
      BY MinCounterIsSmallest
    <3>2. m \in Nat /\ GetCounterVal(val[c][t]) \in Nat
      BY <3>1, CountIsNat DEF MinCount
    <3>3. m <= pnum
      <4>1. val[c][MinCounter(c)] = 0 \/ GetCounterVal(val[c][MinCounter(c)]) <= pnum
        BY <1>2, <1>4, <3>1 DEF CountsInRange
      <4> QED
        BY <1>2, <4>1, SizeAssumption DEF MinCount, GetCounterVal
    <3>4. m * SwapFactor < Word /\ m * SwapFactor \in Nat
      BY <1>2, <1>3, <3>2, <3>3, ProductMonotonic, SizeAssumption DEF Word
    <3>5. (m * SwapFactor) % Word = m * SwapFactor
      BY <3>4, ModSmall, SizeAssumption DEF Word
    <3>6. guard'[c] = g /\ g \in 0 .. (Word - 1)
      BY <2>1, <2>2 DEF TypeOK
    <3>7. g <= m * SwapFactor
      BY <2>1, <2>2, <3>4, <3>5, <3>6, SizeAssumption DEF JudgeIfSwap, Word
    <3>8. m * SwapFactor <= SwapFactor * GetCounterVal(val[c][t])
      BY <1>2, <3>1, <3>2, ProductMonotonic
    <3>9. SwapFactor * GetCounterVal(val[c][t]) \in Int
      BY <1>2, <3>2
    <3> HIDE DEF g, m
    <3> QED
      BY <2>1, <3>4, <3>6, <3>7, <3>8, <3>9, SizeAssumption DEF Word
  <2>3. CASE c # HeavyHash[k]
    BY <1>5, <2>1, <2>3 DEF TypeOK
  <2> QED
    BY <2>2, <2>3
<1>9. CASE InsertSwap(k, PacketLen)
  <2>1. PICK s \in Slot :
           /\ \A d \in Bucket : \A u \in Slot :
                (d # HeavyHash[k] \/ u # s) => val'[d][u] = val[d][u]
           /\ val' \in [Bucket -> [Slot -> 0 .. (Word - 1)]]
           /\ guard' = [guard EXCEPT ![HeavyHash[k]] = 0]
    BY <1>9, SwapEffect
  <2>2. CASE c = HeavyHash[k]
    <3>1. guard'[c] = 0
      BY <2>1, <2>2 DEF TypeOK
    <3>2. GetCounterVal(val'[c][t]) \in Nat
      BY <2>1, SizeAssumption DEF GetCounterVal, Word
    <3> QED
      BY <1>2, <3>1, <3>2, ProductMonotonic
  <2>3. CASE c # HeavyHash[k]
    BY <1>5, <2>1, <2>3 DEF TypeOK
  <2> QED
    BY <2>2, <2>3
<1> QED
  BY <1>6, <1>7, <1>8, <1>9 DEF Insert

-----------------------------------------------------------------------------
(* No packet of a NUL-free flow is lost. *)

\* The packets of flow j that the sketch accounts for, in terms of one slot.
SlotCovers(v, l, n) ==
    IF HighestBitIs1(v) THEN GetCounterVal(v) + l >= n \/ l = LightMax
                        ELSE v >= n

LightCovers(l, n) == l >= n \/ l = LightMax

\* Raising a light counter keeps what is covered covered.
LEMMA RaisedLightCovers ==
  ASSUME NEW v \in 0 .. (Word - 1), NEW l \in 0 .. LightMax,
         NEW m \in 0 .. LightMax, NEW n \in Nat, m >= l
  PROVE  /\ SlotCovers(v, l, n) => SlotCovers(v, m, n)
         /\ LightCovers(l, n) => LightCovers(m, n)
  BY SizeAssumption DEF SlotCovers, LightCovers, HighestBitIs1, GetCounterVal, Word

\* Both coverage conditions, in terms of SlotCovers and LightCovers.
LEMMA CoverageRestated ==
  /\ CoveredInHeavy <=>
       \A j \in Flow : \A s \in Slot :
         (Clean(j) /\ key[HeavyHash[j]][s] = j) =>
           SlotCovers(val[HeavyHash[j]][s], LightQuery(j), truth[j])
  /\ CoveredInLight <=>
       \A j \in Flow :
         (Clean(j) /\ \A s \in Slot : key[HeavyHash[j]][s] # j) =>
           LightCovers(LightQuery(j), truth[j])
  BY DEF CoveredInHeavy, CoveredInLight, SlotCovers, LightCovers, Saturated,
         Matching, Clean

\* One insert keeps every NUL-free flow covered, whichever way it goes.
LEMMA CoverageStep ==
  ASSUME IInv, pnum + 1 + LightMax < HighBit, NEW k \in Flow, Insert(k)
  PROVE  CoveredInHeavy' /\ CoveredInLight'
<1>1. /\ TypeOK /\ SlotsDistinct /\ FreshWhileRoom
      /\ pnum \in Nat /\ LightMax \in Nat /\ HighBit \in Nat
  BY SizeAssumption DEF IInv, TypeOK
<1>2. pnum + 1 < HighBit /\ pnum < HighBit /\ InRange
  BY <1>1 DEF InRange
<1>3. CountsInRange /\ CoveredInHeavy /\ CoveredInLight
  BY <1>2 DEF IInv
<1>4. TypeOK'
  BY <1>1, InsertKeepsType
<1> DEFINE L(j) == counters[LightHash[j]]
           M(j) == counters'[LightHash[j]]
<1> SUFFICES ASSUME NEW j \in Flow, Cut[j] = j
             PROVE  /\ \A t \in Slot : key'[HeavyHash[j]][t] = j =>
                         SlotCovers(val'[HeavyHash[j]][t], M(j), truth'[j])
                    /\ (\A t \in Slot : key'[HeavyHash[j]][t] # j) =>
                         LightCovers(M(j), truth'[j])
  BY DEF CoveredInHeavy, CoveredInLight, SlotCovers, LightCovers, Saturated,
         Matching, Clean, LightQuery, HighestBitIs1, GetCounterVal
<1> DEFINE b == HeavyHash[k]
           c == HeavyHash[j]
<1>5. b \in Bucket /\ c \in Bucket /\ LightHash[j] \in Counter /\ j \in Key
  BY KeyAssumption, HashAssumption
<1>6. L(j) \in 0 .. LightMax /\ M(j) \in 0 .. LightMax
  BY <1>1, <1>4, <1>5 DEF TypeOK
<1>7. j # NoKey /\ Cut[k] # NoKey
  BY FlowAssumption
<1>8. /\ truth[j] \in Nat /\ truth'[j] \in Nat
      /\ j = k => truth'[j] = truth[j] + 1
      /\ j # k => truth'[j] = truth[j]
  BY <1>1 DEF Insert, TypeOK
<1>9. /\ \A t \in Slot : key[c][t] = j => SlotCovers(val[c][t], L(j), truth[j])
      /\ (\A t \in Slot : key[c][t] # j) => LightCovers(L(j), truth[j])
  BY <1>3, CoverageRestated DEF Clean, LightQuery
<1>10. \A t \in Slot : val[c][t] \in 0 .. (Word - 1) /\ val'[c][t] \in 0 .. (Word - 1)
  <2>1. val \in [Bucket -> [Slot -> 0 .. (Word - 1)]]
    BY <1>1 DEF TypeOK
  <2>2. val' \in [Bucket -> [Slot -> 0 .. (Word - 1)]]
    BY <1>4 DEF TypeOK
  <2> HIDE DEF c
  <2> QED
    BY <1>5, <2>1, <2>2
<1> HIDE DEF L, M, b, c
<1>11. CASE InsertMatched(k, PacketLen)
  <2>1. PICK s \in Slot :
           /\ key[b][s] = Cut[k]
           /\ val'[b][s] = Add32(val[b][s], 1)
           /\ \A d \in Bucket : \A u \in Slot :
                (d # b \/ u # s) => val'[d][u] = val[d][u]
           /\ key' = key /\ counters' = counters
    BY <1>1, <1>11, MatchedEffect DEF b
  <2>2. M(j) = L(j)
    BY <2>1 DEF L, M
  <2>3. ASSUME NEW t \in Slot, key'[c][t] = j
        PROVE  SlotCovers(val'[c][t], M(j), truth'[j])
    <3>1. key[c][t] = j /\ SlotCovers(val[c][t], L(j), truth[j])
      BY <1>9, <2>1, <2>3
    <3>2. CASE c = b /\ t = s
      <4>1. GetCounterVal(val[c][t]) <= pnum
        BY <1>1, <1>3, <1>5, <1>7, <3>1 DEF CountsInRange
      <4>2. /\ GetCounterVal(val'[c][t]) = GetCounterVal(val[c][t]) + 1
            /\ HighestBitIs1(val'[c][t]) <=> HighestBitIs1(val[c][t])
            /\ ~HighestBitIs1(val[c][t]) => val'[c][t] = val[c][t] + 1
        BY <1>1, <1>2, <1>10, <2>1, <3>2, <4>1, CountGrows
      <4>3. truth'[j] <= truth[j] + 1
        BY <1>8
      <4>4. GetCounterVal(val[c][t]) \in Int
        BY <1>10, SizeAssumption DEF GetCounterVal, Word
      <4> QED
        BY <1>1, <1>6, <1>8, <1>10, <2>2, <3>1, <4>2, <4>3, <4>4, SizeAssumption
        DEF SlotCovers, Word
    <3>3. CASE ~(c = b /\ t = s)
      <4>1. val'[c][t] = val[c][t]
        BY <1>5, <2>1, <3>3
      <4>2. j # k
        BY <1>1, <1>5, <1>7, <2>1, <3>1, <3>3 DEF SlotsDistinct, b, c
      <4> QED
        BY <1>8, <2>2, <3>1, <4>1, <4>2
    <3> QED
      BY <3>2, <3>3
  <2>4. ASSUME \A t \in Slot : key'[c][t] # j
        PROVE  LightCovers(M(j), truth'[j])
    <3>1. j # k
      BY <2>1, <2>4 DEF b, c
    <3> QED
      BY <1>8, <1>9, <2>1, <2>2, <2>4, <3>1
  <2> QED
    BY <2>3, <2>4 DEF c
<1>12. CASE InsertEmpty(k, PacketLen)
  <2>1. PICK s \in Slot :
           /\ key[b][s] = NoKey
           /\ \A t \in Slot : key[b][t] # Cut[k]
           /\ key'[b][s] = Cut[k] /\ val'[b][s] = 1
           /\ \A d \in Bucket : \A u \in Slot :
                (d # b \/ u # s) => key'[d][u] = key[d][u] /\ val'[d][u] = val[d][u]
           /\ counters' = counters
    BY <1>1, <1>12, EmptyEffect DEF b
  <2>2. M(j) = L(j)
    BY <2>1 DEF L, M
  <2>3. ASSUME NEW t \in Slot, key'[c][t] = j
        PROVE  SlotCovers(val'[c][t], M(j), truth'[j])
    <3>1. CASE c = b /\ t = s
      <4>1. \A u \in Slot : key[c][u] # Cut[j]
        BY <2>1, <2>3, <3>1
      <4>2. truth[j] = 0
        BY <1>1, <2>1, <3>1, <4>1 DEF FreshWhileRoom, Unused, Matching, c
      <4>3. truth'[j] <= 1 /\ val'[c][t] = 1
        BY <1>8, <2>1, <3>1, <4>2
      <4> QED
        BY <1>8, <4>3, SizeAssumption DEF SlotCovers, HighestBitIs1
    <3>2. CASE ~(c = b /\ t = s)
      <4>1. key[c][t] = j /\ val'[c][t] = val[c][t]
        BY <1>5, <2>1, <2>3, <3>2
      <4>2. j # k
        BY <2>1, <4>1 DEF b, c
      <4> QED
        BY <1>8, <1>9, <2>2, <4>1, <4>2
    <3> QED
      BY <3>1, <3>2
  <2>4. ASSUME \A t \in Slot : key'[c][t] # j
        PROVE  LightCovers(M(j), truth'[j])
    <3>1. j # k
      BY <2>1, <2>4 DEF b, c
    <3>2. \A t \in Slot : key[c][t] # j
      BY <1>5, <1>7, <2>1, <2>4
    <3> QED
      BY <1>8, <1>9, <2>2, <3>1, <3>2
  <2> QED
    BY <2>3, <2>4 DEF c
<1>13. CASE InsertVote(k, PacketLen)
  <2>1. /\ \A t \in Slot : key[b][t] # Cut[k]
        /\ key' = key /\ val' = val
        /\ \A p \in Counter : counters'[p] >= counters[p]
        /\ \/ counters'[LightHash[k]] = counters[LightHash[k]] + 1
           \/ counters'[LightHash[k]] = LightMax
    BY <1>1, <1>13, VoteEffect DEF b
  <2>2. M(j) >= L(j)
    BY <1>5, <2>1 DEF L, M
  <2>3. ASSUME NEW t \in Slot, key'[c][t] = j
        PROVE  SlotCovers(val'[c][t], M(j), truth'[j])
    <3>1. j # k /\ key[c][t] = j /\ val'[c][t] = val[c][t]
      BY <2>1, <2>3 DEF b, c
    <3>2. SlotCovers(val[c][t], L(j), truth[j])
      BY <1>9, <3>1
    <3> QED
      BY <1>6, <1>8, <1>10, <2>2, <3>1, <3>2, RaisedLightCovers
  <2>4. ASSUME \A t \in Slot : key'[c][t] # j
        PROVE  LightCovers(M(j), truth'[j])
    <3>1. LightCovers(L(j), truth[j])
      BY <1>9, <2>1, <2>4
    <3>2. CASE j = k
      <4>1. M(j) = L(j) + 1 \/ M(j) = LightMax
        BY <2>1, <3>2 DEF L, M
      <4> QED
        BY <1>1, <1>6, <1>8, <3>1, <3>2, <4>1 DEF LightCovers
    <3>3. CASE j # k
      BY <1>1, <1>6, <1>8, <2>2, <3>1, <3>3 DEF LightCovers
    <3> QED
      BY <3>2, <3>3
  <2> QED
    BY <2>3, <2>4 DEF c
<1>14. CASE InsertSwap(k, PacketLen)
  <2>1. PICK s \in Slot :
           /\ \A t \in Slot : key[b][t] # Cut[k]
           /\ key'[b][s] = Cut[k] /\ val'[b][s] = HighBit + 1
           /\ \A d \in Bucket : \A u \in Slot :
                (d # b \/ u # s) => key'[d][u] = key[d][u] /\ val'[d][u] = val[d][u]
           /\ Demote(key[b][s], val[b][s])
    BY <1>1, <1>14, SwapEffect DEF b
  <2>2. key[b][s] \in Key /\ val[b][s] \in 0 .. (Word - 1)
    BY <1>1, <1>5 DEF TypeOK
  <2>3. /\ \A p \in Counter : counters'[p] >= counters[p]
        /\ \/ counters'[LightHash[key[b][s]]] = LightMax
           \/ /\ HighestBitIs1(val[b][s])
              /\ counters'[LightHash[key[b][s]]]
                   = counters[LightHash[key[b][s]]] + GetCounterVal(val[b][s])
           \/ /\ ~HighestBitIs1(val[b][s])
              /\ counters'[LightHash[key[b][s]]] >= val[b][s]
    BY <1>1, <2>1, <2>2, DemoteEffect
  <2>4. M(j) >= L(j)
    BY <1>5, <2>3 DEF L, M
  <2>5. ASSUME NEW t \in Slot, key'[c][t] = j
        PROVE  SlotCovers(val'[c][t], M(j), truth'[j])
    <3>1. CASE c = b /\ t = s
      <4>1. \A u \in Slot : key[c][u] # j
        BY <2>1, <2>5, <3>1
      <4>2. LightCovers(L(j), truth[j])
        BY <1>9, <4>1
      <4>3. /\ HighestBitIs1(val'[c][t]) /\ GetCounterVal(val'[c][t]) = 1
            /\ truth'[j] <= truth[j] + 1
        BY <1>8, <2>1, <3>1, SizeAssumption DEF HighestBitIs1, GetCounterVal
      <4> QED
        BY <1>1, <1>6, <1>8, <2>4, <4>2, <4>3 DEF SlotCovers, LightCovers
    <3>2. CASE ~(c = b /\ t = s)
      <4>1. key[c][t] = j /\ val'[c][t] = val[c][t]
        BY <1>5, <2>1, <2>5, <3>2
      <4>2. j # k
        BY <2>1, <4>1 DEF b, c
      <4>3. SlotCovers(val[c][t], L(j), truth[j])
        BY <1>9, <4>1
      <4> QED
        BY <1>6, <1>8, <1>10, <2>4, <4>1, <4>2, <4>3, RaisedLightCovers
    <3> QED
      BY <3>1, <3>2
  <2>6. ASSUME \A t \in Slot : key'[c][t] # j
        PROVE  LightCovers(M(j), truth'[j])
    <3>1. j # k
      BY <2>1, <2>6 DEF b, c
    <3>2. CASE \A t \in Slot : key[c][t] # j
      BY <1>6, <1>8, <1>9, <2>4, <3>1, <3>2, SizeAssumption DEF LightCovers
    <3>3. CASE \E t \in Slot : key[c][t] = j
      <4>1. c = b /\ key[b][s] = j
        BY <1>5, <2>1, <2>6, <3>3
      <4>2. SlotCovers(val[b][s], L(j), truth[j])
        BY <1>9, <4>1
      <4>3. \/ M(j) = LightMax
            \/ HighestBitIs1(val[b][s]) /\ M(j) = L(j) + GetCounterVal(val[b][s])
            \/ ~HighestBitIs1(val[b][s]) /\ M(j) >= val[b][s]
        BY <2>3, <4>1 DEF L, M
      <4>4. GetCounterVal(val[b][s]) \in Nat /\ val[b][s] \in Nat
        BY <2>2, SizeAssumption DEF GetCounterVal, Word
      <4>5. truth'[j] = truth[j]
        BY <1>8, <3>1
      <4> QED
        BY <1>1, <1>6, <1>8, <2>4, <4>2, <4>3, <4>4, <4>5 DEF SlotCovers, LightCovers
    <3> QED
      BY <3>2, <3>3
  <2> QED
    BY <2>5, <2>6 DEF c
<1> QED
  BY <1>11, <1>12, <1>13, <1>14 DEF Insert

-----------------------------------------------------------------------------
(* The theorems. *)

\* The empty sketch satisfies the inductive invariant.
LEMMA InitIInv == Init => IInv
<1> SUFFICES ASSUME Init PROVE IInv
  OBVIOUS
<1>1. TypeOK
  BY InitType
<1>2. StoredKeysCut /\ SlotsDistinct /\ FreshWhileRoom
  BY KeyAssumption, HashAssumption
  DEF Init, StoredKeysCut, SlotsDistinct, FreshWhileRoom
<1>3. CountsInRange
  BY DEF Init, CountsInRange
<1>4. GuardBelowThreshold
  BY SizeAssumption DEF Init, GuardBelowThreshold, GetCounterVal
<1>5. CoveredInHeavy /\ CoveredInLight
  <2>1. CoveredInHeavy
    BY FlowAssumption, KeyAssumption, HashAssumption DEF Init, CoveredInHeavy, Clean
  <2>2. CoveredInLight
    BY KeyAssumption, HashAssumption DEF Init, CoveredInLight, LightQuery
  <2> QED
    BY <2>1, <2>2
<1> QED
  BY <1>1, <1>2, <1>3, <1>4, <1>5 DEF IInv

\* Every insert preserves it.
LEMMA StepIInv == IInv /\ [Next]_vars => IInv'
<1> SUFFICES ASSUME IInv, [Next]_vars PROVE IInv'
  OBVIOUS
<1>1. CASE Next
  <2>1. PICK k \in Flow : Insert(k)
    BY <1>1 DEF Next
  <2>2. /\ TypeOK /\ StoredKeysCut /\ SlotsDistinct /\ FreshWhileRoom
        /\ GuardBelowThreshold
        /\ pnum < HighBit => CountsInRange
    BY DEF IInv
  <2>3. pnum' = pnum + 1 /\ pnum \in Nat /\ HighBit \in Nat /\ LightMax \in Nat
    BY <2>1, <2>2, SizeAssumption DEF Insert, TypeOK
  <2>4. TypeOK'
    BY <2>1, <2>2, InsertKeepsType
  <2>5. StoredKeysCut'
    BY <2>1, <2>2, StoredKeysCutStep
  <2>6. SlotsDistinct'
    BY <2>1, <2>2, SlotsDistinctStep
  <2>7. FreshWhileRoom'
    BY <2>1, <2>2, FreshWhileRoomStep
  <2>8. GuardBelowThreshold'
    BY <2>1, <2>2, GuardStep
  <2>9. (pnum < HighBit => CountsInRange)'
    <3> SUFFICES ASSUME pnum' < HighBit PROVE CountsInRange'
      OBVIOUS
    <3> QED
      BY <2>1, <2>2, <2>3, CountsInRangeStep
  <2>10. (InRange => (CoveredInHeavy /\ CoveredInLight))'
    <3> SUFFICES ASSUME InRange' PROVE CoveredInHeavy' /\ CoveredInLight'
      OBVIOUS
    <3>1. pnum + 1 + LightMax < HighBit
      BY <2>3 DEF InRange
    <3> QED
      BY <2>1, <3>1, CoverageStep
  <2> QED
    BY <2>4, <2>5, <2>6, <2>7, <2>8, <2>9, <2>10 DEF IInv
<1>2. CASE UNCHANGED vars
  <2> USE <1>2 DEF vars
  <2>1. (TypeOK <=> TypeOK') /\ (StoredKeysCut <=> StoredKeysCut')
    BY DEF TypeOK, StoredKeysCut
  <2>2. (SlotsDistinct <=> SlotsDistinct') /\ (FreshWhileRoom => FreshWhileRoom')
    <3>1. UNCHANGED <<key, truth>> /\ (SlotsDistinct <=> SlotsDistinct')
      BY DEF SlotsDistinct
    <3>2. \A b \in Bucket : Unused(b)' = Unused(b)
      BY <3>1 DEF Unused
    <3>3. \A k \in Flow : /\ HeavyHash[k] \in Bucket /\ truth'[k] = truth[k]
                          /\ Matching(HeavyHash[k], k)' = Matching(HeavyHash[k], k)
      BY <3>1, KeyAssumption, HashAssumption DEF Matching
    <3> HIDE <1>2 DEF vars
    <3> QED
      BY <3>1, <3>2, <3>3 DEF FreshWhileRoom
  <2>3. (CountsInRange <=> CountsInRange') /\ (GuardBelowThreshold <=> GuardBelowThreshold')
    BY DEF CountsInRange, GuardBelowThreshold
  <2>4. (CoveredInHeavy <=> CoveredInHeavy') /\ (CoveredInLight <=> CoveredInLight')
    BY DEF CoveredInHeavy, CoveredInLight, Matching, LightQuery, Saturated
  <2>5. UNCHANGED pnum /\ (InRange <=> InRange')
    BY DEF InRange
  <2> HIDE DEF vars
  <2> QED
    BY <2>1, <2>2, <2>3, <2>4, <2>5 DEF IInv
<1> QED
  BY <1>1, <1>2

\* Query reads the slot that owns the key, or only the light part.
LEMMA CoverageBoundsQuery == IInv => NeverUndercounts
<1> SUFFICES ASSUME IInv, InRange, NEW k \in Flow, Cut[k] = k,
                    ~(ReadsLight(k) /\ Saturated(k))
             PROVE  Query(k) >= truth[k]
  BY DEF NeverUndercounts, Clean
<1> DEFINE b == HeavyHash[k]
<1>1. TypeOK /\ CoveredInHeavy /\ CoveredInLight
  BY DEF IInv
<1>2. b \in Bucket /\ LightHash[k] \in Counter /\ k \in Key
  BY KeyAssumption, HashAssumption
<1>3. LightQuery(k) \in 0 .. LightMax /\ truth[k] \in Nat
  BY <1>1, <1>2 DEF LightQuery, TypeOK
<1>4. CASE Matching(b, k) = {}
  <2>1. HeavyQuery(k) = 0
    BY <1>4 DEF HeavyQuery
  <2>2. ReadsLight(k) /\ Query(k) = LightQuery(k)
    BY <1>3, <2>1, SizeAssumption DEF ReadsLight, Query, GetCounterVal
  <2>3. LightQuery(k) >= truth[k]
    BY <1>1, <1>4, <2>2 DEF CoveredInLight, Clean
  <2> QED
    BY <2>2, <2>3
<1>5. CASE Matching(b, k) # {}
  <2> DEFINE s == First(Matching(b, k))
  <2>1. s \in Matching(b, k) /\ s \in Slot
    BY <1>5, FirstIsMember DEF Matching
  <2>2. key[b][s] = k /\ HeavyQuery(k) = val[b][s]
    BY <1>5, <2>1 DEF Matching, HeavyQuery
  <2> HIDE DEF s
  <2>3. val[b][s] \in 0 .. (Word - 1)
    BY <1>1, <1>2, <2>1 DEF TypeOK
  <2>4. IF HighestBitIs1(val[b][s])
          THEN GetCounterVal(val[b][s]) + LightQuery(k) >= truth[k] \/ Saturated(k)
          ELSE val[b][s] >= truth[k]
    BY <1>1, <2>1, <2>2 DEF CoveredInHeavy, Clean
  <2>5. CASE HighestBitIs1(val[b][s])
    <3>1. ReadsLight(k) /\ Query(k) = GetCounterVal(val[b][s]) + LightQuery(k)
      BY <2>2, <2>5 DEF ReadsLight, Query
    <3> QED
      BY <2>4, <2>5, <3>1
  <2>6. CASE ~HighestBitIs1(val[b][s])
    <3>1. GetCounterVal(val[b][s]) = val[b][s]
      BY <2>3, <2>6 DEF HighestBitIs1, GetCounterVal
    <3>2. Query(k) = val[b][s] \/ Query(k) = val[b][s] + LightQuery(k)
      BY <2>2, <3>1 DEF Query
    <3> QED
      BY <1>3, <2>3, <2>4, <2>6, <3>2, SizeAssumption DEF Word
  <2> QED
    BY <2>5, <2>6
<1> QED
  BY <1>4, <1>5

\* The inductive invariant holds in every reachable state.
THEOREM IInvCorrect == Spec => []IInv
  BY InitIInv, StepIInv, PTL DEF Spec

\* ElasticSketch::query errs on one side only, for every set of flows, every
\* pair of hash functions, every size and every sequence of packets.
THEOREM OneSidedError == Spec => []NeverUndercounts
<1>1. IInv => NeverUndercounts
  BY CoverageBoundsQuery
<1> QED
  BY <1>1, IInvCorrect, PTL

\* The vote guard of a bucket never passes the threshold of its counts.
THEOREM GuardBounded == Spec => []GuardBelowThreshold
<1>1. IInv => GuardBelowThreshold
  BY DEF IInv
<1> QED
  BY <1>1, IInvCorrect, PTL

\* HeavyPart::insert never stores a key in two slots of a bucket.
THEOREM KeysDistinct == Spec => []SlotsDistinct
<1>1. IInv => SlotsDistinct
  BY DEF IInv
<1> QED
  BY <1>1, IInvCorrect, PTL
-----------------------------------------------------------------------------
(* Nothing is counted twice of an isolated flow, and mice_dist agrees with *)
(* the counters.                                                           *)

\* Every stored key is what strncpy kept of a flow's, in the flow's bucket.
StoredKeysOfFlows ==
    \A b \in Bucket : \A s \in Slot :
        key[b][s] # NoKey => \E j \in Flow : HeavyHash[j] = b /\ key[b][s] = Cut[j]

\* What a slot of an isolated flow does not count is in its light counter,
\* as far as that goes; without the flag there is nothing it does not count.
ExactInHeavy ==
    \A k \in Flow : \A s \in Slot :
        (Isolated(k) /\ key[HeavyHash[k]][s] = k) =>
            LET v == val[HeavyHash[k]][s]
            IN /\ GetCounterVal(v) <= truth[k]
               /\ ~HighestBitIs1(v) => v = truth[k]
               /\ LightQuery(k) = AtMost(truth[k] - GetCounterVal(v), LightMax)

\* The light counter of an isolated flow without a slot holds what was sent.
ExactInLight ==
    \A k \in Flow :
        (Isolated(k) /\ Matching(HeavyHash[k], k) = {}) =>
            LightQuery(k) = AtMost(truth[k], LightMax)

\* The inductive invariant of both, on top of IInv.
ExactInv ==
    /\ StoredKeysOfFlows
    /\ InRange => (ExactInHeavy /\ ExactInLight)
    /\ MiceDistAgrees

\* A bounded addition to a bounded value is bounded once.
LEMMA AtMostAdds ==
  ASSUME NEW x \in Nat, NEW f \in Nat
  PROVE  /\ AtMost(AtMost(x, LightMax) + f, LightMax) = AtMost(x + f, LightMax)
         /\ AtMost(x, LightMax) \in 0 .. LightMax
         /\ AtMost(0, LightMax) = 0
  BY SizeAssumption DEF AtMost

\* The counters that hold a value.
HoldingSet(v) == {p \in Counter : counters[p] = v}

\* There are finitely many counters.
LEMMA CountersFinite == IsFiniteSet(Counter) /\ Cardinality(Counter) = NCounters
<1>1. 0 \in Int /\ NCounters - 1 \in Int
  BY SizeAssumption
<1>2. /\ IsFiniteSet(0 .. (NCounters - 1))
      /\ Cardinality(0 .. (NCounters - 1))
           = IF 0 > NCounters - 1 THEN 0 ELSE (NCounters - 1) - 0 + 1
  BY <1>1, FS_Interval
<1> QED
  BY <1>2, SizeAssumption DEF Counter

\* Storing a counter writes it and no other, and mice_dist follows.
LEMMA StoreEffect ==
  ASSUME TypeOK, NEW p \in Counter, NEW new \in 0 .. LightMax, StoreCounter(p, new)
  PROVE  /\ counters'[p] = new
         /\ \A q \in Counter \ {p} : counters'[q] = counters[q]
         /\ MiceDistAgrees => MiceDistAgrees'
<1> DEFINE old == counters[p]
           less == [miceDist EXCEPT ![old] = @ - 1]
<1>1. /\ counters' = [counters EXCEPT ![p] = new]
      /\ miceDist' = [less EXCEPT ![new] = less[new] + 1]
  BY DEF StoreCounter
<1>2. old \in 0 .. LightMax
  BY DEF TypeOK
<1>3. counters'[p] = new /\ \A q \in Counter \ {p} : counters'[q] = counters[q]
  BY <1>1 DEF TypeOK
<1>4. ASSUME MiceDistAgrees PROVE MiceDistAgrees'
  <2>1. \A v \in 0 .. LightMax :
          /\ IsFiniteSet(HoldingSet(v)) /\ IsFiniteSet(HoldingSet(v)')
          /\ Cardinality(HoldingSet(v)) \in Nat /\ Cardinality(HoldingSet(v)') \in Nat
    <3> TAKE v \in 0 .. LightMax
    <3>1. HoldingSet(v) \subseteq Counter /\ HoldingSet(v)' \subseteq Counter
      BY DEF HoldingSet
    <3>2. IsFiniteSet(HoldingSet(v)) /\ IsFiniteSet(HoldingSet(v)')
      BY <3>1, CountersFinite, FS_Subset
    <3> QED
      BY <3>2, FS_CardinalityType
  <2>2. \A v \in 0 .. LightMax :
          Cardinality(HoldingSet(v)') = Cardinality(HoldingSet(v))
             + (IF v = new THEN 1 ELSE 0) - (IF v = old THEN 1 ELSE 0)
    <3> TAKE v \in 0 .. LightMax
    <3>1. CASE new = old
      <4>1. HoldingSet(v)' = HoldingSet(v)
        BY <1>3, <3>1 DEF HoldingSet
      <4> QED
        BY <2>1, <3>1, <4>1
    <3>2. CASE new # old /\ v = new
      <4>1. HoldingSet(v)' = HoldingSet(v) \cup {p} /\ p \notin HoldingSet(v)
        BY <1>3, <3>2 DEF HoldingSet
      <4>2. Cardinality(HoldingSet(v)') = Cardinality(HoldingSet(v)) + 1
        BY <2>1, <4>1, FS_AddElement
      <4> QED
        BY <2>1, <3>2, <4>2
    <3>3. CASE new # old /\ v = old
      <4>1. HoldingSet(v)' = HoldingSet(v) \ {p} /\ p \in HoldingSet(v)
        BY <1>3, <3>3 DEF HoldingSet
      <4>2. Cardinality(HoldingSet(v)') = Cardinality(HoldingSet(v)) - 1
        BY <2>1, <4>1, FS_RemoveElement
      <4> QED
        BY <2>1, <3>3, <4>2
    <3>4. CASE v # new /\ v # old
      <4>1. HoldingSet(v)' = HoldingSet(v)
        BY <1>3, <3>4 DEF HoldingSet
      <4> QED
        BY <2>1, <3>4, <4>1
    <3> QED
      BY <3>1, <3>2, <3>3, <3>4
  <2>3. \A v \in 0 .. LightMax :
          miceDist'[v] = miceDist[v] + (IF v = new THEN 1 ELSE 0) - (IF v = old THEN 1 ELSE 0)
    <3>1. miceDist \in [0 .. LightMax -> Int]
      BY DEF TypeOK
    <3>2. /\ less \in [0 .. LightMax -> Int]
          /\ \A v \in 0 .. LightMax : less[v] = miceDist[v] - (IF v = old THEN 1 ELSE 0)
      BY <1>2, <3>1
    <3> HIDE DEF less, old
    <3> QED
      BY <1>1, <3>1, <3>2
  <2>4. /\ \A v \in 1 .. LightMax : miceDist[v] = Cardinality(HoldingSet(v))
        /\ miceDist[0] = Cardinality(HoldingSet(0)) - NCounters
    BY <1>4 DEF MiceDistAgrees, HoldingSet
  <2>5. /\ \A v \in 1 .. LightMax : miceDist'[v] = Cardinality(HoldingSet(v)')
        /\ miceDist'[0] = Cardinality(HoldingSet(0)') - NCounters
    <3>1. \A v \in 1 .. LightMax : v \in 0 .. LightMax
      OBVIOUS
    <3>2. 0 \in 0 .. LightMax /\ NCounters \in Int
      BY SizeAssumption
    <3> HIDE DEF old
    <3> QED
      BY <2>1, <2>2, <2>3, <2>4, <3>1, <3>2
  <2> QED
    BY <2>5 DEF MiceDistAgrees, HoldingSet
<1> QED
  BY <1>3, <1>4

\* LightPart::insert changes the counter of its key and no other.
LEMMA LightInsertExact ==
  ASSUME TypeOK, NEW k \in Key, NEW f \in Nat, LightInsert(k, f)
  PROVE  /\ counters'[LightHash[k]] = AtMost(counters[LightHash[k]] + f, LightMax)
         /\ \A p \in Counter \ {LightHash[k]} : counters'[p] = counters[p]
         /\ MiceDistAgrees => MiceDistAgrees'
<1>1. LightHash[k] \in Counter
  BY HashAssumption
<1>2. counters[LightHash[k]] \in 0 .. LightMax
  BY <1>1 DEF TypeOK
<1>3. AtMost(counters[LightHash[k]] + f, LightMax) \in 0 .. LightMax
  BY <1>2, SizeAssumption DEF AtMost
<1>4. StoreCounter(LightHash[k], AtMost(counters[LightHash[k]] + f, LightMax))
  BY DEF LightInsert
<1> QED
  BY <1>1, <1>3, <1>4, StoreEffect

\* So does LightPart::swap_insert.
LEMMA LightSwapInsertExact ==
  ASSUME TypeOK, NEW k \in Key, NEW f \in Nat, LightSwapInsert(k, f)
  PROVE  /\ counters[LightHash[k]] = 0 =>
               counters'[LightHash[k]] = AtMost(f, LightMax)
         /\ \A p \in Counter \ {LightHash[k]} : counters'[p] = counters[p]
         /\ MiceDistAgrees => MiceDistAgrees'
<1>1. LightHash[k] \in Counter
  BY HashAssumption
<1>2. counters[LightHash[k]] \in 0 .. LightMax
  BY <1>1 DEF TypeOK
<1>3. AtMost(f, LightMax) \in 0 .. LightMax
  BY SizeAssumption DEF AtMost
<1>4. CASE counters[LightHash[k]] < AtMost(f, LightMax)
  <2>1. StoreCounter(LightHash[k], AtMost(f, LightMax))
    BY <1>4 DEF LightSwapInsert
  <2> QED
    BY <1>1, <1>3, <2>1, StoreEffect
<1>5. CASE ~(counters[LightHash[k]] < AtMost(f, LightMax))
  <2>1. counters' = counters /\ miceDist' = miceDist
    BY <1>5 DEF LightSwapInsert, light
  <2>2. counters[LightHash[k]] = 0 => AtMost(f, LightMax) = 0
    BY <1>2, <1>3, <1>5
  <2>3. MiceDistAgrees => MiceDistAgrees'
    BY <2>1 DEF MiceDistAgrees
  <2> QED
    BY <2>1, <2>2, <2>3
<1> QED
  BY <1>4, <1>5

\* And so does the eviction of a key.
LEMMA DemoteExact ==
  ASSUME TypeOK, NEW k \in Key, NEW v \in 0 .. (Word - 1), Demote(k, v)
  PROVE  /\ HighestBitIs1(v) => counters'[LightHash[k]]
                = AtMost(counters[LightHash[k]] + GetCounterVal(v), LightMax)
         /\ ~HighestBitIs1(v) /\ counters[LightHash[k]] = 0 =>
                counters'[LightHash[k]] = AtMost(v, LightMax)
         /\ \A p \in Counter \ {LightHash[k]} : counters'[p] = counters[p]
         /\ MiceDistAgrees => MiceDistAgrees'
<1>1. CASE HighestBitIs1(v)
  <2>1. LightInsert(k, GetCounterVal(v)) /\ GetCounterVal(v) \in Nat
    BY <1>1, SizeAssumption DEF Demote, GetCounterVal, Word
  <2> QED
    BY <1>1, <2>1, LightInsertExact
<1>2. CASE ~HighestBitIs1(v)
  <2>1. LightSwapInsert(k, v) /\ v \in Nat
    BY <1>2, SizeAssumption DEF Demote, Word
  <2> QED
    BY <1>2, <2>1, LightSwapInsertExact
<1> QED
  BY <1>1, <1>2

\* mice_dist follows the counters.
LEMMA MiceDistStep ==
  ASSUME TypeOK, MiceDistAgrees, NEW k \in Flow, Insert(k)
  PROVE  MiceDistAgrees'
<1>1. k \in Key /\ HeavyHash[k] \in Bucket
  BY KeyAssumption, HashAssumption
<1>2. CASE InsertMatched(k, PacketLen)
  <2>1. counters' = counters /\ miceDist' = miceDist
    BY <1>2, MatchedEffect
  <2> QED
    BY <2>1 DEF MiceDistAgrees
<1>3. CASE InsertEmpty(k, PacketLen)
  <2>1. counters' = counters /\ miceDist' = miceDist
    BY <1>3, EmptyEffect
  <2> QED
    BY <2>1 DEF MiceDistAgrees
<1>4. CASE InsertVote(k, PacketLen)
  <2>1. LightInsert(k, 1) /\ 1 \in Nat
    BY <1>4 DEF InsertVote
  <2> QED
    BY <1>1, <2>1, LightInsertExact
<1>5. CASE InsertSwap(k, PacketLen)
  <2>1. PICK s \in Slot : Demote(key[HeavyHash[k]][s], val[HeavyHash[k]][s])
    BY <1>5, SwapEffect
  <2>2. key[HeavyHash[k]][s] \in Key /\ val[HeavyHash[k]][s] \in 0 .. (Word - 1)
    BY <1>1 DEF TypeOK
  <2> QED
    BY <2>1, <2>2, DemoteExact
<1> QED
  BY <1>2, <1>3, <1>4, <1>5 DEF Insert

\* A key is stored for the flow that sends.
LEMMA StoredKeysOfFlowsStep ==
  ASSUME TypeOK, StoredKeysOfFlows, NEW k \in Flow, Insert(k)
  PROVE  StoredKeysOfFlows'
<1>1. HeavyHash[k] \in Bucket
  BY KeyAssumption, HashAssumption
<1>2. CASE InsertMatched(k, PacketLen)
  BY <1>2, MatchedEffect DEF StoredKeysOfFlows
<1>3. CASE InsertEmpty(k, PacketLen)
  BY <1>1, <1>3, EmptyEffect DEF StoredKeysOfFlows
<1>4. CASE InsertVote(k, PacketLen)
  BY <1>4, VoteEffect DEF StoredKeysOfFlows
<1>5. CASE InsertSwap(k, PacketLen)
  BY <1>1, <1>5, SwapEffect DEF StoredKeysOfFlows
<1> QED
  BY <1>2, <1>3, <1>4, <1>5 DEF Insert

\* What others insert leaves the light counter of an isolated flow alone.
LEMMA IsolatedCounter ==
  ASSUME NEW j \in Flow, Isolated(j)
  PROVE  /\ j \in Key /\ Cut[j] = j /\ j # NoKey
         /\ \A i \in Flow : i # j => /\ Cut[i] # j
                                     /\ LightHash[j] \in Counter \ {LightHash[i]}
<1>1. j \in Key /\ Cut[j] = j
  BY KeyAssumption DEF Isolated, Clean
<1>2. j # NoKey
  BY <1>1, FlowAssumption
<1>3. \A i \in Flow : i # j => Cut[i] # j /\ LightHash[i] # LightHash[j]
  BY DEF Isolated
<1> QED
  BY <1>1, <1>2, <1>3, HashAssumption

\* And so does the eviction of what is stored for others; what is stored for it
\* is in its own bucket.
LEMMA IsolatedStored ==
  ASSUME NEW j \in Flow, Isolated(j), StoredKeysOfFlows,
         NEW b \in Bucket, NEW s \in Slot, key[b][s] # NoKey
  PROVE  IF key[b][s] = j THEN b = HeavyHash[j]
                          ELSE LightHash[j] \in Counter \ {LightHash[key[b][s]]}
<1>1. PICK i \in Flow : HeavyHash[i] = b /\ key[b][s] = Cut[i]
  BY DEF StoredKeysOfFlows
<1>2. i # j => Cut[i] # j /\ LightHash[Cut[i]] # LightHash[j]
  BY DEF Isolated
<1>3. LightHash[j] \in Counter /\ Cut[j] = j
  BY HashAssumption, IsolatedCounter
<1> QED
  BY <1>1, <1>2, <1>3

\* One insert keeps what is kept of an isolated flow exact.
LEMMA ExactStep ==
  ASSUME IInv, ExactInv, pnum + 1 + LightMax < HighBit, NEW k \in Flow, Insert(k)
  PROVE  ExactInHeavy' /\ ExactInLight'
<1>1. /\ TypeOK /\ SlotsDistinct /\ FreshWhileRoom /\ StoredKeysOfFlows
      /\ pnum \in Nat /\ LightMax \in Nat \ {0} /\ HighBit \in Nat
  BY SizeAssumption DEF IInv, ExactInv, TypeOK
<1>2. pnum + 1 < HighBit /\ pnum < HighBit /\ InRange
  BY <1>1 DEF InRange
<1>3. CountsInRange /\ ExactInHeavy /\ ExactInLight
  BY <1>2 DEF IInv, ExactInv
<1>4. TypeOK'
  BY <1>1, InsertKeepsType
<1> DEFINE L(j) == counters[LightHash[j]]
           M(j) == counters'[LightHash[j]]
           Exact(v, l, n) == /\ GetCounterVal(v) <= n
                             /\ ~HighestBitIs1(v) => v = n
                             /\ l = AtMost(n - GetCounterVal(v), LightMax)
<1> SUFFICES ASSUME NEW j \in Flow, Isolated(j)
             PROVE  /\ \A t \in Slot : key'[HeavyHash[j]][t] = j =>
                         Exact(val'[HeavyHash[j]][t], M(j), truth'[j])
                    /\ (\A t \in Slot : key'[HeavyHash[j]][t] # j) =>
                         M(j) = AtMost(truth'[j], LightMax)
  <2>1. \A j \in Flow : Isolated(j) => Cut[j] = j
    BY IsolatedCounter
  <2> QED
    BY <2>1 DEF ExactInHeavy, ExactInLight, Matching, LightQuery, HighestBitIs1,
       GetCounterVal, AtMost, Isolated, Clean
<1> DEFINE b == HeavyHash[k]
           c == HeavyHash[j]
<1>5. /\ b \in Bucket /\ c \in Bucket /\ LightHash[j] \in Counter /\ k \in Key
      /\ j \in Key /\ Cut[j] = j /\ j # NoKey /\ Cut[k] # NoKey
  BY KeyAssumption, HashAssumption, FlowAssumption, IsolatedCounter
<1>6. L(j) \in 0 .. LightMax
  BY <1>1, <1>5 DEF TypeOK
<1>7. j # k => /\ Cut[k] # j
               /\ LightHash[j] \in Counter \ {LightHash[k]}
  BY IsolatedCounter
<1>8. /\ truth[j] \in Nat /\ truth'[j] \in Nat
      /\ j = k => truth'[j] = truth[j] + 1
      /\ j # k => truth'[j] = truth[j]
  BY <1>1 DEF Insert, TypeOK
<1>9. /\ \A t \in Slot : key[c][t] = j => Exact(val[c][t], L(j), truth[j])
      /\ (\A t \in Slot : key[c][t] # j) => L(j) = AtMost(truth[j], LightMax)
  <2>1. Matching(c, j) = {t \in Slot : key[c][t] = j}
    BY <1>5 DEF Matching
  <2> QED
    BY <1>3, <2>1 DEF ExactInHeavy, ExactInLight, LightQuery
<1>10. \A t \in Slot : /\ val[c][t] \in 0 .. (Word - 1)
                       /\ GetCounterVal(val[c][t]) \in Nat
                       /\ key[c][t] = j => GetCounterVal(val[c][t]) <= pnum
  <2>1. \A t \in Slot : val[c][t] \in 0 .. (Word - 1) /\ GetCounterVal(val[c][t]) \in Nat
    BY <1>1, <1>5, CountIsNat
  <2>2. \A t \in Slot : key[c][t] = j => GetCounterVal(val[c][t]) \in 1 .. pnum
    BY <1>3, <1>5 DEF CountsInRange
  <2> QED
    BY <1>1, <2>1, <2>2
<1> HIDE DEF L, M, b, c
<1>11. CASE InsertMatched(k, PacketLen)
  <2>1. PICK s \in Slot :
           /\ key[b][s] = Cut[k]
           /\ val'[b][s] = Add32(val[b][s], 1)
           /\ \A d \in Bucket : \A u \in Slot :
                (d # b \/ u # s) => val'[d][u] = val[d][u]
           /\ key' = key /\ counters' = counters
    BY <1>1, <1>11, MatchedEffect DEF b
  <2>2. M(j) = L(j)
    BY <2>1 DEF L, M
  <2>3. ASSUME NEW t \in Slot, key'[c][t] = j
        PROVE  Exact(val'[c][t], M(j), truth'[j])
    <3>1. key[c][t] = j /\ Exact(val[c][t], L(j), truth[j])
      BY <1>9, <2>1, <2>3
    <3>2. CASE j = k
      <4>1. c = b /\ t = s
        BY <1>1, <1>5, <2>1, <3>1, <3>2 DEF SlotsDistinct, b, c
      <4>2. GetCounterVal(val[c][t]) <= pnum
        BY <1>10, <3>1
      <4>3. /\ GetCounterVal(val'[c][t]) = GetCounterVal(val[c][t]) + 1
            /\ HighestBitIs1(val'[c][t]) <=> HighestBitIs1(val[c][t])
            /\ ~HighestBitIs1(val[c][t]) => val'[c][t] = val[c][t] + 1
        BY <1>1, <1>2, <1>10, <2>1, <4>1, <4>2, CountGrows
      <4>4. /\ GetCounterVal(val[c][t]) \in Nat /\ truth'[j] = truth[j] + 1
            /\ truth'[j] - GetCounterVal(val'[c][t]) = truth[j] - GetCounterVal(val[c][t])
        BY <1>8, <1>10, <3>2, <4>3
      <4> QED
        BY <1>8, <2>2, <3>1, <4>3, <4>4
    <3>3. CASE j # k
      <4>1. key[b][s] # j
        BY <1>7, <2>1, <3>3
      <4>2. val'[c][t] = val[c][t]
        BY <1>5, <2>1, <3>1, <4>1
      <4> QED
        BY <1>8, <2>2, <3>1, <3>3, <4>2
    <3> QED
      BY <3>2, <3>3
  <2>4. ASSUME \A t \in Slot : key'[c][t] # j
        PROVE  M(j) = AtMost(truth'[j], LightMax)
    <3>1. j # k
      BY <1>5, <2>1, <2>4 DEF b, c
    <3> QED
      BY <1>8, <1>9, <2>1, <2>2, <2>4, <3>1
  <2> HIDE DEF Exact
  <2> QED
    BY <2>3, <2>4 DEF c
<1>12. CASE InsertEmpty(k, PacketLen)
  <2>1. PICK s \in Slot :
           /\ key[b][s] = NoKey
           /\ \A t \in Slot : key[b][t] # Cut[k]
           /\ key'[b][s] = Cut[k] /\ val'[b][s] = 1
           /\ \A d \in Bucket : \A u \in Slot :
                (d # b \/ u # s) => key'[d][u] = key[d][u] /\ val'[d][u] = val[d][u]
           /\ counters' = counters
    BY <1>1, <1>12, EmptyEffect DEF b
  <2>2. M(j) = L(j)
    BY <2>1 DEF L, M
  <2>3. ASSUME NEW t \in Slot, key'[c][t] = j
        PROVE  Exact(val'[c][t], M(j), truth'[j])
    <3>1. CASE j = k
      <4>1. c = b /\ \A u \in Slot : key[c][u] # j
        BY <1>5, <2>1, <3>1 DEF b, c
      <4>2. t = s
        BY <1>5, <2>1, <2>3, <4>1
      <4>3. truth[j] = 0
        BY <1>1, <1>5, <2>1, <4>1 DEF FreshWhileRoom, Unused, Matching, c
      <4>4. truth'[j] = 1 /\ val'[c][t] = 1 /\ GetCounterVal(1) = 1
        BY <1>8, <2>1, <3>1, <4>1, <4>2, <4>3, SizeAssumption DEF GetCounterVal
      <4>5. L(j) = AtMost(0, LightMax)
        BY <1>9, <4>1, <4>3
      <4> QED
        BY <2>2, <4>4, <4>5
    <3>2. CASE j # k
      <4>1. key[c][t] = j /\ val'[c][t] = val[c][t]
        BY <1>5, <1>7, <2>1, <2>3, <3>2
      <4> QED
        BY <1>8, <1>9, <2>2, <3>2, <4>1
    <3> QED
      BY <3>1, <3>2
  <2>4. ASSUME \A t \in Slot : key'[c][t] # j
        PROVE  M(j) = AtMost(truth'[j], LightMax)
    <3>1. j # k
      BY <1>5, <2>1, <2>4 DEF b, c
    <3>2. \A t \in Slot : key[c][t] # j
      BY <1>5, <2>1, <2>4
    <3> QED
      BY <1>8, <1>9, <2>2, <3>1, <3>2
  <2> HIDE DEF Exact
  <2> QED
    BY <2>3, <2>4 DEF c
<1>13. CASE InsertVote(k, PacketLen)
  <2>1. /\ \A t \in Slot : key[b][t] # Cut[k]
        /\ key' = key /\ val' = val
    BY <1>1, <1>13, VoteEffect DEF b
  <2>2. LightInsert(k, 1) /\ 1 \in Nat
    BY <1>13 DEF InsertVote
  <2>3. /\ counters'[LightHash[k]] = AtMost(counters[LightHash[k]] + 1, LightMax)
        /\ \A p \in Counter \ {LightHash[k]} : counters'[p] = counters[p]
    BY <1>1, <1>5, <2>2, LightInsertExact
  <2>4. CASE j = k
    <3>1. c = b /\ \A t \in Slot : key[c][t] # j
      BY <1>5, <2>1, <2>4 DEF b, c
    <3>2. L(j) = AtMost(truth[j], LightMax) /\ M(j) = AtMost(L(j) + 1, LightMax)
      BY <1>9, <2>3, <2>4, <3>1 DEF L, M
    <3>3. M(j) = AtMost(truth'[j], LightMax)
      BY <1>8, <2>2, <2>4, <3>2, AtMostAdds
    <3> QED
      BY <2>1, <3>1, <3>3 DEF c
  <2>5. CASE j # k
    <3>1. M(j) = L(j)
      BY <1>7, <2>3, <2>5 DEF L, M
    <3> HIDE DEF Exact
    <3> QED
      BY <1>8, <1>9, <2>1, <2>5, <3>1 DEF c
  <2> QED
    BY <2>4, <2>5
<1>14. CASE InsertSwap(k, PacketLen)
  <2>1. PICK s \in Slot :
           /\ \A t \in Slot : key[b][t] # Cut[k] /\ key[b][t] # NoKey
           /\ key'[b][s] = Cut[k] /\ val'[b][s] = HighBit + 1
           /\ \A d \in Bucket : \A u \in Slot :
                (d # b \/ u # s) => key'[d][u] = key[d][u] /\ val'[d][u] = val[d][u]
           /\ Demote(key[b][s], val[b][s])
    BY <1>1, <1>14, SwapEffect DEF b
  <2> DEFINE x == key[b][s]
             v == val[b][s]
  <2>2. x \in Key /\ v \in 0 .. (Word - 1) /\ x # NoKey
    BY <1>1, <1>5, <2>1 DEF TypeOK
  <2>3. /\ HighestBitIs1(v) =>
              counters'[LightHash[x]] = AtMost(counters[LightHash[x]] + GetCounterVal(v), LightMax)
        /\ ~HighestBitIs1(v) /\ counters[LightHash[x]] = 0 =>
              counters'[LightHash[x]] = AtMost(v, LightMax)
        /\ \A p \in Counter \ {LightHash[x]} : counters'[p] = counters[p]
    BY <1>1, <2>1, <2>2, DemoteExact
  <2>4. IF x = j THEN b = HeavyHash[j] ELSE M(j) = L(j)
    <3>1. IF x = j THEN b = HeavyHash[j]
                   ELSE LightHash[j] \in Counter \ {LightHash[x]}
      BY <1>1, <1>5, <2>2, IsolatedStored
    <3> QED
      BY <2>3, <3>1 DEF L, M
  <2>5. CASE j = k
    <3>1. c = b /\ \A t \in Slot : key[c][t] # j
      BY <1>5, <2>1, <2>5 DEF b, c
    <3>2. M(j) = AtMost(truth[j], LightMax)
      BY <1>9, <2>1, <2>4, <3>1
    <3>3. \A t \in Slot : key'[c][t] = j <=> t = s
      BY <1>5, <2>1, <2>5, <3>1
    <3>4. /\ HighestBitIs1(HighBit + 1) /\ GetCounterVal(HighBit + 1) = 1
          /\ truth'[j] = truth[j] + 1 /\ truth'[j] - 1 = truth[j] /\ 1 <= truth'[j]
      BY <1>8, <2>5, SizeAssumption DEF HighestBitIs1, GetCounterVal
    <3>5. Exact(val'[c][s], M(j), truth'[j])
      BY <2>1, <3>1, <3>2, <3>4
    <3> HIDE DEF Exact
    <3> QED
      BY <3>3, <3>5 DEF c
  <2>6. CASE j # k /\ ~(c = b /\ x = j)
    <3>1. M(j) = L(j)
      BY <2>4, <2>6 DEF c
    <3>2. \A t \in Slot : key'[c][t] = j <=> key[c][t] = j
      BY <1>5, <1>7, <2>1, <2>6
    <3>3. \A t \in Slot : key[c][t] = j => val'[c][t] = val[c][t]
      BY <1>5, <1>7, <2>1, <2>6
    <3> HIDE DEF Exact
    <3> QED
      BY <1>8, <1>9, <2>6, <3>1, <3>2, <3>3 DEF c
  <2>7. CASE j # k /\ c = b /\ x = j
    <3>1. \A t \in Slot : key'[c][t] # j
      <4>1. \A t \in Slot : key[c][t] = j => t = s
        BY <1>1, <1>5, <2>7 DEF SlotsDistinct
      <4> QED
        BY <1>5, <1>7, <2>1, <2>7, <4>1
    <3>2. Exact(v, L(j), truth[j]) /\ GetCounterVal(v) \in Nat
      BY <1>9, <1>10, <2>7
    <3>3. CASE HighestBitIs1(v)
      <4>1. M(j) = AtMost(L(j) + GetCounterVal(v), LightMax)
        BY <2>3, <2>7, <3>3 DEF L, M
      <4>2. /\ truth[j] - GetCounterVal(v) \in Nat
            /\ (truth[j] - GetCounterVal(v)) + GetCounterVal(v) = truth[j]
        BY <1>8, <3>2
      <4>3. M(j) = AtMost(truth[j], LightMax)
        BY <3>2, <4>1, <4>2, AtMostAdds
      <4> QED
        BY <1>8, <2>7, <3>1, <4>3 DEF c
    <3>4. CASE ~HighestBitIs1(v)
      <4>1. v = truth[j] /\ GetCounterVal(v) = v
        BY <3>2, <3>4 DEF HighestBitIs1, GetCounterVal
      <4>2. truth[j] - GetCounterVal(v) = 0
        BY <1>8, <4>1
      <4>3. L(j) = 0
        BY <3>2, <4>2, AtMostAdds
      <4>4. M(j) = AtMost(truth[j], LightMax)
        BY <2>3, <2>7, <3>4, <4>1, <4>3 DEF L, M
      <4> QED
        BY <1>8, <2>7, <3>1, <4>4 DEF c
    <3> QED
      BY <3>3, <3>4
  <2> QED
    BY <2>5, <2>6, <2>7
<1> QED
  BY <1>11, <1>12, <1>13, <1>14 DEF Insert

\* The empty sketch is exact.
LEMMA InitExact == Init => ExactInv
<1> SUFFICES ASSUME Init PROVE ExactInv
  OBVIOUS
<1>1. StoredKeysOfFlows
  BY DEF Init, StoredKeysOfFlows
<1>2. ExactInHeavy
  BY IsolatedCounter, HashAssumption, KeyAssumption DEF Init, ExactInHeavy
<1>3. ExactInLight
  <2>1. \A k \in Flow : LightHash[k] \in Counter
    BY KeyAssumption, HashAssumption
  <2>2. \A k \in Flow : LightQuery(k) = 0 /\ truth[k] = 0
    BY <2>1 DEF Init, LightQuery
  <2>3. AtMost(0, LightMax) = 0
    BY AtMostAdds
  <2> QED
    BY <2>2, <2>3 DEF ExactInLight
<1>4. MiceDistAgrees
  <2>1. 0 \in 0 .. LightMax /\ \A v \in 1 .. LightMax : v \in 0 .. LightMax /\ v # 0
    BY SizeAssumption
  <2>2. \A v \in 0 .. LightMax : miceDist[v] = 0
    BY DEF Init
  <2>3. \A v \in 1 .. LightMax : HoldingSet(v) = {}
    BY <2>1 DEF Init, HoldingSet
  <2>4. HoldingSet(0) = Counter
    BY DEF Init, HoldingSet
  <2>5. Cardinality({}) = 0
    BY FS_EmptySet
  <2>6. /\ \A v \in 1 .. LightMax : miceDist[v] = Cardinality(HoldingSet(v))
        /\ miceDist[0] = Cardinality(HoldingSet(0)) - NCounters
    BY <2>1, <2>2, <2>3, <2>4, <2>5, CountersFinite, SizeAssumption
  <2> QED
    BY <2>6 DEF MiceDistAgrees, HoldingSet
<1> QED
  BY <1>1, <1>2, <1>3, <1>4 DEF ExactInv

\* Every insert keeps it exact.
LEMMA StepExact == IInv /\ ExactInv /\ [Next]_vars => ExactInv'
<1> SUFFICES ASSUME IInv, ExactInv, [Next]_vars PROVE ExactInv'
  OBVIOUS
<1>1. ASSUME NEW k \in Flow, Insert(k) PROVE ExactInv'
  <2>1. /\ TypeOK /\ StoredKeysOfFlows /\ MiceDistAgrees
    BY DEF IInv, ExactInv
  <2>2. pnum' = pnum + 1 /\ pnum \in Nat /\ LightMax \in Nat
    BY <1>1, <2>1, SizeAssumption DEF Insert, TypeOK
  <2>3. StoredKeysOfFlows' /\ MiceDistAgrees'
    BY <1>1, <2>1, StoredKeysOfFlowsStep, MiceDistStep
  <2>4. (InRange => (ExactInHeavy /\ ExactInLight))'
    <3> SUFFICES ASSUME InRange' PROVE ExactInHeavy' /\ ExactInLight'
      OBVIOUS
    <3>1. pnum + 1 + LightMax < HighBit
      BY <2>2 DEF InRange
    <3> QED
      BY <1>1, <3>1, ExactStep
  <2> QED
    BY <2>3, <2>4 DEF ExactInv
<1>2. CASE UNCHANGED vars
  <2>1. MiceDistAgrees'
    BY <1>2 DEF vars, MiceDistAgrees, ExactInv
  <2>2. StoredKeysOfFlows' /\ (InRange => (ExactInHeavy /\ ExactInLight))'
    BY <1>2 DEF vars, ExactInv, StoredKeysOfFlows, InRange, ExactInHeavy, ExactInLight,
       Matching, LightQuery
  <2> QED
    BY <2>1, <2>2 DEF ExactInv
<1> QED
  BY <1>1, <1>2 DEF Next

\* Both invariants hold in every reachable state.
LEMMA ExactInvHolds == Spec => [](IInv /\ ExactInv)
<1>1. Init => IInv /\ ExactInv
  BY InitIInv, InitExact
<1>2. IInv /\ ExactInv /\ [Next]_vars => (IInv /\ ExactInv)'
  BY StepIInv, StepExact
<1> QED
  BY <1>1, <1>2, PTL DEF Spec

\* Query adds what the slot and the light counter hold, where it reads both.
LEMMA ExactQuery == IInv /\ ExactInv => ExactWhenIsolated
<1> SUFFICES ASSUME IInv, ExactInv, InRange, NEW k \in Flow, Isolated(k),
                    ~(ReadsLight(k) /\ Saturated(k))
             PROVE  Query(k) = truth[k]
  BY DEF ExactWhenIsolated
<1> DEFINE b == HeavyHash[k]
<1>1. TypeOK /\ ExactInHeavy /\ ExactInLight
  BY DEF IInv, ExactInv
<1>2. b \in Bucket /\ LightHash[k] \in Counter /\ k \in Key /\ Cut[k] = k
  BY KeyAssumption, HashAssumption, IsolatedCounter
<1>3. LightQuery(k) \in 0 .. LightMax /\ truth[k] \in Nat
  BY <1>1, <1>2 DEF LightQuery, TypeOK
<1>4. \A n \in Nat : LightQuery(k) = AtMost(n, LightMax) =>
          LightQuery(k) = n \/ Saturated(k)
  BY DEF AtMost, Saturated
<1>5. CASE Matching(b, k) = {}
  <2>1. HeavyQuery(k) = 0
    BY <1>5 DEF HeavyQuery
  <2>2. ReadsLight(k) /\ Query(k) = LightQuery(k)
    BY <1>3, <2>1, SizeAssumption DEF ReadsLight, Query, GetCounterVal
  <2>3. LightQuery(k) = AtMost(truth[k], LightMax)
    BY <1>1, <1>5 DEF ExactInLight
  <2> QED
    BY <1>3, <1>4, <2>2, <2>3
<1>6. CASE Matching(b, k) # {}
  <2> DEFINE s == First(Matching(b, k))
  <2>1. s \in Matching(b, k) /\ s \in Slot
    BY <1>6, FirstIsMember DEF Matching
  <2>2. key[b][s] = k /\ HeavyQuery(k) = val[b][s]
    BY <1>2, <1>6, <2>1 DEF Matching, HeavyQuery
  <2> HIDE DEF s
  <2> DEFINE v == val[b][s]
  <2>3. v \in 0 .. (Word - 1) /\ GetCounterVal(v) \in Nat
    BY <1>1, <1>2, <2>1, CountIsNat
  <2>4. /\ GetCounterVal(v) <= truth[k]
        /\ ~HighestBitIs1(v) => v = truth[k]
        /\ LightQuery(k) = AtMost(truth[k] - GetCounterVal(v), LightMax)
    BY <1>1, <2>1, <2>2 DEF ExactInHeavy
  <2>5. LightQuery(k) = truth[k] - GetCounterVal(v) \/ Saturated(k)
    BY <1>3, <1>4, <2>3, <2>4
  <2> HIDE DEF v
  <2>6. CASE HighestBitIs1(v)
    <3>1. ReadsLight(k) /\ Query(k) = GetCounterVal(v) + LightQuery(k)
      BY <2>2, <2>6 DEF ReadsLight, Query, v
    <3> QED
      BY <1>3, <2>3, <2>5, <3>1
  <2>7. CASE ~HighestBitIs1(v)
    <3>1. GetCounterVal(v) = v /\ v = truth[k]
      BY <2>3, <2>4, <2>7 DEF HighestBitIs1, GetCounterVal
    <3>2. LightQuery(k) = 0
      <4>1. truth[k] - GetCounterVal(v) = 0
        BY <1>3, <3>1
      <4>2. AtMost(0, LightMax) = 0
        BY AtMostAdds
      <4> QED
        BY <2>4, <4>1, <4>2
    <3> QED
      BY <1>3, <2>2, <3>1, <3>2 DEF Query, v
  <2> QED
    BY <2>6, <2>7
<1> QED
  BY <1>5, <1>6

\* Without a collision the sketch loses no packet and counts none twice,
\* whatever was evicted, demoted and taken back in the meantime.
THEOREM IsolatedFlowsExact == Spec => []ExactWhenIsolated
<1>1. IInv /\ ExactInv => ExactWhenIsolated
  BY ExactQuery
<1> QED
  BY <1>1, ExactInvHolds, PTL

\* The histogram that the measurements read is that of the light counters.
THEOREM MiceDistIsHistogram == Spec => []MiceDistAgrees
<1>1. ExactInv => MiceDistAgrees
  BY DEF ExactInv
<1> QED
  BY <1>1, ExactInvHolds, PTL

-----------------------------------------------------------------------------
(* Heavy hitters.                                                          *)

\* What query returns is an integer.
LEMMA QueryType ==
  ASSUME TypeOK, NEW k \in Flow
  PROVE  /\ HeavyQuery(k) \in 0 .. (Word - 1) /\ GetCounterVal(HeavyQuery(k)) \in Nat
         /\ LightQuery(k) \in 0 .. LightMax /\ Query(k) \in Int
<1> DEFINE b == HeavyHash[k]
<1>1. b \in Bucket /\ LightHash[k] \in Counter
  BY KeyAssumption, HashAssumption
<1>2. HeavyQuery(k) \in 0 .. (Word - 1)
  <2>1. CASE Matching(b, k) = {}
    BY <2>1, SizeAssumption DEF HeavyQuery, Word
  <2>2. CASE Matching(b, k) # {}
    <3>1. First(Matching(b, k)) \in Slot
      BY <2>2, FirstIsMember DEF Matching
    <3> QED
      BY <1>1, <2>2, <3>1 DEF HeavyQuery, TypeOK
  <2> QED
    BY <2>1, <2>2
<1>3. LightQuery(k) \in 0 .. LightMax
  BY <1>1 DEF LightQuery, TypeOK
<1>4. GetCounterVal(HeavyQuery(k)) \in Nat
  BY <1>2, SizeAssumption DEF GetCounterVal, Word
<1> QED
  BY <1>2, <1>3, <1>4, SizeAssumption DEF Query

\* Some slot of a flow that is found has the flow's key.
LEMMA HittersFound == IInv => HittersComplete
<1> SUFFICES ASSUME IInv, InRange, NEW t \in Threshold, NEW k \in Flow, Clean(k),
                    truth[k] >= t, Matching(HeavyHash[k], k) # {}, ~Saturated(k)
             PROVE  \E h \in GetHeavyHitters(t) : h[1] = k
  BY DEF HittersComplete
<1>1. NeverUndercounts /\ TypeOK
  BY CoverageBoundsQuery DEF IInv
<1>2. Query(k) >= truth[k]
  BY <1>1 DEF NeverUndercounts
<1>3. Query(k) \in Int /\ truth[k] \in Int /\ t \in Int
  BY <1>1, QueryType, MeasureAssumption DEF TypeOK
<1>4. Query(k) >= t
  BY <1>2, <1>3
<1>5. PICK s \in Slot : key[HeavyHash[k]][s] = k
  BY DEF Matching, Clean
<1> DEFINE h == <<HeavyHash[k], s>>
<1>6. h \in HeavySlot /\ StoredKey(h) = k
  BY <1>5, KeyAssumption, HashAssumption DEF HeavySlot, StoredKey
<1>7. <<k, Query(k)>> \in GetHeavyHitters(t)
  BY <1>4, <1>6 DEF GetHeavyHitters
<1> QED
  BY <1>7

\* get_heavy_hitters returns every NUL-free flow of the heavy part that has
\* reached the threshold, unless its light counter has saturated.
THEOREM HittersNotMissed == Spec => []HittersComplete
<1>1. Spec => []IInv
  BY IInvCorrect
<1>2. IInv => HittersComplete
  BY HittersFound
<1> QED
  BY <1>1, <1>2, PTL

-----------------------------------------------------------------------------
(* The compressed light part.                                              *)

\* Dividing by no more than the number itself leaves at least one.
LEMMA WidthPositive ==
  ASSUME NEW n \in Nat, NEW r \in 1 .. n
  PROVE  n \div r \in Nat \ {0}
OBVIOUS

\* The rest of a division is below the divisor.
LEMMA RestBelow ==
  ASSUME NEW n \in Nat, NEW w \in Nat \ {0}
  PROVE  n % w \in 0 .. (w - 1)
OBVIOUS

\* A bounded non-empty set of naturals has a greatest element.
LEMMA MaxIsUpper ==
  ASSUME NEW S, NEW n \in Nat, S \subseteq 0 .. n, S # {}
  PROVE  Max(S) \in S /\ \A x \in S : x <= Max(S)
<1> DEFINE Upper == {m \in Nat : \A x \in S : x <= m}
<1>1. n \in Upper
  OBVIOUS
<1>2. PICK m \in Upper : \A u \in Upper : m <= u
  BY <1>1, LeastNumber
<1>3. m \in S
  <2> SUFFICES ASSUME m \notin S PROVE FALSE
    OBVIOUS
  <2>1. \A x \in S : x \in Nat /\ x <= m /\ x # m
    OBVIOUS
  <2>2. m \in Nat /\ m # 0
    <3>1. PICK x \in S : TRUE
      OBVIOUS
    <3>2. x \in Nat /\ x <= m /\ x # m /\ m \in Nat
      BY <2>1
    <3> QED
      BY <3>2
  <2>3. m - 1 \in Upper
    BY <2>1, <2>2
  <2> QED
    BY <1>2, <2>2, <2>3
<1>4. \E x \in S : \A y \in S : x >= y
  BY <1>3
<1>5. Max(S) \in S /\ \A y \in S : Max(S) >= y
  BY <1>4 DEF Max
<1> QED
  BY <1>5

\* The maximum of a group of counters is at least each of them.
LEMMA CompressedCovers == TypeOK => CompressedNeverBelow
<1> SUFFICES ASSUME TypeOK, \A p \in Counter : 2 * counters[p] <= LightMax,
                    NEW r \in Ratios, NEW k \in Flow
             PROVE  QueryCompressed(k, r) >= Query(k)
  BY DEF CompressedNeverBelow
<1> DEFINE w == CompressWidth(r)
           p == LightHash[k]
           i == p % w
           S == {counters[j] : j \in {n \in Counter : n % w = i}}
<1>1. w \in Nat \ {0}
  BY WidthPositive, MeasureAssumption, SizeAssumption DEF CompressWidth
<1>2. p \in Counter /\ p \in Nat
  BY KeyAssumption, HashAssumption, SizeAssumption DEF Counter
<1>3. i \in 0 .. (w - 1)
  BY <1>1, <1>2, RestBelow
<1>4. Compress(r)[i] = Max(S)
  BY <1>3 DEF Compress
<1>5. S \subseteq 0 .. LightMax /\ counters[p] \in S
  BY <1>2 DEF TypeOK
<1>6. Max(S) \in S /\ counters[p] <= Max(S)
  <2> HIDE DEF S
  <2> QED
    BY <1>5, MaxIsUpper, SizeAssumption
<1>7. Max(S) \in 0 .. LightMax /\ 2 * Max(S) <= LightMax
  BY <1>5, <1>6
<1>8. AsChar(Max(S)) = Max(S)
  <2> HIDE DEF S
  <2> QED
    BY <1>7, SizeAssumption DEF AsChar
<1>9. QueryCompressed(k, r) = IF ReadsLight(k) THEN GetCounterVal(HeavyQuery(k)) + Max(S)
                                               ELSE HeavyQuery(k)
  BY <1>4, <1>8 DEF QueryCompressed
<1>10. LightQuery(k) = counters[p]
  BY DEF LightQuery
<1>11. /\ GetCounterVal(HeavyQuery(k)) \in Nat /\ HeavyQuery(k) \in 0 .. (Word - 1)
       /\ LightQuery(k) \in 0 .. LightMax
  BY QueryType
<1> HIDE DEF S, p, w, i
<1> QED
  BY <1>6, <1>7, <1>9, <1>10, <1>11, SizeAssumption DEF Query, Word

\* Compression keeps the one-sided error, for every ratio and every number of
\* counters, while every counter fits in a signed char.
THEOREM CompressionOneSided == Spec => []CompressedNeverBelow
<1>1. TypeOK => CompressedNeverBelow
  BY CompressedCovers
<1> QED
  BY <1>1, TypeCorrect, PTL
-----------------------------------------------------------------------------
(* A flow is displaced by the packets of others.                           *)

\* The sums of the measurements are those of SumProofs.
LEMMA SumOfIsSum ==
  ASSUME NEW S, NEW f, DOMAIN f = S
  PROVE  SumOf(f) = Sum(f, S)
BY DEF SumOf, Sum

\* The other flows of k's bucket.
RivalSet(k) == {j \in Flow \ {k} : HeavyHash[j] = HeavyHash[k]}

\* Rivals counts packets, and one insert adds one to it for the flows of the
\* bucket other than the one inserted.
LEMMA RivalsStep ==
  ASSUME TypeOK, NEW j \in Flow, Insert(j), NEW k \in Flow
  PROVE  /\ Rivals(k) \in Nat /\ Rivals(k)' \in Nat
         /\ Rivals(k)' = IF j # k /\ HeavyHash[j] = HeavyHash[k]
                           THEN Rivals(k) + 1 ELSE Rivals(k)
<1> DEFINE R == RivalSet(k)
<1>1. IsFiniteSet(R) /\ R \subseteq Flow
  BY MeasureAssumption, FS_Subset DEF RivalSet
<1> DEFINE f == [x \in R |-> truth[x]]
           e == [x \in R |-> truth'[x]]
<1>2. Rivals(k) = Sum(f, R) /\ Rivals(k)' = Sum(e, R)
  <2>1. Rivals(k) = SumOf(f) /\ Rivals(k)' = SumOf(e)
    BY DEF Rivals, RivalSet
  <2> HIDE DEF R
  <2>2. DOMAIN f = R /\ DOMAIN e = R
    OBVIOUS
  <2> HIDE DEF f, e
  <2> QED
    BY <2>1, <2>2, SumOfIsSum
<1>3. /\ truth \in [Flow -> Nat] /\ truth' \in [Flow -> Nat]
      /\ truth'[j] = truth[j] + 1 /\ \A x \in Flow \ {j} : truth'[x] = truth[x]
  BY DEF TypeOK, Insert
<1>4. f \in [R -> Nat] /\ e \in [R -> Nat]
  BY <1>1, <1>3
<1>5. Sum(f, R) \in Nat /\ Sum(e, R) \in Nat
  BY <1>1, <1>4, SumNat
<1>6. CASE j \in R
  <2>1. \A y \in R \ {j} : e[y] = f[y]
    BY <1>1, <1>3
  <2>2. Sum(e, R) = Sum(f, R) + (e[j] - f[j])
    <3>1. f \in [R -> Int] /\ e \in [R -> Int]
      BY <1>4
    <3> HIDE DEF f, e, R
    <3> QED
      BY <1>1, <1>6, <2>1, <3>1, SumChange
  <2>3. e[j] = f[j] + 1 /\ f[j] \in Nat
    BY <1>1, <1>3, <1>6
  <2>4. j # k /\ HeavyHash[j] = HeavyHash[k]
    BY <1>6 DEF RivalSet
  <2> HIDE DEF f, e, R
  <2> QED
    BY <1>2, <1>5, <2>2, <2>3, <2>4
<1>7. CASE j \notin R
  <2>1. Sum(e, R) = Sum(f, R)
    <3>1. \A x \in R : e[x] = f[x]
      BY <1>1, <1>3, <1>7
    <3> HIDE DEF R, e, f
    <3> QED
      BY <1>1, <3>1, SumSame
  <2>2. ~(j # k /\ HeavyHash[j] = HeavyHash[k])
    BY <1>7 DEF RivalSet
  <2> HIDE DEF f, e, R
  <2> QED
    BY <1>2, <1>5, <2>1, <2>2
<1> QED
  BY <1>6, <1>7

\* A vote against a bucket is a packet of another flow than each of those
\* that have been in the bucket since their first packet.
VotesAreRivals ==
    (InRange /\ pnum * SwapFactor < Word) =>
        \A k \in Flow : (Clean(k) /\ Resident(k)) => guard[HeavyHash[k]] <= Rivals(k)

\* In a bucket with room no vote was held.
LEMMA RoomNoVotes ==
  ASSUME IInv, InRange, pnum * SwapFactor < Word,
         NEW b \in Bucket, NEW s \in Slot, key[b][s] = NoKey
  PROVE  guard[b] = 0
<1>1. pnum < HighBit /\ TypeOK
  BY SizeAssumption DEF IInv, InRange, TypeOK
<1>2. GetCounterVal(val[b][s]) = 0
  BY <1>1, SizeAssumption DEF IInv, CountsInRange, GetCounterVal
<1>3. guard[b] <= SwapFactor * 0
  BY <1>1, <1>2 DEF IInv, GuardBelowThreshold
<1> QED
  BY <1>1, <1>3, SizeAssumption DEF TypeOK, Word

\* A vote that one more packet passes counts that packet.
LEMMA VoteCounts ==
  ASSUME NEW g \in 0 .. (Word - 1)
  PROVE  Add32(g, 1) \in 0 .. (Word - 1) /\ Add32(g, 1) <= g + 1
BY SizeAssumption DEF Add32, Word

\* One insert adds at most one vote, and only for a flow without a slot.
LEMMA VotesStep ==
  ASSUME IInv, VotesAreRivals, NEW j \in Flow, Insert(j)
  PROVE  VotesAreRivals'
<1>1. TypeOK /\ TypeOK' /\ pnum' = pnum + 1 /\ pnum \in Nat
  BY InsertKeepsType DEF IInv, TypeOK, Insert
<1> SUFFICES ASSUME InRange', pnum' * SwapFactor < Word,
                    NEW k \in Flow, Clean(k), Resident(k)'
             PROVE  guard'[HeavyHash[k]] <= Rivals(k)'
  BY DEF VotesAreRivals, Clean
<1>2. InRange /\ pnum * SwapFactor < Word /\ pnum < HighBit /\ pnum + 1 < HighBit
  <2>1. pnum * SwapFactor <= pnum' * SwapFactor
    BY <1>1, SizeAssumption, ProductMonotonic
  <2>2. pnum * SwapFactor \in Int /\ pnum' * SwapFactor \in Int /\ Word \in Int
    BY <1>1, SizeAssumption DEF Word
  <2>3. pnum * SwapFactor < Word
    BY <2>1, <2>2
  <2> QED
    BY <1>1, <2>3, SizeAssumption DEF InRange
<1> DEFINE b == HeavyHash[j]
           c == HeavyHash[k]
<1>3. b \in Bucket /\ c \in Bucket
  BY KeyAssumption, HashAssumption
<1>4. /\ Rivals(k) \in Nat /\ Rivals(k)' \in Nat /\ Rivals(k) <= Rivals(k)'
      /\ (j # k /\ b = c) => Rivals(k)' = Rivals(k) + 1
  BY <1>1, RivalsStep
<1>5. Resident(k) => guard[c] <= Rivals(k)
  BY <1>2 DEF VotesAreRivals
<1>6. guard[c] \in 0 .. (Word - 1) /\ Word \in Nat
  BY <1>1, <1>3, SizeAssumption DEF TypeOK, Word
<1>7. PICK t \in Slot : key'[c][t] = k /\ ~HighestBitIs1(val'[c][t])
  BY DEF Resident, HighestBitIs1
<1>8. CASE InsertMatched(j, PacketLen)
  <2>1. PICK s \in Slot :
           /\ key[b][s] = Cut[j] /\ val'[b][s] = Add32(val[b][s], 1)
           /\ \A d \in Bucket : \A u \in Slot :
                (d # b \/ u # s) => val'[d][u] = val[d][u]
           /\ key' = key /\ guard' = guard
    BY <1>1, <1>8, MatchedEffect
  <2>2. ~HighestBitIs1(val[c][t])
    <3>1. CASE b = c /\ t = s
      <4>1. GetCounterVal(val[b][s]) <= pnum /\ val[b][s] \in 0 .. (Word - 1)
        BY <1>1, <1>2, <1>3, <2>1, CountIsNat, FlowAssumption DEF IInv, CountsInRange
      <4>2. HighestBitIs1(Add32(val[b][s], 1)) <=> HighestBitIs1(val[b][s])
        BY <1>1, <1>2, <4>1, CountGrows
      <4> QED
        BY <1>7, <2>1, <3>1, <4>2
    <3>2. CASE ~(b = c /\ t = s)
      BY <1>3, <1>7, <2>1, <3>2
    <3> QED
      BY <3>1, <3>2
  <2>3. Resident(k)
    BY <1>7, <2>1, <2>2 DEF Resident
  <2> QED
    BY <1>4, <1>5, <1>6, <2>1, <2>3
<1>9. CASE InsertEmpty(j, PacketLen)
  <2>1. PICK s \in Slot :
           /\ key[b][s] = NoKey
           /\ \A d \in Bucket : \A u \in Slot :
                (d # b \/ u # s) => key'[d][u] = key[d][u] /\ val'[d][u] = val[d][u]
           /\ guard' = guard
    BY <1>1, <1>9, EmptyEffect
  <2>2. CASE b = c
    BY <1>2, <1>3, <1>4, <2>1, <2>2, RoomNoVotes
  <2>3. CASE b # c
    <3>1. Resident(k)
      BY <1>3, <1>7, <2>1, <2>3 DEF Resident
    <3> QED
      BY <1>4, <1>5, <1>6, <2>1, <3>1
  <2> QED
    BY <2>2, <2>3
<1>10. CASE InsertVote(j, PacketLen)
  <2>1. /\ \A u \in Slot : key[b][u] # Cut[j]
        /\ key' = key /\ val' = val
        /\ guard' = [guard EXCEPT ![b] = Add32(guard[b], 1)]
    BY <1>1, <1>10, VoteEffect
  <2>2. Resident(k)
    BY <1>7, <2>1 DEF Resident
  <2>3. CASE b = c
    <3>1. j # k
      BY <1>7, <2>1, <2>3 DEF Clean
    <3>2. guard'[c] = Add32(guard[c], 1)
      BY <1>1, <1>3, <2>1, <2>3 DEF TypeOK
    <3>3. guard'[c] <= guard[c] + 1 /\ guard'[c] \in 0 .. (Word - 1)
      BY <1>6, <3>2, VoteCounts
    <3> QED
      BY <1>4, <1>5, <1>6, <2>2, <2>3, <3>1, <3>3
  <2>4. CASE b # c
    <3>1. guard'[c] = guard[c]
      BY <1>1, <1>3, <2>1, <2>4 DEF TypeOK
    <3> QED
      BY <1>4, <1>5, <1>6, <2>2, <3>1
  <2> QED
    BY <2>3, <2>4
<1>11. CASE InsertSwap(j, PacketLen)
  <2>1. PICK s \in Slot :
           /\ \A d \in Bucket : \A u \in Slot :
                (d # b \/ u # s) => key'[d][u] = key[d][u] /\ val'[d][u] = val[d][u]
           /\ guard' = [guard EXCEPT ![b] = 0]
    BY <1>1, <1>11, SwapEffect
  <2>2. CASE b = c
    <3>1. guard'[c] = 0
      BY <1>1, <1>3, <2>1, <2>2 DEF TypeOK
    <3> QED
      BY <1>4, <3>1
  <2>3. CASE b # c
    <3>1. Resident(k) /\ guard'[c] = guard[c]
      BY <1>1, <1>3, <1>7, <2>1, <2>3 DEF Resident, TypeOK
    <3> QED
      BY <1>4, <1>5, <1>6, <3>1
  <2> QED
    BY <2>2, <2>3
<1> QED
  BY <1>8, <1>9, <1>10, <1>11 DEF Insert

\* A slot is taken away when the votes exceed SwapFactor times its count,
\* which is at least the number of packets of the flow that loses it.
LEMMA EvictionStep ==
  ASSUME IInv, VotesAreRivals, NEW j \in Flow, Insert(j), InRange,
         pnum * SwapFactor < Word, NEW k \in Flow, Clean(k), Resident(k), ~Resident(k)'
  PROVE  Rivals(k)' > SwapFactor * truth[k]
<1> DEFINE b == HeavyHash[j]
           c == HeavyHash[k]
<1>1. b \in Bucket /\ c \in Bucket /\ k # NoKey
  BY KeyAssumption, HashAssumption, FlowAssumption DEF Clean
<1>2. TypeOK /\ pnum < HighBit /\ pnum \in Nat
  BY SizeAssumption DEF IInv, InRange, TypeOK
<1>3. PICK t \in Slot : key[c][t] = k /\ ~HighestBitIs1(val[c][t])
  BY DEF Resident
<1>4. CountsInRange /\ CoveredInHeavy
  BY <1>2 DEF IInv
<1>5. val[c][t] >= truth[k] /\ GetCounterVal(val[c][t]) = val[c][t]
  BY <1>3, <1>4 DEF CoveredInHeavy, HighestBitIs1, GetCounterVal
<1>6. val[c][t] \in 1 .. pnum
  BY <1>1, <1>3, <1>4, <1>5 DEF CountsInRange
<1>7. CASE key' = key /\ (val' = val \/ InsertMatched(j, PacketLen))
  <2>1. CASE val' = val
    BY <1>3, <1>7, <2>1 DEF Resident
  <2>2. CASE InsertMatched(j, PacketLen)
    <3>1. PICK s \in Slot :
             /\ val'[b][s] = Add32(val[b][s], 1)
             /\ \A d \in Bucket : \A u \in Slot :
                  (d # b \/ u # s) => val'[d][u] = val[d][u]
      BY <1>2, <2>2, MatchedEffect
    <3>2. HighestBitIs1(val'[c][t])
      BY <1>3, <1>7 DEF Resident
    <3>3. val'[c][t] = Add32(val[c][t], 1)
      BY <1>1, <1>3, <3>1, <3>2
    <3> QED
      BY <1>2, <1>6, <3>2, <3>3, SizeAssumption DEF Add32, HighestBitIs1, InRange, Word
  <2> QED
    BY <1>7, <2>1, <2>2
<1>8. CASE InsertEmpty(j, PacketLen)
  <2>1. PICK s \in Slot :
           /\ key[b][s] = NoKey
           /\ \A d \in Bucket : \A u \in Slot :
                (d # b \/ u # s) => key'[d][u] = key[d][u] /\ val'[d][u] = val[d][u]
    BY <1>2, <1>8, EmptyEffect
  <2>2. key'[c][t] = k /\ val'[c][t] = val[c][t]
    BY <1>1, <1>3, <2>1
  <2> QED
    BY <1>3, <2>2 DEF Resident
<1>9. CASE InsertSwap(j, PacketLen)
  <2> DEFINE s == MinCounter(b)
             g == Add32(guard[b], 1)
  <2>1. /\ Matching(b, j) = {} /\ JudgeIfSwap(MinCount(b), g)
        /\ key' = [key EXCEPT ![b][s] = Cut[j]]
        /\ val' = [val EXCEPT ![b][s] = HighBit + 1]
    BY <1>9 DEF InsertSwap, Contested
  <2>2. b = c /\ t = s
    <3> SUFFICES ASSUME ~(b = c /\ t = s) PROVE FALSE
      OBVIOUS
    <3>1. key'[c][t] = key[c][t] /\ val'[c][t] = val[c][t]
      BY <1>1, <1>2, <2>1 DEF TypeOK
    <3> QED
      BY <1>3, <3>1 DEF Resident
  <2>3. MinCount(b) = val[c][t]
    BY <1>5, <2>2 DEF MinCount
  <2>4. j # k
    BY <1>3, <2>1, <2>2 DEF Matching, Clean
  <2>5. Rivals(k)' = Rivals(k) + 1 /\ Rivals(k) \in Nat
    BY <1>2, <2>2, <2>4, RivalsStep
  <2>6. guard[b] <= Rivals(k) /\ guard[b] \in 0 .. (Word - 1) /\ Word \in Nat
    BY <1>1, <1>2, <2>2, SizeAssumption DEF VotesAreRivals, TypeOK, Word
  <2>7. g <= guard[b] + 1 /\ g \in 0 .. (Word - 1)
    BY <2>6, VoteCounts
  <2> HIDE DEF s, g, b, c
  <2>8. PICK v \in Nat : v = val[c][t] /\ v <= pnum /\ truth[k] <= v
    BY <1>2, <1>5, <1>6
  <2>9. v * SwapFactor <= pnum * SwapFactor /\ SwapFactor * truth[k] <= SwapFactor * v
    <3>1. truth[k] \in Nat /\ SwapFactor \in Nat
      BY <1>2, SizeAssumption DEF TypeOK
    <3>2. SwapFactor * truth[k] <= SwapFactor * v
      BY <2>8, <3>1, ProductMonotonic
    <3>3. /\ SwapFactor * v <= SwapFactor * pnum
          /\ v * SwapFactor = SwapFactor * v /\ pnum * SwapFactor = SwapFactor * pnum
      BY <1>2, <2>8, <3>1, ProductMonotonic
    <3> QED
      BY <3>2, <3>3
  <2>10. /\ v * SwapFactor \in Nat /\ pnum * SwapFactor \in Nat
         /\ SwapFactor * truth[k] \in Nat /\ SwapFactor * v = v * SwapFactor
    <3>1. truth[k] \in Nat /\ SwapFactor \in Nat
      BY <1>2, SizeAssumption DEF TypeOK
    <3>2. \A a, f \in Nat : a * f \in Nat /\ a * f = f * a
      OBVIOUS
    <3> QED
      BY <1>2, <2>8, <3>1, <3>2
  <2>11. v * SwapFactor < Word
    BY <2>6, <2>9, <2>10
  <2>12. (v * SwapFactor) % Word = v * SwapFactor
    BY <2>6, <2>10, <2>11, ModSmall
  <2>13. g > v * SwapFactor
    BY <2>1, <2>3, <2>8, <2>12 DEF JudgeIfSwap
  <2> QED
    BY <2>5, <2>6, <2>7, <2>9, <2>10, <2>13
<1> QED
  BY <1>2, <1>7, <1>8, <1>9, MatchedEffect, VoteEffect DEF Insert

\* Without packets there is no resident.
LEMMA InitVotes == Init => VotesAreRivals
BY KeyAssumption, HashAssumption, FlowAssumption DEF Init, VotesAreRivals, Clean, Resident

\* A flow in the heavy part since its first packet is evicted only after the
\* other flows of its bucket have sent more than SwapFactor times its packets.
THEOREM LargeFlowsStay == Spec => EvictionNeedsRivals
<1>1. Init => IInv /\ VotesAreRivals
  BY InitIInv, InitVotes
<1>2. IInv /\ VotesAreRivals /\ [Next]_vars => (IInv /\ VotesAreRivals)'
  <2> SUFFICES ASSUME IInv, VotesAreRivals, [Next]_vars PROVE IInv' /\ VotesAreRivals'
    OBVIOUS
  <2>1. IInv'
    BY StepIInv
  <2>2. CASE Next
    BY <2>1, <2>2, VotesStep DEF Next
  <2>3. CASE UNCHANGED vars
    <3>1. UNCHANGED <<key, val, guard, truth, pnum>>
      BY <2>3 DEF vars
    <3>2. \A k \in Flow : Rivals(k)' = Rivals(k)
      BY <3>1 DEF Rivals
    <3>3. /\ InRange' <=> InRange
          /\ \A k \in Flow : Resident(k)' => Resident(k)
      BY <3>1 DEF InRange, Resident
    <3> SUFFICES ASSUME InRange', pnum' * SwapFactor < Word,
                        NEW k \in Flow, Clean(k), Resident(k)'
                 PROVE  guard'[HeavyHash[k]] <= Rivals(k)'
      BY <2>1 DEF VotesAreRivals, Clean
    <3>4. InRange /\ pnum * SwapFactor < Word /\ Resident(k) /\ Rivals(k)' = Rivals(k)
      BY <3>1, <3>2, <3>3
    <3>5. guard[HeavyHash[k]] <= Rivals(k)
      BY <3>4 DEF VotesAreRivals
    <3> QED
      BY <3>1, <3>4, <3>5
  <2> QED
    BY <2>1, <2>2, <2>3
<1> DEFINE Kept == \A k \in Flow :
                     (/\ InRange
                      /\ pnum * SwapFactor < Word
                      /\ Clean(k)
                      /\ Resident(k)
                      /\ ~Resident(k)') => Rivals(k)' > SwapFactor * truth[k]
<1>3. IInv /\ VotesAreRivals /\ [Next]_vars => [Kept]_vars
  <2> SUFFICES ASSUME IInv, VotesAreRivals, Next PROVE Kept
    OBVIOUS
  <2> QED
    BY EvictionStep DEF Next
<1> QED
  BY <1>1, <1>2, <1>3, PTL DEF Spec, EvictionNeedsRivals

-----------------------------------------------------------------------------
(* A flow in both parts is counted once.                                   *)

\* Every stored key was kept of a flow that has sent, in that flow's bucket.
StoredKeysSeen ==
    \A b \in Bucket : \A s \in Slot :
        key[b][s] # NoKey => \E j \in Seen : HeavyHash[j] = b /\ key[b][s] = Cut[j]

\* Only flows that have sent use a light counter.
UsedCountersSeen ==
    \A p \in Counter :
        counters[p] # 0 => \E j \in Seen : p \in {LightHash[j], LightHash[Cut[j]]}

\* mice_dist adds up to what the light counters do, and to the number of those
\* in use: entry 0 counts them negatively.
MiceAreCounters ==
    /\ SumOf([v \in 1 .. LightMax |-> miceDist[v] * v]) = SumOf(counters)
    /\ MiceCard + miceDist[0] = 0

\* A slot without the flag holds all packets of its flow.
UnflaggedNotInLight ==
    \A b \in Bucket : \A s \in Slot :
        (key[b][s] # NoKey /\ ~HighestBitIs1(val[b][s])) => LightQuery(key[b][s]) = 0

HeavyTotal == SumOf([h \in HeavySlot |-> GetCounterVal(StoredVal(h))])

\* Every packet is in one part.
PacketsKept == SumOf(counters) + HeavyTotal = pnum

\* The inductive invariant behind CountedOnce, on top of IInv and ExactInv.
CountInv ==
    /\ StoredKeysSeen
    /\ UsedCountersSeen
    /\ MiceAreCounters
    /\ (InRange /\ NoCollision) => UnflaggedNotInLight
    /\ (InRange /\ NoCollision /\ NoneSaturated) => PacketsKept

\* A histogram weighed by the values it counts, those of weight 0 left out.
Weighed(d, w) == SumOf([v \in 1 .. LightMax |-> d[v] * w[v]])

\* Histogram e is d with n more of x.
Raised(d, e, x, n) ==
    /\ d \in [0 .. LightMax -> Int] /\ e \in [0 .. LightMax -> Int]
    /\ e[x] = d[x] + n
    /\ \A v \in (0 .. LightMax) \ {x} : e[v] = d[v]

\* A weight for every value.
Weight == {w \in [0 .. LightMax -> Int] : w[0] = 0}

\* Raising one entry of the histogram adds its weight.
LEMMA WeighedChange ==
  ASSUME NEW d, NEW e, NEW x \in 0 .. LightMax, NEW n \in Int, Raised(d, e, x, n),
         NEW w \in Weight
  PROVE  /\ Weighed(d, w) \in Int
         /\ Weighed(e, w) = Weighed(d, w) + n * w[x]
<1> DEFINE S == 1 .. LightMax
           f == [v \in S |-> d[v] * w[v]]
           g == [v \in S |-> e[v] * w[v]]
<1>0. IsFiniteSet(S)
  <2>1. 1 \in Int /\ LightMax \in Int
    BY SizeAssumption
  <2> QED
    BY <2>1, FS_Interval
<1>1. /\ \A v \in S : v \in 0 .. LightMax
      /\ \A v \in 0 .. LightMax : v # 0 => v \in S
  BY SizeAssumption
<1>2. /\ d \in [0 .. LightMax -> Int] /\ e \in [0 .. LightMax -> Int]
      /\ e[x] = d[x] + n /\ w \in [0 .. LightMax -> Int] /\ w[0] = 0
      /\ \A v \in 0 .. LightMax : v # x => e[v] = d[v]
  BY DEF Raised, Weight
<1>3. \A a, b, c \in Int : a * c \in Int /\ (a + b) * c = a * c + b * c
  OBVIOUS
<1>4. f \in [S -> Int] /\ g \in [S -> Int]
  BY <1>1, <1>2, <1>3
<1>5. Weighed(d, w) = Sum(f, S) /\ Weighed(e, w) = Sum(g, S)
  <2>1. Weighed(d, w) = SumOf(f) /\ Weighed(e, w) = SumOf(g)
    BY DEF Weighed
  <2>2. DOMAIN f = S /\ DOMAIN g = S
    OBVIOUS
  <2> HIDE DEF f, g, S
  <2> QED
    BY <2>1, <2>2, SumOfIsSum
<1>6. Sum(f, S) \in Int
  BY <1>0, <1>4, SumType
<1>7. CASE x = 0
  <2>1. \A v \in S : g[v] = f[v]
    BY <1>1, <1>2, <1>7
  <2>2. Sum(g, S) = Sum(f, S)
    <3> HIDE DEF f, g, S
    <3> QED
      BY <1>0, <2>1, SumSame
  <2>3. n * w[x] = 0
    BY <1>2, <1>7
  <2> HIDE DEF f, g, S
  <2> QED
    BY <1>2, <1>5, <1>6, <2>2, <2>3
<1>8. CASE x # 0
  <2>1. x \in S /\ \A v \in S \ {x} : g[v] = f[v]
    BY <1>1, <1>2, <1>8
  <2>2. g[x] = f[x] + n * w[x] /\ f[x] \in Int /\ n * w[x] \in Int
    <3>1. w[x] \in Int /\ d[x] \in Int
      BY <1>2
    <3>2. g[x] = (d[x] + n) * w[x] /\ f[x] = d[x] * w[x]
      BY <1>2, <2>1
    <3> HIDE DEF f, g
    <3> QED
      BY <1>3, <3>1, <3>2
  <2> HIDE DEF f, g, S
  <2>3. Sum(g, S) = Sum(f, S) + (g[x] - f[x])
    <3>1. f \in [S -> Int] /\ g \in [S -> Int] /\ IsFiniteSet(S)
      BY <1>0, <1>4
    <3>2. x \in S
      BY <2>1
    <3>3. \A y \in S \ {x} : g[y] = f[y]
      BY <2>1
    <3> QED
      BY <3>1, <3>2, <3>3, SumChange, ZenonT(30)
  <2> QED
    BY <1>2, <1>5, <1>6, <2>2, <2>3
<1> QED
  BY <1>7, <1>8

\* When one light counter changes, the sum changes with it.
LEMMA CounterSumChange ==
  ASSUME TypeOK, TypeOK', NEW p \in Counter, \A q \in Counter \ {p} : counters'[q] = counters[q]
  PROVE  /\ SumOf(counters) \in Int
         /\ SumOf(counters)' = SumOf(counters) + (counters'[p] - counters[p])
<1>1. counters \in [Counter -> Int] /\ counters' \in [Counter -> Int]
  BY SizeAssumption DEF TypeOK
<1>2. SumOf(counters) = Sum(counters, Counter) /\ SumOf(counters') = Sum(counters', Counter)
  BY <1>1, SumOfIsSum
<1>3. SumOf(counters)' = SumOf(counters')
  OBVIOUS
<1>4. Sum(counters, Counter) \in Int
  BY <1>1, CountersFinite, SumType
<1>5. Sum(counters', Counter) = Sum(counters, Counter) + (counters'[p] - counters[p])
  BY <1>1, CountersFinite, SumChange
<1> QED
  BY <1>2, <1>3, <1>4, <1>5

\* Storing a counter keeps mice_dist adding up to the counters.
LEMMA StoreSums ==
  ASSUME TypeOK, TypeOK', MiceAreCounters, NEW p \in Counter, NEW new \in 0 .. LightMax,
         StoreCounter(p, new)
  PROVE  MiceAreCounters'
<1> DEFINE old == counters[p]
           less == [miceDist EXCEPT ![old] = @ - 1]
           values == [v \in 0 .. LightMax |-> v]
           ones == [v \in 0 .. LightMax |-> IF v = 0 THEN 0 ELSE 1]
<1>1. miceDist \in [0 .. LightMax -> Int] /\ old \in 0 .. LightMax /\ 0 \in 0 .. LightMax
  BY SizeAssumption DEF TypeOK
<1>2. Raised(miceDist, less, old, -1)
  BY <1>1 DEF Raised
<1>3. Raised(less, miceDist', new, 1)
  <2>1. miceDist' = [less EXCEPT ![new] = less[new] + 1]
    BY DEF StoreCounter
  <2>2. less \in [0 .. LightMax -> Int]
    BY <1>1
  <2> HIDE DEF less
  <2> QED
    BY <2>1, <2>2 DEF Raised
<1>4. counters'[p] = new /\ \A q \in Counter \ {p} : counters'[q] = counters[q]
  BY StoreEffect
<1>5. ASSUME NEW w \in Weight
      PROVE  /\ Weighed(miceDist, w) \in Int
             /\ Weighed(miceDist', w) = Weighed(miceDist, w) - w[old] + w[new]
  <2> HIDE DEF less, old, values, ones
  <2>1. /\ Weighed(miceDist, w) \in Int
        /\ Weighed(less, w) = Weighed(miceDist, w) + (-1) * w[old]
    <3>1. -1 \in Int
      OBVIOUS
    <3> QED
      BY <1>1, <1>2, <3>1, WeighedChange, ZenonT(30)
  <2>2. Weighed(miceDist', w) = Weighed(less, w) + 1 * w[new]
    <3>1. 1 \in Int
      OBVIOUS
    <3> QED
      BY <1>3, <3>1, WeighedChange
  <2>3. w[old] \in Int /\ w[new] \in Int
    BY <1>1 DEF Weight
  <2> QED
    BY <2>1, <2>2, <2>3
<1>6. values \in Weight /\ ones \in Weight
  BY <1>1 DEF Weight
<1>7. ASSUME NEW d \in [0 .. LightMax -> Int]
      PROVE  /\ [v \in 1 .. LightMax |-> d[v] * v] = [v \in 1 .. LightMax |-> d[v] * values[v]]
             /\ [v \in 1 .. LightMax |-> d[v]] = [v \in 1 .. LightMax |-> d[v] * ones[v]]
  <2>1. \A v \in 1 .. LightMax : v \in 0 .. LightMax /\ v # 0 /\ d[v] \in Int
    BY SizeAssumption
  <2>2. \A v \in 1 .. LightMax : d[v] * v = d[v] * values[v] /\ d[v] = d[v] * ones[v]
    BY <2>1
  <2> QED
    BY <2>2
<1> HIDE DEF values, ones
<1>8. /\ SumOf([v \in 1 .. LightMax |-> miceDist[v] * v]) = Weighed(miceDist, values)
      /\ SumOf([v \in 1 .. LightMax |-> miceDist[v] * v])' = Weighed(miceDist', values)
      /\ MiceCard = Weighed(miceDist, ones)
      /\ MiceCard' = Weighed(miceDist', ones)
  <2>1. SumOf([v \in 1 .. LightMax |-> miceDist[v] * v])'
          = SumOf([v \in 1 .. LightMax |-> miceDist'[v] * v])
    OBVIOUS
  <2>2. MiceCard' = SumOf([v \in 1 .. LightMax |-> miceDist'[v]])
    BY DEF MiceCard
  <2>3. /\ SumOf([v \in 1 .. LightMax |-> miceDist[v] * v]) = Weighed(miceDist, values)
        /\ MiceCard = Weighed(miceDist, ones)
    BY <1>1, <1>7 DEF Weighed, MiceCard
  <2>4. /\ SumOf([v \in 1 .. LightMax |-> miceDist'[v] * v]) = Weighed(miceDist', values)
        /\ SumOf([v \in 1 .. LightMax |-> miceDist'[v]]) = Weighed(miceDist', ones)
    BY <1>3, <1>7 DEF Weighed, Raised
  <2> QED
    BY <2>1, <2>2, <2>3, <2>4
<1>9. /\ SumOf(counters) \in Int
      /\ SumOf(counters)' = SumOf(counters) + (new - old)
  BY <1>4, CounterSumChange
<1>10. SumOf([v \in 1 .. LightMax |-> miceDist[v] * v])' = SumOf(counters)'
  <2>1. values[old] = old /\ values[new] = new /\ old \in Int /\ new \in Int
    BY <1>1 DEF values
  <2>2. Weighed(miceDist, values) = SumOf(counters)
    BY <1>8 DEF MiceAreCounters
  <2>3. Weighed(miceDist', values) = Weighed(miceDist, values) - values[old] + values[new]
    BY <1>5, <1>6
  <2> HIDE DEF old
  <2> QED
    BY <1>8, <1>9, <2>1, <2>2, <2>3
<1>11. MiceCard' + miceDist'[0] = 0
  <2>1. /\ Weighed(miceDist, ones) + miceDist[0] = 0
        /\ Weighed(miceDist, ones) \in Int /\ miceDist[0] \in Int
    BY <1>1, <1>5, <1>6, <1>8 DEF MiceAreCounters
  <2>2. Weighed(miceDist', ones) = Weighed(miceDist, ones) - ones[old] + ones[new]
    BY <1>5, <1>6
  <2>3. ones[old] = (IF old = 0 THEN 0 ELSE 1) /\ ones[new] = (IF new = 0 THEN 0 ELSE 1)
    BY <1>1 DEF ones
  <2>4. miceDist'[0] = miceDist[0] - (IF old = 0 THEN 1 ELSE 0) + (IF new = 0 THEN 1 ELSE 0)
    <3>1. less[0] = miceDist[0] - (IF old = 0 THEN 1 ELSE 0)
      BY <1>1
    <3>2. miceDist'[0] = less[0] + (IF new = 0 THEN 1 ELSE 0)
      <4> HIDE DEF less
      <4> QED
        BY <1>1, <1>3 DEF Raised
    <3> QED
      BY <3>1, <3>2
  <2> HIDE DEF old
  <2> QED
    BY <1>8, <2>1, <2>2, <2>3, <2>4
<1> QED
  BY <1>10, <1>11 DEF MiceAreCounters

\* One insert stores at most one light counter.
LEMMA LightStores ==
  ASSUME TypeOK, NEW k \in Flow, Insert(k)
  PROVE  \/ counters' = counters /\ miceDist' = miceDist
         \/ \E p \in Counter : \E new \in 0 .. LightMax : StoreCounter(p, new)
<1>1. k \in Key /\ HeavyHash[k] \in Bucket
  BY KeyAssumption, HashAssumption
<1>2. ASSUME NEW j \in Key, NEW f \in Nat, LightInsert(j, f) \/ LightSwapInsert(j, f)
      PROVE  \/ counters' = counters /\ miceDist' = miceDist
             \/ \E p \in Counter : \E new \in 0 .. LightMax : StoreCounter(p, new)
  <2>1. LightHash[j] \in Counter
    BY HashAssumption
  <2>2. counters[LightHash[j]] \in 0 .. LightMax
    BY <2>1 DEF TypeOK
  <2>3. /\ AtMost(counters[LightHash[j]] + f, LightMax) \in 0 .. LightMax
        /\ AtMost(f, LightMax) \in 0 .. LightMax
    BY <2>2, SizeAssumption DEF AtMost
  <2>4. CASE LightInsert(j, f)
    BY <2>1, <2>3, <2>4 DEF LightInsert
  <2>5. CASE LightSwapInsert(j, f)
    BY <2>1, <2>3, <2>5 DEF LightSwapInsert, light
  <2> QED
    BY <1>2, <2>4, <2>5
<1>3. CASE InsertMatched(k, PacketLen)
  BY <1>3, MatchedEffect
<1>4. CASE InsertEmpty(k, PacketLen)
  BY <1>4, EmptyEffect
<1>5. CASE InsertVote(k, PacketLen)
  <2>1. LightInsert(k, 1) /\ 1 \in Nat
    BY <1>5 DEF InsertVote
  <2> QED
    BY <1>1, <1>2, <2>1
<1>6. CASE InsertSwap(k, PacketLen)
  <2>1. PICK s \in Slot : Demote(key[HeavyHash[k]][s], val[HeavyHash[k]][s])
    BY <1>6, SwapEffect
  <2> DEFINE x == key[HeavyHash[k]][s]
             v == val[HeavyHash[k]][s]
  <2>2. x \in Key /\ v \in Nat /\ GetCounterVal(v) \in Nat
    BY <1>1, SizeAssumption DEF TypeOK, GetCounterVal, Word
  <2>3. LightInsert(x, GetCounterVal(v)) \/ LightSwapInsert(x, v)
    BY <2>1 DEF Demote
  <2> HIDE DEF x, v
  <2> QED
    BY <1>2, <2>2, <2>3
<1> QED
  BY <1>3, <1>4, <1>5, <1>6 DEF Insert

\* mice_dist keeps adding up to the counters.
LEMMA MiceAreCountersStep ==
  ASSUME TypeOK, MiceAreCounters, NEW k \in Flow, Insert(k)
  PROVE  MiceAreCounters'
<1>1. TypeOK'
  BY InsertKeepsType
<1>2. CASE counters' = counters /\ miceDist' = miceDist
  BY <1>2 DEF MiceAreCounters, MiceCard
<1>3. CASE \E p \in Counter : \E new \in 0 .. LightMax : StoreCounter(p, new)
  BY <1>1, <1>3, StoreSums
<1> QED
  BY <1>2, <1>3, LightStores

\* The flow inserted has been seen; flows that do not collide did not before.
LEMMA SeenGrows ==
  ASSUME TypeOK, NEW k \in Flow, Insert(k)
  PROVE  /\ Seen' = Seen \cup {k}
         /\ NoCollision' => /\ NoCollision /\ Clean(k)
                            /\ \A j \in Seen : j # k => LightHash[j] # LightHash[k]
<1>1. \A j \in Flow : /\ truth[j] \in Nat
                      /\ truth'[j] = IF j = k THEN truth[j] + 1 ELSE truth[j]
  BY DEF TypeOK, Insert
<1>2. Seen' = {j \in Flow : truth'[j] > 0}
  BY DEF Seen
<1>3. Seen' = Seen \cup {k}
  BY <1>1, <1>2 DEF Seen
<1> QED
  BY <1>3 DEF NoCollision, Clean

\* What is stored is what strncpy kept of flows that have sent.
LEMMA StoredKeysSeenStep ==
  ASSUME TypeOK, StoredKeysSeen, NEW k \in Flow, Insert(k)
  PROVE  StoredKeysSeen'
<1>1. HeavyHash[k] \in Bucket
  BY KeyAssumption, HashAssumption
<1>2. Seen' = Seen \cup {k}
  BY SeenGrows
<1>3. CASE InsertMatched(k, PacketLen)
  BY <1>2, <1>3, MatchedEffect DEF StoredKeysSeen
<1>4. CASE InsertEmpty(k, PacketLen)
  BY <1>1, <1>2, <1>4, EmptyEffect DEF StoredKeysSeen
<1>5. CASE InsertVote(k, PacketLen)
  BY <1>2, <1>5, VoteEffect DEF StoredKeysSeen
<1>6. CASE InsertSwap(k, PacketLen)
  BY <1>1, <1>2, <1>6, SwapEffect DEF StoredKeysSeen
<1> QED
  BY <1>3, <1>4, <1>5, <1>6 DEF Insert

\* A light counter is used for the flow that sends or for the one evicted.
LEMMA UsedCountersSeenStep ==
  ASSUME TypeOK, StoredKeysSeen, UsedCountersSeen, NEW k \in Flow, Insert(k)
  PROVE  UsedCountersSeen'
<1>1. k \in Key /\ HeavyHash[k] \in Bucket
  BY KeyAssumption, HashAssumption
<1>2. Seen' = Seen \cup {k}
  BY SeenGrows
<1>3. CASE InsertMatched(k, PacketLen) \/ InsertEmpty(k, PacketLen)
  <2>1. counters' = counters
    BY <1>3, MatchedEffect, EmptyEffect
  <2> QED
    BY <1>2, <2>1 DEF UsedCountersSeen
<1>4. CASE InsertVote(k, PacketLen)
  <2>1. LightInsert(k, 1) /\ 1 \in Nat
    BY <1>4 DEF InsertVote
  <2>2. \A p \in Counter \ {LightHash[k]} : counters'[p] = counters[p]
    BY <1>1, <2>1, LightInsertExact
  <2> QED
    BY <1>2, <2>2 DEF UsedCountersSeen
<1>5. CASE InsertSwap(k, PacketLen)
  <2>1. PICK s \in Slot : /\ key[HeavyHash[k]][s] # NoKey
                          /\ Demote(key[HeavyHash[k]][s], val[HeavyHash[k]][s])
    BY <1>5, SwapEffect
  <2> DEFINE x == key[HeavyHash[k]][s]
             v == val[HeavyHash[k]][s]
  <2>2. x \in Key /\ v \in 0 .. (Word - 1)
    BY <1>1 DEF TypeOK
  <2>3. \A p \in Counter \ {LightHash[x]} : counters'[p] = counters[p]
    BY <2>1, <2>2, DemoteExact
  <2>4. \E j \in Seen : x = Cut[j]
    BY <1>1, <2>1 DEF StoredKeysSeen
  <2> HIDE DEF x
  <2> QED
    BY <1>2, <2>3, <2>4 DEF UsedCountersSeen
<1> QED
  BY <1>3, <1>4, <1>5 DEF Insert

\* Without collisions a used slot holds the key of a flow that has sent, and
\* no other slot holds one with the same light counter.
LEMMA SlotsApart ==
  ASSUME StoredKeysSeen, NoCollision, SlotsDistinct,
         NEW b \in Bucket, NEW s \in Slot, key[b][s] # NoKey
  PROVE  /\ key[b][s] \in Seen /\ HeavyHash[key[b][s]] = b
         /\ \A c \in Bucket : \A t \in Slot :
              (key[c][t] # NoKey /\ (c # b \/ t # s)) =>
                 /\ key[c][t] # key[b][s]
                 /\ LightHash[key[c][t]] # LightHash[key[b][s]]
<1>1. \A c \in Bucket : \A t \in Slot :
        key[c][t] # NoKey => key[c][t] \in Seen /\ HeavyHash[key[c][t]] = c
  BY DEF StoredKeysSeen, NoCollision, Clean
<1>2. \A c \in Bucket : \A t \in Slot :
        (key[c][t] # NoKey /\ (c # b \/ t # s)) => key[c][t] # key[b][s]
  BY <1>1 DEF SlotsDistinct
<1> QED
  BY <1>1, <1>2 DEF NoCollision

\* A slot without the flag keeps having nothing in the light part: a newcomer
\* starts without the flag only if it had sent nothing.
LEMMA UnflaggedStep ==
  ASSUME IInv, CountInv, pnum + 1 + LightMax < HighBit, NoCollision',
         NEW k \in Flow, Insert(k)
  PROVE  UnflaggedNotInLight'
<1>1. /\ TypeOK /\ SlotsDistinct /\ FreshWhileRoom /\ StoredKeysSeen /\ UsedCountersSeen
      /\ pnum \in Nat /\ LightMax \in Nat \ {0} /\ HighBit \in Nat
  BY SizeAssumption DEF IInv, CountInv, TypeOK
<1>2. pnum + 1 < HighBit /\ pnum < HighBit /\ InRange
  BY <1>1 DEF InRange
<1>3. /\ NoCollision /\ Cut[k] = k
      /\ \A j \in Seen : j # k => LightHash[j] # LightHash[k]
  BY <1>1, SeenGrows DEF Clean
<1>4. CountsInRange /\ UnflaggedNotInLight
  BY <1>2, <1>3 DEF IInv, CountInv
<1> DEFINE b == HeavyHash[k]
<1>5. b \in Bucket /\ k \in Key /\ LightHash[k] \in Counter /\ k # NoKey
  BY <1>3, KeyAssumption, HashAssumption, FlowAssumption
<1>6. TypeOK'
  BY <1>1, InsertKeepsType
<1> SUFFICES ASSUME NEW c \in Bucket, NEW t \in Slot,
                    key'[c][t] # NoKey, ~HighestBitIs1(val'[c][t])
             PROVE  counters'[LightHash[key'[c][t]]] = 0
  BY DEF UnflaggedNotInLight, LightQuery, HighestBitIs1
<1> DEFINE Before == /\ key'[c][t] = key[c][t]
                     /\ ~HighestBitIs1(val[c][t])
<1>7. Before => counters[LightHash[key'[c][t]]] = 0
  BY <1>4 DEF UnflaggedNotInLight, LightQuery
<1>8. CASE InsertMatched(k, PacketLen)
  <2>1. PICK s \in Slot :
           /\ key[b][s] = Cut[k]
           /\ val'[b][s] = Add32(val[b][s], 1)
           /\ \A d \in Bucket : \A u \in Slot :
                (d # b \/ u # s) => val'[d][u] = val[d][u]
           /\ key' = key /\ counters' = counters
    BY <1>1, <1>8, MatchedEffect
  <2>2. ~HighestBitIs1(val[c][t])
    <3>1. CASE c = b /\ t = s
      <4>1. val[b][s] \in 0 .. (Word - 1) /\ GetCounterVal(val[b][s]) <= pnum
        BY <1>1, <1>3, <1>4, <1>5, <2>1, CountIsNat DEF CountsInRange
      <4>2. HighestBitIs1(Add32(val[b][s], 1)) <=> HighestBitIs1(val[b][s])
        BY <1>1, <1>2, <4>1, CountGrows
      <4> QED
        BY <2>1, <3>1, <4>2
    <3>2. CASE ~(c = b /\ t = s)
      BY <2>1, <3>2
    <3> QED
      BY <3>1, <3>2
  <2> QED
    BY <1>7, <2>1, <2>2
<1>9. CASE InsertEmpty(k, PacketLen)
  <2>1. PICK s \in Slot :
           /\ key[b][s] = NoKey
           /\ \A u \in Slot : key[b][u] # Cut[k]
           /\ key'[b][s] = Cut[k]
           /\ \A d \in Bucket : \A u \in Slot :
                (d # b \/ u # s) => key'[d][u] = key[d][u] /\ val'[d][u] = val[d][u]
           /\ counters' = counters
    BY <1>1, <1>9, EmptyEffect
  <2>2. CASE c = b /\ t = s
    <3>1. truth[k] = 0
      BY <1>1, <2>1 DEF FreshWhileRoom, Unused, Matching
    <3>2. \A j \in Seen : j # k /\ Cut[j] = j
      BY <1>3, <3>1 DEF Seen, NoCollision, Clean
    <3>3. counters[LightHash[k]] = 0
      BY <1>1, <1>3, <1>5, <3>2 DEF UsedCountersSeen
    <3> QED
      BY <1>3, <2>1, <2>2, <3>3
  <2>3. CASE ~(c = b /\ t = s)
    BY <1>7, <2>1, <2>3
  <2> QED
    BY <2>2, <2>3
<1>10. CASE InsertVote(k, PacketLen)
  <2>1. /\ \A u \in Slot : key[b][u] # Cut[k]
        /\ key' = key /\ val' = val
    BY <1>1, <1>10, VoteEffect
  <2>2. LightInsert(k, 1) /\ 1 \in Nat
    BY <1>10 DEF InsertVote
  <2>3. \A p \in Counter \ {LightHash[k]} : counters'[p] = counters[p]
    BY <1>1, <1>5, <2>2, LightInsertExact
  <2>4. key[c][t] \in Seen /\ HeavyHash[key[c][t]] = c
    BY <1>1, <1>3, <2>1, SlotsApart
  <2>5. LightHash[key[c][t]] \in Counter \ {LightHash[k]}
    <3>1. key[c][t] # k
      BY <1>3, <2>1, <2>4
    <3> QED
      BY <1>3, <2>4, <3>1, KeyAssumption, HashAssumption DEF Seen
  <2> QED
    BY <1>7, <2>1, <2>3, <2>5
<1>11. CASE InsertSwap(k, PacketLen)
  <2>1. PICK s \in Slot :
           /\ \A u \in Slot : key[b][u] # Cut[k] /\ key[b][u] # NoKey
           /\ key'[b][s] = Cut[k] /\ val'[b][s] = HighBit + 1
           /\ \A d \in Bucket : \A u \in Slot :
                (d # b \/ u # s) => key'[d][u] = key[d][u] /\ val'[d][u] = val[d][u]
           /\ Demote(key[b][s], val[b][s])
    BY <1>1, <1>11, SwapEffect
  <2> DEFINE x == key[b][s]
             v == val[b][s]
  <2>2. x \in Key /\ v \in 0 .. (Word - 1) /\ x # NoKey
    BY <1>1, <1>5, <2>1 DEF TypeOK
  <2>3. \A p \in Counter \ {LightHash[x]} : counters'[p] = counters[p]
    BY <1>1, <2>1, <2>2, DemoteExact
  <2>4. c # b \/ t # s
    <3>1. HighestBitIs1(HighBit + 1)
      BY SizeAssumption DEF HighestBitIs1
    <3> QED
      BY <2>1, <3>1
  <2>5. key'[c][t] = key[c][t] /\ val'[c][t] = val[c][t]
    BY <2>1, <2>4
  <2>6. /\ LightHash[key[c][t]] # LightHash[x]
        /\ key[c][t] \in Seen
    BY <1>1, <1>3, <1>5, <2>2, <2>4, <2>5, SlotsApart
  <2>7. LightHash[key[c][t]] \in Counter
    BY <2>6, KeyAssumption, HashAssumption DEF Seen
  <2> HIDE DEF x, v
  <2> QED
    BY <1>7, <2>3, <2>5, <2>6, <2>7
<1> QED
  BY <1>8, <1>9, <1>10, <1>11 DEF Insert

\* There are finitely many slots, and the counts of all are added up.
LEMMA SlotsFinite == IsFiniteSet(HeavySlot)
<1>1. 0 \in Int /\ NSlots - 1 \in Int
  BY SizeAssumption
<1>2. IsFiniteSet(Slot)
  BY <1>1, FS_Interval DEF Slot
<1> QED
  BY <1>2, MeasureAssumption, FS_Product DEF HeavySlot

\* When one slot changes, the sum changes with it.
LEMMA HeavyTotalChange ==
  ASSUME TypeOK, TypeOK', NEW b \in Bucket, NEW s \in Slot,
         \A c \in Bucket : \A t \in Slot : (c # b \/ t # s) => val'[c][t] = val[c][t]
  PROVE  /\ HeavyTotal \in Int
         /\ HeavyTotal' = HeavyTotal + (GetCounterVal(val'[b][s]) - GetCounterVal(val[b][s]))
<1> DEFINE f == [h \in HeavySlot |-> GetCounterVal(val[h[1]][h[2]])]
           g == [h \in HeavySlot |-> GetCounterVal(val'[h[1]][h[2]])]
           x == <<b, s>>
<1>1. HeavyTotal = SumOf(f) /\ HeavyTotal' = SumOf(g)
  BY DEF HeavyTotal, StoredVal, GetCounterVal
<1>2. \A c \in Bucket : \A t \in Slot :
        GetCounterVal(val[c][t]) \in Int /\ GetCounterVal(val'[c][t]) \in Int
  <2>1. \A n \in 0 .. (Word - 1) : GetCounterVal(n) \in Int
    BY SizeAssumption DEF GetCounterVal, Word
  <2>2. \A c \in Bucket : \A t \in Slot :
          val[c][t] \in 0 .. (Word - 1) /\ val'[c][t] \in 0 .. (Word - 1)
    BY DEF TypeOK
  <2> QED
    BY <2>1, <2>2
<1>3. \A h \in HeavySlot : h[1] \in Bucket /\ h[2] \in Slot /\ h = <<h[1], h[2]>>
  BY DEF HeavySlot
<1>4. f \in [HeavySlot -> Int] /\ g \in [HeavySlot -> Int]
  BY <1>2, <1>3
<1>5. x \in HeavySlot /\ \A h \in HeavySlot \ {x} : g[h] = f[h]
  <2>1. x \in HeavySlot
    BY DEF HeavySlot
  <2>2. \A h \in HeavySlot \ {x} : val'[h[1]][h[2]] = val[h[1]][h[2]]
    <3> TAKE h \in HeavySlot \ {x}
    <3>1. h[1] \in Bucket /\ h[2] \in Slot /\ (h[1] # b \/ h[2] # s)
      BY <1>3
    <3> QED
      BY <3>1
  <2> QED
    BY <2>1, <2>2
<1>6. f[x] = GetCounterVal(val[b][s]) /\ g[x] = GetCounterVal(val'[b][s])
  BY <1>5
<1>7. DOMAIN f = HeavySlot /\ DOMAIN g = HeavySlot
  OBVIOUS
<1> HIDE DEF f, g, x
<1>8. SumOf(f) = Sum(f, HeavySlot) /\ SumOf(g) = Sum(g, HeavySlot)
  BY <1>7, SumOfIsSum
<1>9. Sum(f, HeavySlot) \in Int
  BY <1>4, SlotsFinite, SumType
<1>10. Sum(g, HeavySlot) = Sum(f, HeavySlot) + (g[x] - f[x])
  BY <1>4, <1>5, SlotsFinite, SumChange
<1> QED
  BY <1>1, <1>6, <1>8, <1>9, <1>10

\* Both totals are integers.
LEMMA TotalsType ==
  ASSUME TypeOK
  PROVE  SumOf(counters) \in Int /\ HeavyTotal \in Int
<1>1. SumOf(counters) \in Int
  <2>1. counters \in [Counter -> Int] /\ DOMAIN counters = Counter
    BY DEF TypeOK
  <2> QED
    BY <2>1, CountersFinite, SumOfIsSum, SumType
<1>2. HeavyTotal \in Int
  <2> DEFINE f == [h \in HeavySlot |-> GetCounterVal(StoredVal(h))]
  <2>1. f \in [HeavySlot -> Int]
    BY CountIsNat DEF HeavySlot, StoredVal
  <2>2. HeavyTotal = SumOf(f) /\ DOMAIN f = HeavySlot
    BY DEF HeavyTotal
  <2> HIDE DEF f
  <2> QED
    BY <2>1, <2>2, SlotsFinite, SumOfIsSum, SumType
<1> QED
  BY <1>1, <1>2

\* One insert adds one packet to one part, whatever it moves from the heavy
\* to the light part.
LEMMA PacketsKeptStep ==
  ASSUME IInv, CountInv, pnum + 1 + LightMax < HighBit, NoCollision', NoneSaturated',
         NEW k \in Flow, Insert(k)
  PROVE  PacketsKept'
<1>1. /\ TypeOK /\ SlotsDistinct /\ FreshWhileRoom /\ StoredKeysSeen
      /\ pnum \in Nat /\ LightMax \in Nat \ {0} /\ HighBit \in Nat
  BY SizeAssumption DEF IInv, CountInv, TypeOK
<1>2. pnum + 1 < HighBit /\ pnum < HighBit /\ InRange /\ pnum' = pnum + 1
  BY <1>1 DEF InRange, Insert
<1>3. NoCollision /\ Cut[k] = k
  BY <1>1, SeenGrows DEF Clean
<1> DEFINE b == HeavyHash[k]
<1>4. b \in Bucket /\ k \in Key /\ LightHash[k] \in Counter
  BY KeyAssumption, HashAssumption
<1>5. TypeOK'
  BY <1>1, InsertKeepsType
<1>6. \A p \in Counter : /\ counters[p] \in Nat /\ counters'[p] \in Nat
                         /\ counters'[p] < LightMax
  BY <1>1, <1>5 DEF TypeOK, NoneSaturated
<1>7. \A x \in Nat : AtMost(x, LightMax) < LightMax => AtMost(x, LightMax) = x
  BY <1>1 DEF AtMost
<1>8. NoneSaturated
  <2>1. CASE counters' = counters
    BY <2>1 DEF NoneSaturated
  <2>2. CASE InsertVote(k, PacketLen)
    <3>1. \A p \in Counter : counters'[p] >= counters[p]
      BY <1>1, <2>2, VoteEffect
    <3> QED
      BY <1>1, <1>6, <3>1 DEF NoneSaturated
  <2>3. CASE InsertSwap(k, PacketLen)
    <3>1. PICK s \in Slot : Demote(key[b][s], val[b][s])
      BY <1>1, <2>3, SwapEffect
    <3>2. key[b][s] \in Key /\ val[b][s] \in 0 .. (Word - 1)
      BY <1>1, <1>4 DEF TypeOK
    <3>3. \A p \in Counter : counters'[p] >= counters[p]
      BY <1>1, <3>1, <3>2, DemoteEffect
    <3> QED
      BY <1>1, <1>6, <3>3 DEF NoneSaturated
  <2> QED
    BY <1>1, <2>1, <2>2, <2>3, MatchedEffect, EmptyEffect DEF Insert
<1>9. /\ CountsInRange /\ UnflaggedNotInLight
      /\ SumOf(counters) + HeavyTotal = pnum
  BY <1>2, <1>3, <1>8 DEF IInv, CountInv, PacketsKept
<1>10. SumOf(counters) \in Int /\ HeavyTotal \in Int
  BY <1>1, TotalsType
<1> SUFFICES SumOf(counters)' + HeavyTotal' = pnum + 1
  BY <1>2 DEF PacketsKept
<1>11. counters' = counters => SumOf(counters)' = SumOf(counters)
  OBVIOUS
<1>12. val' = val => HeavyTotal' = HeavyTotal
  BY DEF HeavyTotal, StoredVal
<1>13. CASE InsertMatched(k, PacketLen)
  <2>1. PICK s \in Slot :
           /\ key[b][s] = Cut[k]
           /\ val'[b][s] = Add32(val[b][s], 1)
           /\ \A d \in Bucket : \A u \in Slot :
                (d # b \/ u # s) => val'[d][u] = val[d][u]
           /\ counters' = counters
    BY <1>1, <1>13, MatchedEffect
  <2>2. /\ val[b][s] \in 0 .. (Word - 1) /\ GetCounterVal(val[b][s]) <= pnum
        /\ GetCounterVal(val[b][s]) \in Nat
    BY <1>1, <1>4, <1>9, <2>1, CountIsNat, FlowAssumption DEF CountsInRange
  <2>3. GetCounterVal(val'[b][s]) = GetCounterVal(val[b][s]) + 1
    BY <1>1, <1>2, <2>1, <2>2, CountGrows
  <2>4. HeavyTotal' = HeavyTotal
                        + (GetCounterVal(val'[b][s]) - GetCounterVal(val[b][s]))
    BY <1>1, <1>4, <1>5, <2>1, HeavyTotalChange
  <2> QED
    BY <1>1, <1>9, <1>10, <1>11, <2>1, <2>2, <2>3, <2>4
<1>14. CASE InsertEmpty(k, PacketLen)
  <2>1. PICK s \in Slot :
           /\ key[b][s] = NoKey
           /\ val'[b][s] = 1
           /\ \A d \in Bucket : \A u \in Slot :
                (d # b \/ u # s) => val'[d][u] = val[d][u]
           /\ counters' = counters
    BY <1>1, <1>14, EmptyEffect
  <2>2. GetCounterVal(val[b][s]) = 0 /\ GetCounterVal(val'[b][s]) = 1
    BY <1>4, <1>9, <2>1, SizeAssumption DEF CountsInRange, GetCounterVal
  <2>3. HeavyTotal' = HeavyTotal
                        + (GetCounterVal(val'[b][s]) - GetCounterVal(val[b][s]))
    BY <1>1, <1>4, <1>5, <2>1, HeavyTotalChange
  <2> QED
    BY <1>1, <1>9, <1>10, <1>11, <2>1, <2>2, <2>3
<1>15. CASE InsertVote(k, PacketLen)
  <2>1. val' = val
    BY <1>1, <1>15, VoteEffect
  <2>2. LightInsert(k, 1) /\ 1 \in Nat
    BY <1>15 DEF InsertVote
  <2>3. /\ counters'[LightHash[k]] = AtMost(counters[LightHash[k]] + 1, LightMax)
        /\ \A p \in Counter \ {LightHash[k]} : counters'[p] = counters[p]
    BY <1>1, <1>4, <2>2, LightInsertExact
  <2>4. counters'[LightHash[k]] = counters[LightHash[k]] + 1
    BY <1>4, <1>6, <1>7, <2>3
  <2>5. SumOf(counters)' = SumOf(counters)
                             + (counters'[LightHash[k]] - counters[LightHash[k]])
    BY <1>1, <1>4, <1>5, <2>3, CounterSumChange
  <2>6. counters[LightHash[k]] \in Nat
    BY <1>4, <1>6
  <2> QED
    BY <1>1, <1>9, <1>10, <1>12, <2>1, <2>4, <2>5, <2>6
<1>16. CASE InsertSwap(k, PacketLen)
  <2>1. PICK s \in Slot :
           /\ \A u \in Slot : key[b][u] # Cut[k] /\ key[b][u] # NoKey
           /\ val'[b][s] = HighBit + 1
           /\ \A d \in Bucket : \A u \in Slot :
                (d # b \/ u # s) => val'[d][u] = val[d][u]
           /\ Demote(key[b][s], val[b][s])
    BY <1>1, <1>16, SwapEffect
  <2> DEFINE x == key[b][s]
             v == val[b][s]
             p == LightHash[x]
  <2>2. x \in Key /\ v \in 0 .. (Word - 1) /\ x # NoKey /\ p \in Counter
    BY <1>1, <1>4, <2>1, HashAssumption DEF TypeOK
  <2>3. /\ HighestBitIs1(v) => counters'[p] = AtMost(counters[p] + GetCounterVal(v), LightMax)
        /\ ~HighestBitIs1(v) /\ counters[p] = 0 => counters'[p] = AtMost(v, LightMax)
        /\ \A q \in Counter \ {p} : counters'[q] = counters[q]
    BY <1>1, <2>1, <2>2, DemoteExact
  <2>4. counters[p] \in Nat /\ counters'[p] \in Nat /\ counters'[p] < LightMax
        /\ GetCounterVal(v) \in Nat /\ v \in Nat
    BY <1>1, <1>4, <1>6, <2>2, CountIsNat, SizeAssumption DEF Word
  <2>5. counters'[p] = counters[p] + GetCounterVal(v)
    <3>1. CASE HighestBitIs1(v)
      <4>1. counters[p] + GetCounterVal(v) \in Nat
        BY <2>4
      <4> HIDE DEF p, v
      <4> QED
        BY <1>7, <2>3, <2>4, <3>1, <4>1
    <3>2. CASE ~HighestBitIs1(v)
      <4>1. counters[p] = 0
        BY <1>4, <1>9, <2>2, <3>2 DEF UnflaggedNotInLight, LightQuery
      <4>2. GetCounterVal(v) = v
        BY <3>2 DEF HighestBitIs1, GetCounterVal
      <4> HIDE DEF p, v
      <4> QED
        BY <1>7, <2>3, <2>4, <3>2, <4>1, <4>2
    <3> QED
      BY <3>1, <3>2
  <2>6. GetCounterVal(val'[b][s]) = 1
    BY <2>1, SizeAssumption DEF GetCounterVal
  <2>7. HeavyTotal' = HeavyTotal + (GetCounterVal(val'[b][s]) - GetCounterVal(v))
    BY <1>1, <1>4, <1>5, <2>1, HeavyTotalChange
  <2>8. SumOf(counters)' = SumOf(counters) + (counters'[p] - counters[p])
    BY <1>1, <1>5, <2>2, <2>3, CounterSumChange
  <2> HIDE DEF p, v
  <2> QED
    BY <1>1, <1>9, <1>10, <2>4, <2>5, <2>6, <2>7, <2>8
<1> QED
  BY <1>13, <1>14, <1>15, <1>16 DEF Insert

\* Zeros add up to zero.
LEMMA SumOfZeros ==
  ASSUME NEW S, IsFiniteSet(S), NEW f, DOMAIN f = S, \A x \in S : f[x] = 0
  PROVE  SumOf(f) = 0
<1> DEFINE zeros == [x \in S |-> 0]
<1>1. zeros \in [S -> Int] /\ S \subseteq S
      /\ \A x \in S : zeros[x] = zeros[x] + (IF x \in S THEN zeros[x] ELSE 0)
  OBVIOUS
<1>2. \A x \in S : f[x] = zeros[x]
  OBVIOUS
<1> HIDE DEF zeros
<1>3. Sum(zeros, S) \in Int /\ Sum(zeros, S) = Sum(zeros, S) + Sum(zeros, S)
  BY <1>1, SumType, SumSplit
<1>4. SumOf(f) = Sum(zeros, S)
  BY <1>2, SumOfIsSum, SumSame
<1>5. \A n \in Int : n = n + n => n = 0
  OBVIOUS
<1>6. Sum(zeros, S) = 0
  BY <1>3, <1>5, Zenon
<1> QED
  BY <1>4, <1>6, Zenon

\* The empty sketch.
LEMMA InitCount == Init => CountInv
<1> SUFFICES ASSUME Init PROVE CountInv
  OBVIOUS
<1>1. StoredKeysSeen /\ UsedCountersSeen /\ UnflaggedNotInLight
  BY DEF Init, StoredKeysSeen, UsedCountersSeen, UnflaggedNotInLight
<1>3. MiceAreCounters
  <2> DEFINE S == 1 .. LightMax
             f == [v \in S |-> miceDist[v] * v]
             g == [v \in S |-> miceDist[v]]
  <2>1. IsFiniteSet(S)
    <3>1. 1 \in Int /\ LightMax \in Int
      BY SizeAssumption
    <3> QED
      BY <3>1, FS_Interval
  <2>2. /\ \A v \in S : v \in 0 .. LightMax /\ v \in Int
        /\ 0 \in 0 .. LightMax
    BY SizeAssumption
  <2>3. \A v \in 0 .. LightMax : miceDist[v] = 0
    BY DEF Init
  <2>4. \A v \in S : f[v] = 0 /\ g[v] = 0
    BY <2>2, <2>3
  <2>5. DOMAIN f = S /\ DOMAIN g = S
    OBVIOUS
  <2>6. SumOf(f) = 0 /\ SumOf(g) = 0
    <3> HIDE DEF f, g, S
    <3> QED
      BY <2>1, <2>4, <2>5, SumOfZeros
  <2>7. SumOf(counters) = 0
    <3>1. DOMAIN counters = Counter /\ \A p \in Counter : counters[p] = 0
      BY DEF Init
    <3> QED
      BY <3>1, CountersFinite, SumOfZeros
  <2>8. miceDist[0] = 0
    BY <2>2, <2>3
  <2>9. MiceCard = SumOf(g)
    BY DEF MiceCard
  <2> HIDE DEF f, g
  <2>10. MiceCard + miceDist[0] = 0
    BY <2>6, <2>8, <2>9
  <2> QED
    BY <2>6, <2>7, <2>10 DEF MiceAreCounters, f
<1>4. PacketsKept
  <2> DEFINE f == [h \in HeavySlot |-> GetCounterVal(StoredVal(h))]
  <2>1. \A h \in HeavySlot : f[h] = 0
    BY SizeAssumption DEF HeavySlot, StoredVal, GetCounterVal, Init
  <2>2. DOMAIN f = HeavySlot /\ HeavyTotal = SumOf(f)
    BY DEF HeavyTotal
  <2> HIDE DEF f
  <2>3. HeavyTotal = 0
    BY <2>1, <2>2, SlotsFinite, SumOfZeros
  <2>4. SumOf(counters) = 0
    <3>1. DOMAIN counters = Counter /\ \A p \in Counter : counters[p] = 0
      BY DEF Init
    <3> QED
      BY <3>1, CountersFinite, SumOfZeros
  <2>5. pnum = 0
    BY DEF Init
  <2> QED
    BY <2>3, <2>4, <2>5 DEF PacketsKept
<1> QED
  BY <1>1, <1>3, <1>4 DEF CountInv

\* Every insert keeps count.
LEMMA StepCount == IInv /\ CountInv /\ [Next]_vars => CountInv'
<1> SUFFICES ASSUME IInv, CountInv, [Next]_vars PROVE CountInv'
  OBVIOUS
<1>1. ASSUME NEW k \in Flow, Insert(k) PROVE CountInv'
  <2>1. TypeOK /\ StoredKeysSeen /\ UsedCountersSeen /\ MiceAreCounters
    BY DEF IInv, CountInv
  <2>2. pnum' = pnum + 1 /\ pnum \in Nat /\ LightMax \in Nat
    BY <1>1, <2>1, SizeAssumption DEF Insert, TypeOK
  <2>3. StoredKeysSeen' /\ UsedCountersSeen' /\ MiceAreCounters'
    BY <1>1, <2>1, StoredKeysSeenStep, UsedCountersSeenStep, MiceAreCountersStep
  <2>4. InRange' => pnum + 1 + LightMax < HighBit
    BY <2>2 DEF InRange
  <2>5. (InRange /\ NoCollision)' => UnflaggedNotInLight'
    BY <1>1, <2>4, UnflaggedStep
  <2>6. (InRange /\ NoCollision /\ NoneSaturated)' => PacketsKept'
    BY <1>1, <2>4, PacketsKeptStep
  <2> QED
    BY <2>3, <2>5, <2>6 DEF CountInv
<1>2. CASE UNCHANGED vars
  <2>1. UNCHANGED <<key, val, counters, miceDist, truth, pnum>>
    BY <1>2 DEF vars
  <2>2. StoredKeysSeen' /\ UsedCountersSeen'
    BY <2>1 DEF CountInv, StoredKeysSeen, UsedCountersSeen, Seen
  <2>3. MiceAreCounters'
    BY <2>1 DEF CountInv, MiceAreCounters, MiceCard
  <2>4. /\ InRange' <=> InRange
        /\ NoCollision' <=> NoCollision
        /\ NoneSaturated' <=> NoneSaturated
    BY <2>1 DEF InRange, NoCollision, NoneSaturated, Seen
  <2>5. UnflaggedNotInLight' <=> UnflaggedNotInLight
    BY <2>1 DEF UnflaggedNotInLight, LightQuery
  <2>6. PacketsKept' <=> PacketsKept
    BY <2>1 DEF PacketsKept, HeavyTotal, StoredVal
  <2> QED
    BY <2>2, <2>3, <2>4, <2>5, <2>6 DEF CountInv
<1> QED
  BY <1>1, <1>2 DEF Next

\* Both invariants hold in every reachable state.
LEMMA CountInvHolds == Spec => [](IInv /\ CountInv)
<1>1. Init => IInv /\ CountInv
  BY InitIInv, InitCount
<1>2. IInv /\ CountInv /\ [Next]_vars => (IInv /\ CountInv)'
  BY StepIInv, StepCount
<1> QED
  BY <1>1, <1>2, PTL DEF Spec

\* The total of process_data adds up both parts: what is taken out for the
\* flows in both is what is added back for them.
LEMMA TotalIsBoth ==
  ASSUME TypeOK, MiceAreCounters
  PROVE  Total = SumOf(counters) + HeavyTotal
<1> DEFINE H == HeavySlot
           B == {h \in H : InBoth(h)}
           f == [h \in H |-> GetCounterVal(StoredVal(h))]
           g == [h \in B |-> ExVal(h)]
           e == [h \in H |-> ReportedVal(h)]
           m == SumOf([v \in 1 .. LightMax |-> miceDist[v] * v])
<1>1. Total = m - SumOf(g) + SumOf(e) /\ HeavyTotal = SumOf(f)
  BY DEF Total, HeavyTotal
<1>2. m = SumOf(counters)
  BY DEF MiceAreCounters
<1>3. \A h \in H : GetCounterVal(StoredVal(h)) \in Int /\ ExVal(h) \in Int
  <2> TAKE h \in H
  <2>1. h[1] \in Bucket /\ h[2] \in Slot
    BY DEF HeavySlot
  <2>2. key[h[1]][h[2]] \in Key /\ GetCounterVal(val[h[1]][h[2]]) \in Nat
    BY <2>1, CountIsNat DEF TypeOK
  <2>3. LightHash[key[h[1]][h[2]]] \in Counter
    BY <2>2, HashAssumption
  <2>4. counters[LightHash[key[h[1]][h[2]]]] \in Int
    BY <2>3, SizeAssumption DEF TypeOK
  <2> QED
    BY <2>2, <2>4 DEF StoredVal, ExVal, StoredKey, LightQuery
<1>4. /\ f \in [H -> Int] /\ g \in [B -> Int] /\ e \in [H -> Int] /\ B \subseteq H
      /\ \A h \in H : e[h] = f[h] + (IF h \in B THEN g[h] ELSE 0)
  <2>1. \A h \in H : /\ ReportedVal(h) = f[h] + (IF h \in B THEN g[h] ELSE 0)
                     /\ ReportedVal(h) \in Int
    BY <1>3 DEF ReportedVal
  <2> QED
    BY <1>3, <2>1
<1>5. DOMAIN f = H /\ DOMAIN g = B /\ DOMAIN e = H /\ IsFiniteSet(H) /\ IsFiniteSet(B)
  BY SlotsFinite, FS_Subset
<1>6. SumOf(counters) \in Int
  BY TotalsType
<1> HIDE DEF H, B, f, g, e, m
<1>7. SumOf(f) = Sum(f, H) /\ SumOf(g) = Sum(g, B) /\ SumOf(e) = Sum(e, H)
  BY <1>5, SumOfIsSum
<1>8. Sum(f, H) \in Int /\ Sum(g, B) \in Int
  BY <1>4, <1>5, SumType
<1>9. Sum(e, H) = Sum(f, H) + Sum(g, B)
  BY <1>4, <1>5, SumSplit
<1> QED
  BY <1>1, <1>2, <1>6, <1>7, <1>8, <1>9

\* The counters in use are counted by all entries of mice_dist but the first.
LEMMA MiceCardCounts ==
  ASSUME TypeOK, MiceDistAgrees, MiceAreCounters
  PROVE  /\ IsFiniteSet({p \in Counter : counters[p] # 0})
         /\ MiceCard = Cardinality({p \in Counter : counters[p] # 0})
<1> DEFINE Used == {p \in Counter : counters[p] # 0}
           Z == HoldingSet(0)
<1>1. Used = Counter \ Z /\ Counter \cap Z = Z /\ Z \subseteq Counter
  BY DEF HoldingSet
<1>2. IsFiniteSet(Z) /\ Cardinality(Z) \in Nat
  BY <1>1, CountersFinite, FS_Subset, FS_CardinalityType
<1>3. miceDist[0] = Cardinality(Z) - NCounters
  BY DEF MiceDistAgrees, HoldingSet
<1>4. IsFiniteSet(Used) /\ Cardinality(Used) = NCounters - Cardinality(Z)
  <2> HIDE DEF Used, Z
  <2> QED
    BY <1>1, CountersFinite, FS_Difference
<1>5. MiceCard + miceDist[0] = 0 /\ MiceCard \in Int
  <2> DEFINE S == 1 .. LightMax
             f == [v \in S |-> miceDist[v]]
  <2>1. IsFiniteSet(S) /\ \A v \in S : v \in 0 .. LightMax
    <3>1. 1 \in Int /\ LightMax \in Int
      BY SizeAssumption
    <3> QED
      BY <3>1, FS_Interval
  <2>2. f \in [S -> Int] /\ DOMAIN f = S /\ MiceCard = SumOf(f)
    BY <2>1 DEF TypeOK, MiceCard
  <2> HIDE DEF f, S
  <2>3. MiceCard \in Int
    BY <2>1, <2>2, SumOfIsSum, SumType
  <2> QED
    BY <2>3 DEF MiceAreCounters
<1> HIDE DEF Used, Z
<1>6. MiceCard = Cardinality(Used)
  BY <1>2, <1>3, <1>4, <1>5, SizeAssumption
<1> QED
  BY <1>4, <1>6 DEF Used

\* The estimate counts a slot for every flow in the heavy part and a counter
\* for every flow in the light part, and a flow in both parts once.
LEMMA FlowsAreCounted ==
  ASSUME IInv, MiceDistAgrees, CountInv, InRange, NoCollision, MiceCard < NCounters
  PROVE  GetCardinality >= Cardinality(Seen)
<1>1. /\ TypeOK /\ SlotsDistinct /\ StoredKeysSeen /\ MiceAreCounters
      /\ CoveredInLight
  BY DEF IInv, CountInv
<1>2. CountsInRange
  <2>1. pnum \in Nat /\ LightMax \in Nat /\ HighBit \in Nat
    BY <1>1, SizeAssumption DEF TypeOK
  <2> QED
    BY <2>1 DEF IInv, InRange
<1> DEFINE Used == {p \in Counter : counters[p] # 0}
           Full == {h \in HeavySlot : GetCounterVal(StoredVal(h)) # 0}
           Both == {h \in HeavySlot : InBoth(h)}
           Own == {j \in Seen : \E h \in Full : StoredKey(h) = j}
           Rest == Seen \ Own
           image == [h \in Both |-> LightHash[StoredKey(h)]]
           Twice == {image[h] : h \in Both}
\* What the sets hold.
<1>3. \A h \in HeavySlot : /\ h[1] \in Bucket /\ h[2] \in Slot /\ h = <<h[1], h[2]>>
                           /\ StoredKey(h) = key[h[1]][h[2]]
                           /\ StoredVal(h) = val[h[1]][h[2]]
  BY DEF HeavySlot, StoredKey, StoredVal
<1>4. \A h \in HeavySlot : /\ StoredKey(h) # NoKey <=> h \in Full
                           /\ StoredKey(h) = NoKey => h \notin Both
  <2> TAKE h \in HeavySlot
  <2>1. StoredKey(h) # NoKey => GetCounterVal(StoredVal(h)) \in 1 .. pnum
    BY <1>2, <1>3 DEF CountsInRange
  <2>2. StoredKey(h) = NoKey => StoredVal(h) = 0
    BY <1>2, <1>3 DEF CountsInRange
  <2>3. GetCounterVal(0) = 0 /\ ~HighestBitIs1(0)
    BY SizeAssumption DEF GetCounterVal, HighestBitIs1
  <2>4. \A n \in 1 .. pnum : n # 0
    OBVIOUS
  <2> QED
    BY <2>1, <2>2, <2>3, <2>4 DEF InBoth
<1>5. \A g, h \in HeavySlot :
        (StoredKey(g) # NoKey /\ StoredKey(h) # NoKey) =>
            /\ StoredKey(g) \in Seen
            /\ g # h => /\ StoredKey(g) # StoredKey(h)
                        /\ LightHash[StoredKey(g)] # LightHash[StoredKey(h)]
  <2> TAKE g, h \in HeavySlot
  <2> HAVE StoredKey(g) # NoKey /\ StoredKey(h) # NoKey
  <2>1. g # h => (g[1] # h[1] \/ g[2] # h[2])
    BY <1>3
  <2> QED
    BY <1>1, <1>3, <2>1, SlotsApart
<1>6. /\ Both \subseteq HeavySlot /\ Both \subseteq Full /\ Full \subseteq HeavySlot
      /\ Own \subseteq Seen
  BY <1>4
<1>7. \A j \in Seen : j \in Flow /\ LightHash[j] \in Counter /\ Clean(j)
  BY KeyAssumption, HashAssumption DEF Seen, NoCollision
\* They are finite.
<1>8. /\ IsFiniteSet(Seen) /\ IsFiniteSet(Full) /\ IsFiniteSet(Both) /\ IsFiniteSet(Used)
      /\ IsFiniteSet(Own) /\ IsFiniteSet(Rest)
  <2>1. Seen \subseteq Flow /\ Rest \subseteq Seen
    BY DEF Seen
  <2>2. IsFiniteSet(Seen) /\ IsFiniteSet(Full) /\ IsFiniteSet(Both)
    <3> HIDE DEF Full, Both, Own, Rest
    <3> QED
      BY <1>6, <2>1, SlotsFinite, MeasureAssumption, FS_Subset
  <2>3. IsFiniteSet(Used)
    BY <1>1, MiceCardCounts
  <2> HIDE DEF Full, Both, Own, Rest, Used
  <2> QED
    BY <1>6, <2>1, <2>2, <2>3, FS_Subset
<1>9. /\ Cardinality(Seen) \in Nat /\ Cardinality(Full) \in Nat /\ Cardinality(Both) \in Nat
      /\ Cardinality(Used) \in Nat /\ Cardinality(Own) \in Nat /\ Cardinality(Rest) \in Nat
  BY <1>8, FS_CardinalityType
\* Each flow in the heavy part has its slot.
<1>10. Cardinality(Own) <= Cardinality(Full)
  <2> DEFINE slot == [j \in Own |-> CHOOSE h \in Full : StoredKey(h) = j]
  <2>1. \A j \in Own : slot[j] \in Full /\ StoredKey(slot[j]) = j
    OBVIOUS
  <2>2. slot \in [Own -> Full]
    BY <2>1
  <2> HIDE DEF slot, Own, Full
  <2>3. slot \in Injection(Own, Full)
    BY <2>1, <2>2 DEF Injection, IsInjective
  <2> QED
    BY <1>8, <2>3, FS_Injection
\* A flow in both parts has a light counter, another one than all others in both.
<1>11. Twice \subseteq Used
  <2> SUFFICES ASSUME NEW h \in Both PROVE image[h] \in Used
    OBVIOUS
  <2>1. StoredKey(h) # NoKey /\ h \in HeavySlot
    BY <1>4
  <2>2. StoredKey(h) \in Seen
    BY <1>5, <2>1
  <2>3. LightHash[StoredKey(h)] \in Counter
    BY <1>7, <2>2
  <2>4. counters[LightHash[StoredKey(h)]] # 0
    BY DEF InBoth, ExVal, LightQuery
  <2> QED
    BY <2>3, <2>4
<1>12. /\ IsFiniteSet(Twice) /\ Cardinality(Twice) \in Nat
       /\ Cardinality(Both) <= Cardinality(Twice)
  <2>1. IsFiniteSet(Twice)
    <3> HIDE DEF Twice, Used
    <3> QED
      BY <1>8, <1>11, FS_Subset
  <2>2. image \in [Both -> Twice]
    OBVIOUS
  <2>3. \A g, h \in Both : image[g] = image[h] => g = h
    BY <1>4, <1>5
  <2> HIDE DEF image, Both, Twice
  <2>4. image \in Injection(Both, Twice)
    BY <2>2, <2>3 DEF Injection, IsInjective
  <2> QED
    BY <1>8, <2>1, <2>4, FS_Injection, FS_CardinalityType
\* A flow that is not in the heavy part has a light counter of its own.
<1>13. Cardinality(Rest) <= Cardinality(Used \ Twice)
  <2> DEFINE own == [j \in Rest |-> LightHash[j]]
  <2>1. ASSUME NEW j \in Rest PROVE own[j] \in Used \ Twice
    <3>1. j \in Seen /\ \A h \in Full : StoredKey(h) # j
      OBVIOUS
    <3>2. \A s \in Slot : key[HeavyHash[j]][s] # j
      <4> SUFFICES ASSUME NEW s \in Slot, key[HeavyHash[j]][s] = j PROVE FALSE
        OBVIOUS
      <4> DEFINE h == <<HeavyHash[j], s>>
      <4>1. h \in HeavySlot /\ StoredKey(h) = j
        BY <1>7, <3>1, KeyAssumption, HashAssumption DEF HeavySlot, StoredKey
      <4>2. j # NoKey
        BY <1>7, <3>1, FlowAssumption DEF Clean
      <4> HIDE DEF h, Full
      <4> QED
        BY <1>4, <3>1, <4>1, <4>2
    <3>3. Matching(HeavyHash[j], j) = {}
      BY <1>7, <3>1, <3>2 DEF Matching, Clean
    <3>4. LightQuery(j) >= truth[j] \/ LightQuery(j) = LightMax
      BY <1>1, <1>7, <3>1, <3>3 DEF CoveredInLight, Saturated
    <3>5. truth[j] \in Nat /\ truth[j] > 0 /\ LightMax \in Nat \ {0}
      BY <1>1, <1>7, <3>1, SizeAssumption DEF Seen, TypeOK
    <3>6. counters[LightHash[j]] # 0
      <4>1. LightQuery(j) \in Nat
        BY <1>1, <1>7, <3>1, SizeAssumption DEF TypeOK, LightQuery
      <4>2. LightQuery(j) # 0
        BY <3>4, <3>5, <4>1
      <4> QED
        BY <4>2 DEF LightQuery
    <3>7. LightHash[j] \in Used
      BY <1>7, <3>1, <3>6
    <3>8. \A h \in Both : image[h] # LightHash[j]
      <4> TAKE h \in Both
      <4>1. StoredKey(h) # NoKey /\ h \in HeavySlot /\ h \in Full
        BY <1>4
      <4>2. StoredKey(h) \in Seen /\ StoredKey(h) # j
        BY <1>5, <3>1, <4>1
      <4>3. LightHash[StoredKey(h)] # LightHash[j]
        BY <3>1, <4>2 DEF NoCollision
      <4> QED
        BY <4>3
    <3>9. LightHash[j] \notin Twice
      BY <3>8
    <3> QED
      BY <3>7, <3>9
  <2>2. \A i, j \in Rest : own[i] = own[j] => i = j
    BY DEF NoCollision
  <2>3. own \in [Rest -> Used \ Twice]
    BY <2>1
  <2>4. IsFiniteSet(Used \ Twice)
    BY <1>8, FS_Difference
  <2> HIDE DEF own, Rest, Used, Twice
  <2>5. own \in Injection(Rest, Used \ Twice)
    BY <2>2, <2>3 DEF Injection, IsInjective
  <2> QED
    BY <2>4, <2>5, FS_Injection
<1>14. /\ Cardinality(Used \ Twice) = Cardinality(Used) - Cardinality(Twice)
       /\ Cardinality(Rest) = Cardinality(Seen) - Cardinality(Own)
  <2>1. Used \cap Twice = Twice /\ Seen \cap Own = Own
    BY <1>6, <1>11
  <2> HIDE DEF Used, Twice, Own, Rest
  <2>2. Cardinality(Used \ Twice) = Cardinality(Used) - Cardinality(Twice)
    <3>1. Cardinality(Used \ Twice) = Cardinality(Used) - Cardinality(Used \cap Twice)
      BY <1>8, FS_Difference, Zenon
    <3> QED
      BY <2>1, <3>1, Zenon
  <2>3. Cardinality(Seen \ Own) = Cardinality(Seen) - Cardinality(Own)
    <3>1. IsFiniteSet(Seen)
      BY <1>8
    <3>2. Seen \cap Own = Own
      BY <2>1
    <3>3. Cardinality(Seen \ Own) = Cardinality(Seen) - Cardinality(Seen \cap Own)
      BY <3>1, FS_Difference
    <3> QED
      BY <3>2, <3>3
  <2> QED
    BY <2>2, <2>3 DEF Rest
\* So the estimate is high enough.
<1>15. /\ MiceCard = Cardinality(Used) /\ MiceCard \in 0 .. (NCounters - 1)
       /\ LinearCount[MiceCard] \in Nat /\ LinearCount[MiceCard] >= Cardinality(Used)
  <2>1. MiceCard = Cardinality(Used)
    BY <1>1, MiceCardCounts
  <2>2. MiceCard \in 0 .. (NCounters - 1)
    <3> HIDE DEF Used
    <3> QED
      BY <1>9, <2>1, SizeAssumption
  <2> HIDE DEF Used
  <2> QED
    BY <2>1, <2>2, MeasureAssumption
<1>16. GetCardinality = LinearCount[MiceCard] + Cardinality(Full) - Cardinality(Both)
  BY DEF GetCardinality
<1> HIDE DEF Used, Full, Both, Own, Rest, Twice, image
<1> QED
  BY <1>9, <1>10, <1>12, <1>13, <1>14, <1>15, <1>16

\* Without hash collisions a flow that is in both parts is in each measure
\* once: get_cardinality never returns less than the number of flows, and the
\* total of process_data is the number of packets.
THEOREM MeasuresCountOnce == Spec => []CountedOnce
<1>1. IInv /\ ExactInv /\ CountInv => CountedOnce
  <2> SUFFICES ASSUME IInv, ExactInv, CountInv PROVE CountedOnce
    OBVIOUS
  <2>1. TypeOK /\ MiceDistAgrees /\ MiceAreCounters
    BY DEF IInv, ExactInv, CountInv
  <2>2. CardinalityNeverLow
    BY <2>1, FlowsAreCounted DEF CardinalityNeverLow
  <2>3. TotalCountsEveryPacket
    BY <2>1, TotalIsBoth DEF TotalCountsEveryPacket, CountInv, PacketsKept
  <2> QED
    BY <2>2, <2>3 DEF CountedOnce
<1> QED
  BY <1>1, ExactInvHolds, CountInvHolds, PTL
=============================================================================
