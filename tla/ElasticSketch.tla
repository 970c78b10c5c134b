---------------------------- MODULE ElasticSketch ----------------------------
(***************************************************************************)
(* The Elastic sketch of src/elastic: a heavy part (buckets of keyed       *)
(* counters with a vote guard) in front of a light part (an array of small *)
(* saturating counters).  One step inserts one packet, exactly as the      *)
(* capture thread does under its mutex; the queries the device and the     *)
(* collector make are operators on the state.                              *)
(*                                                                         *)
(* A key is 13 bytes, but every comparison and copy in the heavy part goes *)
(* through strncmp and strncpy, which stop at the first NUL byte.  Cut[k]  *)
(* is what strncpy stores for k (the bytes before the first NUL, padded    *)
(* with zeros); the two hashes see all 13 bytes.  NoKey is the all-zero    *)
(* key of an unused slot.                                                  *)
(***************************************************************************)
EXTENDS Integers, FiniteSets

CONSTANTS
    Key,         \* every byte string the model talks about
    Flow,        \* the 5-tuples that packets carry
    NoKey,       \* thirteen zero bytes
    Cut,         \* Cut[k]: k as strncpy copies it
    Bucket,      \* the buckets of the heavy part
    NSlots,      \* MAX_VALID_COUNTER, keyed counters in a bucket
    NCounters,   \* counter_num, counters of the light part
    HeavyHash,   \* bobhash->run(key) % bucket_num
    LightHash,   \* bobhash->run(key) % counter_num
    HighBit,     \* 2^31, the flag bit of a heavy counter
    LightMax,    \* 255, where a light counter saturates
    SwapFactor,  \* 8, the shift by 3 in JUDGE_IF_SWAP
    MaxPackets   \* bound on the packets inserted

Slot == 0 .. (NSlots - 1)
Counter == 0 .. (NCounters - 1)

\* A uint32_t ranges over 0 .. Word - 1.
Word == 2 * HighBit

ASSUME KeyAssumption ==
    /\ Flow \subseteq Key
    /\ NoKey \in Key
    /\ Cut \in [Key -> Key]
    /\ \A k \in Key : Cut[Cut[k]] = Cut[k]
    /\ Cut[NoKey] = NoKey

\* No captured packet has a source address whose first byte is zero.
ASSUME FlowAssumption == \A k \in Flow : Cut[k] # NoKey

ASSUME SizeAssumption ==
    /\ NSlots \in Nat \ {0}
    /\ NCounters \in Nat \ {0}
    /\ HighBit \in Nat
    /\ HighBit > 1
    /\ LightMax \in Nat \ {0}
    /\ SwapFactor \in Nat \ {0}
    /\ MaxPackets \in Nat

ASSUME HashAssumption ==
    /\ HeavyHash \in [Key -> Bucket]
    /\ LightHash \in [Key -> Counter]

VARIABLES
    key,       \* key[b][s]: buckets[b].key[s]
    val,       \* val[b][s]: buckets[b].val[s], flag bit included
    guard,     \* guard[b]: buckets[b].val[MAX_VALID_COUNTER]
    counters,  \* the light part's counters
    miceDist,  \* mice_dist: how many counters hold each value
    truth,     \* history: packets of each flow inserted so far
    pnum       \* packets inserted so far (the device's pnum)

heavy == <<key, val, guard>>
light == <<counters, miceDist>>
vars == <<key, val, guard, counters, miceDist, truth, pnum>>

-----------------------------------------------------------------------------
(* The macros of Param.h. *)

GetCounterVal(v) == IF v >= HighBit THEN v - HighBit ELSE v

HighestBitIs1(v) == v >= HighBit

\* uint32_t addition; f never exceeds the width.
Add32(v, f) == IF v + f < Word THEN v + f ELSE v + f - Word

\* Faulty variants: a threshold that is one too high, or that is the same
\* for every count.
JudgeIfSwapLate(minVal, guardVal) == guardVal > minVal * SwapFactor + 1
JudgeIfSwapFixed(minVal, guardVal) == guardVal > SwapFactor

\* The left shift drops the bits above the word.
JudgeIfSwap(minVal, guardVal) == guardVal > ((minVal * SwapFactor) % Word)

\* The device counts packets, not bytes: it always inserts length 1.
PacketLen == 1

-----------------------------------------------------------------------------
(* HeavyPart::insert's scan of one bucket: the slot with the key, else the *)
(* first unused slot, else the first slot whose count is smallest.         *)

First(S) == CHOOSE s \in S : \A t \in S : s <= t

\* Faulty variant: stored keys are compared with all 13 bytes of the key.
MatchingWhole(b, k) == {s \in Slot : key[b][s] = k}

Matching(b, k) == {s \in Slot : key[b][s] = Cut[k]}

Unused(b) == {s \in Slot : key[b][s] = NoKey}

Smallest(b) ==
    {s \in Slot : \A t \in Slot :
                     GetCounterVal(val[b][s]) <= GetCounterVal(val[b][t])}

MinCounter(b) == First(Smallest(b))

-----------------------------------------------------------------------------
(* The light part. *)

\* Faulty variant: light counters do not saturate.
NoBound(x, bound) == x

AtMost(x, bound) == IF x < bound THEN x ELSE bound

\* Faulty variant: the counter's old value stays in mice_dist.
StoreCounterKeepsOld(p, new) ==
    /\ counters' = [counters EXCEPT ![p] = new]
    /\ miceDist' = [miceDist EXCEPT ![new] = @ + 1]

\* Store new in the counter at p and keep mice_dist in step.
StoreCounter(p, new) ==
    LET old == counters[p]
        less == [miceDist EXCEPT ![old] = @ - 1]
    IN /\ counters' = [counters EXCEPT ![p] = new]
       /\ miceDist' = [less EXCEPT ![new] = @ + 1]

LightInsert(k, f) ==
    LET p == LightHash[k]
    IN StoreCounter(p, AtMost(counters[p] + f, LightMax))

LightSwapInsert(k, f) ==
    LET p == LightHash[k]
    IN IF counters[p] < AtMost(f, LightMax)
         THEN StoreCounter(p, AtMost(f, LightMax))
         ELSE UNCHANGED light

-----------------------------------------------------------------------------
(* ElasticSketch::insert, one action for each way through it. *)

\* The key owns a slot: its counter grows (result 0).
InsertMatched(k, f) ==
    LET b == HeavyHash[k]
        s == First(Matching(b, k))
    IN /\ Matching(b, k) # {}
       /\ val' = [val EXCEPT ![b][s] = Add32(@, f)]
       /\ UNCHANGED <<key, guard, light>>

\* The key takes the first unused slot (result 0).
InsertEmpty(k, f) ==
    LET b == HeavyHash[k]
        s == First(Unused(b))
    IN /\ Matching(b, k) = {}
       /\ Unused(b) # {}
       /\ key' = [key EXCEPT ![b][s] = Cut[k]]
       /\ val' = [val EXCEPT ![b][s] = f]
       /\ UNCHANGED <<guard, light>>

Contested(b, k) == Matching(b, k) = {} /\ Unused(b) = {}

MinCount(b) == GetCounterVal(val[b][MinCounter(b)])

\* The bucket is full and the vote does not pass: the packet goes to the
\* light part (result 2).  One packet is counted there, whatever f is.
InsertVote(k, f) ==
    LET b == HeavyHash[k]
        guardVal == Add32(guard[b], 1)
    IN /\ Contested(b, k)
       /\ ~JudgeIfSwap(MinCount(b), guardVal)
       /\ guard' = [guard EXCEPT ![b] = guardVal]
       /\ LightInsert(k, 1)
       /\ UNCHANGED <<key, val>>

\* Faulty variant: the flag is not looked at.
DemoteUnflagged(k, v) == LightSwapInsert(k, GetCounterVal(v))

\* What is evicted is stored in the light part under the evicted key: added
\* when part of it was there already (flag set), maximised when none was.
Demote(k, v) ==
    IF HighestBitIs1(v) THEN LightInsert(k, GetCounterVal(v))
                        ELSE LightSwapInsert(k, v)

\* The vote passes: the smallest counter is evicted, its slot goes to the
\* new key with count 1 and the flag set (result 1).
InsertSwap(k, f) ==
    LET b == HeavyHash[k]
        s == MinCounter(b)
    IN /\ Contested(b, k)
       /\ JudgeIfSwap(MinCount(b), Add32(guard[b], 1))
       /\ guard' = [guard EXCEPT ![b] = 0]
       /\ key' = [key EXCEPT ![b][s] = Cut[k]]
       /\ val' = [val EXCEPT ![b][s] = HighBit + 1]
       /\ Demote(key[b][s], val[b][s])

Insert(k) ==
    /\ pnum < MaxPackets
    /\ \/ InsertMatched(k, PacketLen)
       \/ InsertEmpty(k, PacketLen)
       \/ InsertVote(k, PacketLen)
       \/ InsertSwap(k, PacketLen)
    /\ truth' = [truth EXCEPT ![k] = @ + 1]
    /\ pnum' = pnum + 1

\* HeavyPart::clear and LightPart::clear, run by the constructors.
Init ==
    /\ key = [b \in Bucket |-> [s \in Slot |-> NoKey]]
    /\ val = [b \in Bucket |-> [s \in Slot |-> 0]]
    /\ guard = [b \in Bucket |-> 0]
    /\ counters = [p \in Counter |-> 0]
    /\ miceDist = [v \in 0 .. LightMax |-> 0]
    /\ truth = [k \in Flow |-> 0]
    /\ pnum = 0

Next == \E k \in Flow : Insert(k)

Spec == Init /\ [][Next]_vars

-----------------------------------------------------------------------------
(* Queries. *)

HeavyQuery(k) ==
    LET b == HeavyHash[k]
    IN IF Matching(b, k) = {} THEN 0 ELSE val[b][First(Matching(b, k))]

LightQuery(k) == counters[LightHash[k]]

\* Faulty variant: the light part is read only for keys without a slot.
ReadsLightUnflagged(k) == HeavyQuery(k) = 0

\* ElasticSketch::query: does it look at the light part, and what it returns.
ReadsLight(k) == HeavyQuery(k) = 0 \/ HighestBitIs1(HeavyQuery(k))

Query(k) ==
    IF ReadsLight(k) THEN GetCounterVal(HeavyQuery(k)) + LightQuery(k)
                     ELSE HeavyQuery(k)

-----------------------------------------------------------------------------
(* Properties. *)

\* Every counter stays within the C type that holds it and every stored key
\* is one that strncpy can have written.
TypeOK ==
    /\ key \in [Bucket -> [Slot -> Key]]
    /\ val \in [Bucket -> [Slot -> 0 .. (Word - 1)]]
    /\ guard \in [Bucket -> 0 .. (Word - 1)]
    /\ counters \in [Counter -> 0 .. LightMax]
    /\ miceDist \in [0 .. LightMax -> Int]
    /\ truth \in [Flow -> Nat]
    /\ pnum \in Nat

\* A flow whose key has no NUL byte: strncpy keeps it whole.
Clean(k) == Cut[k] = k

\* The counts fit in 31 bits and the sums of query in an int.
InRange == pnum + LightMax < HighBit

\* A light counter that reached 255 has lost packets for good.
Saturated(k) == LightQuery(k) = LightMax

\* No two slots of a bucket hold the same key, so that the first match that
\* HeavyPart::insert and HeavyPart::query stop at is the only one.
SlotsDistinct ==
    \A b \in Bucket : \A s, t \in Slot :
        (key[b][s] = key[b][t] /\ key[b][s] # NoKey) => s = t

\* The sketch errs on one side only: query never returns less than the
\* packets inserted for a NUL-free flow, however often insert has evicted
\* the flow, demoted it to the light part and taken it back, unless the
\* light counter that query reads has saturated.
NeverUndercounts ==
    InRange => \A k \in Flow :
        Clean(k) => \/ Query(k) >= truth[k]
                    \/ ReadsLight(k) /\ Saturated(k)

\* Votes against a bucket never outgrow the threshold: the guard counter is
\* at most SwapFactor times every count in the bucket, because insert resets
\* it in the same call that lets a newcomer start from 1.
GuardBelowThreshold ==
    (pnum * SwapFactor < Word /\ pnum < HighBit) =>
        \A b \in Bucket : \A s \in Slot :
            guard[b] <= SwapFactor * GetCounterVal(val[b][s])

\* No other flow adds to what the sketch keeps for k.
Isolated(k) ==
    /\ Clean(k)
    /\ \A j \in Flow \ {k} :
        /\ Cut[j] # k
        /\ LightHash[j] # LightHash[k]
        /\ LightHash[Cut[j]] # LightHash[k]

\* Without a collision the sketch is exact: the count query returns for an
\* isolated flow is the number of its packets, however they were split
\* between the heavy and the light part by evictions.
ExactWhenIsolated ==
    InRange => \A k \in Flow :
        Isolated(k) => \/ Query(k) = truth[k]
                       \/ ReadsLight(k) /\ Saturated(k)

\* mice_dist, which get_cardinality, get_entropy and the collector read
\* instead of the counters, agrees with the counters: entry v counts the
\* counters that hold v, and entry 0 counts the used counters negatively.
MiceDistAgrees ==
    LET Holding(v) == Cardinality({p \in Counter : counters[p] = v})
    IN /\ \A v \in 1 .. LightMax : miceDist[v] = Holding(v)
       /\ miceDist[0] = Holding(0) - NCounters

\* k has been in the heavy part, unflagged, since its first packet.
Resident(k) ==
    \E s \in Slot : /\ key[HeavyHash[k]][s] = k
                    /\ ~HighestBitIs1(val[HeavyHash[k]][s])

-----------------------------------------------------------------------------
(* The inductive invariant behind NeverUndercounts and                     *)
(* GuardBelowThreshold.                                                    *)

\* strncpy wrote every stored key.
StoredKeysCut ==
    \A b \in Bucket : \A s \in Slot : Cut[key[b][s]] = key[b][s]

\* An unused slot counts nothing, a used one at least one packet and, before
\* the 31 bits overflow, no more than were inserted.
CountsInRange ==
    \A b \in Bucket : \A s \in Slot :
        IF key[b][s] = NoKey
          THEN val[b][s] = 0
          ELSE GetCounterVal(val[b][s]) \in 1 .. pnum

\* While a bucket has room no packet of it went to the light part: a flow
\* without a slot has sent nothing.
FreshWhileRoom ==
    \A k \in Flow :
        (Unused(HeavyHash[k]) # {} /\ Matching(HeavyHash[k], k) = {})
            => truth[k] = 0

\* The packets of a flow that owns a slot are in the slot or, when the flag
\* says so, partly in the light part.
CoveredInHeavy ==
    \A k \in Flow : \A s \in Slot :
        (Clean(k) /\ key[HeavyHash[k]][s] = k) =>
            LET v == val[HeavyHash[k]][s]
            IN IF HighestBitIs1(v)
                 THEN GetCounterVal(v) + LightQuery(k) >= truth[k] \/ Saturated(k)
                 ELSE v >= truth[k]

\* The packets of a flow that owns no slot are in the light part.
CoveredInLight ==
    \A k \in Flow :
        (Clean(k) /\ Matching(HeavyHash[k], k) = {}) =>
            LightQuery(k) >= truth[k] \/ Saturated(k)

\* Where every packet of every flow is kept, after any sequence of inserts:
\* the inductive strengthening of NeverUndercounts and GuardBelowThreshold.
IInv ==
    /\ TypeOK
    /\ StoredKeysCut
    /\ SlotsDistinct
    /\ FreshWhileRoom
    /\ pnum < HighBit => CountsInRange
    /\ GuardBelowThreshold
    /\ InRange => (CoveredInHeavy /\ CoveredInLight)
=============================================================================
