--------------------------- MODULE SketchMeasures ---------------------------
(***************************************************************************)
(* The measurement tasks on top of the Elastic sketch: the compressed      *)
(* light part, the cardinality estimate, and the packet total that the     *)
(* collector's process_data accumulates for the entropy.  They combine     *)
(* both parts of the sketch and correct for flows that are in both.        *)
(***************************************************************************)
EXTENDS ElasticSketch, FiniteSetsExt

CONSTANTS
    LinearCount,  \* counter_num * log(1 / rate), truncated, by used counters
    Ratios,       \* the compression ratios asked for
    Threshold     \* heavy hitter thresholds asked for

ASSUME MeasureAssumption ==
    /\ IsFiniteSet(Flow)
    /\ IsFiniteSet(Bucket)
    /\ Threshold \subseteq Int
    /\ LinearCount \in [0 .. (NCounters - 1) -> Nat]
    /\ \A m \in 0 .. (NCounters - 1) : LinearCount[m] >= m
    /\ Ratios \subseteq 1 .. NCounters

HeavySlot == Bucket \X Slot

\* The sum of the values of f.
SumOf(f) == MapThenSumSet(LAMBDA x : f[x], DOMAIN f)

-----------------------------------------------------------------------------
(* LightPart::compress and query_compressed_part. *)

CompressWidth(ratio) == NCounters \div ratio

\* Faulty variant: counters beyond the last full group are left out.
CompressDropsTail(ratio) ==
    LET width == CompressWidth(ratio)
    IN [i \in 0 .. (width - 1) |->
            Max({counters[j] : j \in {n \in Counter : /\ n % width = i
                                                      /\ n < width * ratio}})]

Compress(ratio) ==
    LET width == CompressWidth(ratio)
    IN [i \in 0 .. (width - 1) |->
            Max({counters[j] : j \in {n \in Counter : n % width = i}})]

\* The compressed counters are read through a plain (signed) char.
AsChar(v) == IF 2 * v > LightMax THEN v - (LightMax + 1) ELSE v

QueryCompressed(k, ratio) ==
    LET lightResult ==
            AsChar(Compress(ratio)[LightHash[k] % CompressWidth(ratio)])
    IN IF ReadsLight(k) THEN GetCounterVal(HeavyQuery(k)) + lightResult
                        ELSE HeavyQuery(k)

-----------------------------------------------------------------------------
(* get_heavy_hitters, get_cardinality and the total of process_data.  Each *)
(* walks every slot and looks the stored key up in the light part.         *)

StoredKey(h) == key[h[1]][h[2]]
StoredVal(h) == val[h[1]][h[2]]
ExVal(h) == LightQuery(StoredKey(h))

\* The slot's flow is also counted in the light part.
InBoth(h) == HighestBitIs1(StoredVal(h)) /\ ExVal(h) # 0

\* Faulty variant: the threshold itself is left out.
GetHeavyHittersAbove(threshold) ==
    {<<StoredKey(h), Query(StoredKey(h))>> :
        h \in {g \in HeavySlot : Query(StoredKey(g)) > threshold}}

GetHeavyHitters(threshold) ==
    {<<StoredKey(h), Query(StoredKey(h))>> :
        h \in {g \in HeavySlot : Query(StoredKey(g)) >= threshold}}

MiceCard == SumOf([v \in 1 .. LightMax |-> miceDist[v]])

GetCardinality ==
    LinearCount[MiceCard]
      + Cardinality({h \in HeavySlot : GetCounterVal(StoredVal(h)) # 0})
      - Cardinality({h \in HeavySlot : InBoth(h)})

\* Faulty variant: the light part's share is not added back.
ReportedValHeavy(h) == GetCounterVal(StoredVal(h))

\* What the collector reports for the slot.
ReportedVal(h) ==
    GetCounterVal(StoredVal(h)) + (IF InBoth(h) THEN ExVal(h) ELSE 0)

Total ==
    SumOf([v \in 1 .. LightMax |-> miceDist[v] * v])
      - SumOf([h \in {g \in HeavySlot : InBoth(g)} |-> ExVal(h)])
      + SumOf([h \in HeavySlot |-> ReportedVal(h)])

-----------------------------------------------------------------------------
(* Properties. *)

\* Compressing the light part keeps the one-sided error: as long as no
\* counter has outgrown the signed char it is read through, the compressed
\* answer is never below the uncompressed one, for ratios that divide the
\* number of counters and for ratios that do not.
CompressedNeverBelow ==
    (\A p \in Counter : 2 * counters[p] <= LightMax) =>
        \A r \in Ratios, k \in Flow : QueryCompressed(k, r) >= Query(k)

Seen == {k \in Flow : truth[k] > 0}

\* The flows seen so far share no light counter and no stored key.
NoCollision ==
    \A j, k \in Seen : /\ Clean(k)
                       /\ j # k => LightHash[j] # LightHash[k]

NoneSaturated == \A p \in Counter : counters[p] < LightMax

\* Without hash collisions the corrections of get_cardinality are right: a
\* flow that left packets in the light part and came back to the heavy part
\* is counted once, so the estimate is never below the number of flows.
CardinalityNeverLow ==
    (InRange /\ NoCollision /\ MiceCard < NCounters) =>
        GetCardinality >= Cardinality(Seen)

\* Without hash collisions the total behind the entropy estimate counts every
\* packet once: what the light part holds for a flow that is also in the
\* heavy part is taken out before it is added back.
TotalCountsEveryPacket ==
    (InRange /\ NoCollision /\ NoneSaturated) => Total = pnum

\* A flow that is in both parts is in each measure once.
CountedOnce == CardinalityNeverLow /\ TotalCountsEveryPacket

\* get_heavy_hitters misses no flow of the heavy part that has reached the
\* threshold, though it queries by the stored key and not by the slot.
HittersComplete ==
    InRange => \A t \in Threshold, k \in Flow :
        (/\ Clean(k)
         /\ truth[k] >= t
         /\ Matching(HeavyHash[k], k) # {}
         /\ ~Saturated(k)) => \E h \in GetHeavyHitters(t) : h[1] = k

\* Packets of the other flows of k's bucket.
Rivals(k) ==
    SumOf([j \in {i \in Flow \ {k} : HeavyHash[i] = HeavyHash[k]} |-> truth[j]])

\* A large flow is not displaced by a few small ones: a flow that has been in
\* the heavy part since its first packet is evicted only when the other flows
\* of its bucket have together sent more than SwapFactor times its packets;
\* provided that no count is so large that the shifted threshold wraps.
EvictionNeedsRivals ==
    [][\A k \in Flow :
        (/\ InRange
         /\ pnum * SwapFactor < Word
         /\ Clean(k)
         /\ Resident(k)
         /\ ~Resident(k)')
            => Rivals(k)' > SwapFactor * truth[k]]_vars

\* The heavy part reports 5-tuples of real flows.
StoredKeysAreFlows ==
    \A h \in HeavySlot : StoredKey(h) # NoKey => StoredKey(h) \in Flow
=============================================================================
