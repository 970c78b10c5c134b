------------------------------- MODULE EMFSD -------------------------------
(***************************************************************************)
(* The estimate of the flow size distribution from the counters of the     *)
(* light part (EMFSD.h).  For every value that a counter has, next_epoch   *)
(* goes twice through the ways to make it up of flows, which               *)
(* BetaGenerator enumerates: first for the sum of their probabilities,     *)
(* then to share the counters of that value out to the flow sizes.         *)
(*                                                                         *)
(* Probabilities are floating-point numbers; which of them are positive is *)
(* what is kept here: a way has a positive probability when every size in  *)
(* it has a positive share of the distribution.                            *)
(***************************************************************************)
EXTENDS Integers, FiniteSets, FiniteSetsExt, Sequences, SequencesExt

CONSTANTS
    CounterValues,   \* the sets of values that the counters may have
    Epochs           \* calls of next_epoch

ASSUME EMFSDAssumption ==
    /\ \A values \in CounterValues : values \subseteq Nat \ {0}
    /\ Epochs \in Nat

VARIABLES
    counterDist,   \* the values i > 0 with counter_dist[i] > 0
    dist,          \* the sizes with a positive share, dist_new
    ns,            \* the sizes given a positive number in this epoch
    epoch,         \* epochs that ended
    pass,          \* "idle", "sum" (bts1) or "share" (bts2)
    val,           \* the value being made up
    sumP,          \* sum_p > 0
    nowResult,     \* now_result; now_flow_num is its length
    previous,      \* the way enumerated before it
    found          \* the number of ways enumerated in this pass

emVars == <<counterDist, dist, ns, epoch, pass, val, sumP, nowResult, previous, found>>

-----------------------------------------------------------------------------
(* BetaGenerator.                                                          *)

\* flow_num_limit: the flows of a way are fewer.
FlowNumLimit(sum) ==
    CASE sum > 600 -> 3
      [] sum > 300 -> 4
      [] sum > 50  -> 5
      [] OTHER     -> 7

\* What get_next starts from for a number n of flows.
FirstComb(n) == [k \in 1 .. n |-> IF k < n - 1 THEN 1 ELSE 0]

\* The last flow when the j-th, and all after it but the last, have one more.
Remain(sum, comb, j) ==
    sum - MapThenSumSet(LAMBDA k : comb[k], 1 .. j - 1)
        - (Len(comb) - j) * (comb[j] + 1)

\* Faulty variant: the last flow must be larger than the one before it.
RaisableStrictly(sum, comb) ==
    {j \in 1 .. Len(comb) - 1 : Remain(sum, comb, j) > comb[j] + 1}

\* The flows that get_new_comb can raise.
Raisable(sum, comb) ==
    {j \in 1 .. Len(comb) - 1 : Remain(sum, comb, j) >= comb[j] + 1}

\* get_new_comb, with the flow it raises.
NewComb(sum, comb, j) ==
    [k \in DOMAIN comb |->
        IF k < j THEN comb[k]
        ELSE IF k < Len(comb) THEN comb[j] + 1
        ELSE Remain(sum, comb, j)]

\* Where get_next looks for a way of n flows after comb.
LooksFrom(comb, n) == IF n = Len(comb) THEN comb ELSE FirstComb(n)

\* The numbers of flows for which get_new_comb succeeds.
FlowNums(sum, comb) ==
    {n \in Len(comb) .. FlowNumLimit(sum) - 1 : Raisable(sum, LooksFrom(comb, n)) # {}}

\* Does get_next return true?
HasNext(sum, comb) == comb = <<>> \/ FlowNums(sum, comb) # {}

\* Faulty variant: the first way is of two flows.
GetNextFromTwo(sum, comb) ==
    IF comb = <<>> /\ sum > 1 THEN <<1, sum - 1>>
    ELSE IF comb = <<>> THEN <<sum>>
    ELSE LET from == LooksFrom(comb, Min(FlowNums(sum, comb)))
         IN NewComb(sum, from, Max(Raisable(sum, from)))

GetNext(sum, comb) ==
    IF comb = <<>> THEN <<sum>>
    ELSE LET from == LooksFrom(comb, Min(FlowNums(sum, comb)))
         IN NewComb(sum, from, Max(Raisable(sum, from)))

-----------------------------------------------------------------------------
\* set_counters.
EMFSDStart ==
    /\ dist = counterDist
    /\ ns = {}
    /\ epoch = 0
    /\ pass = "idle"
    /\ val = 0
    /\ sumP = FALSE
    /\ nowResult = <<>>
    /\ previous = <<>>
    /\ found = 0

EMFSDInit == counterDist \in CounterValues /\ EMFSDStart

NewGenerator ==
    /\ nowResult' = <<>>
    /\ previous' = <<>>
    /\ found' = 0

\* get_next returns true.
Enumerates ==
    /\ HasNext(val, nowResult)
    /\ nowResult' = GetNext(val, nowResult)
    /\ previous' = nowResult
    /\ found' = found + 1

\* get_p_from_beta > 0.
Possible(comb) == Range(comb) \subseteq dist

NextEpoch ==
    /\ pass = "idle"
    /\ epoch < Epochs
    /\ counterDist # {}
    /\ ns' = {}
    /\ val' = Min(counterDist)
    /\ pass' = "sum"
    /\ sumP' = FALSE
    /\ NewGenerator
    /\ UNCHANGED <<counterDist, dist, epoch>>

AddProbability ==
    /\ pass = "sum"
    /\ Enumerates
    /\ sumP' = (sumP \/ Possible(nowResult'))
    /\ UNCHANGED <<counterDist, dist, ns, epoch, pass, val>>

BeginShare ==
    /\ pass = "sum"
    /\ ~HasNext(val, nowResult)
    /\ pass' = "share"
    /\ NewGenerator
    /\ UNCHANGED <<counterDist, dist, ns, epoch, val, sumP>>

Share ==
    /\ pass = "share"
    /\ Enumerates
    /\ ns' = IF Possible(nowResult') THEN ns \cup Range(nowResult') ELSE ns
    /\ UNCHANGED <<counterDist, dist, epoch, pass, val, sumP>>

NextValue ==
    LET rest == {i \in counterDist : i > val}
    IN /\ pass = "share"
       /\ ~HasNext(val, nowResult)
       /\ rest # {}
       /\ val' = Min(rest)
       /\ pass' = "sum"
       /\ sumP' = FALSE
       /\ NewGenerator
       /\ UNCHANGED <<counterDist, dist, ns, epoch>>

EndEpoch ==
    /\ pass = "share"
    /\ ~HasNext(val, nowResult)
    /\ val = Max(counterDist)
    /\ dist' = ns
    /\ epoch' = epoch + 1
    /\ pass' = "idle"
    /\ NewGenerator
    /\ UNCHANGED <<counterDist, ns, val, sumP>>

EMFSDNext ==
    \/ NextEpoch \/ AddProbability \/ BeginShare \/ Share \/ NextValue \/ EndEpoch

EMFSDSpec == EMFSDInit /\ [][EMFSDNext]_emVars

-----------------------------------------------------------------------------
(* Properties.                                                             *)

\* The partitions of n into at most k parts, by the recurrence.
Partitions[n \in Nat, k \in Nat] ==
    IF n = 0 THEN 1
    ELSE IF k = 0 THEN 0
    ELSE Partitions[n, k - 1] + (IF n >= k THEN Partitions[n - k, k] ELSE 0)

IsWay(comb, sum) ==
    /\ FoldSeq(+, 0, comb) = sum
    /\ \A k \in DOMAIN comb : comb[k] >= 1
    /\ \A k \in 2 .. Len(comb) : comb[k - 1] <= comb[k]

Precedes(c1, c2) ==
    \/ Len(c1) < Len(c2)
    \/ /\ Len(c1) = Len(c2)
       /\ \E k \in DOMAIN c1 :
             /\ c1[k] < c2[k]
             /\ \A j \in 1 .. k - 1 : c1[j] = c2[j]

\* BetaGenerator gives every way to make up a counter value of fewer flows
\* than its limit, and gives it once: each is one, they come in a strict
\* order, and in the end there are as many as there are partitions.
EveryWayOnce ==
    pass # "idle" =>
        /\ nowResult # <<>> => IsWay(nowResult, val) /\ Precedes(previous, nowResult)
        /\ ~HasNext(val, nowResult) => found = Partitions[val, FlowNumLimit(val) - 1]

\* next_epoch never divides by a sum_p of 0, and from epoch to epoch the
\* sizes with a positive share stay the values that the counters have: no
\* counter loses its explanation, however often next_epoch is called.
EpochsExplainCounters ==
    /\ pass = "share" => sumP
    /\ pass = "idle" => dist = counterDist
=============================================================================
