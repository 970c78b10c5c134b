---------------------------- MODULE MCSequential ----------------------------
(***************************************************************************)
(* The parts of the system that a single thread runs from start to end:    *)
(* reading a configuration, reading a size distribution, the cuckoo table, *)
(* the estimate of the distribution and the mangler.  They share nothing,  *)
(* so each behaviour is one of one part, with the others at rest.          *)
(***************************************************************************)
EXTENDS GeneratedConfig, MCRequestSizes, CuckooTable, EMFSD, Mangler

VARIABLE part

seqVars == <<part, generatedVars, cdfVars, cuckooVars, emVars, mgVars>>

-----------------------------------------------------------------------------
\* Lines of a configuration, with a DSCP of 64 and one of weight 0.
Line(k, v, w) == [key |-> k, val |-> v, weight |-> w]

MCBlank == Line("blank", 0, 0)
MCDist == Line("req_size_dist", 1, 0)

MCLines ==
    {Line("server", 1, 0), MCDist, MCBlank,
     Line("comment", 0, 0), Line("dscp", 1, 2), Line("dscp", 64, 1),
     Line("dscp", 2, 0), Line("rate", 5, 1), Line("fanout", 2, 1),
     Line("fanout", 3, 2)}

\* Files of a master: a distribution among up to three other lines, or among
\* four of fewer kinds, so that two racks can be on both sides of it.
MasterLines ==
    {Line("server", 1, 0), Line("server", 2, 0), Line("server", 10, 0),
     Line("server", 3, 1), Line("server", 4, 2), MCBlank, Line("rate", 5, 1)}
RackLines == {Line("server", 3, 1), Line("server", 4, 2), MCBlank}

AmongLines(lines, n) ==
    {InsertAt(others, d, MCDist) : others \in [1 .. n -> lines], d \in 1 .. n + 1}
MCMasters == UNION {AmongLines(MasterLines, n) : n \in 1 .. 3} \cup AmongLines(RackLines, 4)

\* The address of host 10 begins with that of host 1.
MCStartsWith == {<<h, h>> : h \in {1, 2, 3, 4, 10}} \cup {<<1, 10>>}

\* Keys for buckets of two slots, in which a path may pass a slot twice.
MCTableKey == {"a", "b", "c", "d", "e", "f"}
MCHash ==
    [k \in {0, 1} |->
        IF k = 0 THEN [a |-> 2, b |-> 2, c |-> 1, d |-> 2, e |-> 2, f |-> 1]
                 ELSE [a |-> 2, b |-> 1, c |-> 3, d |-> 2, e |-> 1, f |-> 1]]

\* All sets of small values, and values on either side of a limit.
MCCounterValues == SUBSET (1 .. 5) \cup {{3, 9}, {12}, {51}, {301}, {601}}

\* All seeds and keys of the small fields, some of the large ones.
In(n, s, ks) == [n |-> n, seed |-> s, keys |-> ks]
SomeKeys == {{31}, {0}, {3, 9, 17, 30}, {e \in 0 .. 31 : e % 3 = 0}}
MCInputs ==
    {In(n, s, {}) : n \in 1 .. 6, s \in SUBSET (0 .. 6)}
    \cup {In(4, s, SUBSET (0 .. 3)) : s \in SUBSET (0 .. 5)}
    \cup {In(n, s, {}) : n \in 7 .. 31, s \in {{0}, {1}, {2, 1, 0}, {9, 4}}}
    \cup {In(32, s, SomeKeys) : s \in {{0}, {31}, {7, 12, 13, 31}, 0 .. 31, {36, 3}}}

-----------------------------------------------------------------------------
ConfigAtRest == file = <<>> /\ asked = ByHand /\ ConfigStart
SizesAtRest == cdfFile = <<>> /\ CdfStart
EMFSDAtRest == counterDist = {} /\ EMFSDStart
ManglerAtRest == input = In(1, {0}, {}) /\ ManglerStart

Init ==
    \/ part = "config" /\ GeneratedInit /\ SizesAtRest /\ CuckooInit /\ EMFSDAtRest /\ ManglerAtRest
    \/ part = "sizes" /\ CdfInit /\ ConfigAtRest /\ CuckooInit /\ EMFSDAtRest /\ ManglerAtRest
    \/ part = "table" /\ CuckooInit /\ ConfigAtRest /\ SizesAtRest /\ EMFSDAtRest /\ ManglerAtRest
    \/ part = "estimate" /\ EMFSDInit /\ ConfigAtRest /\ SizesAtRest /\ CuckooInit /\ ManglerAtRest
    \/ part = "mangler" /\ ManglerInit /\ ConfigAtRest /\ SizesAtRest /\ CuckooInit /\ EMFSDAtRest

Next ==
    /\ \/ part = "config" /\ GeneratedNext /\ UNCHANGED <<cdfVars, cuckooVars, emVars, mgVars>>
       \/ part = "sizes" /\ CdfNext /\ UNCHANGED <<generatedVars, cuckooVars, emVars, mgVars>>
       \/ part = "table" /\ CuckooNext /\ UNCHANGED <<generatedVars, cdfVars, emVars, mgVars>>
       \/ part = "estimate" /\ EMFSDNext /\ UNCHANGED <<generatedVars, cdfVars, cuckooVars, mgVars>>
       \/ part = "mangler" /\ ManglerNext /\ UNCHANGED <<generatedVars, cdfVars, cuckooVars, emVars>>
    /\ UNCHANGED part

Spec == Init /\ [][Next]_seqVars
=============================================================================
