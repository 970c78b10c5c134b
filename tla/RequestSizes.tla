---------------------------- MODULE RequestSizes ----------------------------
(***************************************************************************)
(* The request size distribution (cdf.c): load_cdf reads a table of sizes  *)
(* and cumulative probabilities line by line, gen_random_cdf draws from it *)
(* and avg_cdf is the mean that the request rate is computed from.         *)
(*                                                                         *)
(* Probabilities are counted in units of which Unit make 1.  The sizes in  *)
(* an instance are multiples of 2 and of every difference of               *)
(* probabilities, so that every division is exact.                         *)
(***************************************************************************)
EXTENDS Integers, FiniteSets, FiniteSetsExt, Sequences

CONSTANTS
    Unit,         \* cumulative probability 1
    TableEntry,   \* TG_CDF_TABLE_ENTRY, the first size of the table
    File,         \* the files: sequences of [value, cdf] and of NoNumbers
    NoNumbers,    \* a line without numbers
    Garbage       \* entries that memory from malloc may hold

ASSUME SizesAssumption ==
    /\ Unit \in Nat \ {0}
    /\ TableEntry \in Nat \ {0}

VARIABLES
    cdfFile, cdfPos,  \* the file, and the lines of it read so far
    entries,          \* entries 0 .. num_entry - 1, from 1 here
    maxEntry,         \* max_entry: allocated
    minCdf, maxCdf,   \* min_cdf, max_cdf
    cdfPc             \* "load", "ready", or "crashed"

cdfVars == <<cdfFile, cdfPos, entries, maxEntry, minCdf, maxCdf, cdfPc>>

-----------------------------------------------------------------------------
\* init_cdf.
CdfStart ==
    /\ cdfPos = 0
    /\ entries = <<>>
    /\ maxEntry = TableEntry
    /\ minCdf = 0
    /\ maxCdf = Unit
    /\ cdfPc = "load"

CdfInit == cdfFile \in File /\ CdfStart

\* load_cdf goes on with a file that it could not open.
OpenFails ==
    /\ cdfPc = "load"
    /\ cdfPos = 0
    /\ cdfPc' = "crashed"
    /\ UNCHANGED <<cdfFile, cdfPos, entries, maxEntry, minCdf, maxCdf>>

Least(x, y) == IF x < y THEN x ELSE y
Greatest(x, y) == IF x > y THEN x ELSE y

\* A full table is doubled first, and its entries copied.  Whatever sscanf
\* makes of the line, the entry counts: a line without numbers leaves in it
\* what the memory held.
LoadLine ==
    LET line == cdfFile[cdfPos + 1]
    IN /\ cdfPc = "load"
       /\ cdfPos < Len(cdfFile)
       /\ maxEntry' = IF Len(entries) >= maxEntry THEN 2 * maxEntry ELSE maxEntry
       /\ \E e \in IF line = NoNumbers THEN Garbage ELSE {line} :
             /\ entries' = Append(entries, e)
             /\ minCdf' = Least(minCdf, e.cdf)
             /\ maxCdf' = Greatest(maxCdf, e.cdf)
       /\ cdfPos' = cdfPos + 1
       /\ UNCHANGED <<cdfFile, cdfPc>>

EndLoad ==
    /\ cdfPc = "load"
    /\ cdfPos = Len(cdfFile)
    /\ cdfPc' = "ready"
    /\ UNCHANGED <<cdfFile, cdfPos, entries, maxEntry, minCdf, maxCdf>>

CdfNext == OpenFails \/ LoadLine \/ EndLoad

CdfSpec == CdfInit /\ [][CdfNext]_cdfVars

-----------------------------------------------------------------------------
(* avg_cdf and gen_random_cdf on the loaded table.                         *)

ValueAt(i) == IF i = 0 THEN 0 ELSE entries[i].value
CdfAt(i) == IF i = 0 THEN 0 ELSE entries[i].cdf

\* Faulty variant: the mass up to the first entry is left out.
AvgCdf2FromSecond ==
    MapThenSumSet(
        LAMBDA i : (ValueAt(i) + ValueAt(i - 1)) * (CdfAt(i) - CdfAt(i - 1)),
        DOMAIN entries \ {1})

\* Twice the average size, in units of probability.
AvgCdf2 ==
    MapThenSumSet(
        LAMBDA i : (ValueAt(i) + ValueAt(i - 1)) * (CdfAt(i) - CdfAt(i - 1)),
        DOMAIN entries)

Interpolate(x, x1, y1, x2, y2) ==
    IF x1 = x2 THEN (y1 + y2) \div 2
               ELSE y1 + ((x - x1) * (y2 - y1)) \div (x2 - x1)

\* Faulty variant: the segment starts at the entry before.
GenRandomCdfEarly(x) ==
    LET above == {i \in DOMAIN entries : x <= entries[i].cdf}
        i == Min(above)
    IN IF above = {} THEN entries[Len(entries)].value
       ELSE Interpolate(x, CdfAt(i - 1), ValueAt(IF i > 1 THEN i - 2 ELSE 0),
                        CdfAt(i), ValueAt(i))

\* x is the random number, from minCdf to maxCdf.
GenRandomCdf(x) ==
    LET above == {i \in DOMAIN entries : x <= entries[i].cdf}
        i == Min(above)
    IN IF above = {}
         THEN entries[Len(entries)].value
         ELSE Interpolate(x, CdfAt(i - 1), ValueAt(i - 1), CdfAt(i), ValueAt(i))

-----------------------------------------------------------------------------
(* Properties.                                                             *)

\* A table that rises strictly to 1, as the format asks for.
Proper(t) ==
    /\ t # <<>>
    /\ \A i \in DOMAIN t : t[i] # NoNumbers
    /\ t[Len(t)].cdf = Unit
    /\ \A i \in 2 .. Len(t) :
          /\ t[i - 1].cdf < t[i].cdf
          /\ t[i - 1].value <= t[i].value

\* A larger random number never gives a smaller size, over the whole range
\* and across the borders of the segments.  The upper end of the range gives
\* the last size, each entry's probability above 0 the size of the entry, and
\* the lower end 0 where the first size has mass.  Where it has none the
\* lower end gives half of the first size, which is no size of the
\* distribution: interpolate averages the size with the 0 before it.
DrawsFollowCdf ==
    (cdfPc = "ready" /\ Proper(cdfFile)) =>
        /\ \A x \in minCdf + 1 .. maxCdf : GenRandomCdf(x - 1) <= GenRandomCdf(x)
        /\ GenRandomCdf(maxCdf) = cdfFile[Len(cdfFile)].value
        /\ \A i \in DOMAIN cdfFile : cdfFile[i].cdf > 0 =>
              GenRandomCdf(cdfFile[i].cdf) = cdfFile[i].value
        /\ GenRandomCdf(minCdf) =
              IF cdfFile[1].cdf > 0 THEN 0 ELSE cdfFile[1].value \div 2

\* The line between two neighbouring random numbers, as the sum of its ends;
\* at 0 the distribution starts with the first size if that has no mass.
DrawStart == IF CdfAt(1) = 0 THEN ValueAt(1) ELSE 0
Segment2(x) == GenRandomCdf(x) + (IF x = 1 THEN DrawStart ELSE GenRandomCdf(x - 1))

\* The average that the arrival rate of requests is computed from is the mean
\* of the sizes that are drawn: the load asked for is the load generated.
AvgIsMean ==
    (cdfPc = "ready" /\ Len(cdfFile) > 1) =>
        AvgCdf2 = MapThenSumSet(Segment2, 1 .. Unit)
=============================================================================
