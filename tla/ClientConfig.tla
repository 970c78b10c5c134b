---------------------------- MODULE ClientConfig ----------------------------
(***************************************************************************)
(* read_config of client.c and incast-client.c reads the configuration     *)
(* file twice, once to count the lines of each key and allocate a table    *)
(* for each, once to fill the tables; set_req_variables then draws what a  *)
(* request is made of.  sscanf leaves key alone on a line without a word,  *)
(* so such a line is taken for one more line of the key before it, and     *)
(* the second reading starts with the last key of the first.               *)
(***************************************************************************)
EXTENDS Integers, FiniteSets, FiniteSetsExt, Sequences, SequencesExt

CONSTANTS
    Fanouts,      \* whether the program is incast-client
    Lines,        \* the lines of files: [key, val, weight], or Blank
    Blank,        \* a line without a word
    MaxLines,     \* the longest file
    DscpBound,    \* 64: the first value that is no DSCP
    DefaultWeight \* 100: the weight of the only entry of a default

ASSUME ConfigAssumption ==
    /\ Fanouts \in BOOLEAN
    /\ MaxLines \in Nat
    /\ DscpBound \in Nat \ {0}
    /\ DefaultWeight \in Nat \ {0}

\* The tables that are drawn from by weight, and all keys.
Weighted == {"dscp", "rate"} \cup (IF Fanouts THEN {"fanout"} ELSE {})
Keys == {"server", "req_size_dist"} \cup Weighted

NoKey == "none"

VARIABLES
    file,       \* the configuration file
    pc,         \* "first", "second", "read", "drawn", "refused" (error()),
                \* "undefined" (wrote past a table), "unloaded" (no such
                \* distribution file) or "crashed"
    pos,        \* the lines read in this reading
    key,        \* the key that sscanf left
    count,      \* num_server ... num_fanout as the first reading counts them
    table,      \* the tables as the second reading fills them
    maxFanout,  \* max_fanout_size
    req         \* a request that was drawn

configVars == <<file, pc, pos, key, count, table, maxFanout, req>>

NoReq == "none"

\* read_config is about to read the file.
ConfigStart ==
    /\ pc = "first"
    /\ pos = 0
    /\ key = NoKey
    /\ count = [k \in Keys |-> 0]
    /\ table = [k \in Keys |-> <<>>]
    /\ maxFanout = 1
    /\ req = NoReq

ConfigInit ==
    /\ \E n \in 0 .. MaxLines : file \in [1 .. n -> Lines]
    /\ ConfigStart

-----------------------------------------------------------------------------
\* The key after sscanf(line, "%s", key).
KeyOf(line) == IF line = Blank THEN key ELSE line.key

\* Faulty variant: the first reading alone passes over lines without a word.
CountLineSkipsBlank ==
    LET line == file[pos + 1]
    IN /\ pc = "first"
       /\ pos < Len(file)
       /\ key' = KeyOf(line)
       /\ count' = [k \in Keys |->
             count[k] + (IF line # Blank /\ k = key' THEN 1 ELSE 0)]
       /\ pos' = pos + 1
       /\ UNCHANGED <<file, pc, table, maxFanout, req>>

\* One line of the first reading.
CountLine ==
    /\ pc = "first"
    /\ pos < Len(file)
    /\ key' = KeyOf(file[pos + 1])
    /\ count' = [k \in Keys |-> count[k] + (IF k = key' THEN 1 ELSE 0)]
    /\ pos' = pos + 1
    /\ UNCHANGED <<file, pc, table, maxFanout, req>>

\* The checks between the readings; the tables get their size.
EndFirst ==
    /\ pc = "first"
    /\ pos = Len(file)
    /\ pc' = IF count["server"] < 1 \/ count["req_size_dist"] # 1
               THEN "refused" ELSE "second"
    /\ pos' = 0
    /\ UNCHANGED <<file, key, count, table, maxFanout, req>>

\* calloc of max(num, 1) zeroed entries.
Allocated(k) == IF count[k] > 1 THEN count[k] ELSE 1

\* What a line without a word leaves in its entry, the empty name of a file
\* among it; no file that cannot be opened is told from another.
NoFile == 0
ZeroEntry(k) == [key |-> k, val |-> NoFile, weight |-> 0]
EntryOf(line, k) == IF line = Blank THEN ZeroEntry(k) ELSE line

Invalid(entry) ==
    \/ entry.key = "dscp" /\ entry.val >= DscpBound
    \/ entry.key = "fanout" /\ entry.val < 1

LargerFanout(entry) ==
    IF entry.key = "fanout" /\ entry.val > maxFanout THEN entry.val ELSE maxFanout

\* A line of the second reading whose key is not one of the program's.
SkipLine ==
    /\ pc = "second"
    /\ pos < Len(file)
    /\ key' = KeyOf(file[pos + 1])
    /\ key' \notin Keys
    /\ pos' = pos + 1
    /\ UNCHANGED <<file, pc, count, table, maxFanout, req>>

\* A line of the second reading that has a key: its entry is filled and, in
\* a table of weights, checked.
ReadLine ==
    LET line == file[pos + 1]
        entry == EntryOf(line, key')
    IN /\ pc = "second"
       /\ pos < Len(file)
       /\ key' = KeyOf(line)
       /\ key' \in Keys
       /\ Len(table[key']) < Allocated(key')
       /\ key' = "req_size_dist" => entry.val # NoFile
       /\ table' = IF Invalid(entry) THEN table
                   ELSE [table EXCEPT ![key'] = Append(@, entry)]
       /\ maxFanout' = IF Invalid(entry) THEN maxFanout ELSE LargerFanout(entry)
       /\ pc' = IF Invalid(entry) THEN "refused" ELSE pc
       /\ pos' = pos + 1
       /\ UNCHANGED <<file, count, req>>

\* The entry is past the end of its table.
ReadPastTable ==
    /\ pc = "second"
    /\ pos < Len(file)
    /\ key' = KeyOf(file[pos + 1])
    /\ key' \in Keys \ {"req_size_dist"}
    /\ Len(table[key']) >= Allocated(key')
    /\ pc' = "undefined"
    /\ UNCHANGED <<file, pos, count, table, maxFanout, req>>

\* load_cdf goes on after a distribution file that cannot be opened.
LoadNoFile ==
    /\ pc = "second"
    /\ pos < Len(file)
    /\ key' = KeyOf(file[pos + 1])
    /\ key' = "req_size_dist"
    /\ EntryOf(file[pos + 1], key').val = NoFile
    /\ table[key'] = <<>>
    /\ pc' = "unloaded"
    /\ UNCHANGED <<file, pos, count, table, maxFanout, req>>

\* The entry of a table that the file gives nothing for.
Default(k) ==
    [key |-> k, val |-> IF k = "fanout" THEN 1 ELSE 0, weight |-> DefaultWeight]

EndSecond ==
    /\ pc = "second"
    /\ pos = Len(file)
    /\ table' = [k \in Keys |->
          IF k \in Weighted /\ table[k] = <<>> THEN <<Default(k)>> ELSE table[k]]
    /\ pc' = "read"
    /\ UNCHANGED <<file, pos, key, count, maxFanout, req>>

-----------------------------------------------------------------------------
\* The sum of the weights of the first n entries, and of all.
WeightUpTo(k, n) == MapThenSumSet(LAMBDA i : table[k][i].weight, 1 .. n)
WeightTotal(k) == WeightUpTo(k, Len(table[k]))

\* Faulty variant: a number at the border goes to the entry before it.
GenValueWeightLate(k, x) ==
    table[k][Min({i \in DOMAIN table[k] : x <= WeightUpTo(k, i)})].val

\* gen_value_weight, where x is rand() % weight_total.
GenValueWeight(k, x) ==
    table[k][Min({i \in DOMAIN table[k] : x < WeightUpTo(k, i)})].val

\* set_req_variables, for one request.
DrawRequest ==
    /\ pc = "read"
    /\ \A k \in Weighted : WeightTotal(k) > 0
    /\ \E i \in DOMAIN table["server"] :
       \E drawn \in [Weighted -> 0 .. Max({WeightTotal(k) : k \in Weighted}) - 1] :
          /\ \A k \in Weighted : drawn[k] < WeightTotal(k)
          /\ req' = [server |-> table["server"][i].val,
                     vals |-> [k \in Weighted |-> GenValueWeight(k, drawn[k])]]
    /\ pc' = "drawn"
    /\ UNCHANGED <<file, pos, key, count, table, maxFanout>>

\* rand() % 0.
DrawFromNothing ==
    /\ pc = "read"
    /\ \E k \in Weighted : WeightTotal(k) = 0
    /\ pc' = "crashed"
    /\ UNCHANGED <<file, pos, key, count, table, maxFanout, req>>

ConfigNext ==
    \/ CountLine \/ EndFirst
    \/ SkipLine \/ ReadLine \/ ReadPastTable \/ LoadNoFile \/ EndSecond
    \/ DrawRequest \/ DrawFromNothing

ConfigSpec == ConfigInit /\ [][ConfigNext]_configVars

-----------------------------------------------------------------------------
(* Properties.                                                             *)

LinesOf(k) == SelectSeq(file, LAMBDA line : line # Blank /\ line.key = k)

\* The second reading never needs more room than the first one counted, even
\* with lines without a word in the file, unless the file begins with one.
SecondPassFits ==
    (file # <<>> /\ file[1] # Blank) => pc # "undefined"

\* Of a file that every line of which has a word, each table holds exactly
\* the lines of its key in their order, or its default, and every DSCP is one
\* that a packet can carry.  The connections that main opens to each server,
\* max_fanout_size of them, are enough for any request that can be drawn.
ReadsAsWritten ==
    (pc = "read" /\ Blank \notin Range(file)) =>
        /\ \A k \in Keys :
              table[k] = IF LinesOf(k) = <<>> THEN <<Default(k)>> ELSE LinesOf(k)
        /\ \A i \in DOMAIN table["dscp"] : table["dscp"][i].val < DscpBound
        /\ Fanouts => \A i \in DOMAIN table["fanout"] :
                          table["fanout"][i].val \in 1 .. maxFanout

\* The two readings of the file agree with each other and with the file.
ReadingsAgree == SecondPassFits /\ ReadsAsWritten

\* Each value is drawn with a probability in proportion to its weight in the
\* file (README of the traffic generator), lines without a word or not.
WeightsHonoured ==
    pc = "read" =>
        \A k \in Weighted :
            LET written == IF LinesOf(k) = <<>> THEN <<Default(k)>> ELSE LinesOf(k)
                Weight(v) == MapThenSumSet(LAMBDA i : written[i].weight,
                                 {i \in DOMAIN written : written[i].val = v})
                draws == 0 .. WeightTotal(k) - 1
            IN WeightTotal(k) > 0 =>
               \A v \in {written[i].val : i \in DOMAIN written} :
                   Cardinality({x \in draws : GenValueWeight(k, x) = v}) = Weight(v)
=============================================================================
