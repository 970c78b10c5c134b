-------------------------- MODULE GeneratedConfig --------------------------
(***************************************************************************)
(* The configuration file that the master of an experiment writes for the  *)
(* client of each worker (gen_conf_file of run_all_to_all.py and of        *)
(* run_inter_rack.py), read by that client.                                *)
(*                                                                         *)
(* The line with the distribution gets the name of the worker's copy, but  *)
(* no end: the next line that is kept goes on behind the name.             *)
(***************************************************************************)
EXTENDS ClientConfig

CONSTANTS
    Masters,      \* the master's own files, with one req_size_dist line;
                  \* the weight of a server line is its rack, NoRack if none
    NoRack,
    StartsWith    \* the <<h, host>> for which "server " + h begins the line
                  \* of host

ASSUME GeneratedAssumption ==
    \A master \in Masters :
        Cardinality({i \in DOMAIN master : master[i].key = "req_size_dist"}) = 1

VARIABLE
    asked    \* what the file was generated from: [script, master, host,
             \* rack], or ByHand

generatedVars == <<asked, configVars>>

ByHand == [script |-> "none", master |-> <<>>, host |-> NoFile, rack |-> NoRack]
Scripts == {"all_to_all", "inter_rack"}

-----------------------------------------------------------------------------
IsServer(line) == line.key = "server"
IsDist(line) == line.key = "req_size_dist"

\* The lines a script takes for workers.
IsWorker(script, line) ==
    IsServer(line) /\ (line.weight = NoRack <=> script = "all_to_all")

\* Faulty variant: a host is not left out of its own list.
CopiesLineAll(a, line) ==
    CASE a.script = "all_to_all" -> TRUE
      [] a.script = "inter_rack" -> IsServer(line) /\ line.weight \notin {NoRack, a.rack}

\* The lines that are copied to the worker's file, other than the
\* distribution's; inter_rack leaves the rack out of them.
CopiesLine(a, line) ==
    CASE a.script = "all_to_all" -> ~(IsServer(line) /\ <<a.host, line.val>> \in StartsWith)
      [] a.script = "inter_rack" -> IsServer(line) /\ line.weight \notin {NoRack, a.rack}

Copied(a, line) ==
    IF a.script = "inter_rack" /\ IsServer(line) THEN [line EXCEPT !.weight = NoRack] ELSE line

\* The lines of the master's file that go into the worker's.
Kept(a) == SelectSeq(a.master, LAMBDA line : IsDist(line) \/ CopiesLine(a, line))

GenConfFile(a) ==
    LET copy == [i \in DOMAIN Kept(a) |-> Copied(a, Kept(a)[i])]
        d == SelectInSeq(copy, IsDist)
    IN IF d = Len(copy) THEN copy
       ELSE IF copy[d + 1] = Blank THEN RemoveAt(copy, d + 1)
       ELSE RemoveAt([copy EXCEPT ![d].val = NoFile], d + 1)

\* A file written by hand, or one that a script wrote for one of its workers.
GeneratedInit ==
    \/ ConfigInit /\ asked = ByHand
    \/ \E script \in Scripts, master \in Masters :
       \E w \in DOMAIN master :
          /\ IsWorker(script, master[w])
          /\ asked = [script |-> script, master |-> master,
                      host |-> master[w].val, rack |-> master[w].weight]
          /\ file = GenConfFile(asked)
          /\ ConfigStart

GeneratedNext == ConfigNext /\ UNCHANGED asked

GeneratedSpec == GeneratedInit /\ [][GeneratedNext]_generatedVars

-----------------------------------------------------------------------------
(* Properties.                                                             *)

Hosts(lines) == {lines[i].val : i \in {j \in DOMAIN lines : IsServer(lines[j])}}

\* The servers a worker's client is to send requests to: all but itself, or
\* those of other racks.
Peers(a) ==
    IF a.script = "all_to_all" THEN Hosts(a.master) \ {a.host}
    ELSE Hosts(SelectSeq(a.master, LAMBDA line : line.weight \notin {NoRack, a.rack}))

\* The master's file is one that a worker's can be made from.  Of the lines
\* that are kept for the worker the distribution's is the last, or an empty
\* line follows it, which is the only empty one; run_inter_rack.py keeps no
\* empty line, so for it no server of another rack may follow the
\* distribution.  In run_all_to_all.py no worker's address begins with that
\* of another.
SoundMaster(a) ==
    LET kept == Kept(a)
        d == SelectInSeq(kept, IsDist)
    IN /\ d = Len(kept) \/ kept[d + 1] = Blank
       /\ \A i \in DOMAIN kept : kept[i] = Blank => i = d + 1
       /\ a.script = "all_to_all" =>
             \A h1, h2 \in Hosts(a.master) : <<h1, h2>> \in StartsWith => h1 = h2

\* From a sound file of the master the client of every worker gets a file
\* that it can read: it is refused only if there is no server for the worker
\* to talk to or a value is invalid, it has the servers the worker is to talk
\* to and no other, and after run_all_to_all.py the DSCPs, rates and fan-outs
\* of the master's file.
GeneratedAsMeant ==
    (asked # ByHand /\ SoundMaster(asked)) =>
        /\ pc \notin {"unloaded", "undefined"}
        /\ pc = "refused" =>
              \/ Peers(asked) = {}
              \/ \E i \in DOMAIN Kept(asked) : Invalid(Kept(asked)[i])
        /\ pc = "read" =>
              /\ Hosts(table["server"]) = Peers(asked)
              /\ asked.script = "all_to_all" =>
                    \A k \in Weighted :
                        LET given == SelectSeq(asked.master, LAMBDA line : line.key = k)
                        IN table[k] = IF given = <<>> THEN <<Default(k)>> ELSE given
=============================================================================
