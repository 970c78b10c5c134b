# Verification of the Elastic-sketch measurement system

The repository is a network measurement system. A *device* program captures
packets and counts flows in an Elastic sketch, a *collector* gathers the
sketches of all devices, computes cardinality, entropy, heavy flows and flow
size distributions and posts them to a database, and a *traffic generator*
produces the load that is measured. This directory holds TLA+ modules that
model these programs, TLC configurations that check them on small instances,
and proofs, checked by TLAPS, about the sketch, the stream that carries it, the
collector, both clients with their connections, and the scripts, for every
instance.

Source paths are relative to `src/`; `TG/` is `TrafficGenerator/src/`.

## 1. The system

| Component | State | Operations | What makes it correct |
|---|---|---|---|
| Elastic sketch (`elastic/`) | heavy part: buckets of slots (5-tuple, 31-bit count with a flag in the highest bit) and a guard counter; light part: 8-bit counters and `mice_dist`, the histogram of their values | `insert` (matched, empty slot, vote, swap), `query`, `clear`, `compress`, `get_heavy_hitters`, `get_cardinality`, `get_entropy`, `get_distribution` | the estimate errs on one side only; a big flow is not displaced by small ones; `mice_dist` agrees with the counters; flows in both parts are counted once |
| Distribution estimation (`common/EMFSD.h`) | counters by value, the estimate `dist_new`, the way to make up a value that is enumerated (`now_result`) | `set_counters`, `next_epoch`, `get_next` | every way is enumerated, once; no counter is left without an explanation |
| Device (`device/device.cpp`) | the sketch, `mtx` | `packetHandler` inserts; `deliverSketch` connects, copies under `mtx` every second, sends | a copy is a state the sketch was in |
| Collector (`server/server.cpp`) | `sketches`, `client_id`, `mtx`, and per report `cardinality`, `tot`, `entr`, `dist`, with four mutexes | `recieveSketch` per device; `sendMsg`, `makeJSON`, `process_data` per sketch | no update of a sum is lost; a report that is begun is finished; distributions are where the device's number says |
| Connection pool (`TG/common/conn.c`, `common.c`) | per server a list of connections with `len`, `available_len`, `flow_finished`; per connection `busy`, `connected`, socket, listener thread | insert, two searches, wait, clear | one flow per connection; `available_len` counts the idle connections |
| Client (`TG/client/client.c`) | request arrays, start and stop times | `run_requests`, `listen_connection`, `exit_connections` | every request made is logged once and finishes; the program terminates |
| Incast client (`TG/client/incast-client.c`) | the same, and flow IDs, `flow_req_id`, one thread per flow | `run_incast_request`, `run_flow` | a flow is accounted to its request |
| Traffic server (`TG/server/server.c`) | one thread per connection | `handle_connection` | no thread outlives its connection |
| Configuration (`read_config`, `set_req_variables`) | tables of servers, DSCPs, rates, fan-outs with weights | two readings of the file; draws by weight | the readings agree; draws follow the weights |
| Size distribution (`TG/common/cdf.c`) | table of (size, cumulative probability) | load, average, draw | the average is the mean of what is drawn |
| Experiment scripts (`TG/script/`) | master: `unfin_workers`, `mutex`, an RPC server; worker: a thread per task | copy files, `run_task`, `finish_task`, fetch logs; `gen_conf_file` | results are parsed when all are complete; the master ends; a worker's client can read its file and talks to the right servers |
| Cuckoo hash table (`common/cuckoo_hashing.h`) | buckets of slots | `insert`, `operator[]`, `query`, `erase` | moving keys loses none and keeps their values |
| Field and mangler (`common/os_galoisField.*`, `os_mangler.*`) | the field's polynomial, four tables of a seed and of its inverse | `Mul`, `LongDiv`, `ExtendedEuclid`, mangle, reverse | mangling can be undone |
| Simple client, statistics, hash functions, k-ary sketch | | | see "What is not modelled" |

**Interaction.** Inside the device two threads share the sketch under `mtx`.
The device and the collector share a TCP stream of fixed-size copies without
framing. Inside the collector a receiver per device and, per report, one
`process_data` thread per sketch share `sketches` under `mtx`, the report's
sums under `mtx1`..`mtx4`, and, without a common lock, the vector and the map
themselves. In the traffic generator's clients main, one listener per connection
and (incast) one thread per flow share the pools, partly under the list's lock
and partly without; the server answers each request with a flow that carries the
request's ID, and ID 0 terminates a connection. The scripts start that client on
every worker, with files they write for it, and wait for its end to be reported.

**Hard behaviours.** Interleavings of unlocked reads and updates in pieces;
connections that are refused half way through a request, or break while idle or
in use, the signal a write to a broken connection raises, and the descriptor
of a closed socket that the next one gets; reports repeated because an answer
was lost; a stream cut at
arbitrary places; counters of 8, 31 and 32 bits; binary keys handled as strings;
configuration lines and distribution entries that are not what the reader
expects. `PROJECT.json` lists each with its line.

## 2. Modules

| Module | Models | State and actions |
|---|---|---|
| `ElasticSketch` | `ElasticSketch.h`, `HeavyPart.h`, `LightPart.h`, `Param.h`: insert, query, clear | `key`, `val`, `guard` are the fields of a bucket, `counters` and `miceDist` the light part. `Insert(k)` is one call of `insert`, complete with the demotion it causes in the light part. `truth` and `pnum` are history: the packets of each flow and of all |
| `SketchMeasures` | compression, heavy hitters, cardinality, the packet total of `process_data` | operators over the state of `ElasticSketch` |
| `ElasticSketchProofs` | | theorems and proofs about `ElasticSketch` and `SketchMeasures` |
| `ConnPool` | `conn.c`, the readers and writers of `common.c`, the listener and exit phases both clients have, `handle_connection` | one program counter for main (`mpc`), one per listener (`lpc`), one step per access to shared memory; `toServer`, `toClient` are the two directions of a connection; `sockfd` the descriptors, which closed sockets give back and refused connections keep (`leaked`) |
| `FlowLog` | what either client promises about its log | abstract: the request each flow is made for (`owner`), flows started, stopped, log open, a connection lost |
| `TrafficClient` | `client.c` over `ConnPool` | main's request loop |
| `IncastClient` | `incast-client.c` over `ConnPool` | collecting connections, flow threads (`fpc`), flow IDs |
| `SketchStream` | one device, the stream, one receiver, one report thread | a sketch is a pair of version numbers, one for each half of the memory, so that copies and inserts take two steps |
| `Collector` | all receivers, `sendMsg`, `makeJSON`, `process_data` | copies and installs are single steps, which `SketchStream` justifies; sums are read and written in two |
| `ClientConfig` | `read_config` of both clients, `set_req_variables` | a file is a sequence of lines; one action per line and reading |
| `RequestSizes` | `cdf.c` | one action per line; average and draws are operators |
| `GeneratedConfig` | `gen_conf_file` of both scripts, EXTENDS `ClientConfig` | `asked` is what a file was generated from; reading it are the actions of `ClientConfig` |
| `EMFSD` | `BetaGenerator`, `set_counters`, `next_epoch` | one action per way that is enumerated; of the probabilities, which are positive |
| `CuckooTable` | `cuckoo_hashing.h` | `insert` is a recursive operator on the table; one action per call of `operator[]` or `erase`; `meant` is the map meant |
| `Mangler` | `os_galoisField.*`, `os_mangler.*` | a word is the set of its 1 bits; one action per round of `ExtendedEuclid` |
| `Experiment` | `run_all_to_all.py`, `run_inter_rack.py`, `worker.py` | `pc`, `next`: the master and where it is in its loops; `call`: the threads of `finish_task`, first and second try; `task`: the threads of the workers |
| `SketchStreamProofs`, `CollectorProofs`, `ExperimentProofs` | | theorems and proofs about the module each is named after |
| `SumProofs` | | what the sum over a finite set is, for `ElasticSketchProofs`, `CollectorProofs` and `IncastClientProofs` |
| `ConnPoolProofs` | | what the steps of `ConnPool` do, for the proofs about either client |
| `TrafficClientProofs`, `IncastClientProofs` | | theorems and proofs about either client, `FlowLog` among them |
| `MC*` | | constants for TLC; `MCSequential` puts the parts side by side that one thread runs from start to end (`ClientConfig`, `GeneratedConfig`, `RequestSizes`, `CuckooTable`, `EMFSD`, `Mangler`), one of them active in each behaviour |

`TrafficClient` and `IncastClient` EXTEND `ConnPool` and are shown to implement
`FlowLog` (`Log == INSTANCE FlowLog WITH ...`, property `ImplementsLog`).
`SketchStream` and `Collector` split the collector: the first looks inside a
copy and at the stream, the second at several devices and a whole report.

Operators under a comment "Faulty variant" are no part of the models: each is a
definition of the model with a plausible mistake in it, kept to see that the
property it is meant to break does notice the mistake.

### Abstractions

* A 5-tuple is a name. `Cut[k]` is what `strncpy` keeps of `k`: up to the first
  zero byte, and `strncmp` compares no further; the all-zero key of an unused
  slot is `NoKey`. The two hash functions are arbitrary constants.
* The widths are constants: `HighBit` for 2^31, `2 * HighBit` for 2^32,
  `LightMax` for 255, `UIntWord` for 2^32 in the pools, `SwapFactor` for 8.
  Arithmetic wraps at them as in C.
* The logarithm of linear counting is a table, assumed only not to be below the
  number of used counters, which `m log(m/(m-n)) >= n` justifies. Entropy is
  left out: it is a floating-point sum over what `Total` already walks.
* A malloc'ed sketch that nothing was received into holds any contents. A write
  past a buffer, or an access through an iterator into a vector that has moved,
  goes on or crashes.
* Reading an uninitialised entry gives any value; the run for it uses one.
* Only which requests and flows have start and stop times is kept of the times.
* A read or write of a socket is one step per message; a broken connection loses
  any suffix of what was in transit. A write goes to whatever socket has the
  node's descriptor: after `close` that may be another connection's, or that of a
  refused connection, which nobody closes.
* A probability of EMFSD is positive or 0; underflow is left out. A host is a
  name; whether the line of one begins with that of another is a constant.

## 3. What TLC checks

| Run | Instance | Shows |
|---|---|---|
| `sketch` | 5 flows, 2 buckets of 2 slots, 3 light counters, 11 packets | `NeverUndercounts`, `ExactWhenIsolated`, `GuardBelowThreshold`, `EvictionNeedsRivals`, `SlotsDistinct`, `MiceDistAgrees`; for measurements `CompressedNeverBelow`, `HittersComplete`, `CountedOnce` (cardinality and total) |
| `sketch_stored_keys` | same | a counterexample, see Findings |
| `client` | 2 servers, 1 initial connection each, 3 requests, one break, any refusals | `OneFlowPerConnection`, `AvailableLenCounts` (never wraps, exact at rest, balanced at the end), `SearchFinds`, `ImplementsLog`, `Terminates`, `ServersReleased` |
| `incast` | 1 server, requests of 2, 2 and 1 flows, any refusals | `FlowsServed` (searches find, flows are accounted), `ImplementsLog` |
| `incast_breaks` | 2 servers, requests of 0+2 and 1+1 flows, one break, any refusals | `FlowReqIdWhileServed`, `NeverStuck` |
| `incast_flow_req_id` | 1 server, 3 requests | a counterexample, see Findings |
| `stream` | copies of 5 units, reads of up to 2, collector up to 2 units behind, 3 copies, 2 packets | `ReportsAreSnapshots`, `NoOverrunInTime`, `ReportsNeverGoBack`, `CopiesArrive` |
| `collector` | 2 connections, device numbers 0, 1 and 2, 2 reports | `DeviceIsKnown`, `ReportIsWhole` (sums complete; every device's distribution in its place, if none has the number 0), `ReportsFinish` |
| `collector_json` | 1 connection | a counterexample, see Findings |
| `sequential` | see Bounds | configurations: `ReadingsAgree`, `WeightsHonoured`, `GeneratedAsMeant`; sizes: `DrawsFollowCdf`, `AvgIsMean`; cuckoo table: `KeysKept`, `ValuesKept`; EMFSD: `EveryWayOnce`, `EpochsExplainCounters`; mangler: `InverseFound`, `ManglingReverses` |
| `sizes_empty_line` | a table that ends in an empty line | a counterexample, see Findings |
| `experiment` | 3 workers, and 1 host listed twice; one reset; older logs on workers and in the result directory, failing clients, unreachable workers | `ResultsAreFinal`, `MasterEnds` |

Deadlock checking is off everywhere because each system may stop: the programs
end, or a bound is reached. For the clients `Terminates` and `NeverStuck`
take its place.

### Bounds, and why they are enough

* **Sketch.** Three flows compete for the two slots of a bucket, so that a flow
  can be demoted, come back and be demoted again; a1, a2 and a3 have a light
  counter each while a4 and a5 share a3's, so collisions and their absence both
  occur; a4 and a5 become one key when cut, and hash to different buckets.
  `SwapFactor = 2` lets swaps happen within 11 packets (`MaxPackets`), which is
  short of `HighBit = 16`; `LightMax = 3` is reached and passed. Ratios 1, 2 and
  3 of 3 counters include one that does not divide. The properties with a
  premise about collisions speak of the flows seen so far and hold in the
  many states where three flows without a collision have been seen.
* **Pools.** `MaxNode` bounds the connections per server; one more than the
  initial ones lets a list grow once, and where it is reached an insertion can
  only be refused. `UIntWord = 16` is small and more than twice `MaxNode`, so a
  wrapped counter cannot be mistaken for a count. `MaxBreaks` bounds broken
  connections and `ConnectFails` lets any insertion be refused. `InitConn`
  respects what `main` ensures, at least the largest fan-out. In `incast` the
  second request may have to make two connections and get one, and the third
  need it; in `incast_breaks` the list cannot grow, and two servers are collected
  from. What either leaves out the proofs cover for all constants, but for
  `NeverStuck`.
* **Stream.** 5 and 2 stand for the size of a sketch and BUFSIZ (the size is no
  multiple of BUFSIZ, and more than two reads are needed). `Lag` bounds how far
  the collector is behind when a copy is sent: with 0 reads never cross the end
  of a copy, with 2 they do.
* **Collector.** Two connections give all pairs of threads; the numbers chosen
  make them one device that connects again, two devices, or one with number 0.
  `GetTries` is 1 for 10, so that a refused connect is tried again, and `PostTries`
  0 for 5: the loop is the same (`Refused`), and the second only repeats states in
  which the sender waits. Two reports let the second find what the first left.
* **Descriptors.** One break is enough for a write to go astray: a connection of
  one server fails while idle, its descriptor goes to a new connection of the
  other, and main picks the first before its listener says it is closed.
* **Configuration** (every file of up to 4 of 10 lines). `DefaultWeight` is 3 for
  100. Four lines are needed for a server, a distribution, an entry with a weight
  and an empty line among them. A master's file is a distribution and up to three
  of seven other lines: servers with and without a rack, two of them with
  addresses of which one begins the other, a rate, an empty line; or a distribution
  and four of three other lines, servers of two racks and an empty one, so that there
  can be servers of both racks before the distribution and one after it.
* **Sizes** (every table of 2 to 4 entries over 3 sizes and quarters).
  `TableEntry = 1` for the initial table of 32 makes it double twice
  within four entries; a probability is a number of quarters, and sizes are
  multiples of 24 so that interpolation is exact where the C code uses doubles.
* **Cuckoo table.** Three buckets of two slots, six keys, all sequences of calls.
  The hash functions are chosen so that a path may pass a slot twice;
  `MaxMoves = 5` is the code's.
* **EMFSD.** Every set of counter values up to 5, and single values around the
  borders 50, 300 and 600 of the limit on flows; two epochs, after which the
  sizes with a positive share no longer change.
* **Mangler.** All seeds below 2^7 for the fields up to GF(2^6), some for every
  other field of the table, all keys of GF(2^4), and some of GF(2^32), the one the
  mangler uses. Seeds of up to 37 bits: beyond that TLC's stack is too small for
  the division, which is a recursive function.
* **Experiment.** Three distinct workers make every order of reports and a reset
  that uses up another worker's `handle_request`; a host that is listed twice
  shares a log and an entry of `unfin_workers`. `MaxResets` bounds the resets. Of
  the two hosts in `PastHosts`, which an earlier job of the same name may have left
  files of, one is in the lists and one is not.

### Fairness

Weak fairness of main, each listener, each server thread, each flow thread: the
scheduler runs every thread that can run. None of `Break`, refusals or errors is
fair. A `read` that waits is not enabled. In `SketchStream` two steps have strong
fairness: taking a mutex that others take and release, because its holders sleep
for a second (device, report loop) or wait for a packet between two uses. In
`Collector` only threads of reports and the receiver inside `mtx` are fair:
devices need never send anything. In `Experiment` the master, the threads of
`finish_task` and the tasks of the workers are fair; that the client a task waits for
ends is `Terminates` of `TrafficClient`. That a connection is reset, or a worker
cannot be reached, is not fair.

## 4. What is proved

Every theorem is proved from the assumption its model states about the constants
and from nothing else: any numbers of buckets, connections, requests, workers,
any word widths and hash functions. Each has the same shape. The property is
seldom inductive, so there is an invariant `IInv` that implies it; one
lemma per conjunct of `IInv` shows that a step keeps it, by cases on the
actions; the theorem combines these by propositional temporal logic. TLC checked
each `IInv` on the instances of section 3 before it was proved. Where the parts of
an invariant need each other less than that, they are proved in layers, each from
those below it (`IncastClientProofs`).

| Module | Theorem | States |
|---|---|---|
| `ElasticSketchProofs` | `TypeCorrect` | `TypeOK` |
| | `OneSidedError` | `NeverUndercounts` |
| | `GuardBounded` | `GuardBelowThreshold` |
| | `KeysDistinct` | `SlotsDistinct` |
| | `IsolatedFlowsExact` | `ExactWhenIsolated` |
| | `MiceDistIsHistogram` | `MiceDistAgrees` |
| | `HittersNotMissed` | `HittersComplete` |
| | `CompressionOneSided` | `CompressedNeverBelow` |
| | `LargeFlowsStay` | `EvictionNeedsRivals`, a property of steps |
| | `MeasuresCountOnce` | `CountedOnce` (cardinality and total) |
| `SketchStreamProofs` | `ReportsShowSnapshots` | `ReportsAreSnapshots` |
| | `BufferSuffices` | `NoOverrunInTime` |
| | `ReportsAdvance` | `ReportsNeverGoBack`, a property of steps |
| `CollectorProofs` | `DevicesKnown` | `DeviceIsKnown` |
| | `ReportsWhole` | `ReportIsWhole` |
| `ExperimentProofs` | `ResultsFinal` | `ResultsAreFinal` |
| `TrafficClientProofs` | `TypesKept` | `TypeOK` |
| | `FlowsDoNotQueue` | `OneFlowPerConnection` |
| | `AvailableLenExact` | `AvailableLenCounts` |
| | `SearchSucceeds` | `SearchFinds` |
| | `ClientImplementsLog` | `ImplementsLog`: the client refines `FlowLog` |
| `IncastClientProofs` | `TypesKept` | `TypeOK` |
| | `AccountedToItsRequest` | `FlowReqIdWhileServed` |
| | `FlowsCountedOnce` | `FlowsAccounted` |
| | `FlowsGetServed` | `FlowsServed`, that is `SearchFinds` and `FlowsAccounted` |
| | `IncastImplementsLog` | `ImplementsLog`: the incast client refines `FlowLog` |

`IInvCorrect` and, elsewhere, `Invariance` state `Spec => []IInv`.

### The sketch

`NeverUndercounts` says nothing of where a flow's packets are. `IInv` adds

* `StoredKeysCut`: stored keys are fixed points of `Cut`, so that a stored key
  matches exactly the flows that are cut to it;
* `SlotsDistinct`: a key has at most one slot, so that the slot `query` finds is
  the one `insert` updated;
* `CountsInRange`: a used slot counts at least one packet and at most `pnum`, so
  that below `HighBit` packets no addition reaches the flag and a slot with
  count 0 is free;
* `FreshWhileRoom`: while a bucket has room, a flow without a slot has sent
  nothing. This is why the code may leave the flag unset for a flow that takes
  an empty slot;
* `CoveredInHeavy`, `CoveredInLight`: the packets of a flow with a slot are in
  the slot, plus the light counter if the flag is set; those of a flow without
  one are in the light counter, unless that is saturated.

The proof first says what each outcome of `insert` changes (`MatchedEffect`,
`EmptyEffect`, `VoteEffect`, `SwapEffect`), resting on lemmas about the light part
(`LightInsertEffect`, `LightSwapInsertEffect`: the counter gets what was added
unless it is saturated, and no counter is lowered), about the smallest slot
(`MinCounterIsSmallest`) and about sums below the width of a word (`ModSmall`).

That the sketch is exact without collisions needs the same from above, and a second
invariant, `ExactInv`. For an isolated flow `ExactInHeavy` and `ExactInLight` say
that its light counter is what it sent less what its slot counts, or the maximum:
in particular the counter is 0 while the flow's slot is unflagged, so
that maximising at its first eviction loses nothing. `StoredKeysOfFlows` says that a
stored key is that of some flow hashed to the bucket, so that what is demoted into an
isolated flow's counter is that flow's own. `MiceDistAgrees` is inductive by itself: a
store takes the counter out of one entry's set and puts it into another's
(`StoreEffect`), whose cardinalities follow.

`HittersComplete` follows from `NeverUndercounts`, and `CompressedNeverBelow` from the
types, a maximum being an upper bound (`MaxIsUpper`). `EvictionNeedsRivals` rests on
one more invariant, `VotesAreRivals`: for a flow in the bucket since its first packet
the guard counts no more than the packets of the other flows there. An empty slot
means no votes (`RoomNoVotes`), only a flow without a slot votes (`VotesStep`),
and the slot that goes has a count that covers its flow (`EvictionStep`). The proof
did not go through as the property first stood: where `min_val << 3` wraps
(`Param.h:38`), a count of 2^29 gives a threshold of 0 and one vote evicts. The
property now has the premise that keeps the product within the word.

`CountedOnce` is about the whole sketch and not about one flow, so it needs sums over
it. `CountInv` adds to the two invariants, all on instances with finitely many
buckets (`MeasureAssumption`), without which the totals mean nothing:

* `StoredKeysSeen`, `UsedCountersSeen`: what is stored, and each counter in use,
  belongs to a flow that has sent something;
* `MiceAreCounters`: the histogram weighed by its values is the sum of the counters.
  It follows a store at a time, which takes one value out of it and puts one in
  (`WeighedChange`, `CounterSumChange`);
* `UnflaggedNotInLight`: while no two flows collide, the counter of a flow whose slot
  is unflagged is 0. The light part keeps the maximum and not the sum at a demotion;
  with this the two are the same;
* `PacketsKept`: while besides no counter is saturated, counters and slots add up to
  `pnum`. A packet adds one to one of the parts, and an eviction moves the slot's
  count to the counter before the new flow's 1 takes its place.

The total of `process_data` takes the counters of flows that are in both parts out of
the histogram's sum and adds them back flow by flow; `TotalIsBoth` says that the two
cancel (`SumSplit`). For the cardinality `FlowsAreCounted` injects the flows with a
slot into the used slots, and the others into used counters of no flow that is in both
parts: while nothing collides, no two slots share a counter (`SlotsApart`).
TLC checked these invariants on the instance of `sketch`.

### The stream

A report's copy is good because each of four hand-overs is: device to buffer,
buffer to stream, stream to sketch, sketch to copy. `LockInv` ties each mutex to
whoever is between the two halves of a sketch. `DeviceInv`: a half-inserted sketch is
seen by nobody but the handler, what was sent is whole, and later copies are not
older. `StreamInv` counts: while nothing was written past the buffer, the units
received are whole frames and the `len` of the next; a device that sends only
when the last copy has arrived leaves at most one frame outstanding, which is
why `recv` cannot then run across the end of a frame. `CollectorInv` names the
copy that is being installed and orders it after what it replaces; from that
order `ReportsAdvance` follows. The arithmetic of frames (`FrameCount`,
`FrameDivides`, ...) is stated for an arbitrary frame length.

### The collector

`SlotInv`: each sketch belongs to one connection, and the one without a name yet
is that of the receiver in `mtx`; with `WalkInv`, that a thread past its copy works
on a device whose number is known, it gives `DeviceIsKnown`. `SumInv` is why no
update is lost: whoever is between reading and writing a sum holds its mutex, the
value it read is still the sum, and the sum is that of the threads that are past it.
`DistInv` says of the distributions that every thread past its place has one there,
and that every other place is empty. It has the premise that none of these threads
was that of a device with the number 0 (`Numbered`): such a thread erases `dist`
and, if it does not crash, goes on. `ReportsWhole` therefore states the sums of every
report, and the distributions of those without such a device.

A sum over a set is a fold, which takes the elements in an order of its own.
`SumProofs` shows that the order does not matter and hence that a sum over `S`
with one more element is what it should be (`SumAdd`). Its inductions go
over the number of elements and are on a least counterexample (`LeastNumber`), so that
no induction theorem with an operator parameter is needed.

### The experiment

`CountInv` relates `unfin_workers` to the calls: with distinct hosts, a worker that has
not called is still in it, resets or not; without resets, each host's entry is the
number of its workers whose call has not gone through, even when a host
is listed twice. `TaskInv`: who has called has ended. `LogInv`: a log is incomplete
only while a client writes it, and written by two clients only if a host is listed
twice. So when the master sees `unfin_workers` empty, every
client has ended and no log is half written, and `FetchInv` carries that
through the fetches. It also says what else is in the result directory: files of hosts
that are not listed, which only an earlier job of that name can have left, since every
listed host's file is opened anew. `Final` names these and the other files that are
parsed without being a complete log of this job: those of a host whose client failed,
and the one that two clients of one host wrote. A proof attempt showed that this needs an assumption about the
constants that was missing: the list of workers is not empty.

### The client, its connections and the network

Main, the listeners, the server's threads and failing connections share the pool
with hardly a lock, so that nearly every conjunct needs the others; there is
one `IInv` for all properties of `TrafficClient`.

* `FlowInv`: a flow that was sent and is not logged as finished is in one place. To say
  so, `ConnPoolProofs` reads the two directions of a connection as one sequence,
  `Transit(n)`, with what the listener has in its hands in front of it: `At(n, i, r)`
  says that flow `r` is at place `i`, 0 being the listener. Sending, serving,
  reading and breaking become steps on that sequence (`TransitSend`,
  `TransitServe`, `AtRead`, `AtBreak`).
* `NodeInv`, `FilesInv`: what a node's fields say of each other, and that an open
  socket is the only holder of its descriptor, so that a write can only go astray
  after a failure. New descriptors are the lowest free ones (`LowestFreeIsFree`, which
  needs that the leaked ones are finitely many).
* `ExitInv`, `JoinInv`: a termination flow is the last on its connection; a listener
  leaves only on it or on a failure; main has joined those it has passed.
* `BusyInv`: a connection that carries a flow is busy (`BusyCovers`), unless
  failures interfere only then (`BusyNeeded`), and its flow is the only one
  (`OneRequest`). It bridges the gap in `listen_connection`, which clears `busy`
  before it has accounted for the flow.
* `CountInv`: `available_len` is what is left when those still to be accounted for
  are taken off `len`: the flows whose listeners have not reached `ListenAccount`
  (`Unaccounted`), the connection that main has taken (`Taken`), and those taken back
  for termination (`Exited`). Exactly so while no connection has failed
  (`CountsExactly`); while requests are made, at most so (`CountsAtMost`), which is
  what keeps the unsigned counter from wrapping.
* `SearchInv`: while main walks the list without the lock an idle connection is ahead
  of it. A listener may turn a connection behind main idle, but nothing but
  main makes one busy.

For the refinement each action is shown to be one of `FlowLog` or to leave its
variables alone (`StepImplements`): `MarkBusy` starts a request, `ListenStamp`
finishes one, `Break` loses a connection, `WaitAllDone` and a write that kills the
client close the log, all others stutter. That a flow finishes once, and after it was
started, is `FlowInv`; that the log is complete when it is closed without a failure is
`FlowInv` with `JoinInv`: all listeners are gone, so there is no place left where a flow
could be.

### The incast client

The same pool, but main collects several connections for a request, one thread per
flow uses them, and a request may be given up at any point. There are three layers.

* `MainsInv` is about main alone. `ReqInv`: the connections collected so far are of
  different nodes, those of the servers that are dealt with have consecutive IDs,
  and their number is a partial sum of the request's flows (`Ready`). `IdInv`: the IDs
  up to the first of this request (`FirstId`) belong to requests before it, at most
  as many as these have flows, and exactly as many while no request was given up.
  Hence the flow IDs never pass the end of the arrays (`TypesKept`), and
  `AccountedToItsRequest`. The fan-outs are sums over sets, of which `SumProofs`
  says that they grow by one summand at a time (`SumUpTo`), and that IDs of different
  requests do not overlap (`FlowReqIdIs`) is an argument by a least counterexample.
* `FlowsInv` is the argument of `TrafficClient` for several flows at once: a flow that
  was started and is not logged as finished is with its thread (`Sending`), in one
  place on one connection, or at its listener. A connection that a failed
  insertion left has no listener for good, and a flow on it stays there
  (`AdriftStays`). `FinishedInv` relates the counters of all pools to the flows that
  have been accounted for: their sum is the number of these, so that none counts
  twice, `FlowsCountedOnce`. For the refinement, the log is lossy once a connection
  has failed or a flow is `Unheard`, neither of which ends.
* `BusyInv`, `CountInv` and `SearchInv` are about runs in which no connection has
  failed, and explain why the search is right that trusts `available_len` and then
  walks the list without the lock. A busy connection has a flow of its own that is
  still `Outstanding`, that is, taken off `available_len` (`BusyWithin`, an
  injection); `available_len` plus the outstanding flows is at most `len`; so the idle
  connections are at least as many as `available_len` says (`IdleEnough`). While main
  walks, those picked and the idle ones `Ahead` stay enough: listeners only make
  connections idle, and threads that make them busy do not run before the search
  is over. That `available_len` does not wrap when the threads lower it, one by one,
  is because it still counts the connections `Reserved` for those that have not.

A proof attempt of `FlowsAccounted` failed at the connections without a listener, since
the flows on them are never accounted for. Hence `Unheard` in both properties; without it
TLC finds the counterexample on the instance of `incast`.

### Only model-checked

* Liveness under fairness (`Terminates`, `ServersReleased`, `CopiesArrive`,
  `ReportsFinish`, `MasterEnds`), and `NeverStuck`, which uses ENABLED: out of the
  reach of the proof system.
* The sequential parts: `ClientConfig`, `GeneratedConfig`, `RequestSizes`, `CuckooTable`,
  `EMFSD` and `Mangler` compute by recursion over their input, which is induction over
  data again.

## 5. Findings

Each is a run that ends in a counterexample.

* `StoredKeysAreFlows` (`elastic/HeavyPart.h:65`): 5-tuples are binary but
  copied with `strncpy`. An address such as 10.0.0.1 has zero bytes; the stored
  key is cut at the first, flows that agree up to it become one, and
  the report names a 5-tuple no packet had. The guarantees of the sketch are
  therefore stated for keys without a zero byte (`Clean`).
* `FlowReqIdCorrect` (`incast-client.c:877`): `flow_req_id` is drawn up from the
  fan-outs of all requests; a request that is given up does not use its flow IDs
  up, so every later flow is accounted to an earlier request.
  `FlowReqIdWhileServed` holds: without a request given up the table is right.
* `DistributionsAreLists` (`server/server.cpp:467`): the comma after an entry
  depends on its index, so zeros at the end leave a trailing comma.
* `AvgIsMean` with an empty line (`cdf.c:56`): the line counts as an entry whose
  fields are uninitialised; the average that the request rate is computed from
  is not that of the sizes drawn. `TrafficGenerator/conf/VAR_CDF.txt` ends so.

Seen while modelling, described where the model has them; each is why a property
above has a premise, and without the premise TLC finds the counterexample:

* a connection that fails while idle stays in `available_len` (`AvailableIsExact`);
* when `insert_conn_list` fails half way (`incast-client.c:844`), no listener is
  started on the connections it did make. They count as idle and available; a later
  request sends a flow on one, and nobody reads the answer (`Unheard` in
  `FlowsAccounted`);
* the listener closes its descriptor before it clears `connected`
  (`client.c:650`): a request may go to a connection of another server, which
  then carries two flows, and `available_len` of that server is raised too often
  (`astray` in `OneFlowPerConnection`, `AvailableNeverWraps`);
* `insert` of the cuckoo table passes a key by a pointer into the slot it moves it
  from (`cuckoo_hashing.h:94`): on a path that passes a slot twice the key is
  another when it is copied, with the value of the first (`crossed` in
  `ValuesKept`; assigning a, e, d, c, b in the instance of `sequential`);
* the polynomial for GF(2^29), x^29 + x + 1 (`os_galoisField.cc:42`), is divisible
  by x^2 + x + 1, so some seeds have no inverse there, against
  `os_galoisField.h:77`, `103` (`InverseFound`); the mangler uses GF(2^32);
* `gen_conf_file` ends the distribution's line without a newline
  (`run_all_to_all.py:19`): in a file like `TrafficGenerator/conf/client_config.txt`,
  where a rate follows, the rate becomes part of the file name; and a worker is
  left out of its own list by a prefix of the line, so 10.0.0.1 leaves out
  10.0.0.10 too (`SoundMaster` in `GeneratedAsMeant`). An empty line after the
  distribution helps in `run_all_to_all.py` only: `run_inter_rack.py` does not copy
  it (lines 17 to 25), so there a server of another rack that follows the
  distribution becomes part of the file name whatever is between them, and the client
  refuses the file or cannot open the distribution;
* a draw at the lower end of the range is half the first size of the distribution when
  that size has no mass (`cdf.c:110`, `138`): `gen_random_cdf` takes the first entry
  that reaches the number drawn and interpolates it with the 0 before it
  (`DrawsFollowCdf` states this and, where the first size has mass, a draw of 0);
* the master parses every file in the result directory, which it reuses when it exists
  (`run_all_to_all.py:145`, `163`): of a job whose name was used before, the logs of
  hosts that no longer take part are parsed too. Two clients of a host that is listed
  twice write one log file over each other (`Final` in `ResultsAreFinal`);
* `finish_task` of a worker that reports twice raises an exception with the mutex
  locked, and the second call takes a `handle_request` away from another: the
  master waits for ever, as it does for a worker whose task had neither a number
  nor a time above 0 (`MasterEnds`); with a host listed twice it may go on too
  early (`ResultsAreFinal`). `run_inter_rack.py` without a seed fails at
  line 135, after the first worker was started (`RunTask`);
* a request of the incast client gets a stop time from every flow that ends, so
  one whose other flows were lost counts as finished, against
  `TrafficGenerator/README.md` line 7;
* the shift in `JUDGE_IF_SWAP` loses the upper bits of a count of 2^29 or more
  (`elastic/Param.h:38`), which one vote may then evict (the premises of
  `GuardBelowThreshold` and `EvictionNeedsRivals`);
* a refused connection keeps its descriptor (`conn.c:55`, `ConnectRefused`);
* an empty line after a `server` line adds a server without an address (`KeyOf`,
  `ZeroEntry`);
* a device with number 0 makes the report's thread erase the distributions of all
  other devices that are in place and write before the first (`server.cpp:375`,
  `PutDistribution`), which crashes the collector or goes unnoticed; one that
  connects during a report may crash it (`WalkSketches`); a device that connects again gets
  a second sketch, and the first is still counted;
* `get_distribution` calls `strncmp` where it means to copy (`ElasticSketch.h:162`).

## 6. What is not modelled

* The values EMFSD, `get_entropy` and `get_distribution` compute: floating-point
  estimates. `get_distribution` looks up an uninitialised key besides, so that what
  it adds to the estimate depends on what the stack held.
* Hash functions: any function will do.
* K-ary sketch: an array of sums that no program of the repository includes, with a
  floating-point estimate.
* Simple client: one request at a time over one connection, and an exit on the
  first error; it has no state that a property could be about.
* `result.py`, `print_statistic`, `read_args`, the HTTP text, packet capture and
  parsing, `Test` functions: formatting, statistics and I/O.

## 7. Plan

Done, in this order: the sketch and its proof; the pools and both clients; the
stream and the collector; configuration and sizes; the scripts and the files they
generate; the cuckoo table, EMFSD and the mangler; descriptors in the pools; the proofs
about stream, collector, experiment, pools and client, and the refinement of
`FlowLog` by the client; exactness of the sketch and the first measurements; the
incast client, its flow IDs, accounts, searches and its refinement of `FlowLog`;
`CountedOnce`.

What is left: the rest of `server.c` of the generator and the statistics of the clients,
which only format what is modelled; `simple-client.c`, a client without a pool; and
proofs about the sequential parts, once the prover can do induction over data.

## 8. Running

    tlc -config MCElasticSketch.cfg MCElasticSketch
    tlapm ElasticSketchProofs.tla

and in the same way every other `*Proofs` module; `TrafficClientProofs` and
`IncastClientProofs` take the longest, several minutes each.

`PROJECT.json` lists each run with its module, configuration and properties, the
source lines behind each definition, the hazards and the theorems.
