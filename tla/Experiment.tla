---------------------------- MODULE Experiment ----------------------------
(***************************************************************************)
(* An experiment: run_all_to_all.py or run_inter_rack.py is the master,    *)
(* worker.py runs on every worker.  The master copies files to the         *)
(* workers, asks each over XML-RPC to run a client, and waits until each   *)
(* has reported with finish_task; then it fetches their logs.              *)
(*                                                                         *)
(* A worker is a line of the configuration: a host may have several.       *)
(* finish_task runs in a thread of its own for each connection that        *)
(* handle_request accepts, and there are as many handle_requests as        *)
(* workers.  The caller's library calls once more when its connection is   *)
(* reset before it has an answer.                                          *)
(*                                                                         *)
(* The files of a job are named after the job and the host: clients of one *)
(* host write one log file, and an earlier job of the same name may have   *)
(* left logs on the workers and in the master's result directory.          *)
(***************************************************************************)
EXTENDS Integers, FiniteSets, Sequences, SequencesExt

CONSTANTS
    WorkerLists,   \* lists of hosts, one for each server line
    PastHosts,     \* hosts that the result directory may hold a file of
    MaxResets      \* bound on the connections that are reset

ASSUME ExperimentAssumption ==
    /\ \A list \in WorkerLists : list \in Seq(Range(list)) /\ list # <<>>
    /\ MaxResets \in Nat

VARIABLES
    workers,       \* workers
    limited,       \* is -n or -t above 0?
    seedless,      \* run_inter_rack.py without -s
    pc,            \* the master: where it is, and in its loops
    next,          \* the workers gone through so far
    unfinWorkers,  \* unfin_workers: how often each host is in it
    mutex,         \* the call that holds mutex, or NoCall
    task,          \* _run_task of each worker
    call,          \* finish_task of each worker, first and second try
    log,           \* the log file of the job on each host
    failed,        \* the workers whose client ended without a log
    results,       \* the result directory: its file of each host, or "none"
    parsed,        \* the files that were parsed, with their hosts
    resets

expVars == <<workers, limited, seedless, pc, next, unfinWorkers, mutex, task,
             call, log, failed, results, parsed, resets>>

Worker == DOMAIN workers
Host == Range(workers)
Calls == Worker \X {1, 2}
NoCall == <<0, 0>>

masterVars == <<pc, next, results, parsed>>
setup == <<workers, limited, seedless>>

-----------------------------------------------------------------------------
\* An earlier job with the same name may have left logs behind, on the
\* workers and in the result directory.
Init ==
    /\ workers \in WorkerLists
    /\ limited \in BOOLEAN
    /\ seedless \in BOOLEAN
    /\ pc = "copy"
    /\ next = 0
    /\ unfinWorkers = [h \in Host |-> Cardinality({w \in Worker : workers[w] = h})]
    /\ mutex = NoCall
    /\ task = [w \in Worker |-> "none"]
    /\ call = [c \in Calls |-> "none"]
    /\ log \in [Host -> {"none", "old"}]
    /\ failed = {}
    /\ \E left \in SUBSET PastHosts :
          results = [h \in Host \cup PastHosts |-> IF h \in left THEN "old" ELSE "none"]
    /\ parsed = {}
    /\ resets = 0

-----------------------------------------------------------------------------
(* The master.                                                             *)

\* Faulty variant: the master does not ask whether all have reported.
PollNot ==
    /\ pc = "poll"
    /\ pc' = "fetch"
    /\ next' = 0
    /\ UNCHANGED <<setup, unfinWorkers, mutex, task, call, log, failed, results,
                   parsed, resets>>

\* The distribution and the configuration are written to the next worker.
CopyFiles ==
    /\ pc = "copy"
    /\ next < Len(workers)
    /\ next' = next + 1
    /\ UNCHANGED <<setup, pc, unfinWorkers, mutex, task, call, log, failed, results,
                   parsed, resets>>

\* The RPC server is bound: from here on connections queue.
StartServer ==
    /\ pc = "copy"
    /\ next = Len(workers)
    /\ pc' = "run"
    /\ next' = 0
    /\ UNCHANGED <<setup, unfinWorkers, mutex, task, call, log, failed, results,
                   parsed, resets>>

\* run_task returns at once.  In run_inter_rack.py seed + 1 follows, which is
\* an error when there is no seed.
RunTask ==
    /\ pc = "run"
    /\ next < Len(workers)
    /\ task' = [task EXCEPT ![next + 1] = "asleep"]
    /\ next' = next + 1
    /\ pc' = IF seedless THEN "failed" ELSE pc
    /\ UNCHANGED <<setup, unfinWorkers, mutex, call, log, failed, results,
                   parsed, resets>>

AllStarted ==
    /\ pc = "run"
    /\ next = Len(workers)
    /\ pc' = "serve"
    /\ next' = 0
    /\ UNCHANGED <<setup, unfinWorkers, mutex, task, call, log, failed, results,
                   parsed, resets>>

\* handle_request: a connection that was reset meanwhile uses it up too.
HandleRequest ==
    /\ pc = "serve"
    /\ next < Len(workers)
    /\ next' = next + 1
    /\ \E c \in Calls :
          /\ call[c] \in {"queued", "lost"}
          /\ call' = [call EXCEPT ![c] = IF @ = "queued" THEN "acquire" ELSE "over"]
    /\ UNCHANGED <<setup, pc, unfinWorkers, mutex, task, log, failed, results,
                   parsed, resets>>

AllHandled ==
    /\ pc = "serve"
    /\ next = Len(workers)
    /\ pc' = "poll"
    /\ UNCHANGED <<setup, next, unfinWorkers, mutex, task, call, log, failed, results,
                   parsed, resets>>

Poll ==
    /\ pc = "poll"
    /\ \A h \in Host : unfinWorkers[h] = 0
    /\ pc' = "fetch"
    /\ next' = 0
    /\ UNCHANGED <<setup, unfinWorkers, mutex, task, call, log, failed, results,
                   parsed, resets>>

\* The file of the host is opened, which creates or empties it, and gets what
\* read_file returned: None when there is no log, which has no data.
FetchLog ==
    LET h == workers[next + 1]
    IN /\ pc = "fetch"
       /\ next < Len(workers)
       /\ IF log[h] = "none"
            THEN /\ results' = [results EXCEPT ![h] = "empty"]
                 /\ pc' = "failed"
                 /\ UNCHANGED next
            ELSE /\ results' = [results EXCEPT ![h] = log[h]]
                 /\ next' = next + 1
                 /\ UNCHANGED pc
       /\ UNCHANGED <<setup, unfinWorkers, mutex, task, call, log, failed, parsed, resets>>

\* All files in the result directory, those that were fetched and those that
\* were there before.
FilesOf(dir) == {<<h, dir[h]>> : h \in {g \in DOMAIN dir : dir[g] # "none"}}

\* result.py parses them.
ParseResults ==
    /\ pc = "fetch"
    /\ next = Len(workers)
    /\ parsed' = FilesOf(results)
    /\ pc' = "done"
    /\ UNCHANGED <<setup, next, unfinWorkers, mutex, task, call, log, failed, results, resets>>

\* A worker cannot be reached.
ProxyFails ==
    /\ pc \in {"copy", "run", "fetch"}
    /\ next < Len(workers)
    /\ pc' = "failed"
    /\ UNCHANGED <<setup, next, unfinWorkers, mutex, task, call, log, failed, results,
                   parsed, resets>>

Master ==
    \/ CopyFiles \/ StartServer \/ RunTask \/ AllStarted \/ HandleRequest
    \/ AllHandled \/ Poll \/ FetchLog \/ ParseResults

-----------------------------------------------------------------------------
(* finish_task, in a thread of the master.                                 *)

Acquire(c) ==
    /\ call[c] = "acquire"
    /\ mutex = NoCall
    /\ mutex' = c
    /\ call' = [call EXCEPT ![c] = "remove"]
    /\ UNCHANGED <<setup, masterVars, unfinWorkers, task, log, failed, resets>>

\* list.remove raises an exception when the host is not in the list, and the
\* mutex stays locked.
RemoveWorker(c) ==
    LET h == workers[c[1]]
    IN /\ call[c] = "remove"
       /\ IF unfinWorkers[h] > 0
            THEN /\ unfinWorkers' = [unfinWorkers EXCEPT ![h] = @ - 1]
                 /\ call' = [call EXCEPT ![c] = "release"]
            ELSE /\ call' = [call EXCEPT ![c] = "over"]
                 /\ UNCHANGED unfinWorkers
       /\ UNCHANGED <<setup, masterVars, mutex, task, log, failed, resets>>

\* Faulty variant: the mutex is not released.
ReleaseNot(c) ==
    /\ call[c] = "release"
    /\ call' = [call EXCEPT ![c] = "over"]
    /\ UNCHANGED <<setup, masterVars, unfinWorkers, mutex, task, log, failed, resets>>

Release(c) ==
    /\ call[c] = "release"
    /\ mutex' = NoCall
    /\ call' = [call EXCEPT ![c] = "over"]
    /\ UNCHANGED <<setup, masterVars, unfinWorkers, task, log, failed, resets>>

FinishTask(c) == Acquire(c) \/ RemoveWorker(c) \/ Release(c)

-----------------------------------------------------------------------------
(* _run_task, in a thread of the worker.                                   *)

TaskStep(w, from, to) ==
    /\ task[w] = from
    /\ task' = [task EXCEPT ![w] = to]
    /\ UNCHANGED <<setup, masterVars, unfinWorkers, mutex, resets>>

\* After the sleep: with neither a number nor a time above 0 it returns and
\* never reports.
Wake(w) ==
    /\ TaskStep(w, "asleep", IF limited THEN "client" ELSE "gone")
    /\ UNCHANGED <<call, log, failed>>

\* The client is done with its requests and opens its log, which empties the
\* file.  When another client of the host still writes it they write over
\* each other: the file is shared.
ClientWrites(w) ==
    LET h == workers[w]
        another == \E v \in Worker \ {w} : workers[v] = h /\ task[v] = "writing"
    IN /\ TaskStep(w, "client", "writing")
       /\ log' = [log EXCEPT ![h] = IF another THEN "shared" ELSE "part"]
       /\ UNCHANGED <<call, failed>>

\* The log of a client that had the file to itself is complete.
ClientEnds(w) ==
    /\ TaskStep(w, "writing", "report")
    /\ log' = [log EXCEPT ![workers[w]] = IF @ = "part" THEN "new" ELSE @]
    /\ UNCHANGED <<call, failed>>

\* It ends with an error instead; nobody looks at its exit status.
ClientFails(w) ==
    /\ TaskStep(w, "client", "report")
    /\ failed' = failed \cup {w}
    /\ UNCHANGED <<call, log>>

Listening == pc \in {"run", "serve", "poll", "fetch"}

\* The call that a task makes next.
TriedFirst(w) == call[<<w, 1>>] # "none"
Try(w) == <<w, IF TriedFirst(w) THEN 2 ELSE 1>>

\* proxy.finish_task; once the master is gone it is an error.
Report(w) ==
    /\ TaskStep(w, "report", IF Listening THEN "waits" ELSE "gone")
    /\ call' = IF Listening THEN [call EXCEPT ![Try(w)] = "queued"] ELSE call
    /\ UNCHANGED <<log, failed>>

LastTry(w) == <<w, IF call[<<w, 2>>] # "none" THEN 2 ELSE 1>>

Answered(w) ==
    /\ call[LastTry(w)] = "over"
    /\ TaskStep(w, "waits", "reported")
    /\ UNCHANGED <<call, log, failed>>

\* The connection is reset before the answer: xmlrpclib calls once more.  A
\* call that has begun goes on.
Reset(w) ==
    /\ resets < MaxResets
    /\ resets' = resets + 1
    /\ task[w] = "waits"
    /\ task' = [task EXCEPT ![w] = IF LastTry(w)[2] = 1 THEN "report" ELSE "gone"]
    /\ call' = [call EXCEPT ![LastTry(w)] = IF @ = "queued" THEN "lost" ELSE @]
    /\ UNCHANGED <<setup, masterVars, unfinWorkers, mutex, log, failed>>

\* The master ends and the connection was never handled.
Refused(w) ==
    /\ pc \in {"failed", "done"}
    /\ call[LastTry(w)] = "queued"
    /\ TaskStep(w, "waits", "gone")
    /\ UNCHANGED <<call, log, failed>>

Task(w) ==
    \/ Wake(w) \/ ClientWrites(w) \/ ClientEnds(w) \/ ClientFails(w)
    \/ Report(w) \/ Answered(w) \/ Refused(w)

-----------------------------------------------------------------------------
Next ==
    \/ Master
    \/ ProxyFails
    \/ \E c \in Calls : FinishTask(c)
    \/ \E w \in Worker : Task(w) \/ Reset(w)

\* The master, the threads of its server and the tasks run; a client
\* terminates (TrafficClient!Terminates).
Fairness ==
    /\ WF_expVars(Master)
    /\ \A list \in WorkerLists : \A w \in DOMAIN list :
          /\ WF_expVars(w \in Worker /\ Task(w))
          /\ \A n \in {1, 2} : WF_expVars(w \in Worker /\ FinishTask(<<w, n>>))

Spec == Init /\ [][Next]_expVars /\ Fairness

-----------------------------------------------------------------------------
(* Properties.                                                             *)

Distinct == IsInjective(workers)

Ended(w) == task[w] \in {"report", "waits", "reported", "gone"}

\* A file that is parsed is a complete log that a client of this job wrote,
\* but for three cases that the code does not tell apart: an earlier job of
\* the same name left it for a host that this job does not have, a client of
\* the host failed, and clients of a host that is listed twice wrote over
\* each other.
Final(file) ==
    \/ file[2] = "new"
    \/ file[1] \notin Host /\ file[2] = "old"
    \/ \E w \in failed : workers[w] = file[1]
    \/ file[2] = "shared" /\ ~Distinct

\* When the master fetches logs and when it parses them every client has
\* ended, so that no log is half written; it parses a file of every host, and
\* each that it parses is final.  This is so however reports are delayed, and
\* also when a report is made twice because its answer was lost, unless the
\* same host is then in the list twice.
ResultsAreFinal ==
    (pc \in {"fetch", "done"} /\ (Distinct \/ resets = 0)) =>
        /\ \A w \in Worker : Ended(w)
        /\ \A h \in Host : log[h] # "part" /\ results[h] # "part"
        /\ pc = "done" =>
              /\ \A h \in Host : \E file \in parsed : file[1] = h
              /\ \A file \in parsed : Final(file)

\* The master ends if there is something to run and no connection is reset.
\* (A reset can use up the handle_request of another worker, or make a call
\* raise its exception with the mutex locked: then the master polls for
\* ever.)
MasterEnds ==
    (limited /\ [](resets = 0)) => <>(pc \in {"done", "failed"})
=============================================================================
