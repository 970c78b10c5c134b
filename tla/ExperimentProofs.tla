-------------------------- MODULE ExperimentProofs --------------------------
(***************************************************************************)
(* Proofs about Experiment: the results that the master parses are final,  *)
(* for any lists of workers and any number of connections reset.           *)
(***************************************************************************)
EXTENDS Experiment, FiniteSetTheorems, TLAPS

\* A worker has called finish_task.
Called(w) == call[<<w, 1>>] # "none" \/ call[<<w, 2>>] # "none"

\* The workers of a host that unfin_workers still counts when no call was
\* made twice.
Remaining(h) == {w \in Worker : /\ workers[w] = h
                                /\ call[<<w, 1>>] \notin {"release", "over"}}

\* What can be known of a log file.
Files == {"none", "old", "empty", "part", "shared", "new"}

\* A file that one client wrote, or several of a host that is listed twice.
Whole(file) == file = "new" \/ (file = "shared" /\ ~Distinct)

\* The types.
TypeInv ==
    /\ workers \in WorkerLists
    /\ pc \in {"copy", "run", "serve", "poll", "fetch", "done", "failed"}
    /\ next \in 0 .. Len(workers)
    /\ unfinWorkers \in [Host -> Nat]
    /\ task \in [Worker -> {"none", "asleep", "client", "writing", "report",
                            "waits", "reported", "gone"}]
    /\ call \in [Calls -> {"none", "queued", "lost", "acquire", "remove",
                           "release", "over"}]
    /\ log \in [Host -> Files]
    /\ results \in [Host \cup PastHosts -> Files]
    /\ failed \subseteq Worker
    /\ resets \in Nat

\* A task is run once, and calls only when its client has ended.
TaskInv ==
    /\ pc = "copy" => \A w \in Worker : task[w] = "none"
    /\ pc = "run" => \A w \in Worker : w > next => task[w] = "none"
    /\ \A w \in Worker : Called(w) => Ended(w)

\* A log is partly written only while a client writes it, it is of this job
\* once a client has ended that did not fail, and only clients of one host
\* share one.
LogInv ==
    /\ \A h \in Host : log[h] = "part" =>
          \E w \in Worker : workers[w] = h /\ task[w] = "writing"
    /\ \A w \in Worker : task[w] \in {"report", "waits", "reported"} \/ Called(w) =>
          w \in failed \/ log[workers[w]] \in {"part", "shared", "new"}
    /\ \A w \in Worker : task[w] = "writing" => log[workers[w]] \in {"part", "shared", "new"}
    /\ Distinct => \A h \in Host : log[h] # "shared"

\* A worker that has not called is still in unfin_workers.
CountInv ==
    /\ Distinct => \A w \in Worker : Called(w) \/ unfinWorkers[workers[w]] > 0
    /\ resets = 0 =>
          /\ \A h \in Host : unfinWorkers[h] = Cardinality(Remaining(h))
          /\ \A w \in Worker :
                /\ call[<<w, 1>>] # "lost" /\ call[<<w, 2>>] = "none"
                /\ task[w] \notin {"waits", "reported", "gone"} => call[<<w, 1>>] = "none"

\* What has been fetched is final, and there is a file of each host it was
\* fetched from; the files of other hosts are those that were there before.
FetchInv ==
    /\ pc \in {"fetch", "done"} => \A h \in Host : unfinWorkers[h] = 0
    /\ pc = "done" => next = Len(workers) /\ parsed = FilesOf(results)
    /\ Distinct \/ resets = 0 => \A h \in Host : results[h] # "part"
    /\ pc \in {"fetch", "done"} => \A w \in Worker : w <= next => results[workers[w]] # "none"
    /\ pc \in {"fetch", "done"} /\ (Distinct \/ resets = 0) =>
          \A w \in Worker : w <= next => Whole(results[workers[w]]) \/ w \in failed
    /\ \A h \in PastHosts \ Host : results[h] \in {"none", "old"}

\* The inductive invariant.
IInv == TypeInv /\ TaskInv /\ LogInv /\ CountInv /\ FetchInv

-----------------------------------------------------------------------------
(* The inductive invariant.                                                *)

\* Workers are numbered by the lines of the configuration, and no step
\* changes the configuration.
LEMMA SetsOf ==
  ASSUME workers \in WorkerLists
  PROVE  /\ Worker = 1 .. Len(workers) /\ Len(workers) \in Nat
         /\ \A w \in Worker : workers[w] \in Host /\ <<w, 1>> \in Calls /\ <<w, 2>> \in Calls
         /\ \A c \in Calls : c[1] \in Worker /\ c[2] \in {1, 2} /\ c = <<c[1], c[2]>>
<1>1. workers \in Seq(Host)
  BY ExperimentAssumption DEF Host
<1> QED
  BY <1>1 DEF Worker, Calls

\* So they are the same before and after a step.
LEMMA SetsOfStep ==
  ASSUME TypeInv, [Next]_expVars
  PROVE  /\ UNCHANGED <<Worker, Host, Calls, Distinct, workers>>
         /\ Worker = 1 .. Len(workers) /\ Len(workers) \in Nat
         /\ \A w \in Worker : workers[w] \in Host /\ <<w, 1>> \in Calls /\ <<w, 2>> \in Calls
         /\ \A c \in Calls : c[1] \in Worker /\ c[2] \in {1, 2} /\ c = <<c[1], c[2]>>
<1>1. UNCHANGED workers
  BY DEF Next, Master, FinishTask, Task, expVars, setup, masterVars, CopyFiles,
     StartServer, RunTask, AllStarted, HandleRequest, AllHandled, Poll, FetchLog,
     ParseResults, ProxyFails, Acquire, RemoveWorker, Release, Wake, ClientWrites,
     ClientEnds, ClientFails, Report, Answered, Refused, Reset, TaskStep
<1>2. UNCHANGED <<Worker, Host, Calls, Distinct>>
  BY <1>1 DEF Worker, Host, Calls, Distinct
<1> QED
  BY <1>1, <1>2, SetsOf DEF TypeInv

\* There are finitely many workers, so those that remain can be counted.
LEMMA RemainingFinite ==
  ASSUME workers \in WorkerLists, NEW h
  PROVE  IsFiniteSet(Remaining(h)) /\ Cardinality(Remaining(h)) \in Nat
<1>1. IsFiniteSet(Worker)
  BY SetsOf, FS_Interval
<1>2. IsFiniteSet(Remaining(h))
  BY <1>1, FS_Subset DEF Remaining
<1> QED
  BY <1>2, FS_CardinalityType

\* Nothing changes for the other workers.
OthersStay(w) ==
    \A v \in Worker : v # w => /\ task'[v] = task[v]
                               /\ call'[<<v, 1>>] = call[<<v, 1>>]
                               /\ call'[<<v, 2>>] = call[<<v, 2>>]

\* A call begins: the first of its worker, or one after the first.
LEMMA ReportCalls ==
  ASSUME TypeInv, NEW w \in Worker, Report(w)
  PROVE  /\ task[w] = "report" /\ task'[w] \in {"waits", "gone"}
         /\ OthersStay(w)
         /\ \/ call'[<<w, 1>>] = call[<<w, 1>>]
            \/ call[<<w, 1>>] = "none" /\ call'[<<w, 1>>] = "queued"
         /\ \/ call'[<<w, 2>>] = call[<<w, 2>>]
            \/ call[<<w, 1>>] # "none" /\ call'[<<w, 2>>] = "queued"
         /\ UNCHANGED <<pc, next, results, parsed, unfinWorkers, mutex, resets, log, failed>>
<1>1. /\ UNCHANGED <<pc, next, results, parsed, unfinWorkers, mutex, resets, log, failed>>
      /\ task[w] = "report"
      /\ \E t \in {"waits", "gone"} : task' = [task EXCEPT ![w] = t]
  BY DEF Report, TaskStep, masterVars
<1>2. task'[w] \in {"waits", "gone"} /\ \A v \in Worker : v # w => task'[v] = task[v]
  BY <1>1 DEF TypeInv
<1>3. \/ call' = call
      \/ call[<<w, 1>>] = "none" /\ call' = [call EXCEPT ![<<w, 1>>] = "queued"]
      \/ call[<<w, 1>>] # "none" /\ call' = [call EXCEPT ![<<w, 2>>] = "queued"]
  BY DEF Report, Try, TriedFirst
<1>4. \A v \in Worker : /\ <<v, 1>> \in Calls /\ <<v, 2>> \in Calls
                        /\ <<v, 1>> # <<w, 2>> /\ <<v, 2>> # <<w, 1>>
  BY DEF Calls
<1>5. DOMAIN call = Calls
  BY DEF TypeInv
<1>6. \A v \in Worker : v # w => /\ call'[<<v, 1>>] = call[<<v, 1>>]
                                 /\ call'[<<v, 2>>] = call[<<v, 2>>]
  BY <1>3, <1>4, <1>5
<1>7. /\ \/ call'[<<w, 1>>] = call[<<w, 1>>]
         \/ call[<<w, 1>>] = "none" /\ call'[<<w, 1>>] = "queued"
      /\ \/ call'[<<w, 2>>] = call[<<w, 2>>]
         \/ call[<<w, 1>>] # "none" /\ call'[<<w, 2>>] = "queued"
  BY <1>3, <1>4, <1>5
<1>8. OthersStay(w)
  BY <1>2, <1>6 DEF OthersStay
<1> QED
  BY <1>1, <1>2, <1>7, <1>8

\* The steps of a call, but for its removal, leave the count as it is.
LEMMA CountStays ==
  ASSUME TypeInv, CountInv, UNCHANGED <<workers, unfinWorkers, resets>>,
         \A w \in Worker :
            /\ Called(w) => Called(w)'
            /\ call'[<<w, 1>>] \in {"release", "over"} <=> call[<<w, 1>>] \in {"release", "over"}
            /\ resets = 0 =>
                  /\ call'[<<w, 1>>] # "lost" /\ call'[<<w, 2>>] = "none"
                  /\ task'[w] \notin {"waits", "reported", "gone"} => call'[<<w, 1>>] = "none"
  PROVE  CountInv'
<1>1. UNCHANGED <<Worker, Host, Distinct>>
  BY DEF Worker, Host, Distinct
<1>2. \A h : Remaining(h)' = Remaining(h)
  BY <1>1 DEF Remaining
<1>3. resets' = 0 => \A h \in Host' : unfinWorkers'[h] = Cardinality(Remaining(h)')
  BY <1>1, <1>2 DEF CountInv
<1>4. Distinct' => \A w \in Worker' : Called(w)' \/ unfinWorkers'[workers'[w]] > 0
  BY <1>1 DEF CountInv
<1> QED
  BY <1>1, <1>3, <1>4 DEF CountInv

\* Before the first step no task runs and no log has been fetched.
LEMMA InitIInv == Init => IInv
<1> SUFFICES ASSUME Init PROVE IInv
  OBVIOUS
<1>a. /\ workers \in WorkerLists
      /\ unfinWorkers = [h \in Host |-> Cardinality({w \in Worker : workers[w] = h})]
      /\ call = [c \in Calls |-> "none"]
  BY DEF Init
<1>b. \A w \in Worker : <<w, 1>> \in Calls /\ <<w, 2>> \in Calls /\ workers[w] \in Host
  BY <1>a, SetsOf
<1>0. ASSUME NEW h \in Host
      PROVE  /\ Remaining(h) = {w \in Worker : workers[w] = h}
             /\ Cardinality(Remaining(h)) \in Nat
  <2>1. \A w \in Worker : call[<<w, 1>>] = "none"
    BY <1>a, <1>b
  <2>2. Remaining(h) = {w \in Worker : workers[w] = h}
    BY <2>1 DEF Remaining
  <2> QED
    BY <1>a, <2>2, RemainingFinite
<1>c. ASSUME NEW w \in Worker PROVE unfinWorkers[workers[w]] > 0
  <2> DEFINE h == workers[w]
  <2>1. h \in Host
    BY <1>b
  <2>2. w \in Remaining(h) /\ IsFiniteSet(Remaining(h))
    BY <1>a, <1>0, <2>1, RemainingFinite
  <2>3. Cardinality(Remaining(h)) # 0
    BY <2>2, FS_EmptySet
  <2>4. unfinWorkers[h] = Cardinality(Remaining(h)) /\ Cardinality(Remaining(h)) \in Nat
    BY <1>a, <1>0, <2>1
  <2> QED
    BY <2>3, <2>4
<1> USE ExperimentAssumption, SetsOf DEF Init
<1>1. TypeInv
  <2>1. unfinWorkers \in [Host -> Nat]
    BY <1>0
  <2>2. next \in 0 .. Len(workers)
    OBVIOUS
  <2>3. log \in [Host -> Files] /\ results \in [Host \cup PastHosts -> Files]
    BY DEF Files
  <2> QED
    BY <2>1, <2>2, <2>3 DEF TypeInv
<1>2. TaskInv
  BY DEF TaskInv, Called
<1>3. LogInv
  BY DEF LogInv, Called
<1>4. CountInv
  BY <1>0, <1>c DEF CountInv
<1>5. FetchInv
  BY DEF FetchInv
<1> QED
  BY <1>1, <1>2, <1>3, <1>4, <1>5 DEF IInv

\* Every step keeps the types.
LEMMA TypeInvStep ==
  ASSUME IInv, [Next]_expVars
  PROVE  TypeInv'
<1>0. /\ UNCHANGED <<Worker, Host, Calls, Distinct, workers>>
      /\ Worker = 1 .. Len(workers) /\ Len(workers) \in Nat
      /\ \A w \in Worker : workers[w] \in Host /\ <<w, 1>> \in Calls /\ <<w, 2>> \in Calls
      /\ \A c \in Calls : c[1] \in Worker /\ c[2] \in {1, 2} /\ c = <<c[1], c[2]>>
  BY SetsOfStep DEF IInv
<1> USE <1>0 DEF expVars, setup, masterVars
<1>1. ASSUME CopyFiles PROVE TypeInv'
  BY <1>1 DEF IInv, TypeInv, CopyFiles
<1>2. ASSUME StartServer PROVE TypeInv'
  BY <1>2 DEF IInv, TypeInv, StartServer
<1>3. ASSUME RunTask PROVE TypeInv'
  BY <1>3 DEF IInv, TypeInv, RunTask
<1>4. ASSUME AllStarted PROVE TypeInv'
  BY <1>4 DEF IInv, TypeInv, AllStarted
<1>5. ASSUME HandleRequest PROVE TypeInv'
  BY <1>5 DEF IInv, TypeInv, HandleRequest
<1>6. ASSUME AllHandled PROVE TypeInv'
  BY <1>6 DEF IInv, TypeInv, AllHandled
<1>7. ASSUME Poll PROVE TypeInv'
  BY <1>7 DEF IInv, TypeInv, Poll
<1>8. ASSUME FetchLog PROVE TypeInv'
  <2>1. next < Len(workers) /\ next + 1 \in Worker
    BY <1>8 DEF IInv, TypeInv, FetchLog
  <2> DEFINE h == workers[next + 1]
  <2>2. results' = [results EXCEPT ![h] = "empty"] \/ results' = [results EXCEPT ![h] = log[h]]
    BY <1>8 DEF FetchLog
  <2>3. h \in Host
    BY <2>1
  <2> HIDE DEF h
  <2>4. results' \in [Host \cup PastHosts -> Files]
    <3>1. results \in [Host \cup PastHosts -> Files] /\ log[h] \in Files /\ "empty" \in Files
      BY <2>3 DEF IInv, TypeInv, Files
    <3> QED
      BY <2>2, <2>3, <3>1
  <2> QED
    BY <1>8, <2>1, <2>4 DEF IInv, TypeInv, FetchLog
<1>9. ASSUME ParseResults PROVE TypeInv'
  BY <1>9 DEF IInv, TypeInv, ParseResults
<1>10. ASSUME ProxyFails PROVE TypeInv'
  BY <1>10 DEF IInv, TypeInv, ProxyFails
<1>11. ASSUME NEW c \in Calls, Acquire(c) PROVE TypeInv'
  BY <1>11 DEF IInv, TypeInv, Acquire
<1>12. ASSUME NEW c \in Calls, RemoveWorker(c) PROVE TypeInv'
  <2> DEFINE h == workers[c[1]]
  <2>1. h \in Host
    OBVIOUS
  <2>2. unfinWorkers' \in [Host -> Nat]
    <3>1. \/ unfinWorkers[h] > 0 /\ unfinWorkers' = [unfinWorkers EXCEPT ![h] = @ - 1]
          \/ UNCHANGED unfinWorkers
      BY <1>12 DEF RemoveWorker
    <3>2. unfinWorkers \in [Host -> Nat]
      BY DEF IInv, TypeInv
    <3>3. unfinWorkers[h] > 0 => unfinWorkers[h] - 1 \in Nat
      BY <2>1, <3>2
    <3> HIDE DEF h
    <3> QED
      BY <2>1, <3>1, <3>2, <3>3
  <2> QED
    BY <1>12, <2>2 DEF IInv, TypeInv, RemoveWorker
<1>13. ASSUME NEW c \in Calls, Release(c) PROVE TypeInv'
  BY <1>13 DEF IInv, TypeInv, Release
<1>14. ASSUME NEW w \in Worker, Wake(w) PROVE TypeInv'
  BY <1>14 DEF IInv, TypeInv, Wake, TaskStep
<1>15. ASSUME NEW w \in Worker, ClientWrites(w) PROVE TypeInv'
  BY <1>15 DEF IInv, TypeInv, ClientWrites, TaskStep, Files
<1>16. ASSUME NEW w \in Worker, ClientEnds(w) PROVE TypeInv'
  BY <1>16 DEF IInv, TypeInv, ClientEnds, TaskStep, Files
<1>17. ASSUME NEW w \in Worker, ClientFails(w) PROVE TypeInv'
  BY <1>17 DEF IInv, TypeInv, ClientFails, TaskStep
<1>18. ASSUME NEW w \in Worker, Report(w) PROVE TypeInv'
  BY <1>18 DEF IInv, TypeInv, Report, TaskStep
<1>19. ASSUME NEW w \in Worker, Answered(w) PROVE TypeInv'
  BY <1>19 DEF IInv, TypeInv, Answered, TaskStep
<1>20. ASSUME NEW w \in Worker, Refused(w) PROVE TypeInv'
  BY <1>20 DEF IInv, TypeInv, Refused, TaskStep
<1>21. ASSUME NEW w \in Worker, Reset(w) PROVE TypeInv'
  <2>1. call' \in [Calls -> {"none", "queued", "lost", "acquire", "remove", "release", "over"}]
    BY <1>21 DEF IInv, TypeInv, Reset
  <2>2. task' \in [Worker -> {"none", "asleep", "client", "writing", "report",
                              "waits", "reported", "gone"}]
    BY <1>21 DEF IInv, TypeInv, Reset
  <2> QED
    BY <1>21, <2>1, <2>2 DEF IInv, TypeInv, Reset
<1>22. ASSUME UNCHANGED expVars PROVE TypeInv'
  BY <1>22 DEF IInv, TypeInv
<1> QED
  BY <1>1, <1>2, <1>3, <1>4, <1>5, <1>6, <1>7, <1>8, <1>9, <1>10, <1>11, <1>12, <1>13, <1>14,
     <1>15, <1>16, <1>17, <1>18, <1>19, <1>20, <1>21, <1>22
     DEF Next, Master, FinishTask, Task

\* No step runs a task again, and none calls before its client has ended.
LEMMA TaskInvStep ==
  ASSUME IInv, [Next]_expVars
  PROVE  TaskInv'
<1>0. /\ UNCHANGED <<Worker, Host, Calls, Distinct, workers>>
      /\ Worker = 1 .. Len(workers) /\ Len(workers) \in Nat
      /\ \A w \in Worker : workers[w] \in Host /\ <<w, 1>> \in Calls /\ <<w, 2>> \in Calls
      /\ \A c \in Calls : c[1] \in Worker /\ c[2] \in {1, 2} /\ c = <<c[1], c[2]>>
  BY SetsOfStep DEF IInv
<1> USE <1>0 DEF expVars, setup, masterVars
<1>1. ASSUME CopyFiles PROVE TaskInv'
  BY <1>1 DEF IInv, TypeInv, TaskInv, Called, Ended, CopyFiles
<1>2. ASSUME StartServer PROVE TaskInv'
  BY <1>2 DEF IInv, TypeInv, TaskInv, Called, Ended, StartServer
<1>3. ASSUME RunTask PROVE TaskInv'
  <2>1. /\ next + 1 \in Worker /\ task[next + 1] = "none" /\ next \in Nat
        /\ task' = [task EXCEPT ![next + 1] = "asleep"]
        /\ pc = "run" /\ pc' \in {"run", "failed"} /\ next' = next + 1
        /\ UNCHANGED call
    BY <1>3 DEF IInv, TypeInv, TaskInv, RunTask
  <2>2. \A w \in Worker : task'[w] = IF w = next + 1 THEN "asleep" ELSE task[w]
    BY <2>1 DEF IInv, TypeInv
  <2>3. \A w \in Worker : w > next => task[w] = "none"
    BY <2>1 DEF IInv, TaskInv
  <2>4. \A w \in Worker : w > next' => task'[w] = "none"
    BY <2>1, <2>2, <2>3
  <2>5. \A w \in Worker : Called(w)' => Ended(w)'
    <3> TAKE w \in Worker
    <3>1. Called(w)' <=> Called(w)
      BY <2>1 DEF Called
    <3>2. Called(w) => Ended(w)
      BY DEF IInv, TaskInv
    <3> QED
      BY <2>1, <2>2, <3>1, <3>2 DEF Ended
  <2> QED
    BY <2>1, <2>4, <2>5 DEF TaskInv
<1>4. ASSUME AllStarted PROVE TaskInv'
  BY <1>4 DEF IInv, TypeInv, TaskInv, Called, Ended, AllStarted
<1>5. ASSUME HandleRequest PROVE TaskInv'
  BY <1>5 DEF IInv, TypeInv, TaskInv, Called, Ended, HandleRequest
<1>6. ASSUME AllHandled PROVE TaskInv'
  BY <1>6 DEF IInv, TypeInv, TaskInv, Called, Ended, AllHandled
<1>7. ASSUME Poll PROVE TaskInv'
  BY <1>7 DEF IInv, TypeInv, TaskInv, Called, Ended, Poll
<1>8. ASSUME FetchLog PROVE TaskInv'
  BY <1>8 DEF IInv, TypeInv, TaskInv, Called, Ended, FetchLog
<1>9. ASSUME ParseResults PROVE TaskInv'
  BY <1>9 DEF IInv, TypeInv, TaskInv, Called, Ended, ParseResults
<1>10. ASSUME ProxyFails PROVE TaskInv'
  BY <1>10 DEF IInv, TypeInv, TaskInv, Called, Ended, ProxyFails
<1>11. ASSUME NEW c \in Calls, Acquire(c) PROVE TaskInv'
  BY <1>11 DEF IInv, TypeInv, TaskInv, Called, Ended, Acquire
<1>12. ASSUME NEW c \in Calls, RemoveWorker(c) PROVE TaskInv'
  BY <1>12 DEF IInv, TypeInv, TaskInv, Called, Ended, RemoveWorker
<1>13. ASSUME NEW c \in Calls, Release(c) PROVE TaskInv'
  BY <1>13 DEF IInv, TypeInv, TaskInv, Called, Ended, Release
<1>14. ASSUME NEW w \in Worker, Wake(w) PROVE TaskInv'
  BY <1>14 DEF IInv, TypeInv, TaskInv, Called, Ended, Wake, TaskStep
<1>15. ASSUME NEW w \in Worker, ClientWrites(w) PROVE TaskInv'
  BY <1>15 DEF IInv, TypeInv, TaskInv, Called, Ended, ClientWrites, TaskStep
<1>16. ASSUME NEW w \in Worker, ClientEnds(w) PROVE TaskInv'
  BY <1>16 DEF IInv, TypeInv, TaskInv, Called, Ended, ClientEnds, TaskStep
<1>17. ASSUME NEW w \in Worker, ClientFails(w) PROVE TaskInv'
  BY <1>17 DEF IInv, TypeInv, TaskInv, Called, Ended, ClientFails, TaskStep
<1>18. ASSUME NEW w \in Worker, Report(w) PROVE TaskInv'
  <2>0. OthersStay(w)
    BY <1>18, ReportCalls DEF IInv
  <2>1. \A v \in Worker : v # w => task'[v] = task[v] /\ (Called(v)' <=> Called(v))
    BY <2>0 DEF OthersStay, Called
  <2>2. task'[w] \in {"waits", "gone"} /\ task[w] = "report" /\ UNCHANGED <<pc, next>>
    BY <1>18, ReportCalls DEF IInv
  <2>3. \A v \in Worker : Called(v)' => Ended(v)'
    BY <2>1, <2>2 DEF IInv, TaskInv, Ended
  <2> QED
    BY <2>1, <2>2, <2>3 DEF IInv, TaskInv
<1>19. ASSUME NEW w \in Worker, Answered(w) PROVE TaskInv'
  BY <1>19 DEF IInv, TypeInv, TaskInv, Called, Ended, Answered, TaskStep
<1>20. ASSUME NEW w \in Worker, Refused(w) PROVE TaskInv'
  BY <1>20 DEF IInv, TypeInv, TaskInv, Called, Ended, Refused, TaskStep
<1>21. ASSUME NEW w \in Worker, Reset(w) PROVE TaskInv'
  BY <1>21 DEF IInv, TypeInv, TaskInv, Called, Ended, Reset
<1>22. ASSUME UNCHANGED expVars PROVE TaskInv'
  BY <1>22 DEF IInv, TypeInv, TaskInv, Called, Ended
<1> QED
  BY <1>1, <1>2, <1>3, <1>4, <1>5, <1>6, <1>7, <1>8, <1>9, <1>10, <1>11, <1>12, <1>13, <1>14,
     <1>15, <1>16, <1>17, <1>18, <1>19, <1>20, <1>21, <1>22
     DEF Next, Master, FinishTask, Task

\* No log is left half written by a client that ended.
LEMMA LogInvStep ==
  ASSUME IInv, [Next]_expVars
  PROVE  LogInv'
<1>0. /\ UNCHANGED <<Worker, Host, Calls, Distinct, workers>>
      /\ Worker = 1 .. Len(workers) /\ Len(workers) \in Nat
      /\ \A w \in Worker : workers[w] \in Host /\ <<w, 1>> \in Calls /\ <<w, 2>> \in Calls
      /\ \A c \in Calls : c[1] \in Worker /\ c[2] \in {1, 2} /\ c = <<c[1], c[2]>>
  BY SetsOfStep DEF IInv
<1> USE <1>0 DEF expVars, setup, masterVars
<1>1. ASSUME CopyFiles PROVE LogInv'
  BY <1>1 DEF IInv, TypeInv, LogInv, Called, CopyFiles
<1>2. ASSUME StartServer PROVE LogInv'
  BY <1>2 DEF IInv, TypeInv, LogInv, Called, StartServer
<1>3. ASSUME RunTask PROVE LogInv'
  <2>1. /\ next + 1 \in Worker /\ task[next + 1] = "none"
        /\ task' = [task EXCEPT ![next + 1] = "asleep"]
        /\ UNCHANGED <<call, log, failed>>
    BY <1>3 DEF IInv, TypeInv, TaskInv, RunTask
  <2>2. \A w \in Worker : task'[w] = IF w = next + 1 THEN "asleep" ELSE task[w]
    BY <2>1 DEF IInv, TypeInv
  <2>3. \A w \in Worker : task[w] = "writing" => task'[w] = "writing"
    BY <2>1, <2>2
  <2>4. \A h \in Host : log'[h] = "part" => \E w \in Worker : workers[w] = h /\ task'[w] = "writing"
    BY <2>1, <2>3 DEF IInv, LogInv
  <2>5. \A w \in Worker : task'[w] \in {"writing", "report", "waits", "reported"} => task[w] = task'[w]
    BY <2>2
  <2> QED
    BY <2>1, <2>4, <2>5 DEF IInv, LogInv, Called
<1>4. ASSUME AllStarted PROVE LogInv'
  BY <1>4 DEF IInv, TypeInv, LogInv, Called, AllStarted
<1>5. ASSUME HandleRequest PROVE LogInv'
  BY <1>5 DEF IInv, TypeInv, LogInv, Called, HandleRequest
<1>6. ASSUME AllHandled PROVE LogInv'
  BY <1>6 DEF IInv, TypeInv, LogInv, Called, AllHandled
<1>7. ASSUME Poll PROVE LogInv'
  BY <1>7 DEF IInv, TypeInv, LogInv, Called, Poll
<1>8. ASSUME FetchLog PROVE LogInv'
  BY <1>8 DEF IInv, TypeInv, LogInv, Called, FetchLog
<1>9. ASSUME ParseResults PROVE LogInv'
  BY <1>9 DEF IInv, TypeInv, LogInv, Called, ParseResults
<1>10. ASSUME ProxyFails PROVE LogInv'
  BY <1>10 DEF IInv, TypeInv, LogInv, Called, ProxyFails
<1>11. ASSUME NEW c \in Calls, Acquire(c) PROVE LogInv'
  BY <1>11 DEF IInv, TypeInv, LogInv, Called, Acquire
<1>12. ASSUME NEW c \in Calls, RemoveWorker(c) PROVE LogInv'
  BY <1>12 DEF IInv, TypeInv, LogInv, Called, RemoveWorker
<1>13. ASSUME NEW c \in Calls, Release(c) PROVE LogInv'
  BY <1>13 DEF IInv, TypeInv, LogInv, Called, Release
<1>14. ASSUME NEW w \in Worker, Wake(w) PROVE LogInv'
  BY <1>14 DEF IInv, TypeInv, LogInv, Called, Wake, TaskStep
<1>15. ASSUME NEW w \in Worker, ClientWrites(w) PROVE LogInv'
  <2> DEFINE h == workers[w]
             file == IF \E v \in Worker \ {w} : workers[v] = h /\ task[v] = "writing"
                       THEN "shared" ELSE "part"
  <2>1. /\ task[w] = "client" /\ task' = [task EXCEPT ![w] = "writing"]
        /\ log' = [log EXCEPT ![h] = file]
        /\ UNCHANGED <<call, failed>>
    BY <1>15 DEF ClientWrites, TaskStep
  <2>2. h \in Host /\ file \in {"part", "shared"} /\ (Distinct => file = "part")
    BY DEF Distinct, IsInjective, Worker
  <2>3. \A v \in Worker : task'[v] = IF v = w THEN "writing" ELSE task[v]
    BY <2>1 DEF IInv, TypeInv
  <2> HIDE DEF h, file
  <2>4. \A g \in Host : log'[g] = IF g = h THEN file ELSE log[g]
    BY <2>1, <2>2 DEF IInv, TypeInv
  <2>5. \A g \in Host : log'[g] = "part" => \E v \in Worker : workers[v] = g /\ task'[v] = "writing"
    <3>1. task'[w] = "writing" /\ workers[w] = h
      BY <2>3 DEF h
    <3>2. \A v \in Worker : task[v] = "writing" => task'[v] = "writing"
      BY <2>3
    <3> QED
      BY <2>4, <3>1, <3>2 DEF IInv, LogInv
  <2>6. \A v \in Worker : task'[v] \in {"report", "waits", "reported"} \/ Called(v)' =>
           v \in failed' \/ log'[workers'[v]] \in {"part", "shared", "new"}
    <3> TAKE v \in Worker
    <3>1. Called(v)' <=> Called(v)
      BY <2>1 DEF Called
    <3>2. task'[v] \in {"report", "waits", "reported"} => task'[v] = task[v]
      BY <2>3
    <3>3. log'[workers[v]] \in {file, log[workers[v]]}
      BY <2>4
    <3> QED
      BY <2>1, <2>2, <3>1, <3>2, <3>3 DEF IInv, LogInv
  <2>7. Distinct' => \A g \in Host' : log'[g] # "shared"
    BY <2>2, <2>4 DEF IInv, LogInv
  <2>8. \A v \in Worker : task'[v] = "writing" => log'[workers[v]] \in {"part", "shared", "new"}
    <3> TAKE v \in Worker
    <3>1. CASE workers[v] = h
      BY <2>2, <2>4, <3>1
    <3>2. CASE workers[v] # h
      <4>1. v # w /\ log'[workers[v]] = log[workers[v]]
        BY <2>4, <3>2 DEF h
      <4> QED
        BY <2>3, <4>1 DEF IInv, LogInv
    <3> QED
      BY <3>1, <3>2
  <2> QED
    BY <2>5, <2>6, <2>7, <2>8 DEF LogInv
<1>16. ASSUME NEW w \in Worker, ClientEnds(w) PROVE LogInv'
  <2> DEFINE h == workers[w]
             file == IF log[h] = "part" THEN "new" ELSE log[h]
  <2>1. /\ task[w] = "writing" /\ task' = [task EXCEPT ![w] = "report"]
        /\ log' = [log EXCEPT ![h] = file]
        /\ UNCHANGED <<call, failed>>
    BY <1>16 DEF ClientEnds, TaskStep
  <2>2. h \in Host /\ file # "part" /\ (Distinct => file # "shared")
    BY DEF IInv, LogInv
  <2>3. \A v \in Worker : task'[v] = IF v = w THEN "report" ELSE task[v]
    BY <2>1 DEF IInv, TypeInv
  <2>4. log[h] \in {"part", "shared", "new"} => file \in {"shared", "new"}
    OBVIOUS
  <2>5. log[h] \in {"part", "shared", "new"}
    BY <2>1 DEF IInv, LogInv
  <2> HIDE DEF file
  <2>6. \A g \in Host : log'[g] = IF g = h THEN file ELSE log[g]
    BY <2>1, <2>2 DEF IInv, TypeInv
  <2>7. \A g \in Host : log'[g] = "part" => \E v \in Worker : workers[v] = g /\ task'[v] = "writing"
    <3> TAKE g \in Host
    <3> HAVE log'[g] = "part"
    <3>1. g # h /\ log[g] = "part"
      BY <2>2, <2>6
    <3>2. PICK v \in Worker : workers[v] = g /\ task[v] = "writing"
      BY <3>1 DEF IInv, LogInv
    <3>3. task'[v] = "writing"
      BY <2>3, <3>1, <3>2
    <3> QED
      BY <3>2, <3>3
  <2>8. \A v \in Worker : task'[v] \in {"report", "waits", "reported"} \/ Called(v)' =>
           v \in failed' \/ log'[workers'[v]] \in {"part", "shared", "new"}
    <3> TAKE v \in Worker
    <3>1. Called(v)' <=> Called(v)
      BY <2>1 DEF Called
    <3>2. task'[v] = task[v] \/ v = w
      BY <2>3
    <3>3. IF workers[v] = h THEN log'[workers[v]] = file ELSE log'[workers[v]] = log[workers[v]]
      BY <2>6
    <3> QED
      BY <2>1, <2>4, <2>5, <3>1, <3>2, <3>3 DEF IInv, LogInv
  <2>9. Distinct' => \A g \in Host' : log'[g] # "shared"
    BY <2>2, <2>6 DEF IInv, LogInv
  <2>10. \A v \in Worker : task'[v] = "writing" => log'[workers[v]] \in {"part", "shared", "new"}
    <3> TAKE v \in Worker
    <3>1. task'[v] = "writing" => task[v] = "writing"
      BY <2>3
    <3>2. log'[workers[v]] = log[workers[v]] \/ log'[workers[v]] \in {"shared", "new"}
      BY <2>4, <2>5, <2>6
    <3> QED
      BY <3>1, <3>2 DEF IInv, LogInv
  <2> QED
    BY <2>7, <2>8, <2>9, <2>10 DEF LogInv
<1>17. ASSUME NEW w \in Worker, ClientFails(w) PROVE LogInv'
  BY <1>17 DEF IInv, TypeInv, LogInv, Called, ClientFails, TaskStep
<1>18. ASSUME NEW w \in Worker, Report(w) PROVE LogInv'
  <2>0. OthersStay(w)
    BY <1>18, ReportCalls DEF IInv
  <2>1. \A v \in Worker : v # w => task'[v] = task[v] /\ call'[<<v, 1>>] = call[<<v, 1>>]
                                   /\ call'[<<v, 2>>] = call[<<v, 2>>]
    BY <2>0 DEF OthersStay
  <2>2. task[w] = "report" /\ UNCHANGED <<log, failed>>
    BY <1>18, ReportCalls DEF IInv
  <2>3. \A v \in Worker : task[v] = "writing" => task'[v] = "writing"
    BY <2>1, <2>2
  <2>4. \A h \in Host : log'[h] = "part" => \E v \in Worker : workers[v] = h /\ task'[v] = "writing"
    BY <2>2, <2>3 DEF IInv, LogInv
  <2>5. \A v \in Worker : task'[v] \in {"report", "waits", "reported"} \/ Called(v)' =>
           v \in failed \/ log[workers[v]] \in {"part", "shared", "new"}
    BY <2>1, <2>2 DEF IInv, LogInv, Called
  <2>6. \A v \in Worker : task'[v] = "writing" => log[workers[v]] \in {"part", "shared", "new"}
    <3>1. task'[w] # "writing"
      BY <1>18, ReportCalls DEF IInv
    <3>2. \A v \in Worker : task[v] = "writing" => log[workers[v]] \in {"part", "shared", "new"}
      BY DEF IInv, LogInv
    <3> QED
      BY <2>1, <3>1, <3>2
  <2> QED
    BY <2>2, <2>4, <2>5, <2>6 DEF IInv, LogInv
<1>19. ASSUME NEW w \in Worker, Answered(w) PROVE LogInv'
  BY <1>19 DEF IInv, TypeInv, LogInv, Called, Answered, TaskStep
<1>20. ASSUME NEW w \in Worker, Refused(w) PROVE LogInv'
  BY <1>20 DEF IInv, TypeInv, LogInv, Called, Refused, TaskStep
<1>21. ASSUME NEW w \in Worker, Reset(w) PROVE LogInv'
  BY <1>21 DEF IInv, TypeInv, LogInv, Called, Reset
<1>22. ASSUME UNCHANGED expVars PROVE LogInv'
  BY <1>22 DEF IInv, TypeInv, LogInv, Called
<1> QED
  BY <1>1, <1>2, <1>3, <1>4, <1>5, <1>6, <1>7, <1>8, <1>9, <1>10, <1>11, <1>12, <1>13, <1>14,
     <1>15, <1>16, <1>17, <1>18, <1>19, <1>20, <1>21, <1>22
     DEF Next, Master, FinishTask, Task

\* Every call takes at most its own worker out of unfin_workers.
LEMMA CountInvStep ==
  ASSUME IInv, [Next]_expVars
  PROVE  CountInv'
<1>0. /\ UNCHANGED <<Worker, Host, Calls, Distinct, workers>>
      /\ Worker = 1 .. Len(workers) /\ Len(workers) \in Nat
      /\ \A w \in Worker : workers[w] \in Host /\ <<w, 1>> \in Calls /\ <<w, 2>> \in Calls
      /\ \A c \in Calls : c[1] \in Worker /\ c[2] \in {1, 2} /\ c = <<c[1], c[2]>>
  BY SetsOfStep DEF IInv
<1> USE <1>0 DEF expVars, setup, masterVars
<1>1. ASSUME CopyFiles PROVE CountInv'
  BY <1>1 DEF IInv, TypeInv, CountInv, Called, Remaining, CopyFiles
<1>2. ASSUME StartServer PROVE CountInv'
  BY <1>2 DEF IInv, TypeInv, CountInv, Called, Remaining, StartServer
<1>3. ASSUME RunTask PROVE CountInv'
  <2>1. /\ next + 1 \in Worker /\ task[next + 1] = "none"
        /\ task' = [task EXCEPT ![next + 1] = "asleep"]
        /\ UNCHANGED <<call, unfinWorkers, resets>>
    BY <1>3 DEF IInv, TypeInv, TaskInv, RunTask
  <2>2. \A w \in Worker : task'[w] \notin {"waits", "reported", "gone"} =>
                             task[w] \notin {"waits", "reported", "gone"}
    BY <2>1 DEF IInv, TypeInv
  <2> QED
    BY <2>1, <2>2, CountStays DEF IInv, CountInv, Called
<1>4. ASSUME AllStarted PROVE CountInv'
  BY <1>4 DEF IInv, TypeInv, CountInv, Called, Remaining, AllStarted
<1>5. ASSUME HandleRequest PROVE CountInv'
  <2>1. PICK c \in Calls : /\ call[c] \in {"queued", "lost"}
                           /\ call' = [call EXCEPT ![c] = IF @ = "queued" THEN "acquire" ELSE "over"]
    BY <1>5 DEF HandleRequest
  <2>2. UNCHANGED <<unfinWorkers, resets, task>>
    BY <1>5 DEF HandleRequest
  <2>3. \A d \in Calls : call'[d] = IF d # c THEN call[d]
                                    ELSE IF call[c] = "queued" THEN "acquire" ELSE "over"
    BY <2>1 DEF IInv, TypeInv
  <2>4. \A w \in Worker : Called(w) => Called(w)'
    BY <2>3 DEF Called
  <2>5. CASE resets # 0
    BY <2>2, <2>4, <2>5 DEF IInv, CountInv
  <2>6. CASE resets = 0
    <3>1. \A w \in Worker : call[<<w, 1>>] # "lost" /\ call[<<w, 2>>] = "none"
      BY <2>6 DEF IInv, CountInv
    <3>2. c = <<c[1], 1>> /\ call[c] = "queued"
      BY <2>1, <3>1
    <3>3. ASSUME NEW w \in Worker
          PROVE  /\ call'[<<w, 1>>] \in {"release", "over"} <=> call[<<w, 1>>] \in {"release", "over"}
                 /\ call'[<<w, 1>>] # "lost" /\ call'[<<w, 2>>] = "none"
                 /\ task'[w] \notin {"waits", "reported", "gone"} => call'[<<w, 1>>] = "none"
      <4>1. /\ call'[<<w, 1>>] = IF <<w, 1>> = c THEN "acquire" ELSE call[<<w, 1>>]
            /\ call'[<<w, 2>>] = call[<<w, 2>>]
        BY <2>3, <3>1, <3>2
      <4>2. task[w] \notin {"waits", "reported", "gone"} => call[<<w, 1>>] = "none"
        BY <2>6 DEF IInv, CountInv
      <4> QED
        BY <2>2, <3>1, <3>2, <4>1, <4>2
    <3> QED
      BY <2>2, <2>4, <3>3, CountStays DEF IInv
  <2> QED
    BY <2>5, <2>6
<1>6. ASSUME AllHandled PROVE CountInv'
  BY <1>6 DEF IInv, TypeInv, CountInv, Called, Remaining, AllHandled
<1>7. ASSUME Poll PROVE CountInv'
  BY <1>7 DEF IInv, TypeInv, CountInv, Called, Remaining, Poll
<1>8. ASSUME FetchLog PROVE CountInv'
  BY <1>8 DEF IInv, TypeInv, CountInv, Called, Remaining, FetchLog
<1>9. ASSUME ParseResults PROVE CountInv'
  BY <1>9 DEF IInv, TypeInv, CountInv, Called, Remaining, ParseResults
<1>10. ASSUME ProxyFails PROVE CountInv'
  BY <1>10 DEF IInv, TypeInv, CountInv, Called, Remaining, ProxyFails
<1>11. ASSUME NEW c \in Calls, Acquire(c) PROVE CountInv'
  <2>1. /\ call[c] = "acquire" /\ call' = [call EXCEPT ![c] = "remove"]
        /\ UNCHANGED <<unfinWorkers, resets, task>>
    BY <1>11 DEF Acquire
  <2>2. \A w \in Worker :
           /\ call'[<<w, 1>>] = IF <<w, 1>> = c THEN "remove" ELSE call[<<w, 1>>]
           /\ call'[<<w, 2>>] = IF <<w, 2>> = c THEN "remove" ELSE call[<<w, 2>>]
    BY <2>1 DEF IInv, TypeInv
  <2>3. ASSUME NEW w \in Worker
        PROVE  /\ Called(w) => Called(w)'
               /\ call'[<<w, 1>>] \in {"release", "over"} <=> call[<<w, 1>>] \in {"release", "over"}
    <3>1. \/ <<w, 1>> # c /\ call'[<<w, 1>>] = call[<<w, 1>>]
          \/ call[<<w, 1>>] = "acquire" /\ call'[<<w, 1>>] = "remove"
      BY <2>1, <2>2
    <3>2. call'[<<w, 2>>] = call[<<w, 2>>] \/ call'[<<w, 2>>] = "remove"
      BY <2>2
    <3> QED
      BY ONLY <3>1, <3>2 DEF Called
  <2>4. ASSUME resets = 0, NEW w \in Worker
        PROVE  /\ call'[<<w, 1>>] # "lost" /\ call'[<<w, 2>>] = "none"
               /\ task'[w] \notin {"waits", "reported", "gone"} => call'[<<w, 1>>] = "none"
    <3>1. /\ call[<<w, 1>>] # "lost" /\ call[<<w, 2>>] = "none"
          /\ task[w] \notin {"waits", "reported", "gone"} => call[<<w, 1>>] = "none"
      BY <2>4 DEF IInv, CountInv
    <3> QED
      BY <2>1, <2>2, <3>1
  <2> QED
    BY <2>1, <2>3, <2>4, CountStays DEF IInv
<1>12. ASSUME NEW c \in Calls, RemoveWorker(c) PROVE CountInv'
  <2> DEFINE h == workers[c[1]]
  <2>0. h \in Host /\ c[1] \in Worker
    OBVIOUS
  <2>1. /\ call[c] = "remove" /\ UNCHANGED <<resets, task>>
        /\ \/ /\ unfinWorkers[h] > 0
              /\ unfinWorkers' = [unfinWorkers EXCEPT ![h] = @ - 1]
              /\ call' = [call EXCEPT ![c] = "release"]
           \/ /\ ~(unfinWorkers[h] > 0)
              /\ unfinWorkers' = unfinWorkers
              /\ call' = [call EXCEPT ![c] = "over"]
    BY <1>12 DEF RemoveWorker
  <2>2. \A d \in Calls : d # c => call'[d] = call[d]
    BY <2>1 DEF IInv, TypeInv
  <2>3. call'[c] \in {"release", "over"}
    BY <2>1 DEF IInv, TypeInv
  <2>4. \A g \in Host : g # h => unfinWorkers'[g] = unfinWorkers[g]
    BY <2>1 DEF IInv, TypeInv
  <2>5. \A w \in Worker : Called(w) => Called(w)'
    BY <2>2, <2>3 DEF Called
  <2>6. Called(c[1])'
    <3>1. c = <<c[1], 1>> \/ c = <<c[1], 2>>
      OBVIOUS
    <3> QED
      BY <2>3, <3>1 DEF Called
  <2>7. ASSUME Distinct, NEW w \in Worker PROVE Called(w)' \/ unfinWorkers'[workers[w]] > 0
    <3>1. CASE w = c[1]
      BY <2>6, <3>1
    <3>2. CASE w # c[1]
      <4>1. workers[w] # h
        BY <2>7, <3>2 DEF Distinct, IsInjective, Worker
      <4>2. workers[w] \in Host
        OBVIOUS
      <4>3. unfinWorkers'[workers[w]] = unfinWorkers[workers[w]]
        BY <2>4, <4>1, <4>2
      <4> QED
        BY <2>5, <2>7, <4>3 DEF IInv, CountInv
    <3> QED
      BY <3>1, <3>2
  <2>8. ASSUME resets = 0
        PROVE  /\ \A g \in Host : unfinWorkers'[g] = Cardinality(Remaining(g)')
               /\ \A w \in Worker :
                     /\ call'[<<w, 1>>] # "lost" /\ call'[<<w, 2>>] = "none"
                     /\ task'[w] \notin {"waits", "reported", "gone"} => call'[<<w, 1>>] = "none"
    <3>1. \A w \in Worker : call[<<w, 2>>] = "none"
      BY <2>8 DEF IInv, CountInv
    <3>2. c = <<c[1], 1>>
      BY <2>1, <3>1
    <3>3. \A w \in Worker : w # c[1] => <<w, 1>> # c
      BY <3>2
    <3>4. \A w \in Worker : call'[<<w, 1>>] \in {"release", "over"} <=>
                               w = c[1] \/ call[<<w, 1>>] \in {"release", "over"}
      BY <2>2, <2>3, <3>2, <3>3
    <3>5. c[1] \in Remaining(h)
      BY <2>0, <2>1, <3>2 DEF Remaining
    <3>6. \A g : Remaining(g)' = Remaining(g) \ {c[1]}
      BY <3>4 DEF Remaining
    <3>7. IsFiniteSet(Remaining(h)) /\ Cardinality(Remaining(h)) \in Nat
      BY RemainingFinite DEF IInv, TypeInv
    <3>8. Cardinality(Remaining(h)) # 0
      BY <3>5, <3>7, FS_EmptySet
    <3>9. unfinWorkers[h] = Cardinality(Remaining(h))
      BY <2>0, <2>8 DEF IInv, CountInv
    <3>10. unfinWorkers' = [unfinWorkers EXCEPT ![h] = @ - 1]
      <4> HIDE DEF h
      <4> QED
        BY <2>1, <3>7, <3>8, <3>9
    <3>11. Cardinality(Remaining(h) \ {c[1]}) = Cardinality(Remaining(h)) - 1
      BY <3>5, <3>7, FS_RemoveElement
    <3>12. \A g \in Host : g # h => Remaining(g)' = Remaining(g)
      <4>1. \A g \in Host : g # h => c[1] \notin Remaining(g)
        BY DEF Remaining
      <4> QED
        BY <3>6, <4>1
    <3>13. unfinWorkers'[h] = Cardinality(Remaining(h)')
      <4>1. unfinWorkers'[h] = unfinWorkers[h] - 1
        BY <2>0, <3>10 DEF IInv, TypeInv
      <4>2. Remaining(h)' = Remaining(h) \ {c[1]}
        BY <3>6
      <4> QED
        BY <3>9, <3>11, <4>1, <4>2
    <3>14. \A g \in Host : g # h => unfinWorkers'[g] = Cardinality(Remaining(g)')
      BY <2>4, <2>8, <3>12 DEF IInv, CountInv
    <3>15. ASSUME NEW w \in Worker
           PROVE  /\ call'[<<w, 1>>] # "lost" /\ call'[<<w, 2>>] = "none"
                  /\ task'[w] \notin {"waits", "reported", "gone"} => call'[<<w, 1>>] = "none"
      <4>1. call'[<<w, 2>>] = call[<<w, 2>>] /\ (<<w, 1>> # c => call'[<<w, 1>>] = call[<<w, 1>>])
        BY <2>2, <3>2
      <4>2. /\ call[<<w, 1>>] # "lost" /\ call[<<w, 2>>] = "none"
            /\ task[w] \notin {"waits", "reported", "gone"} => call[<<w, 1>>] = "none"
        BY <2>8 DEF IInv, CountInv
      <4> QED
        BY <2>1, <2>3, <4>1, <4>2
    <3> QED
      BY <3>13, <3>14, <3>15
  <2> QED
    BY <2>1, <2>7, <2>8 DEF CountInv
<1>13. ASSUME NEW c \in Calls, Release(c) PROVE CountInv'
  <2>1. /\ call[c] = "release" /\ call' = [call EXCEPT ![c] = "over"]
        /\ UNCHANGED <<unfinWorkers, resets, task>>
    BY <1>13 DEF Release
  <2>2. \A w \in Worker :
           /\ call'[<<w, 1>>] = IF <<w, 1>> = c THEN "over" ELSE call[<<w, 1>>]
           /\ call'[<<w, 2>>] = IF <<w, 2>> = c THEN "over" ELSE call[<<w, 2>>]
    BY <2>1 DEF IInv, TypeInv
  <2>3. ASSUME NEW w \in Worker
        PROVE  /\ Called(w) => Called(w)'
               /\ call'[<<w, 1>>] \in {"release", "over"} <=> call[<<w, 1>>] \in {"release", "over"}
    <3>1. \/ <<w, 1>> # c /\ call'[<<w, 1>>] = call[<<w, 1>>]
          \/ call[<<w, 1>>] = "release" /\ call'[<<w, 1>>] = "over"
      BY <2>1, <2>2
    <3>2. call'[<<w, 2>>] = call[<<w, 2>>] \/ call'[<<w, 2>>] = "over"
      BY <2>2
    <3> QED
      BY ONLY <3>1, <3>2 DEF Called
  <2>4. ASSUME resets = 0, NEW w \in Worker
        PROVE  /\ call'[<<w, 1>>] # "lost" /\ call'[<<w, 2>>] = "none"
               /\ task'[w] \notin {"waits", "reported", "gone"} => call'[<<w, 1>>] = "none"
    <3>1. /\ call[<<w, 1>>] # "lost" /\ call[<<w, 2>>] = "none"
          /\ task[w] \notin {"waits", "reported", "gone"} => call[<<w, 1>>] = "none"
      BY <2>4 DEF IInv, CountInv
    <3> QED
      BY <2>1, <2>2, <3>1
  <2> QED
    BY <2>1, <2>3, <2>4, CountStays DEF IInv
<1>14. ASSUME NEW w \in Worker, Wake(w) PROVE CountInv'
  BY <1>14 DEF IInv, TypeInv, CountInv, Called, Remaining, Wake, TaskStep
<1>15. ASSUME NEW w \in Worker, ClientWrites(w) PROVE CountInv'
  <2>1. /\ task[w] = "client" /\ task' = [task EXCEPT ![w] = "writing"]
        /\ UNCHANGED <<unfinWorkers, resets, call>>
    BY <1>15 DEF ClientWrites, TaskStep
  <2>2. \A v \in Worker : task'[v] \notin {"waits", "reported", "gone"} =>
                             task[v] \notin {"waits", "reported", "gone"}
    BY <2>1 DEF IInv, TypeInv
  <2> QED
    BY <2>1, <2>2, CountStays DEF IInv, CountInv, Called
<1>16. ASSUME NEW w \in Worker, ClientEnds(w) PROVE CountInv'
  <2>1. /\ task[w] = "writing" /\ task' = [task EXCEPT ![w] = "report"]
        /\ UNCHANGED <<unfinWorkers, resets, call>>
    BY <1>16 DEF ClientEnds, TaskStep
  <2>2. \A v \in Worker : task'[v] \notin {"waits", "reported", "gone"} =>
                             task[v] \notin {"waits", "reported", "gone"}
    BY <2>1 DEF IInv, TypeInv
  <2> QED
    BY <2>1, <2>2, CountStays DEF IInv, CountInv, Called
<1>17. ASSUME NEW w \in Worker, ClientFails(w) PROVE CountInv'
  BY <1>17 DEF IInv, TypeInv, CountInv, Called, Remaining, ClientFails, TaskStep
<1>18. ASSUME NEW w \in Worker, Report(w) PROVE CountInv'
  <2>1. UNCHANGED <<unfinWorkers, resets>> /\ task[w] = "report"
    BY <1>18, ReportCalls DEF IInv
  <2>0. OthersStay(w)
    BY <1>18, ReportCalls DEF IInv
  <2>2. \A v \in Worker : v # w => task'[v] = task[v] /\ call'[<<v, 1>>] = call[<<v, 1>>]
                                   /\ call'[<<v, 2>>] = call[<<v, 2>>]
    BY <2>0 DEF OthersStay
  <2>3. task'[w] \in {"waits", "gone"}
    BY <1>18, ReportCalls DEF IInv
  <2>4. \/ call'[<<w, 1>>] = call[<<w, 1>>]
        \/ call[<<w, 1>>] = "none" /\ call'[<<w, 1>>] = "queued"
    BY <1>18, ReportCalls DEF IInv
  <2>5. resets = 0 => call[<<w, 1>>] = "none"
    BY <2>1 DEF IInv, CountInv
  <2>6. resets = 0 => call'[<<w, 2>>] = call[<<w, 2>>]
    BY <1>18, <2>5, ReportCalls DEF IInv
  <2>7. \A v \in Worker :
           call'[<<v, 1>>] \in {"release", "over"} <=> call[<<v, 1>>] \in {"release", "over"}
    BY <2>2, <2>4
  <2>8. \A v \in Worker : Called(v) => Called(v)'
    <3>1. \/ call'[<<w, 2>>] = call[<<w, 2>>]
          \/ call'[<<w, 2>>] = "queued"
      BY <1>18, ReportCalls DEF IInv
    <3> QED
      BY <2>2, <2>4, <3>1 DEF Called
  <2>9. ASSUME resets = 0, NEW v \in Worker
        PROVE  /\ call'[<<v, 1>>] # "lost" /\ call'[<<v, 2>>] = "none"
               /\ task'[v] \notin {"waits", "reported", "gone"} => call'[<<v, 1>>] = "none"
    <3>1. /\ call[<<v, 1>>] # "lost" /\ call[<<v, 2>>] = "none"
          /\ task[v] \notin {"waits", "reported", "gone"} => call[<<v, 1>>] = "none"
      BY <2>9 DEF IInv, CountInv
    <3> QED
      BY <2>2, <2>3, <2>4, <2>6, <2>9, <3>1
  <2> QED
    BY <2>1, <2>7, <2>8, <2>9, CountStays DEF IInv
<1>19. ASSUME NEW w \in Worker, Answered(w) PROVE CountInv'
  BY <1>19 DEF IInv, TypeInv, CountInv, Called, Remaining, Answered, TaskStep
<1>20. ASSUME NEW w \in Worker, Refused(w) PROVE CountInv'
  BY <1>20 DEF IInv, TypeInv, CountInv, Called, Remaining, Refused, TaskStep
<1>21. ASSUME NEW w \in Worker, Reset(w) PROVE CountInv'
  BY <1>21 DEF IInv, TypeInv, CountInv, Called, Remaining, Reset
<1>22. ASSUME UNCHANGED expVars PROVE CountInv'
  BY <1>22 DEF IInv, TypeInv, CountInv, Called, Remaining
<1> QED
  BY <1>1, <1>2, <1>3, <1>4, <1>5, <1>6, <1>7, <1>8, <1>9, <1>10, <1>11, <1>12, <1>13, <1>14,
     <1>15, <1>16, <1>17, <1>18, <1>19, <1>20, <1>21, <1>22
     DEF Next, Master, FinishTask, Task

\* Once nobody is in unfin_workers every client has ended, so that no log is
\* half written and all are of this job.
LEMMA LogsFinal ==
  ASSUME IInv, Distinct \/ resets = 0, \A h \in Host : unfinWorkers[h] = 0
  PROVE  /\ \A w \in Worker : Ended(w)
         /\ \A h \in Host : log[h] # "part"
         /\ \A w \in Worker : w \in failed \/ Whole(log[workers[w]])
<1>0. workers \in WorkerLists /\ \A w \in Worker : workers[w] \in Host
  BY SetsOf DEF IInv, TypeInv
<1>1. ASSUME NEW w \in Worker PROVE Called(w)
  <2>1. CASE Distinct
    <3>1. ~(unfinWorkers[workers[w]] > 0)
      BY <1>0
    <3> QED
      BY <2>1, <3>1 DEF IInv, CountInv
  <2>2. CASE resets = 0
    <3>1. Cardinality(Remaining(workers[w])) = 0
      BY <1>0, <2>2 DEF IInv, CountInv
    <3>2. Remaining(workers[w]) = {}
      BY <1>0, <3>1, RemainingFinite, FS_EmptySet
    <3>3. call[<<w, 1>>] \in {"release", "over"}
      BY <3>2 DEF Remaining
    <3> QED
      BY <3>3 DEF Called
  <2> QED
    BY <2>1, <2>2
<1>2. \A w \in Worker : Ended(w)
  BY <1>1 DEF IInv, TaskInv
<1>3. \A h \in Host : log[h] # "part"
  BY <1>2 DEF IInv, LogInv, Ended
<1>4. ASSUME NEW w \in Worker PROVE w \in failed \/ Whole(log[workers[w]])
  <2>1. w \in failed \/ log[workers[w]] \in {"part", "shared", "new"}
    BY <1>1 DEF IInv, LogInv
  <2>2. log[workers[w]] # "part"
    BY <1>0, <1>3
  <2>3. log[workers[w]] = "shared" => ~Distinct
    BY <1>0 DEF IInv, LogInv
  <2>4. CASE w \in failed
    BY <2>4
  <2>5. CASE log[workers[w]] = "new"
    BY <2>5 DEF Whole
  <2>6. CASE log[workers[w]] = "shared"
    BY <2>3, <2>6 DEF Whole
  <2> QED
    BY <2>1, <2>2, <2>4, <2>5, <2>6
<1> QED
  BY <1>2, <1>3, <1>4

\* Logs are fetched when no client can write them any more.
LEMMA FetchInvStep ==
  ASSUME IInv, [Next]_expVars
  PROVE  FetchInv'
<1>0. /\ UNCHANGED <<Worker, Host, Calls, Distinct, workers>>
      /\ Worker = 1 .. Len(workers) /\ Len(workers) \in Nat
      /\ \A w \in Worker : workers[w] \in Host /\ <<w, 1>> \in Calls /\ <<w, 2>> \in Calls
      /\ \A c \in Calls : c[1] \in Worker /\ c[2] \in {1, 2} /\ c = <<c[1], c[2]>>
  BY SetsOfStep DEF IInv
<1>w. \A file : Whole(file)' <=> Whole(file)
  BY <1>0 DEF Whole
<1> USE <1>0, <1>w DEF expVars, setup, masterVars
<1>1. ASSUME CopyFiles PROVE FetchInv'
  BY <1>1 DEF IInv, TypeInv, FetchInv, CopyFiles
<1>2. ASSUME StartServer PROVE FetchInv'
  BY <1>2 DEF IInv, TypeInv, FetchInv, StartServer
<1>3. ASSUME RunTask PROVE FetchInv'
  BY <1>3 DEF IInv, TypeInv, FetchInv, RunTask
<1>4. ASSUME AllStarted PROVE FetchInv'
  BY <1>4 DEF IInv, TypeInv, FetchInv, AllStarted
<1>5. ASSUME HandleRequest PROVE FetchInv'
  BY <1>5 DEF IInv, TypeInv, FetchInv, HandleRequest
<1>6. ASSUME AllHandled PROVE FetchInv'
  BY <1>6 DEF IInv, TypeInv, FetchInv, AllHandled
<1>7. ASSUME Poll PROVE FetchInv'
  BY <1>7 DEF IInv, TypeInv, FetchInv, Poll
<1>8. ASSUME FetchLog PROVE FetchInv'
  <2> DEFINE h == workers[next + 1]
             n == Len(workers)
  <2>1. /\ pc = "fetch" /\ next < n /\ next \in Nat /\ next + 1 \in Worker
        /\ UNCHANGED <<unfinWorkers, log, failed, resets, task, call>>
    BY <1>8 DEF IInv, TypeInv, FetchLog
  <2>2. h \in Host
    BY <2>1
  <2>3. /\ \A g \in Host : unfinWorkers[g] = 0
        /\ Distinct \/ resets = 0 => \A g \in Host : results[g] # "part"
        /\ \A w \in Worker : w <= next => results[workers[w]] # "none"
        /\ Distinct \/ resets = 0 =>
              \A w \in Worker : w <= next => Whole(results[workers[w]]) \/ w \in failed
        /\ \A g \in PastHosts \ Host : results[g] \in {"none", "old"}
    BY <2>1 DEF IInv, FetchInv
  <2>4. ASSUME NEW file, results' = [results EXCEPT ![h] = file]
        PROVE  \A g \in Host \cup PastHosts : results'[g] = IF g = h THEN file ELSE results[g]
    BY <2>4 DEF IInv, TypeInv
  <2> HIDE DEF h, n
  <2>5. CASE results' = [results EXCEPT ![h] = "empty"] /\ pc' = "failed"
    <3>1. \A g \in Host \cup PastHosts : results'[g] = IF g = h THEN "empty" ELSE results[g]
      BY <2>4, <2>5
    <3>2. Distinct \/ resets = 0 => \A g \in Host : results'[g] # "part"
      BY <2>3, <3>1
    <3>3. \A g \in PastHosts \ Host : results'[g] \in {"none", "old"}
      BY <2>2, <2>3, <3>1
    <3> QED
      BY <2>1, <2>5, <3>2, <3>3 DEF FetchInv
  <2>6. CASE /\ results' = [results EXCEPT ![h] = log[h]] /\ log[h] # "none"
             /\ next' = next + 1 /\ pc' = pc
    <3>1. \A g \in Host \cup PastHosts : results'[g] = IF g = h THEN log[h] ELSE results[g]
      BY <2>4, <2>6
    <3>2. ASSUME Distinct \/ resets = 0
          PROVE  /\ \A g \in Host : log[g] # "part"
                 /\ \A w \in Worker : w \in failed \/ Whole(log[workers[w]])
      BY <2>3, <3>2, LogsFinal
    <3>3. Distinct \/ resets = 0 => \A g \in Host : results'[g] # "part"
      BY <2>2, <2>3, <3>1, <3>2
    <3>4. \A w \in Worker : w <= next' => w <= next \/ workers[w] = h
      <4>1. \A w \in Worker : w <= next + 1 => w <= next \/ w = next + 1
        BY <2>1
      <4> QED
        BY <2>6, <4>1 DEF h
    <3>5. ASSUME NEW w \in Worker, w <= next' PROVE results'[workers[w]] # "none"
      <4>1. workers[w] \in Host
        OBVIOUS
      <4>2. results'[workers[w]] = IF workers[w] = h THEN log[h] ELSE results[workers[w]]
        BY <3>1, <4>1
      <4>3. workers[w] # h => w <= next
        BY <3>4, <3>5
      <4> QED
        BY <2>3, <2>6, <4>2, <4>3
    <3>6. ASSUME Distinct \/ resets = 0, NEW w \in Worker, w <= next'
          PROVE  Whole(results'[workers[w]]) \/ w \in failed
      <4>1. CASE workers[w] = h
        BY <2>2, <3>1, <3>2, <3>6, <4>1
      <4>2. CASE workers[w] # h
        <5>1. w <= next
          BY <3>4, <3>6, <4>2
        <5>2. results'[workers[w]] = results[workers[w]]
          BY <3>1, <4>2
        <5> QED
          BY <2>3, <3>6, <5>1, <5>2
      <4> QED
        BY <4>1, <4>2
    <3>7. \A g \in PastHosts \ Host : results'[g] \in {"none", "old"}
      BY <2>2, <2>3, <3>1
    <3> QED
      BY <2>1, <2>3, <2>6, <3>3, <3>5, <3>6, <3>7 DEF FetchInv
  <2> QED
    BY <1>8, <2>5, <2>6 DEF FetchLog, h
<1>9. ASSUME ParseResults PROVE FetchInv'
  BY <1>9 DEF IInv, TypeInv, FetchInv, ParseResults
<1>10. ASSUME ProxyFails PROVE FetchInv'
  BY <1>10 DEF IInv, TypeInv, FetchInv, ProxyFails
<1>11. ASSUME NEW c \in Calls, Acquire(c) PROVE FetchInv'
  BY <1>11 DEF IInv, TypeInv, FetchInv, Acquire
<1>12. ASSUME NEW c \in Calls, RemoveWorker(c) PROVE FetchInv'
  BY <1>12 DEF IInv, TypeInv, FetchInv, RemoveWorker
<1>13. ASSUME NEW c \in Calls, Release(c) PROVE FetchInv'
  BY <1>13 DEF IInv, TypeInv, FetchInv, Release
<1>14. ASSUME NEW w \in Worker, Wake(w) PROVE FetchInv'
  BY <1>14 DEF IInv, TypeInv, FetchInv, Wake, TaskStep
<1>15. ASSUME NEW w \in Worker, ClientWrites(w) PROVE FetchInv'
  BY <1>15 DEF IInv, TypeInv, FetchInv, ClientWrites, TaskStep
<1>16. ASSUME NEW w \in Worker, ClientEnds(w) PROVE FetchInv'
  BY <1>16 DEF IInv, TypeInv, FetchInv, ClientEnds, TaskStep
<1>17. ASSUME NEW w \in Worker, ClientFails(w) PROVE FetchInv'
  BY <1>17 DEF IInv, TypeInv, FetchInv, ClientFails, TaskStep
<1>18. ASSUME NEW w \in Worker, Report(w) PROVE FetchInv'
  BY <1>18 DEF IInv, TypeInv, FetchInv, Report, TaskStep
<1>19. ASSUME NEW w \in Worker, Answered(w) PROVE FetchInv'
  BY <1>19 DEF IInv, TypeInv, FetchInv, Answered, TaskStep
<1>20. ASSUME NEW w \in Worker, Refused(w) PROVE FetchInv'
  BY <1>20 DEF IInv, TypeInv, FetchInv, Refused, TaskStep
<1>21. ASSUME NEW w \in Worker, Reset(w) PROVE FetchInv'
  BY <1>21 DEF IInv, TypeInv, FetchInv, Reset
<1>22. ASSUME UNCHANGED expVars PROVE FetchInv'
  BY <1>22 DEF IInv, TypeInv, FetchInv
<1> QED
  BY <1>1, <1>2, <1>3, <1>4, <1>5, <1>6, <1>7, <1>8, <1>9, <1>10, <1>11, <1>12, <1>13, <1>14,
     <1>15, <1>16, <1>17, <1>18, <1>19, <1>20, <1>21, <1>22
     DEF Next, Master, FinishTask, Task

-----------------------------------------------------------------------------
(* What holds in every behaviour.                                          *)

\* The invariant holds at the start and after every step.
THEOREM Invariance == Spec => []IInv
<1>1. IInv /\ [Next]_expVars => IInv'
  BY TypeInvStep, TaskInvStep, LogInvStep, CountInvStep, FetchInvStep DEF IInv
<1> QED
  BY InitIInv, <1>1, PTL DEF Spec

\* What the master parses is a complete log of this job for each of its hosts,
\* but where a client failed or a host is listed twice, and of other hosts
\* what an earlier job of the same name left.
THEOREM ResultsFinal == Spec => []ResultsAreFinal
<1>1. IInv => ResultsAreFinal
  <2> SUFFICES ASSUME IInv, pc \in {"fetch", "done"}, Distinct \/ resets = 0
               PROVE  /\ \A w \in Worker : Ended(w)
                      /\ \A h \in Host : log[h] # "part" /\ results[h] # "part"
                      /\ pc = "done" =>
                            /\ \A h \in Host : \E file \in parsed : file[1] = h
                            /\ \A file \in parsed : Final(file)
    BY DEF ResultsAreFinal
  <2>1. \A h \in Host : unfinWorkers[h] = 0
    BY DEF IInv, FetchInv
  <2>2. \A h \in Host : results[h] # "part"
    BY DEF IInv, FetchInv
  <2>3. \A h \in Host : \E w \in Worker : workers[w] = h
    BY DEF Host, Worker, Range
  <2>4. ASSUME pc = "done"
        PROVE  /\ \A w \in Worker : w <= next
               /\ parsed = FilesOf(results) /\ DOMAIN results = Host \cup PastHosts
    BY <2>4, SetsOf DEF IInv, TypeInv, FetchInv
  <2>5. ASSUME pc = "done", NEW h \in Host
        PROVE  \E file \in parsed : file[1] = h
    <3>1. results[h] # "none"
      BY <2>3, <2>4, <2>5 DEF IInv, FetchInv
    <3>2. <<h, results[h]>> \in parsed
      BY <2>4, <2>5, <3>1 DEF FilesOf
    <3> QED
      BY <3>2
  <2>6. ASSUME pc = "done", NEW file \in parsed
        PROVE  Final(file)
    <3>1. PICK h \in Host \cup PastHosts : file = <<h, results[h]>> /\ results[h] # "none"
      BY <2>4, <2>6 DEF FilesOf
    <3>2. CASE h \in Host
      <4>1. PICK w \in Worker : workers[w] = h
        BY <2>3, <3>2
      <4>2. Whole(results[h]) \/ w \in failed
        BY <2>4, <2>6, <4>1 DEF IInv, FetchInv
      <4> QED
        BY <3>1, <4>1, <4>2 DEF Final, Whole
    <3>3. CASE h \notin Host
      <4>1. results[h] = "old"
        BY <3>1, <3>3 DEF IInv, FetchInv
      <4> QED
        BY <3>1, <3>3, <4>1 DEF Final
    <3> QED
      BY <3>2, <3>3
  <2> QED
    BY <2>1, <2>2, <2>5, <2>6, LogsFinal
<1> QED
  BY Invariance, <1>1, PTL
=============================================================================
