----------------------------- MODULE TaskPool -----------------------------
(***************************************************************************)
(* The thread pool as its callers see it (include/utils/thread_pool.hpp,   *)
(* src/utils/thread_pool.cpp): one unbounded first-in first-out queue of   *)
(* tasks and a set of workers.  The only task ever submitted stores an     *)
(* event, so a task is the event it stores.  Mutex and condition variable  *)
(* are left out: a worker that waits for the predicate is "idle"; module   *)
(* ThreadPool adds them and implements this one.                           *)
(***************************************************************************)
EXTENDS Events

CONSTANT Worker       \* the threads of the pool

VARIABLES tasks,      \* tasks
          poolRunning,\* isRunning
          wpc,        \* where each worker is
          wtask,      \* the task it runs
          discarded   \* tasks that shutdown() threw away

poolVars == <<tasks, poolRunning, wpc, wtask, discarded>>

PoolTypeOK ==
    /\ tasks \in Seq(Event)
    /\ poolRunning \in BOOLEAN
    /\ wpc \in [Worker -> {"loop", "idle", "run", "exit"}]
    /\ wtask \in [Worker -> Event \cup {NoEvent}]
    /\ \A w \in Worker : wtask[w] # NoEvent <=> wpc[w] = "run"
    /\ discarded \subseteq Event

\* The constructor starts every worker.
PoolInit ==
    /\ tasks = <<>>
    /\ poolRunning = TRUE
    /\ wpc = [w \in Worker |-> "loop"]
    /\ wtask = [w \in Worker |-> NoEvent]
    /\ discarded = {}

-----------------------------------------------------------------------------
\* Variant for mutation: the last task submitted is the first to run.
SubmitLIFO(e) ==
    /\ tasks' = <<e>> \o tasks
    /\ UNCHANGED <<poolRunning, wpc, wtask, discarded>>

\* submit(); it does not look at isRunning.
Submit(e) ==
    /\ tasks' = Append(tasks, e)
    /\ UNCHANGED <<poolRunning, wpc, wtask, discarded>>

\* The test of the worker's while.
WorkerCheck(w) ==
    /\ wpc[w] = "loop"
    /\ wpc' = [wpc EXCEPT ![w] = IF poolRunning THEN "idle" ELSE "exit"]
    /\ UNCHANGED <<tasks, poolRunning, wtask, discarded>>

\* The wait ends with a task in the queue: it is taken, running or not.
WorkerTake(w) ==
    /\ wpc[w] = "idle"
    /\ tasks # <<>>
    /\ wtask' = [wtask EXCEPT ![w] = Head(tasks)]
    /\ tasks' = Tail(tasks)
    /\ wpc' = [wpc EXCEPT ![w] = "run"]
    /\ UNCHANGED <<poolRunning, discarded>>

\* The wait ends because the pool stops.
WorkerReturn(w) ==
    /\ wpc[w] = "idle"
    /\ tasks = <<>>
    /\ ~poolRunning
    /\ wpc' = [wpc EXCEPT ![w] = "exit"]
    /\ UNCHANGED <<tasks, poolRunning, wtask, discarded>>

\* Variant for mutation: an exception of the task ends the worker.
WorkerFinishDies(w) ==
    /\ wpc[w] = "run"
    /\ wtask' = [wtask EXCEPT ![w] = NoEvent]
    /\ wpc' = [wpc EXCEPT ![w] = "exit"]
    /\ UNCHANGED <<tasks, poolRunning, discarded>>

\* The task returns.
WorkerFinish(w) ==
    /\ wpc[w] = "run"
    /\ wtask' = [wtask EXCEPT ![w] = NoEvent]
    /\ wpc' = [wpc EXCEPT ![w] = "loop"]
    /\ UNCHANGED <<tasks, poolRunning, discarded>>

\* shutdown() stores the flag ...
ShutdownFlag ==
    /\ poolRunning' = FALSE
    /\ UNCHANGED <<tasks, wpc, wtask, discarded>>

\* ... and, when it has joined every worker, clears the queue.
ShutdownClear ==
    /\ \A w \in Worker : wpc[w] = "exit"
    /\ discarded' = discarded \cup Range(tasks)
    /\ tasks' = <<>>
    /\ UNCHANGED <<poolRunning, wpc, wtask>>

PoolNext ==
    \/ \E e \in Event : Submit(e)
    \/ \E w \in Worker :
           WorkerCheck(w) \/ WorkerTake(w) \/ WorkerReturn(w) \/ WorkerFinish(w)
    \/ ShutdownFlag \/ ShutdownClear

PoolSpec == PoolInit /\ [][PoolNext]_poolVars
=============================================================================
