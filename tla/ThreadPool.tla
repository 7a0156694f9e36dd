---------------------------- MODULE ThreadPool ----------------------------
(***************************************************************************)
(* The thread pool with its mutex and condition variable (src/utils/      *)
(* thread_pool.cpp), one thread that submits (the processor's) and one     *)
(* that shuts it down (main, when the processor has been joined).          *)
(*                                                                         *)
(* The body of a critical section that nothing else can observe is one     *)
(* step.  condition.wait(lock, pred) is not: evaluating pred and giving up *)
(* the mutex to sleep are separate steps, because shutdown() stores        *)
(* isRunning and notifies without the mutex.                               *)
(***************************************************************************)
EXTENDS Events

CONSTANTS Worker,     \* the threads of the pool
          Nobody      \* owner of a free mutex

\* loadConfig refuses a configuration without threads.
ASSUME PoolAssumption == Nobody \notin Worker /\ Worker # {}

VARIABLES tasks,      \* tasks
          running,    \* isRunning
          queueMutex, \* the worker that holds queueMutex between its steps, or Nobody
          wpc,        \* where each worker is
          wtask,      \* the task it runs
          late,       \* tasks each worker started after isRunning was cleared
          fresh,      \* tasks not yet submitted
          spc,        \* the submitter: "idle", or about to "notify" a worker
          opc,        \* the owner: how far shutdown() is
          discarded   \* tasks that shutdown() threw away

vars == <<tasks, running, queueMutex, wpc, wtask, late, fresh, spc, opc, discarded>>

\* Worker states: the while test, acquiring the mutex, evaluating the
\* predicate, about to sleep, asleep, waking up, running a task, gone.
WorkerPC == {"loop", "lock", "pred", "block", "asleep", "relock", "run", "exit"}

TypeOK ==
    /\ tasks \in Seq(Event)
    /\ running \in BOOLEAN
    /\ queueMutex \in Worker \cup {Nobody}
    /\ wpc \in [Worker -> WorkerPC]
    /\ wtask \in [Worker -> Event \cup {NoEvent}]
    /\ \A w \in Worker : wtask[w] # NoEvent <=> wpc[w] = "run"
    /\ late \in [Worker -> Nat]
    /\ fresh \subseteq Event
    /\ spc \in {"idle", "notify"}
    /\ opc \in {"up", "notify", "join", "done"}
    /\ discarded \subseteq Event

Init ==
    /\ tasks = <<>>
    /\ running = TRUE
    /\ queueMutex = Nobody
    /\ wpc = [w \in Worker |-> "loop"]
    /\ wtask = [w \in Worker |-> NoEvent]
    /\ late = [w \in Worker |-> 0]
    /\ fresh = Event
    /\ spc = "idle"
    /\ opc = "up"
    /\ discarded = {}

Goto(w, pc) == wpc' = [wpc EXCEPT ![w] = pc]

-----------------------------------------------------------------------------
(* submit() *)

SubmitPush(e) ==
    /\ opc = "up" /\ spc = "idle"
    /\ e \in fresh
    /\ queueMutex = Nobody
    /\ tasks' = Append(tasks, e)
    /\ fresh' = fresh \ {e}
    /\ spc' = "notify"
    /\ UNCHANGED <<running, queueMutex, wpc, wtask, late, opc, discarded>>

\* Variant for mutation: the notification is forgotten.
SubmitNotifyForgotten ==
    /\ spc = "notify"
    /\ spc' = "idle"
    /\ UNCHANGED <<tasks, running, queueMutex, wpc, wtask, late, fresh, opc, discarded>>

\* notify_one wakes one sleeping worker, or is lost when none sleeps.
SubmitNotify ==
    /\ spc = "notify"
    /\ IF \E w \in Worker : wpc[w] = "asleep"
       THEN \E w \in Worker : wpc[w] = "asleep" /\ Goto(w, "relock")
       ELSE UNCHANGED wpc
    /\ spc' = "idle"
    /\ UNCHANGED <<tasks, running, queueMutex, wtask, late, fresh, opc, discarded>>

-----------------------------------------------------------------------------
(* The worker thread. *)

\* Variant for mutation: while (true).
CheckNothing(w) ==
    /\ wpc[w] = "loop"
    /\ Goto(w, "lock")
    /\ UNCHANGED <<tasks, running, queueMutex, wtask, late, fresh, spc, opc, discarded>>

Check(w) ==
    /\ wpc[w] = "loop"
    /\ Goto(w, IF running THEN "lock" ELSE "exit")
    /\ UNCHANGED <<tasks, running, queueMutex, wtask, late, fresh, spc, opc, discarded>>

\* The mutex is acquired, at first or inside wait().
Lock(w) ==
    /\ wpc[w] \in {"lock", "relock"}
    /\ queueMutex = Nobody
    /\ queueMutex' = w
    /\ Goto(w, "pred")
    /\ UNCHANGED <<tasks, running, wtask, late, fresh, spc, opc, discarded>>

\* Variant for mutation: the mutex is released before the worker sleeps.
PredFalseUnlocks(w) ==
    /\ wpc[w] = "pred"
    /\ tasks = <<>> /\ running
    /\ queueMutex' = Nobody
    /\ Goto(w, "block")
    /\ UNCHANGED <<tasks, running, wtask, late, fresh, spc, opc, discarded>>

\* The predicate is false.
PredFalse(w) ==
    /\ wpc[w] = "pred"
    /\ tasks = <<>> /\ running
    /\ Goto(w, "block")
    /\ UNCHANGED <<tasks, running, queueMutex, wtask, late, fresh, spc, opc, discarded>>

\* The mutex is released and the worker sleeps, in one step.
Block(w) ==
    /\ wpc[w] = "block"
    /\ queueMutex' = Nobody
    /\ Goto(w, "asleep")
    /\ UNCHANGED <<tasks, running, wtask, late, fresh, spc, opc, discarded>>

\* wait() may return without a notification.
SpuriousWakeup(w) ==
    /\ wpc[w] = "asleep"
    /\ Goto(w, "relock")
    /\ UNCHANGED <<tasks, running, queueMutex, wtask, late, fresh, spc, opc, discarded>>

\* The predicate is true because there is a task: it is taken.
Take(w) ==
    /\ wpc[w] = "pred"
    /\ tasks # <<>>
    /\ wtask' = [wtask EXCEPT ![w] = Head(tasks)]
    /\ tasks' = Tail(tasks)
    /\ late' = IF running THEN late ELSE [late EXCEPT ![w] = @ + 1]
    /\ queueMutex' = Nobody
    /\ Goto(w, "run")
    /\ UNCHANGED <<running, fresh, spc, opc, discarded>>

\* Variant for mutation: the worker returns although there is a task.
ReturnAtOnce(w) ==
    /\ wpc[w] = "pred"
    /\ ~running
    /\ queueMutex' = Nobody
    /\ Goto(w, "exit")
    /\ UNCHANGED <<tasks, running, wtask, late, fresh, spc, opc, discarded>>

\* The predicate is true because the pool stops: the worker returns.
Return(w) ==
    /\ wpc[w] = "pred"
    /\ tasks = <<>> /\ ~running
    /\ queueMutex' = Nobody
    /\ Goto(w, "exit")
    /\ UNCHANGED <<tasks, running, wtask, late, fresh, spc, opc, discarded>>

\* Variant for mutation: the worker keeps the task after it has run.
FinishKeepsTask(w) ==
    /\ wpc[w] = "run"
    /\ Goto(w, "loop")
    /\ UNCHANGED <<tasks, running, queueMutex, wtask, late, fresh, spc, opc, discarded>>

Finish(w) ==
    /\ wpc[w] = "run"
    /\ wtask' = [wtask EXCEPT ![w] = NoEvent]
    /\ Goto(w, "loop")
    /\ UNCHANGED <<tasks, running, queueMutex, late, fresh, spc, opc, discarded>>

-----------------------------------------------------------------------------
(* shutdown(); the submitter's thread has been joined before. *)

ShutdownFlag ==
    /\ opc = "up" /\ spc = "idle"
    /\ running' = FALSE
    /\ opc' = "notify"
    /\ UNCHANGED <<tasks, queueMutex, wpc, wtask, late, fresh, spc, discarded>>

ShutdownNotifyAll ==
    /\ opc = "notify"
    /\ wpc' = [w \in Worker |-> IF wpc[w] = "asleep" THEN "relock" ELSE wpc[w]]
    /\ opc' = "join"
    /\ UNCHANGED <<tasks, running, queueMutex, wtask, late, fresh, spc, discarded>>

\* Every join has returned; the remaining tasks are cleared.
ShutdownJoinAndClear ==
    /\ opc = "join"
    /\ \A w \in Worker : wpc[w] = "exit"
    /\ discarded' = discarded \cup Range(tasks)
    /\ tasks' = <<>>
    /\ opc' = "done"
    /\ UNCHANGED <<running, queueMutex, wpc, wtask, late, fresh, spc>>

-----------------------------------------------------------------------------
\* The steps that a worker takes of itself.
WorkerStep(w) ==
    \/ Check(w) \/ Lock(w) \/ PredFalse(w) \/ Block(w)
    \/ Take(w) \/ Return(w) \/ Finish(w)

Shutdown == ShutdownFlag \/ ShutdownNotifyAll \/ ShutdownJoinAndClear

Next ==
    \/ \E e \in Event : SubmitPush(e)
    \/ SubmitNotify
    \/ \E w \in Worker : WorkerStep(w) \/ SpuriousWakeup(w)
    \/ Shutdown

Spec == Init /\ [][Next]_vars

(***************************************************************************)
(* Every thread that can take a step takes it.  A spurious wakeup may      *)
(* happen but is never owed, submitting and shutting down are never owed.  *)
(***************************************************************************)
FairSpec ==
    /\ Spec
    /\ \A w \in Worker : WF_vars(WorkerStep(w))
    /\ WF_vars(SubmitNotify)
    /\ WF_vars(ShutdownNotifyAll) /\ WF_vars(ShutdownJoinAndClear)

-----------------------------------------------------------------------------
(* Properties *)

\* The pool that the other modules use: between the loop test and the task
\* a worker is idle, whatever it does with the mutex.
Abstract == INSTANCE TaskPool
    WITH poolRunning <- running,
         wpc <- [w \in Worker |->
                    IF wpc[w] \in {"lock", "pred", "block", "asleep", "relock"}
                    THEN "idle" ELSE wpc[w]]

\* Mutex, wait set and notifications implement the queue of TaskPool.
ImplementsTaskPool == Abstract!PoolSpec

\* No wakeup is lost while the pool runs: when a task waits, some worker is
\* awake, or submit() is still about to wake one.
NoLostWakeup ==
    tasks # <<>> /\ (\A w \in Worker : wpc[w] = "asleep") => spc = "notify"

\* After shutdown() has cleared isRunning a worker starts at most one more
\* task, so shutdown() waits for a bounded number of them.
AtMostOneLate == \A w \in Worker : late[w] <= 1

\* A submitted task is run, or the pool is shut down.
SubmittedIsRun ==
    \A e \in Event : e \in Range(tasks) ~> e \notin Range(tasks) \/ ~running

\* shutdown() returns (thread_pool.hpp, "Stop all threads and clear the
\* task queue").  It does not always: see the README.
ShutdownReturns == opc = "join" ~> opc = "done"
=============================================================================
