------------------------- MODULE ThreadPoolProofs -------------------------
(***************************************************************************)
(* Proofs about the thread pool, for any set of workers and of tasks.      *)
(***************************************************************************)
EXTENDS ThreadPool, TLAPS

\* Only one worker is between acquiring the mutex and giving it up.
MutualExclusion ==
    \A w \in Worker : wpc[w] \in {"pred", "block"} <=> queueMutex = w

\* A worker that is about to sleep saw an empty queue, and holds the mutex,
\* without which nobody adds to it.
SleepsOnEmptyQueue == \A w \in Worker : wpc[w] = "block" => tasks = <<>>

\* A worker that started a task after the flag was cleared does not come back
\* to the queue.
LateDoesNotReturn ==
    \A w \in Worker :
        late[w] # 0 => ~running /\ late[w] = 1 /\ wpc[w] \in {"run", "loop", "exit"}

IInv ==
    /\ TypeOK
    /\ MutualExclusion
    /\ SleepsOnEmptyQueue
    /\ NoLostWakeup
    /\ LateDoesNotReturn

-----------------------------------------------------------------------------
LEMMA TypeOKInit == Init => TypeOK
BY PoolAssumption DEF Init, TypeOK, WorkerPC

\* Every step of the program keeps the types.
LEMMA TypeOKStep == TypeOK /\ [Next]_vars => TypeOK'
<1> SUFFICES ASSUME TypeOK, [Next]_vars PROVE TypeOK'
    OBVIOUS
<1> USE EventAssumption, PoolAssumption DEF TypeOK, WorkerPC, Goto
<1>1. ASSUME NEW e \in Event, SubmitPush(e) PROVE TypeOK'
    BY <1>1 DEF SubmitPush
<1>2. CASE SubmitNotify
    BY <1>2 DEF SubmitNotify
<1>3. ASSUME NEW w \in Worker, WorkerStep(w) \/ SpuriousWakeup(w) PROVE TypeOK'
    <2>1. CASE Check(w)          BY <2>1 DEF Check
    <2>2. CASE Lock(w)           BY <2>2 DEF Lock
    <2>3. CASE PredFalse(w)      BY <2>3 DEF PredFalse
    <2>4. CASE Block(w)          BY <2>4 DEF Block
    <2>5. CASE Take(w)
        <3>1. Head(tasks) \in Event /\ Tail(tasks) \in Seq(Event)
            BY <2>5 DEF Take
        <3> QED BY <2>5, <3>1 DEF Take
    <2>6. CASE Return(w)         BY <2>6 DEF Return
    <2>7. CASE Finish(w)         BY <2>7 DEF Finish
    <2>8. CASE SpuriousWakeup(w) BY <2>8 DEF SpuriousWakeup
    <2> QED BY <1>3, <2>1, <2>2, <2>3, <2>4, <2>5, <2>6, <2>7, <2>8 DEF WorkerStep
<1>4. CASE Shutdown
    <2>1. CASE ShutdownFlag          BY <2>1 DEF ShutdownFlag
    <2>2. CASE ShutdownNotifyAll     BY <2>2 DEF ShutdownNotifyAll
    <2>3. CASE ShutdownJoinAndClear
        <3>1. Range(tasks) \subseteq Event
            BY DEF Range
        <3> QED BY <2>3, <3>1 DEF ShutdownJoinAndClear
    <2> QED BY <1>4, <2>1, <2>2, <2>3 DEF Shutdown
<1>5. CASE UNCHANGED vars
    BY <1>5 DEF vars
<1> QED BY <1>1, <1>2, <1>3, <1>4, <1>5 DEF Next

\* The pool's variables always hold values of their types.
THEOREM TypeCorrect == Spec => []TypeOK
<1> QED BY TypeOKInit, TypeOKStep, PTL DEF Spec

-----------------------------------------------------------------------------
LEMMA IInvInit == Init => IInv
<1> SUFFICES ASSUME Init PROVE IInv
    OBVIOUS
<1>1. TypeOK
    BY TypeOKInit
<1>2. MutualExclusion
    BY PoolAssumption DEF Init, MutualExclusion
<1>3. SleepsOnEmptyQueue /\ NoLostWakeup /\ LateDoesNotReturn
    BY DEF Init, SleepsOnEmptyQueue, NoLostWakeup, LateDoesNotReturn
<1> QED BY <1>1, <1>2, <1>3 DEF IInv

\* The steps that are not a worker's.
LEMMA OthersKeepIInv ==
    ASSUME IInv, TypeOK',
           (\E e \in Event : SubmitPush(e)) \/ SubmitNotify \/ Shutdown \/ UNCHANGED vars
    PROVE  IInv'
<1> USE DEF IInv, TypeOK, Goto
<1>1. MutualExclusion'
    BY PoolAssumption DEF MutualExclusion, SubmitPush, SubmitNotify, Shutdown, ShutdownFlag,
        ShutdownNotifyAll, ShutdownJoinAndClear, vars
<1>2. SleepsOnEmptyQueue'
    \* A task is added only while no worker holds the mutex.
    <2>1. ASSUME NEW e \in Event, SubmitPush(e) PROVE SleepsOnEmptyQueue'
        BY <2>1, PoolAssumption DEF SleepsOnEmptyQueue, MutualExclusion, SubmitPush
    <2> QED BY <2>1 DEF SleepsOnEmptyQueue, SubmitNotify, Shutdown, ShutdownFlag,
            ShutdownNotifyAll, ShutdownJoinAndClear, vars
<1>3. NoLostWakeup'
    <2>1. CASE SubmitNotify
        \* If anyone slept, someone has been woken; else nobody sleeps.
        BY <2>1, PoolAssumption DEF NoLostWakeup, SubmitNotify
    <2>2. CASE ShutdownNotifyAll
        BY <2>2, PoolAssumption DEF NoLostWakeup, ShutdownNotifyAll
    <2> QED BY <2>1, <2>2 DEF NoLostWakeup, SubmitPush, Shutdown, ShutdownFlag,
            ShutdownJoinAndClear, vars
<1>4. LateDoesNotReturn'
    BY DEF LateDoesNotReturn, SubmitPush, SubmitNotify, Shutdown, ShutdownFlag,
        ShutdownNotifyAll, ShutdownJoinAndClear, vars
<1> QED BY <1>1, <1>2, <1>3, <1>4

\* The steps of a worker.
LEMMA WorkersKeepIInv ==
    ASSUME IInv, TypeOK', NEW w \in Worker, WorkerStep(w) \/ SpuriousWakeup(w)
    PROVE  IInv'
<1> USE DEF IInv, TypeOK, Goto
<1>1. MutualExclusion'
    BY PoolAssumption DEF MutualExclusion, WorkerStep, Check, Lock, PredFalse, Block, Take,
        Return, Finish, SpuriousWakeup
<1>2. SleepsOnEmptyQueue'
    \* The queue only shrinks, and a worker goes to sleep on an empty one.
    <2>1. CASE Take(w)
        <3>1. \A v \in Worker : wpc[v] = "block" => v = w
            BY <2>1 DEF MutualExclusion, Take
        <3> QED BY <2>1, <3>1 DEF SleepsOnEmptyQueue, Take
    <2> QED BY <2>1 DEF SleepsOnEmptyQueue, WorkerStep, Check, Lock, PredFalse, Block,
            Return, Finish, SpuriousWakeup
<1>3. NoLostWakeup'
    \* The worker is awake after its step, unless it went to sleep on an
    \* empty queue.
    <2>1. CASE Block(w)
        BY <2>1 DEF NoLostWakeup, SleepsOnEmptyQueue, Block
    <2>2. CASE ~Block(w)
        <3>1. wpc'[w] # "asleep"
            BY <2>2 DEF WorkerStep, Check, Lock, PredFalse, Take, Return, Finish, SpuriousWakeup
        <3> QED BY <3>1 DEF NoLostWakeup
    <2> QED BY <2>1, <2>2
<1>4. LateDoesNotReturn'
    \* Only a worker that is not late takes a task.
    <2>1. CASE Take(w)
        <3>1. late[w] = 0
            BY <2>1 DEF LateDoesNotReturn, Take
        <3> QED BY <2>1, <3>1 DEF LateDoesNotReturn, Take
    <2>2. CASE Check(w)
        BY <2>2 DEF LateDoesNotReturn, Check
    <2>3. CASE Lock(w) \/ PredFalse(w) \/ Block(w) \/ SpuriousWakeup(w)
        <3>1. late[w] = 0
            BY <2>3 DEF LateDoesNotReturn, Lock, PredFalse, Block, SpuriousWakeup
        <3> QED BY <2>3, <3>1 DEF LateDoesNotReturn, Lock, PredFalse, Block, SpuriousWakeup
    <2>4. CASE Return(w) \/ Finish(w)
        BY <2>4 DEF LateDoesNotReturn, Return, Finish
    <2> QED BY <2>1, <2>2, <2>3, <2>4 DEF WorkerStep
<1> QED BY <1>1, <1>2, <1>3, <1>4

LEMMA IInvStep == IInv /\ [Next]_vars => IInv'
<1> SUFFICES ASSUME IInv, [Next]_vars PROVE IInv'
    OBVIOUS
<1>1. TypeOK'
    BY TypeOKStep DEF IInv
<1> QED BY <1>1, OthersKeepIInv, WorkersKeepIInv DEF Next

LEMMA IInvHolds == Spec => []IInv
<1> QED BY IInvInit, IInvStep, PTL DEF Spec

-----------------------------------------------------------------------------
\* No wakeup of submit() is ever lost: with a task in the queue, some worker
\* is awake or about to be woken.
THEOREM WakeupsAreNotLost == Spec => []NoLostWakeup
<1>1. IInv => NoLostWakeup
    BY DEF IInv
<1> QED BY <1>1, IInvHolds, PTL

\* After shutdown() has cleared the flag no worker starts a second task.
THEOREM ShutdownBoundsWork == Spec => []AtMostOneLate
<1>1. IInv => AtMostOneLate
    BY DEF IInv, TypeOK, LateDoesNotReturn, AtMostOneLate
<1> QED BY <1>1, IInvHolds, PTL

-----------------------------------------------------------------------------
(* The detailed pool implements TaskPool. *)

\* Where TaskPool sees a worker.
Seen(pc) == IF pc \in {"lock", "pred", "block", "asleep", "relock"} THEN "idle" ELSE pc

SeenPC == [w \in Worker |-> Seen(wpc[w])]

\* A step that moves one worker moves it for TaskPool, and only it.
LEMMA SeenGoto ==
    ASSUME TypeOK, NEW w \in Worker, NEW pc \in WorkerPC, Goto(w, pc)
    PROVE  SeenPC' = [SeenPC EXCEPT ![w] = Seen(pc)]
<1> QED BY DEF SeenPC, Seen, Goto, TypeOK

\* A step of one worker is its step of TaskPool, or changes nothing there.
LEMMA WorkerImplements ==
    ASSUME TypeOK, NEW w \in Worker, WorkerStep(w) \/ SpuriousWakeup(w)
    PROVE  [Abstract!PoolNext]_(Abstract!poolVars)
<1> USE DEF Abstract!PoolNext, Abstract!poolVars
<1>0. (SeenPC = [v \in Worker |-> IF wpc[v] \in {"lock", "pred", "block", "asleep", "relock"}
                                  THEN "idle" ELSE wpc[v]])
      /\ SeenPC[w] = Seen(wpc[w])
    BY DEF SeenPC, Seen
<1>1. CASE Check(w)
    <2>1. SeenPC' = [SeenPC EXCEPT ![w] = IF running THEN "idle" ELSE "exit"]
        BY <1>1, SeenGoto DEF Check, WorkerPC, Seen
    <2>2. Abstract!WorkerCheck(w)
        BY <1>1, <1>0, <2>1 DEF Check, Abstract!WorkerCheck, SeenPC, Seen
    <2> QED BY <2>2
<1>2. CASE Take(w)
    <2>1. SeenPC' = [SeenPC EXCEPT ![w] = "run"]
        BY <1>2, SeenGoto DEF Take, WorkerPC, Seen
    <2>2. Abstract!WorkerTake(w)
        BY <1>2, <1>0, <2>1 DEF Take, Abstract!WorkerTake, SeenPC, Seen
    <2> QED BY <2>2
<1>3. CASE Return(w)
    <2>1. SeenPC' = [SeenPC EXCEPT ![w] = "exit"]
        BY <1>3, SeenGoto DEF Return, WorkerPC, Seen
    <2>2. Abstract!WorkerReturn(w)
        BY <1>3, <1>0, <2>1 DEF Return, Abstract!WorkerReturn, SeenPC, Seen
    <2> QED BY <2>2
<1>4. CASE Finish(w)
    <2>1. SeenPC' = [SeenPC EXCEPT ![w] = "loop"]
        BY <1>4, SeenGoto DEF Finish, WorkerPC, Seen
    <2>2. Abstract!WorkerFinish(w)
        BY <1>4, <1>0, <2>1 DEF Finish, Abstract!WorkerFinish, SeenPC, Seen
    <2> QED BY <2>2
<1>5. CASE Lock(w) \/ PredFalse(w) \/ Block(w) \/ SpuriousWakeup(w)
    <2>1. SeenPC' = SeenPC
        BY <1>5 DEF Lock, PredFalse, Block, SpuriousWakeup, Goto, TypeOK, SeenPC, Seen
    <2> QED BY <1>5, <2>1 DEF Lock, PredFalse, Block, SpuriousWakeup, SeenPC, Seen
<1> QED BY <1>1, <1>2, <1>3, <1>4, <1>5 DEF WorkerStep

\* A step of the submitter or of the owner, likewise.
LEMMA CallerImplements ==
    ASSUME TypeOK, (\E e \in Event : SubmitPush(e)) \/ SubmitNotify \/ Shutdown
    PROVE  [Abstract!PoolNext]_(Abstract!poolVars)
<1> USE DEF Abstract!PoolNext, Abstract!poolVars
<1>1. ASSUME NEW e \in Event, SubmitPush(e) PROVE Abstract!Submit(e)
    BY <1>1 DEF SubmitPush, Abstract!Submit
<1>2. CASE SubmitNotify
    <2>1. SeenPC' = SeenPC
        BY <1>2 DEF SubmitNotify, Goto, TypeOK, SeenPC, Seen
    <2> QED BY <1>2, <2>1 DEF SubmitNotify, SeenPC, Seen
<1>3. CASE ShutdownFlag
    BY <1>3 DEF ShutdownFlag, Abstract!ShutdownFlag
<1>4. CASE ShutdownNotifyAll
    <2>1. SeenPC' = SeenPC
        BY <1>4 DEF ShutdownNotifyAll, TypeOK, SeenPC, Seen
    <2> QED BY <1>4, <2>1 DEF ShutdownNotifyAll, SeenPC, Seen
<1>5. CASE ShutdownJoinAndClear
    BY <1>5 DEF ShutdownJoinAndClear, Abstract!ShutdownClear, Range, Abstract!Range
<1> QED BY <1>1, <1>2, <1>3, <1>4, <1>5 DEF Shutdown

\* What callers may assume of the pool, TaskPool, is what the code with its
\* mutex, its wait set and its notifications does.
THEOREM Implementation == Spec => ImplementsTaskPool
<1>1. Init => Abstract!PoolInit
    BY DEF Init, Abstract!PoolInit
<1>2. TypeOK /\ [Next]_vars => [Abstract!PoolNext]_(Abstract!poolVars)
    <2> SUFFICES ASSUME TypeOK, [Next]_vars PROVE [Abstract!PoolNext]_(Abstract!poolVars)
        OBVIOUS
    <2>1. CASE UNCHANGED vars
        BY <2>1 DEF vars, Abstract!poolVars
    <2> QED BY <2>1, WorkerImplements, CallerImplements DEF Next
<1> QED BY <1>1, <1>2, TypeCorrect, PTL DEF Spec, ImplementsTaskPool, Abstract!PoolSpec
=============================================================================
