------------------------- MODULE RealtimeProcessor -------------------------
(***************************************************************************)
(* The consumer of the lanes (include/eventprocessor/*.hpp, src/           *)
(* event_processor/realtime_processor.cpp): one thread that takes an event *)
(* from the highest lane it finds occupied and hands it to the worker      *)
(* pool, or stores it itself when it was built without one.                *)
(*                                                                         *)
(* The three pops of one round are separate steps: the last two wait up to *)
(* 50 ms each, and the other lanes change meanwhile.                       *)
(***************************************************************************)
EXTENDS EventBusMulti, TaskPool, StorageEngine

VARIABLES workerPool, \* workerPool is not null
          procRunning,\* isRunning
          ppc,        \* where the thread is; "none": not joinable
          pevt,       \* evtPtr
          overtaken   \* history: for each lane, how many events of lower lanes
                      \* were taken while it was occupied, since it was last served

procVars == <<workerPool, procRunning, ppc, pevt, overtaken>>

\* The lanes that come after q in the order of consumption.
Below(q) ==
    CASE q = "REALTIME"      -> {"TRANSACTIONAL", "BATCH"}
      [] q = "TRANSACTIONAL" -> {"BATCH"}
      [] q = "BATCH"         -> {}

ProcTypeOK ==
    /\ workerPool \in BOOLEAN
    /\ procRunning \in BOOLEAN
    /\ ppc \in {"none", "loop", "realtime", "transactional", "batch", "submit", "returned"}
    /\ pevt \in Event \cup {NoEvent}
    /\ pevt # NoEvent <=> ppc = "submit"
    /\ overtaken \in [QueueId -> Nat]

\* The constructor takes a pool, or none.
ProcInit ==
    /\ workerPool \in BOOLEAN
    /\ procRunning = FALSE
    /\ ppc = "none"
    /\ pevt = NoEvent
    /\ overtaken = [q \in QueueId |-> 0]

-----------------------------------------------------------------------------
ProcStart ==
    /\ ppc = "none"
    /\ procRunning' = TRUE
    /\ ppc' = "loop"
    /\ UNCHANGED <<workerPool, pevt, overtaken>>

\* start(): the thread cannot be created, and the exception leaves start().
ProcStartThrows ==
    /\ ppc = "none"
    /\ procRunning' = TRUE
    /\ UNCHANGED <<workerPool, ppc, pevt, overtaken>>

\* stop() stores the flag ...
ProcStopFlag ==
    /\ procRunning' = FALSE
    /\ UNCHANGED <<workerPool, ppc, pevt, overtaken>>

\* ... and joins the thread, if there is one.
ProcJoin ==
    /\ ppc \in {"none", "returned"}
    /\ ppc' = "none"
    /\ UNCHANGED <<workerPool, procRunning, pevt, overtaken>>

-----------------------------------------------------------------------------
(* processLoop *)

ProcLoopTest ==
    /\ ppc = "loop"
    /\ ppc' = IF procRunning THEN "realtime" ELSE "returned"
    /\ UNCHANGED <<bus, workerPool, procRunning, pevt, overtaken>>

\* The pop from lane q returns its front event.
ProcTake(q) ==
    /\ Pop(q, Head(bus[q]))
    /\ pevt' = Head(bus[q])
    /\ ppc' = "submit"
    /\ overtaken' = [l \in QueueId |->
           IF l = q THEN 0
           ELSE IF q \in Below(l) /\ bus[l] # <<>> THEN overtaken[l] + 1
           ELSE overtaken[l]]
    /\ UNCHANGED <<workerPool, procRunning>>

\* The pop from lane q returns nothing.
ProcMiss(q, next) ==
    /\ PopTimesOut(q)
    /\ ppc' = next
    /\ UNCHANGED <<workerPool, procRunning, pevt, overtaken>>

ProcPopRealtime ==
    ppc = "realtime" /\ (ProcTake("REALTIME") \/ ProcMiss("REALTIME", "transactional"))

ProcPopTransactional ==
    ppc = "transactional" /\ (ProcTake("TRANSACTIONAL") \/ ProcMiss("TRANSACTIONAL", "batch"))

ProcPopBatch ==
    ppc = "batch" /\ (ProcTake("BATCH") \/ ProcMiss("BATCH", "loop"))

\* Variant for mutation: the lower lanes are drained before the first is looked at again.
ProcHandOffDrains ==
    /\ ppc = "submit"
    /\ pevt' = NoEvent
    /\ ppc' = "transactional"
    /\ UNCHANGED <<workerPool, procRunning, overtaken>>

\* Variant for mutation: evtPtr is not reset.
ProcHandOffKeepsEvent ==
    /\ ppc = "submit"
    /\ ppc' = "loop"
    /\ UNCHANGED <<workerPool, procRunning, pevt, overtaken>>

\* evtPtr goes out of scope.
ProcHandOff ==
    /\ ppc = "submit"
    /\ pevt' = NoEvent
    /\ ppc' = "loop"
    /\ UNCHANGED <<workerPool, procRunning, overtaken>>

\* workerPool->submit.
ProcSubmit ==
    /\ workerPool
    /\ ProcHandOff
    /\ Submit(pevt)

\* Variant for mutation: an event taken while the processor stops is not stored.
ProcStoreIfRunning ==
    /\ ~workerPool
    /\ ProcHandOff
    /\ IF procRunning THEN StoreEvent(pevt) ELSE UNCHANGED storageVars

\* No pool: storeEvent, whose exception is caught and logged.
ProcStore ==
    /\ ~workerPool
    /\ ProcHandOff
    /\ StoreEvent(pevt)

ProcThread ==
    \/ /\ ProcLoopTest \/ ProcPopRealtime \/ ProcPopTransactional \/ ProcPopBatch
       /\ UNCHANGED <<poolVars, storageVars>>
    \/ ProcSubmit /\ UNCHANGED <<bus, storageVars>>
    \/ ProcStore /\ UNCHANGED <<bus, poolVars>>
=============================================================================
