-------------------------- MODULE ProcessorService --------------------------
(***************************************************************************)
(* The processor with its surroundings: a producer that pushes each event  *)
(* on the lane of its rank when it likes (the dispatcher), the workers of  *)
(* the pool, the store, and an owner that starts the processor, stops it   *)
(* and may start it again.  The pool is not shut down: in main that comes  *)
(* after the processor is gone.                                            *)
(***************************************************************************)
EXTENDS RealtimeProcessor

CONSTANT Rank        \* the lane of each event

ASSUME RankAssumption == Rank \in [Event -> QueueId]

VARIABLES owner,     \* where the owner is: "stopped", "started" or "joining"
          fresh,     \* events not produced yet
          history    \* the events produced, in the order they were

vars == <<bus, procVars, poolVars, storageVars, owner, fresh, history>>

TypeOK ==
    /\ BusTypeOK
    /\ ProcTypeOK
    /\ PoolTypeOK
    /\ StorageTypeOK
    /\ owner \in {"stopped", "started", "joining"}
    /\ fresh \subseteq Event
    /\ history \in Seq(Event)

Init ==
    /\ BusInit
    /\ ProcInit
    /\ PoolInit
    /\ StorageInit
    /\ owner = "stopped"
    /\ fresh = Event
    /\ history = <<>>

-----------------------------------------------------------------------------
Owner ==
    /\ \/ owner = "stopped" /\ ProcStart /\ owner' = "started"
       \/ owner = "started" /\ ProcStopFlag /\ owner' = "joining"
       \/ owner = "joining" /\ ProcJoin /\ owner' = "stopped"
    /\ UNCHANGED <<bus, poolVars, storageVars, fresh, history>>

Produce(e) ==
    /\ e \in fresh
    /\ Push(Rank[e], e)
    /\ fresh' = fresh \ {e}
    /\ history' = Append(history, e)
    /\ UNCHANGED <<procVars, poolVars, storageVars, owner>>

Thread == ProcThread /\ UNCHANGED <<owner, fresh, history>>

\* A task is storeEvent of its event; an exception is caught and logged.
WorkerThread(w) ==
    /\ \/ (WorkerCheck(w) \/ WorkerTake(w)) /\ UNCHANGED storageVars
       \/ WorkerFinish(w) /\ StoreEvent(wtask[w])
    /\ UNCHANGED <<bus, procVars, owner, fresh, history>>

Next ==
    \/ Owner
    \/ \E e \in Event : Produce(e)
    \/ Thread
    \/ \E w \in Worker : WorkerThread(w)

Spec == Init /\ [][Next]_vars

\* The processor's thread and the workers run.  The producer owes nothing.
FairSpec == Spec /\ WF_vars(Thread) /\ \A w \in Worker : WF_vars(WorkerThread(w))

-----------------------------------------------------------------------------
(* Properties *)

\* While a lane is occupied at most one event of the lower lanes is taken
\* before it is served: the timed waits of processLoop can let the urgent
\* event wait behind one that is not, never behind two.  ("Priority-based
\* consumption: REALTIME > TRANSACTIONAL > BATCH", the comment in processLoop,
\* holds up to that one.)
BoundedOvertaking == \A q \in QueueId : overtaken[q] <= 1

\* The event that a worker is storing; StoredInOrder is about at most one worker.
Storing ==
    LET busy == {w \in Worker : wtask[w] # NoEvent}
    IN  IF busy = {} THEN <<>> ELSE <<wtask[CHOOSE w \in busy : TRUE]>>

\* The events stored, in hand and waiting for lane q, front first.
Pipeline(q) == stored \o Storing \o tasks \o InHand(pevt) \o bus[q]

\* With one worker, or none, the file holds the events of each lane in the
\* order in which they were produced: the events stored, in hand and waiting
\* are those produced, each once, less those whose write failed, and they are in
\* the same order.
StoredInOrder ==
    \A q \in QueueId : \A x, y \in {e \in Event : Rank[e] = q} :
        /\ x \in Range(Pipeline(q)) <=> x \in Range(history) \ failed
        /\ Ahead(Pipeline(q), x, y) => Ahead(history, x, y)

\* Urgent events do not starve: unless the processor is stopped, an event in
\* the realtime lane is stored, or its store fails.
RealtimeIsServed ==
    \A e \in Event :
        e \in Range(bus["REALTIME"]) ~> e \in Range(stored) \cup failed \/ ~procRunning
=============================================================================
