-------------------------- MODULE EventStreamCore --------------------------
(***************************************************************************)
(* The whole program: the components wired and run as src/app/main.cpp     *)
(* does.  main starts the dispatcher, the processor and the server, waits  *)
(* for a signal, and leaves the block that owns the components, whose      *)
(* destructors stop them in the reverse order of their construction:       *)
(* server, processor, pool, storage, dispatcher, bus.  It also leaves the  *)
(* block when a start throws; the destructors then meet components that    *)
(* never ran.  What main does before is in module Startup.                 *)
(***************************************************************************)
EXTENDS TcpIngestServer, RealtimeProcessor

VARIABLES mpc,        \* where main is
          g_running,  \* the flag the signal handler clears
          alive       \* the components whose destructor has not returned

mainVars == <<mpc, g_running, alive>>

vars == <<bus, dispatcherVars, tcpVars, procVars, poolVars, storageVars, mainVars>>

Component == {"bus", "dispatcher", "storage", "pool", "processor", "server"}

\* The steps of main, in their order.
MainPC == {"startDispatcher", "startProcessor", "startServer", "run",
           "serverFlag", "serverClose", "serverJoinAccept", "serverJoinClients",
           "processorFlag", "processorJoin", "poolFlag", "poolJoin", "storage",
           "dispatcherFlag", "dispatcherJoin", "bus", "exit"}

TypeOK ==
    /\ BusTypeOK
    /\ DispatcherTypeOK
    /\ TcpTypeOK
    /\ ProcTypeOK
    /\ PoolTypeOK
    /\ StorageTypeOK
    /\ mpc \in MainPC
    /\ g_running \in BOOLEAN
    /\ alive \subseteq Component

Init ==
    /\ BusInit
    /\ DispatcherInit
    /\ TcpInit
    /\ ProcInit /\ workerPool
    /\ PoolInit
    /\ StorageInit
    /\ mpc = "startDispatcher"
    /\ g_running = TRUE
    /\ alive = Component

-----------------------------------------------------------------------------
(* main *)

\* One step of main, from one place to the next.
Step(from, to) == mpc = from /\ mpc' = to /\ UNCHANGED g_running

\* The last step of the destructor of component d.
Destroy(d) == alive' = alive \ {d}

\* SIGINT or SIGTERM.
Signal ==
    /\ g_running
    /\ g_running' = FALSE
    /\ UNCHANGED <<mpc, alive>>
    /\ UNCHANGED <<bus, dispatcherVars, tcpVars, procVars, poolVars, storageVars>>

MainDispatcher ==
    /\ \/ Step("startDispatcher", "startProcessor") /\ DispatcherStart /\ UNCHANGED alive
       \/ Step("startDispatcher", "serverFlag") /\ DispatcherStartThrows /\ UNCHANGED alive
       \/ Step("dispatcherFlag", "dispatcherJoin") /\ DispatcherStopFlag /\ UNCHANGED alive
       \/ Step("dispatcherJoin", "bus") /\ DispatcherJoin /\ Destroy("dispatcher")
    /\ UNCHANGED <<bus, tcpVars, procVars, poolVars, storageVars>>

MainProcessor ==
    /\ \/ Step("startProcessor", "startServer") /\ ProcStart /\ UNCHANGED alive
       \/ Step("startProcessor", "serverFlag") /\ ProcStartThrows /\ UNCHANGED alive
       \/ Step("processorFlag", "processorJoin") /\ ProcStopFlag /\ UNCHANGED alive
       \/ Step("processorJoin", "poolFlag") /\ ProcJoin /\ Destroy("processor")
    /\ UNCHANGED <<bus, dispatcherVars, tcpVars, poolVars, storageVars>>

MainServer ==
    /\ \/ Step("startServer", "run") /\ TcpStart /\ UNCHANGED alive
       \/ Step("startServer", "serverFlag") /\ TcpStartThrows /\ UNCHANGED alive
       \/ Step("serverFlag", "serverClose") /\ TcpStopFlag /\ UNCHANGED alive
       \/ Step("serverClose", "serverJoinAccept") /\ TcpStopClose /\ UNCHANGED alive
       \/ Step("serverJoinAccept", "serverJoinClients") /\ TcpJoinAccept /\ UNCHANGED alive
       \/ Step("serverJoinClients", "processorFlag") /\ TcpJoinClients /\ Destroy("server")
    /\ UNCHANGED <<bus, dispatcherVars, procVars, poolVars, storageVars>>

\* The notification between the flag and the joins is in module ThreadPool.
MainPool ==
    /\ \/ Step("poolFlag", "poolJoin") /\ ShutdownFlag /\ UNCHANGED alive
       \/ Step("poolJoin", "storage") /\ ShutdownClear /\ Destroy("pool")
    /\ UNCHANGED <<bus, dispatcherVars, tcpVars, procVars, storageVars>>

\* The polling loop sees the flag, and the steps that change no component.  Behind
\* the block, if a start threw, the flag is cleared; else it was clear.
MainOther ==
    /\ \/ Step("run", "serverFlag") /\ ~g_running /\ UNCHANGED alive
       \/ Step("storage", "dispatcherFlag") /\ Destroy("storage")
       \/ mpc = "bus" /\ mpc' = "exit" /\ g_running' = FALSE /\ Destroy("bus")
    /\ UNCHANGED <<bus, dispatcherVars, tcpVars, procVars, poolVars, storageVars>>

Main == MainDispatcher \/ MainProcessor \/ MainServer \/ MainPool \/ MainOther

-----------------------------------------------------------------------------
(* The threads of the components. *)

Accepting ==
    /\ AcceptThread
    /\ UNCHANGED <<bus, dispatcherVars, procVars, poolVars, storageVars, mainVars>>

Handling(c) ==
    /\ ClientThread(c)
    /\ UNCHANGED <<bus, procVars, poolVars, storageVars, mainVars>>

Dispatching ==
    /\ DispatcherThread
    /\ UNCHANGED <<tcpVars, procVars, poolVars, storageVars, mainVars>>

Processing ==
    /\ ProcThread
    /\ UNCHANGED <<dispatcherVars, tcpVars, mainVars>>

\* A task is storeEvent of its event; an exception is caught and logged.
RunTask(w) ==
    /\ WorkerFinish(w)
    /\ StoreEvent(wtask[w])

Working(w) ==
    /\ \/ (WorkerCheck(w) \/ WorkerTake(w)) /\ UNCHANGED storageVars
       \/ RunTask(w)
    /\ UNCHANGED <<bus, dispatcherVars, tcpVars, procVars, mainVars>>

Returning(w) ==
    /\ WorkerReturn(w)
    /\ UNCHANGED <<bus, dispatcherVars, tcpVars, procVars, storageVars, mainVars>>

Outside(c) ==
    /\ ClientOutside(c)
    /\ UNCHANGED <<bus, dispatcherVars, procVars, poolVars, storageVars, mainVars>>

Next ==
    \/ Signal
    \/ Main
    \/ Accepting
    \/ Dispatching
    \/ Processing
    \/ \E c \in Client : Handling(c) \/ Outside(c)
    \/ \E w \in Worker : Working(w) \/ Returning(w)

Spec == Init /\ [][Next]_vars

(***************************************************************************)
(* Fairness: every thread that is not blocked runs.  Nothing is owed by    *)
(* the clients, by whoever sends the signal, or by an accept() that has no *)
(* connection to return.  A worker that waits when the pool stops is not   *)
(* owed its return either: its wakeup can be lost                          *)
(* (ThreadPool!ShutdownReturns).                                           *)
(***************************************************************************)
FairSpec ==
    /\ Spec
    /\ WF_vars(Main)
    /\ WF_vars(AcceptOwed
               /\ UNCHANGED <<bus, dispatcherVars, procVars, poolVars, storageVars, mainVars>>)
    /\ WF_vars(Dispatching)
    /\ WF_vars(Processing)
    /\ \A c \in Client : WF_vars(Handling(c))
    /\ \A w \in Worker : WF_vars(Working(w))

\* Clients also close their connections, sooner or later.
ClientsLeave ==
    \A c \in Client :
        WF_vars(Disconnect(c)
                /\ UNCHANGED <<bus, dispatcherVars, procVars, poolVars, storageVars, mainVars>>)

FairSpecClientsLeave == FairSpec /\ ClientsLeave

-----------------------------------------------------------------------------
(* Safety *)

\* The places where an event can be: queues, threads' hands, and outcomes.
Place ==
    ({"unsent", "client_buf"} \X Client) \cup ({"bus"} \X QueueId) \cup ({"wtask"} \X Worker)
    \cup {<<p>> : p \in {"inbound", "devt", "pevt", "tasks", "unparsed", "rejected",
                         "dropped", "stored", "failed", "discarded"}}

\* The events at place p.
At(p) ==
    CASE p[1] = "unsent"     -> Range(unsent[p[2]])
      [] p[1] = "client_buf" -> Range(client_buf[p[2]])
      [] p[1] = "bus"        -> Range(bus[p[2]])
      [] p[1] = "wtask"      -> {wtask[p[2]]}
      [] p[1] = "inbound"    -> Range(inbound)
      [] p[1] = "devt"       -> {devt}
      [] p[1] = "pevt"       -> {pevt}
      [] p[1] = "tasks"      -> Range(tasks)
      [] p[1] = "unparsed"   -> unparsed
      [] p[1] = "rejected"   -> rejected
      [] p[1] = "dropped"    -> dropped
      [] p[1] = "stored"     -> Range(stored)
      [] p[1] = "failed"     -> failed
      [] p[1] = "discarded"  -> discarded

InOnePlace ==
    \A e \in Event : \E p \in Place :
        e \in At(p) /\ \A r \in Place \ {p} : e \notin At(r)

NoRepetition ==
    /\ \A c \in Client : IsInjective(unsent[c]) /\ IsInjective(client_buf[c])
    /\ \A q \in QueueId : IsInjective(bus[q])
    /\ IsInjective(inbound) /\ IsInjective(tasks) /\ IsInjective(stored)

\* No event is lost without a trace and none is duplicated: through six
\* threads, four kinds of queue, retries and the shutdown, each is in exactly
\* one place, and in a queue or in the store only once.
OnePlace == InOnePlace /\ NoRepetition

\* Frame n of client c, or one before it, is too long.
CutOff(c, n) == \E m \in 1 .. n : Script[c][m] \in Oversized

\* A frame that does not parse takes no neighbour with it, whatever recv() has put
\* into the same buffer, and one that is too long takes all behind it and none
\* before it: what has left the connection became an event exactly if it parses
\* and stands before the first frame that is too long.
NeighboursAreKept ==
    \A c \in Client : \A n \in DOMAIN Script[c] :
        LET e == Script[c][n]
        IN  e \notin Range(client_buf[c]) \cup Range(unsent[c]) =>
                (e \in unparsed <=> e \in Malformed \/ CutOff(c, n))

\* What is on the way by lane q to the workers, that client c may have sent,
\* front first.
OnTheWay(c, q) ==
    tasks \o InHand(pevt) \o bus[q] \o InHand(devt) \o inbound \o client_buf[c] \o unsent[c]

\* Events that a client sends for one lane stay in order up to the workers,
\* whatever is refused, retried or dropped between them.
LaneOrder ==
    \A c \in Client, q \in QueueId : \A m, n \in DOMAIN Script[c] :
        LET x == Script[c][m]
            y == Script[c][n]
        IN  FrameLane(x) = q /\ FrameLane(y) = q /\ Ahead(OnTheWay(c, q), x, y) => m < n

\* The threads that may still use each component.
UserActive(d) ==
    CASE d = "server"     -> apc \in {"test", "accept"}
                             \/ \E c \in Client : cpc[c] \in {"test", "recv", "frames"}
      [] d = "processor"  -> ppc \notin {"none", "returned"}
      [] d = "pool"       -> ppc \notin {"none", "returned"}
                             \/ \E w \in Worker : wpc[w] # "exit"
      [] d = "storage"    -> ppc \notin {"none", "returned"}
                             \/ \E w \in Worker : wpc[w] = "run"
      [] d = "dispatcher" -> dpc \notin {"none", "returned"}
                             \/ \E c \in Client : cpc[c] \in {"test", "recv", "frames"}
      [] d = "bus"        -> dpc \notin {"none", "returned"}
                             \/ ppc \notin {"none", "returned"}

\* No thread is left that uses a component whose destructor has returned: the
\* order of the declarations in main is one in which they can be destroyed.
\* (The one exception is TaskRunsWithProcessor, below.)
NoUseAfterDestroy == \A d \in Component : UserActive(d) => d \in alive

\* A task dereferences the processor that submitted it ([evtPtr, this] in
\* processLoop), so the processor must not be destroyed before it has run.
\* It does not hold: see the README.
TaskRunsWithProcessor ==
    \A w \in Worker : wpc[w] = "run" => "processor" \in alive

-----------------------------------------------------------------------------
(* Liveness *)

\* An accepted event does not stay in the pipeline: unless a signal has been
\* sent it is stored, or fails to be, or is dropped.
AcceptedIsSettled ==
    \A e \in Event :
        e \in Range(inbound) ~>
            e \in Range(stored) \cup failed \cup dropped \/ ~g_running

\* After a signal, main gets as far as waiting for the workers.
SignalReachesPool == ~g_running ~> mpc \in {"poolJoin", "exit"}

\* After a signal, a server that has been started is stopped ("Press Ctrl+C to
\* shutdown", main).  It does not hold: see the README.
SignalStopsServer == mpc = "run" /\ ~g_running ~> mpc = "processorFlag"
=============================================================================
