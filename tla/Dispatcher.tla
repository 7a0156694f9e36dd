---------------------------- MODULE Dispatcher ----------------------------
(***************************************************************************)
(* The dispatcher (include/event/Dispatcher.hpp, src/event/Dispatcher.cpp) *)
(* with the topic table it reads (src/event/Topic_table.cpp): a bounded    *)
(* inbound queue that client threads fill, and one thread that takes each  *)
(* event, lowers its priority to what the topic allows, and pushes it on   *)
(* the lane of that priority, trying MaxRetry times before it drops it.    *)
(*                                                                         *)
(* The topic table is loaded before the thread starts and not changed      *)
(* afterwards (main.cpp), so it is a constant; a missing table or a null   *)
(* topic_table_ is the empty function.                                     *)
(***************************************************************************)
EXTENDS EventBusMulti

CONSTANTS Topic,            \* topics that frames may carry
          TopicTable,       \* Table: the priorities of the listed topics
          Frame,            \* the frames clients send: topic and priority
          InboundCapacity,  \* inbound_capacity_
          MaxRetry          \* attempts of DispatchLoop to push one event

ASSUME DispatcherAssumption ==
    /\ DOMAIN TopicTable \subseteq Topic
    /\ \A t \in DOMAIN TopicTable : TopicTable[t] \in EventPriority
    /\ Frame \subseteq [topic : Topic, priority : EventPriority]
    /\ InboundCapacity \in Nat \ {0}
    /\ MaxRetry \in Nat \ {0}

VARIABLES
    frame,      \* what the client sent for each event; never changes
    priority,   \* header.priority of each event
    inbound,    \* inbound_queue_
    running,    \* running_
    dpc,        \* where the worker thread is; "none": not joinable
    devt,       \* the event DispatchLoop holds
    retry,      \* failed attempts to push it
    rejected,   \* events tryPush refused
    dropped     \* events DispatchLoop gave up on

dispatcherVars ==
    <<frame, priority, inbound, running, dpc, devt, retry, rejected, dropped>>

DispatcherTypeOK ==
    /\ frame \in [Event -> Frame]
    /\ priority \in [Event -> EventPriority]
    /\ inbound \in Seq(Event)
    /\ Len(inbound) <= InboundCapacity
    /\ running \in BOOLEAN
    /\ dpc \in {"none", "loop", "pop", "route", "push", "returned"}
    /\ devt \in Event \cup {NoEvent}
    /\ devt # NoEvent <=> dpc \in {"route", "push"}
    /\ retry \in 0 .. MaxRetry - 1
    /\ rejected \subseteq Event
    /\ dropped \subseteq Event

DispatcherInit ==
    /\ frame \in [Event -> Frame]
    /\ priority = [e \in Event |-> frame[e].priority]
    /\ inbound = <<>>
    /\ running = FALSE
    /\ dpc = "none"
    /\ devt = NoEvent
    /\ retry = 0
    /\ rejected = {}
    /\ dropped = {}

-----------------------------------------------------------------------------
(* Route *)

\* Variant for mutation: no cap for topics outside the table.
TopicPriorityUncapped(t) == IF t \in DOMAIN TopicTable THEN TopicTable[t] ELSE CRITICAL

\* FoundTopic, with the MEDIUM that Route starts from for an unknown topic.
TopicPriority(t) == IF t \in DOMAIN TopicTable THEN TopicTable[t] ELSE MEDIUM

\* The priority Route leaves in the header.
FinalPriority(p, t) == IF p >= TopicPriority(t) THEN TopicPriority(t) ELSE p

QueueFor(p) ==
    CASE p \in {CRITICAL, HIGH} -> "REALTIME"
      [] p = MEDIUM             -> "TRANSACTIONAL"
      [] OTHER                  -> "BATCH"

\* The lane a frame earns: what Route returns for the event it becomes.
FrameLane(e) == QueueFor(FinalPriority(frame[e].priority, frame[e].topic))

-----------------------------------------------------------------------------
(* Called by other threads. *)

\* start(): called only when no worker thread exists.
DispatcherStart ==
    /\ dpc = "none"
    /\ running' = TRUE
    /\ dpc' = "loop"
    /\ UNCHANGED <<frame, priority, inbound, devt, retry, rejected, dropped>>

\* start(): the thread cannot be created, and the exception leaves start().
DispatcherStartThrows ==
    /\ dpc = "none"
    /\ running' = TRUE
    /\ UNCHANGED <<frame, priority, inbound, dpc, devt, retry, rejected, dropped>>

\* stop(), up to the join.
DispatcherStopFlag ==
    /\ running' = FALSE
    /\ UNCHANGED <<frame, priority, inbound, dpc, devt, retry, rejected, dropped>>

\* stop(): the join returns, or there is no thread to join.
DispatcherJoin ==
    /\ dpc \in {"none", "returned"}
    /\ dpc' = "none"
    /\ UNCHANGED <<frame, priority, inbound, running, devt, retry, rejected, dropped>>

\* Variant for mutation: the comparison with the capacity off by one.
TryPushOffByOne(e) ==
    /\ Len(inbound) <= InboundCapacity
    /\ inbound' = Append(inbound, e)
    /\ UNCHANGED <<frame, priority, running, dpc, devt, retry, rejected, dropped>>

\* tryPush(e) appends e and returns true.
TryPush(e) ==
    /\ Len(inbound) < InboundCapacity
    /\ inbound' = Append(inbound, e)
    /\ UNCHANGED <<frame, priority, running, dpc, devt, retry, rejected, dropped>>

\* tryPush(e) finds the queue full and returns false.
TryPushFails(e) ==
    /\ Len(inbound) >= InboundCapacity
    /\ rejected' = rejected \cup {e}
    /\ UNCHANGED <<frame, priority, inbound, running, dpc, devt, retry, dropped>>

-----------------------------------------------------------------------------
(* The worker thread, DispatchLoop. *)

\* The test of the outer while.
DispatchLoopTest ==
    /\ dpc = "loop"
    /\ dpc' = IF running THEN "pop" ELSE "returned"
    /\ UNCHANGED <<frame, priority, inbound, running, devt, retry, rejected, dropped>>

\* tryPop returns the front event, also when running_ is already false.
TryPop ==
    /\ dpc = "pop"
    /\ inbound # <<>>
    /\ devt' = Head(inbound)
    /\ inbound' = Tail(inbound)
    /\ dpc' = "route"
    /\ UNCHANGED <<frame, priority, running, retry, rejected, dropped>>

\* tryPop returns nothing: the queue is empty, and the wait timed out or was stopped.
TryPopFails ==
    /\ dpc = "pop"
    /\ inbound = <<>>
    /\ dpc' = "loop"
    /\ UNCHANGED <<frame, priority, inbound, running, devt, retry, rejected, dropped>>

\* Variant for mutation: the lane is chosen from the priority the client sent.
RouteTrusting ==
    /\ dpc = "route"
    /\ dpc' = "push"
    /\ UNCHANGED <<frame, priority, inbound, running, devt, retry, rejected, dropped>>

Route ==
    /\ dpc = "route"
    /\ priority' = [priority EXCEPT ![devt] = FinalPriority(@, frame[devt].topic)]
    /\ dpc' = "push"
    /\ UNCHANGED <<frame, inbound, running, devt, retry, rejected, dropped>>

\* The queueId that Route returned for the event in hand.
RoutedLane == QueueFor(priority[devt])

\* Variant for mutation: the break after a successful push is missing.
DispatchPushNoBreak ==
    /\ dpc = "push"
    /\ Push(RoutedLane, devt)
    /\ IF retry + 1 < MaxRetry
       THEN retry' = retry + 1 /\ UNCHANGED <<devt, dpc>>
       ELSE retry' = 0 /\ devt' = NoEvent /\ dpc' = "loop"
    /\ UNCHANGED <<frame, priority, inbound, running, rejected, dropped>>

\* event_bus_.push succeeds.
DispatchPush ==
    /\ dpc = "push"
    /\ Push(RoutedLane, devt)
    /\ devt' = NoEvent
    /\ retry' = 0
    /\ dpc' = "loop"
    /\ UNCHANGED <<frame, priority, inbound, running, rejected, dropped>>

\* Variant for mutation: one attempt too many.
DispatchRetryOffByOne ==
    /\ dpc = "push"
    /\ PushFails(RoutedLane)
    /\ retry + 1 <= MaxRetry
    /\ retry' = retry + 1
    /\ UNCHANGED <<frame, priority, inbound, running, dpc, devt, rejected, dropped>>

\* Variant for mutation: attempts are not counted.
DispatchRetryForever ==
    /\ dpc = "push"
    /\ PushFails(RoutedLane)
    /\ retry + 1 < MaxRetry
    /\ UNCHANGED bus
    /\ UNCHANGED dispatcherVars

\* Variant for mutation: instead of blocking the queue, the event goes to its back.
DispatchRetryRequeues ==
    /\ dpc = "push"
    /\ PushFails(RoutedLane)
    /\ retry + 1 < MaxRetry
    /\ Len(inbound) < InboundCapacity
    /\ inbound' = Append(inbound, devt)
    /\ devt' = NoEvent
    /\ dpc' = "loop"
    /\ UNCHANGED <<frame, priority, running, retry, rejected, dropped>>

\* event_bus_.push fails and another attempt is left.
DispatchRetry ==
    /\ dpc = "push"
    /\ PushFails(RoutedLane)
    /\ retry + 1 < MaxRetry
    /\ retry' = retry + 1
    /\ UNCHANGED <<frame, priority, inbound, running, dpc, devt, rejected, dropped>>

\* Variant for mutation: instead of being dropped, the event goes back to the front.
DispatchDropRequeues ==
    /\ dpc = "push"
    /\ PushFails(RoutedLane)
    /\ retry + 1 = MaxRetry
    /\ Len(inbound) < InboundCapacity
    /\ inbound' = <<devt>> \o inbound
    /\ devt' = NoEvent
    /\ retry' = 0
    /\ dpc' = "loop"
    /\ UNCHANGED <<frame, priority, running, rejected, dropped>>

\* event_bus_.push fails for the last time: the event is dropped.
DispatchDrop ==
    /\ dpc = "push"
    /\ PushFails(RoutedLane)
    /\ retry + 1 = MaxRetry
    /\ dropped' = dropped \cup {devt}
    /\ devt' = NoEvent
    /\ retry' = 0
    /\ dpc' = "loop"
    /\ UNCHANGED <<frame, priority, inbound, running, rejected>>

\* Steps of the thread; those of the first line leave the bus alone.
DispatcherThread ==
    \/ (DispatchLoopTest \/ TryPop \/ TryPopFails \/ Route) /\ UNCHANGED bus
    \/ DispatchPush \/ DispatchRetry \/ DispatchDrop

-----------------------------------------------------------------------------
\* Every event on a lane has the rank its client and its topic give it, even
\* though Route rewrites the header that the rank is read from.
LanesHoldTheirRank ==
    \A q \in QueueId : \A e \in Range(bus[q]) : FrameLane(e) = q
=============================================================================
