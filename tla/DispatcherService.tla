------------------------- MODULE DispatcherService -------------------------
(***************************************************************************)
(* The dispatcher with everything that calls it: client threads that offer *)
(* events with tryPush (handleClient, tcpingest_server.cpp), an owner that *)
(* starts it, stops it and may start it again, and a consumer of the bus   *)
(* that takes events when it likes, or never.                              *)
(***************************************************************************)
EXTENDS Dispatcher

VARIABLES owner,    \* where the owner is: "stopped", "started" or "joining"
          fresh,    \* events that no client has offered yet
          consumed  \* what the consumer has taken from each lane

vars == <<bus, dispatcherVars, owner, fresh, consumed>>

TypeOK ==
    /\ BusTypeOK
    /\ DispatcherTypeOK
    /\ owner \in {"stopped", "started", "joining"}
    /\ fresh \subseteq Event
    /\ consumed \in [QueueId -> Seq(Event)]

Init ==
    /\ BusInit
    /\ DispatcherInit
    /\ owner = "stopped"
    /\ fresh = Event
    /\ consumed = [q \in QueueId |-> <<>>]

-----------------------------------------------------------------------------
Start ==
    /\ owner = "stopped"
    /\ DispatcherStart
    /\ owner' = "started"
    /\ UNCHANGED <<bus, fresh, consumed>>

\* stop() stores the flag ...
StopFlag ==
    /\ owner = "started"
    /\ DispatcherStopFlag
    /\ owner' = "joining"
    /\ UNCHANGED <<bus, fresh, consumed>>

\* ... and joins the thread.
StopJoin ==
    /\ owner = "joining"
    /\ DispatcherJoin
    /\ owner' = "stopped"
    /\ UNCHANGED <<bus, fresh, consumed>>

\* A client thread offers an event; tryPush does not look at running_.
Offer(e) ==
    /\ e \in fresh
    /\ TryPush(e) \/ TryPushFails(e)
    /\ fresh' = fresh \ {e}
    /\ UNCHANGED <<bus, owner, consumed>>

Consume(q) ==
    /\ Pop(q, Head(bus[q]))
    /\ consumed' = [consumed EXCEPT ![q] = Append(@, Head(bus[q]))]
    /\ UNCHANGED <<dispatcherVars, owner, fresh>>

Thread == DispatcherThread /\ UNCHANGED <<owner, fresh, consumed>>

Next ==
    \/ Start \/ StopFlag \/ StopJoin
    \/ \E e \in Event : Offer(e)
    \/ \E q \in QueueId : Consume(q)
    \/ Thread

Spec == Init /\ [][Next]_vars

(***************************************************************************)
(* Fairness: the dispatcher's thread keeps running (its waits all have a   *)
(* timeout) and a join returns once the thread has.  Nothing is assumed of *)
(* the clients, of the owner's other calls, or of the consumer.            *)
(***************************************************************************)
FairSpec == Spec /\ WF_vars(Thread) /\ WF_vars(StopJoin)

-----------------------------------------------------------------------------
(* Properties *)

\* Accepted events that are neither on a lane nor dropped: the inbound queue,
\* behind the event the thread has in hand.
Waiting == IF devt = NoEvent THEN inbound ELSE <<devt>> \o inbound

\* Everything that was ever put on each lane.
Delivered == [q \in QueueId |-> consumed[q] \o bus[q]]

\* The lane each event belongs on.
EarnedLane == [e \in Event |-> FrameLane(e)]

\* The abstract dispatcher.
Routing == INSTANCE EventRouting
    WITH Lane      <- QueueId,
         Backlog   <- InboundCapacity + 1,
         lane      <- EarnedLane,
         backlog   <- Waiting,
         delivered <- Delivered,
         refused   <- rejected,
         lost      <- dropped

\* Through starts, stops, retries and a Route that rewrites the header in
\* place, events leave in the order they were accepted, each on the lane of
\* its frame, and none appears twice or vanishes (DispatchLoop, tryPush).
RoutesInOrder == Routing!Spec

\* Nothing outside the table ever reaches the realtime lane, and a lane never
\* holds an event whose client asked for less (comments at Route).
RoutedWithinLimits ==
    \A q \in QueueId : \A e \in Range(bus[q]) \cup Range(consumed[q]) :
        /\ q = "REALTIME" =>
               /\ frame[e].priority >= HIGH
               /\ frame[e].topic \in DOMAIN TopicTable
        /\ q = "TRANSACTIONAL" => frame[e].priority >= MEDIUM

\* stop() returns, even with every lane full and nobody consuming.
StopReturns == owner = "joining" ~> owner = "stopped"

\* Head-of-line blocking is bounded by the retries: while the dispatcher is
\* not stopped, every accepted event is delivered or dropped.
AcceptedIsSettled ==
    \A e \in Event :
        e \in Range(inbound) \cup {devt} ~>
            \/ e \in dropped \cup (UNION {Range(bus[q]) \cup Range(consumed[q]) : q \in QueueId})
            \/ ~running
=============================================================================
