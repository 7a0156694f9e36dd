---------------------- MODULE DispatcherServiceProofs ----------------------
(***************************************************************************)
(* Proofs about the dispatcher with its callers, for any events, topics,   *)
(* topic table, capacities and number of retries.                          *)
(***************************************************************************)
EXTENDS DispatcherService, PipelineProofs

-----------------------------------------------------------------------------
(* Sequences *)

LEMMA HeadThenTail ==
    ASSUME NEW S, NEW s \in Seq(S), s # <<>>
    PROVE  <<Head(s)>> \o Tail(s) = s
<1> DEFINE t == <<Head(s)>> \o Tail(s)
<1>1. /\ Head(s) \in S /\ Tail(s) \in Seq(S) /\ Head(s) = s[1]
      /\ Len(Tail(s)) = Len(s) - 1 /\ Len(s) \in Nat \ {0}
      /\ \A i \in 1 .. Len(Tail(s)) : Tail(s)[i] = s[i + 1]
    BY HeadTailProperties, EmptySeq
<1>2. <<Head(s)>> \in Seq(S) /\ Len(<<Head(s)>>) = 1 /\ <<Head(s)>>[1] = Head(s)
    BY <1>1
<1>3. /\ t \in Seq(S) /\ Len(t) = 1 + Len(Tail(s))
      /\ \A i \in 1 .. 1 + Len(Tail(s)) :
             t[i] = IF i <= 1 THEN <<Head(s)>>[i] ELSE Tail(s)[i - 1]
    BY <1>1, <1>2, ConcatProperties
<1> HIDE DEF t
<1>4. ASSUME NEW i \in 1 .. Len(t) PROVE t[i] = s[i]
    <2>1. CASE i = 1
        BY <1>1, <1>2, <1>3, <2>1
    <2>2. CASE i # 1
        <3>1. i - 1 \in 1 .. Len(Tail(s)) /\ ~(i <= 1) /\ i = (i - 1) + 1
            BY <1>1, <1>3, <2>2
        <3> QED BY <1>1, <1>3, <3>1
    <2> QED BY <2>1, <2>2
<1>5. Len(t) = Len(s)
    BY <1>1, <1>3
<1>6. t = s
    BY <1>3, <1>4, <1>5, SeqEqual
<1> QED BY <1>6 DEF t

LEMMA ConcatAppend ==
    ASSUME NEW S, NEW s \in Seq(S), NEW t \in Seq(S), NEW x \in S
    PROVE  s \o Append(t, x) = Append(s \o t, x)
<1>1. <<x>> \in Seq(S) /\ s \o t \in Seq(S)
    BY ConcatProperties
<1>2. Append(t, x) = t \o <<x>> /\ Append(s \o t, x) = (s \o t) \o <<x>>
    BY <1>1, AppendIsConcat
<1> QED BY <1>1, <1>2, ConcatAssociative

LEMMA MoveHead ==
    ASSUME NEW S, NEW s \in Seq(S), NEW t \in Seq(S), t # <<>>
    PROVE  Append(s, Head(t)) \o Tail(t) = s \o t
<1>1. Head(t) \in S /\ Tail(t) \in Seq(S) /\ <<Head(t)>> \in Seq(S)
    BY HeadTailProperties
<1>2. Append(s, Head(t)) = s \o <<Head(t)>>
    BY <1>1, AppendIsConcat
<1>3. (s \o <<Head(t)>>) \o Tail(t) = s \o (<<Head(t)>> \o Tail(t))
    BY <1>1, ConcatAssociative
<1> QED BY <1>2, <1>3, HeadThenTail

LEMMA RangeOfParts ==
    ASSUME NEW S, NEW s \in Seq(S), NEW x \in S
    PROVE  /\ Range(Append(s, x)) = Range(s) \cup {x}
           /\ s # <<>> => Head(s) \in Range(s) /\ Range(Tail(s)) \subseteq Range(s)
<1>1. <<x>> \in Seq(S) /\ Range(<<x>>) = {x}
    BY DEF Range
<1>2. Range(Append(s, x)) = Range(s) \cup {x}
    <2>1. Append(s, x) = s \o <<x>>
        BY AppendIsConcat
    <2>2. Range(s \o <<x>>) = Range(s) \cup Range(<<x>>)
        BY <1>1, RangeConcatenation, ZenonT(40)
    <2> QED BY <1>1, <2>1, <2>2
<1>3. ASSUME s # <<>> PROVE Head(s) \in Range(s) /\ Range(Tail(s)) \subseteq Range(s)
    <2>1. Head(s) \in S /\ Tail(s) \in Seq(S) /\ <<Head(s)>> \in Seq(S)
        BY <1>3, HeadTailProperties
    <2>2. Range(s) = Range(<<Head(s)>>) \cup Range(Tail(s))
        <3>1. <<Head(s)>> \o Tail(s) = s
            BY <1>3, HeadThenTail
        <3>2. Range(<<Head(s)>> \o Tail(s)) = Range(<<Head(s)>>) \cup Range(Tail(s))
            BY <2>1, RangeConcatenation, ZenonT(40)
        <3> QED BY <3>1, <3>2
    <2>3. Range(<<Head(s)>>) = {Head(s)}
        BY DEF Range
    <2> QED BY <2>2, <2>3
<1> QED BY <1>2, <1>3

LEMMA RangeOfFront ==
    ASSUME NEW S, NEW s \in Seq(S), NEW x \in S
    PROVE  Range(<<x>> \o s) = {x} \cup Range(s)
<1>1. <<x>> \in Seq(S)
    OBVIOUS
<1>2. Range(<<x>> \o s) = Range(<<x>>) \cup Range(s)
    BY <1>1, RangeConcatenation, ZenonT(40)
<1>3. Range(<<x>>) = {x}
    BY DEF Range
<1> QED BY <1>2, <1>3

-----------------------------------------------------------------------------
(* Types *)

LEMMA TypeOKInit == Init => TypeOK
<1> SUFFICES ASSUME Init PROVE TypeOK
    OBVIOUS
<1>1. BusTypeOK
    BY BusAssumption DEF Init, BusTypeOK, BusInit
<1> QED BY <1>1, DispatcherInitType DEF Init, TypeOK

LEMMA TypeOKStep == TypeOK /\ [Next]_vars => TypeOK'
<1> SUFFICES ASSUME TypeOK, [Next]_vars PROVE TypeOK'
    OBVIOUS
<1> USE DEF TypeOK
<1>1. CASE Start \/ StopFlag \/ StopJoin
    BY <1>1, DispatcherLifeType DEF Start, StopFlag, StopJoin, BusTypeOK
<1>2. ASSUME NEW e \in Event, Offer(e) PROVE TypeOK'
    BY <1>2, TryPushType DEF Offer, BusTypeOK
<1>3. ASSUME NEW q \in QueueId, Consume(q) PROVE TypeOK'
    <2>1. Head(bus[q]) \in Event /\ BusTypeOK'
        BY <1>3, PopType DEF Consume
    <2>2. consumed' \in [QueueId -> Seq(Event)]
        <3>1. Append(consumed[q], Head(bus[q])) \in Seq(Event)
            BY <2>1
        <3> QED BY <1>3, <3>1 DEF Consume
    <2> QED BY <1>3, <2>1, <2>2 DEF Consume, dispatcherVars, DispatcherTypeOK
<1>4. CASE Thread
    BY <1>4, DispatcherThreadType DEF Thread
<1>5. CASE UNCHANGED vars
    BY <1>5 DEF vars, dispatcherVars, BusTypeOK, DispatcherTypeOK
<1> QED BY <1>1, <1>2, <1>3, <1>4, <1>5 DEF Next

\* Every reachable state of the dispatcher and its callers is well typed.
THEOREM TypeCorrect == Spec => []TypeOK
<1> QED BY TypeOKInit, TypeOKStep, PTL DEF Spec

-----------------------------------------------------------------------------
(* The inductive invariant *)

\* What the consumer has taken was on the lane of its rank.
ConsumedHoldTheirRank ==
    \A q \in QueueId : \A e \in Range(consumed[q]) : FrameLane(e) = q

\* An event that no client has offered is nowhere in the dispatcher.
FreshIsNowhere ==
    \A e \in fresh :
        /\ e \notin Range(inbound) \cup {devt} \cup rejected \cup dropped
        /\ \A q \in QueueId : e \notin Range(bus[q]) \cup Range(consumed[q])

IInv ==
    /\ TypeOK
    /\ HeadersRanked
    /\ LanesHoldTheirRank
    /\ ConsumedHoldTheirRank
    /\ FreshIsNowhere

LEMMA IInvInit == Init => IInv
<1> SUFFICES ASSUME Init PROVE IInv
    OBVIOUS
<1>1. TypeOK
    BY TypeOKInit
<1>2. HeadersRanked
    BY DEF Init, DispatcherInit, HeadersRanked
<1>3. Range(<<>>) = {}
    BY DEF Range
<1> QED BY <1>1, <1>2, <1>3, EventAssumption DEF IInv, Init, BusInit, DispatcherInit,
        LanesHoldTheirRank, ConsumedHoldTheirRank, FreshIsNowhere

\* A step of the thread moves no fresh event.
LEMMA ThreadKeepsFresh ==
    ASSUME TypeOK, FreshIsNowhere, Thread
    PROVE  FreshIsNowhere'
<1> USE DEF TypeOK, DispatcherTypeOK, Thread
<1>1. CASE (DispatchLoopTest \/ TryPopFails \/ Route) /\ UNCHANGED bus
    BY <1>1 DEF DispatchLoopTest, TryPopFails, Route, FreshIsNowhere
<1>2. CASE TryPop /\ UNCHANGED bus
    <2>1. devt' \in Range(inbound) /\ Range(inbound') \subseteq Range(inbound)
        BY <1>2, RangeOfParts DEF TryPop
    <2> QED BY <1>2, <2>1 DEF TryPop, FreshIsNowhere
<1>3. CASE DispatchPush
    <2>1. devt \in Event /\ RoutedLane \in QueueId
        BY <1>3, QueueForType DEF DispatchPush, RoutedLane
    <2>2. ASSUME NEW q \in QueueId PROVE Range(bus'[q]) \subseteq Range(bus[q]) \cup {devt}
        BY <1>3, <2>1, RangeOfParts DEF DispatchPush, Push, BusTypeOK
    <2>3. UNCHANGED <<inbound, rejected, dropped, consumed, fresh>> /\ devt' = NoEvent
        BY <1>3 DEF DispatchPush
    <2> SUFFICES ASSUME NEW e \in fresh
                 PROVE  /\ e \notin Range(inbound) \cup {NoEvent} \cup rejected \cup dropped
                        /\ \A q \in QueueId : e \notin Range(bus'[q]) \cup Range(consumed[q])
        BY <2>3 DEF FreshIsNowhere
    <2>4. e # NoEvent /\ e # devt
        BY EventAssumption DEF FreshIsNowhere
    <2> QED BY <2>2, <2>4 DEF FreshIsNowhere
<1>4. CASE DispatchRetry
    BY <1>4 DEF DispatchRetry, PushFails, FreshIsNowhere
<1>5. CASE DispatchDrop
    BY <1>5, EventAssumption DEF DispatchDrop, PushFails, FreshIsNowhere
<1> QED BY <1>1, <1>2, <1>3, <1>4, <1>5 DEF DispatcherThread

LEMMA IInvStep == IInv /\ [Next]_vars => IInv'
<1> SUFFICES ASSUME IInv, [Next]_vars PROVE IInv'
    OBVIOUS
<1> USE DEF IInv
<1>0. TypeOK'
    BY TypeOKStep
<1>1. CASE Start \/ StopFlag \/ StopJoin
    <2>1. HeadersRanked' /\ LanesHoldTheirRank'
        BY <1>1, CallersKeepRanks DEF Start, StopFlag, StopJoin
    <2> QED BY <1>0, <1>1, <2>1 DEF Start, StopFlag, StopJoin, DispatcherStart,
            DispatcherStopFlag, DispatcherJoin, ConsumedHoldTheirRank, FrameLane, FreshIsNowhere
<1>2. ASSUME NEW e \in Event, Offer(e) PROVE IInv'
    <2>1. HeadersRanked' /\ LanesHoldTheirRank'
        BY <1>2, CallersKeepRanks DEF Offer
    <2>2. ConsumedHoldTheirRank'
        BY <1>2 DEF Offer, TryPush, TryPushFails, ConsumedHoldTheirRank, FrameLane
    <2>3. Range(inbound') \subseteq Range(inbound) \cup {e}
        <3>1. Range(Append(inbound, e)) = Range(inbound) \cup {e}
            BY RangeOfParts DEF TypeOK, DispatcherTypeOK
        <3> QED BY <1>2, <3>1 DEF Offer, TryPush, TryPushFails
    <2>4. FreshIsNowhere'
        BY <1>2, <2>3 DEF Offer, TryPush, TryPushFails, FreshIsNowhere
    <2> QED BY <1>0, <2>1, <2>2, <2>4
<1>3. ASSUME NEW q \in QueueId, Consume(q) PROVE IInv'
    <2>1. bus[q] \in Seq(Event) /\ bus[q] # <<>> /\ consumed[q] \in Seq(Event)
        BY <1>3 DEF Consume, Pop, TypeOK, BusTypeOK
    <2>2. /\ Head(bus[q]) \in Range(bus[q])
          /\ Range(Tail(bus[q])) \subseteq Range(bus[q])
          /\ Range(Append(consumed[q], Head(bus[q]))) = Range(consumed[q]) \cup {Head(bus[q])}
        BY <2>1, RangeOfParts
    <2>3. HeadersRanked' /\ LanesHoldTheirRank'
        BY <1>3, PopKeepsRanks DEF Consume, dispatcherVars, HeadersRanked, TypeOK
    <2>4. \A l \in QueueId :
              /\ Range(bus'[l]) \subseteq Range(bus[l])
              /\ Range(consumed'[l]) \subseteq
                     Range(consumed[l]) \cup (IF l = q THEN {Head(bus[q])} ELSE {})
        BY <1>3, <2>2 DEF Consume, Pop, TypeOK, BusTypeOK
    <2>5. ConsumedHoldTheirRank'
        BY <1>3, <2>2, <2>4 DEF Consume, dispatcherVars, LanesHoldTheirRank,
            ConsumedHoldTheirRank, FrameLane
    <2>6. FreshIsNowhere'
        BY <1>3, <2>2, <2>4 DEF Consume, dispatcherVars, FreshIsNowhere
    <2> QED BY <1>0, <2>3, <2>5, <2>6
<1>4. CASE Thread
    <2>1. HeadersRanked' /\ LanesHoldTheirRank'
        BY <1>4, DispatcherThreadRanks DEF Thread, TypeOK
    <2>2. UNCHANGED <<frame, consumed>>
        BY <1>4 DEF Thread, DispatcherThread, DispatchLoopTest, TryPop, TryPopFails, Route,
            DispatchPush, DispatchRetry, DispatchDrop
    <2>3. ConsumedHoldTheirRank'
        BY <2>2 DEF ConsumedHoldTheirRank, FrameLane
    <2> QED BY <1>0, <1>4, <2>1, <2>3, ThreadKeepsFresh
<1>5. CASE UNCHANGED vars
    BY <1>0, <1>5 DEF vars, dispatcherVars, HeadersRanked, LanesHoldTheirRank,
        ConsumedHoldTheirRank, FrameLane, FreshIsNowhere
<1> QED BY <1>1, <1>2, <1>3, <1>4, <1>5 DEF Next

LEMMA IInvHolds == Spec => []IInv
<1> QED BY IInvInit, IInvStep, PTL DEF Spec

-----------------------------------------------------------------------------
\* A lane that demands a rank holds no frame that asked for less, and the
\* realtime lane nothing whose topic is not in the table (Route).
THEOREM LimitsHold == Spec => []RoutedWithinLimits
<1>1. IInv => RoutedWithinLimits
    <2> SUFFICES ASSUME IInv, NEW q \in QueueId,
                        NEW e \in Range(bus[q]) \cup Range(consumed[q])
                 PROVE  /\ q = "REALTIME" => /\ frame[e].priority >= HIGH
                                             /\ frame[e].topic \in DOMAIN TopicTable
                        /\ q = "TRANSACTIONAL" => frame[e].priority >= MEDIUM
        BY DEF RoutedWithinLimits
    <2> DEFINE p == frame[e].priority
               t == frame[e].topic
    <2>1. e \in Event
        BY RangeOfSeq DEF IInv, TypeOK, BusTypeOK
    <2>2. p \in EventPriority
        BY <2>1, FrameType DEF IInv, TypeOK, DispatcherTypeOK
    <2>3. QueueFor(FinalPriority(p, t)) = q
        BY DEF IInv, LanesHoldTheirRank, ConsumedHoldTheirRank, FrameLane
    <2>4. FinalPriority(p, t) \in EventPriority /\ FinalPriority(p, t) <= p
        BY <2>2, FinalPriorityType
    <2>5. t \notin DOMAIN TopicTable => FinalPriority(p, t) <= MEDIUM
        BY <2>2 DEF FinalPriority, TopicPriority, EventPriority, LOW, MEDIUM, CRITICAL
    <2> HIDE DEF p, t
    <2>6. /\ q = "REALTIME" => FinalPriority(p, t) >= HIGH
          /\ q = "TRANSACTIONAL" => FinalPriority(p, t) = MEDIUM
        BY <2>3, <2>4 DEF QueueFor, EventPriority, LOW, MEDIUM, HIGH, CRITICAL
    <2>7. /\ q = "REALTIME" => p >= HIGH /\ t \in DOMAIN TopicTable
          /\ q = "TRANSACTIONAL" => p >= MEDIUM
        BY <2>2, <2>4, <2>5, <2>6 DEF EventPriority, LOW, MEDIUM, HIGH, CRITICAL
    <2> QED BY <2>7 DEF p, t
<1> QED BY <1>1, IInvHolds, PTL

-----------------------------------------------------------------------------
(* The dispatcher implements EventRouting. *)

\* The lane of an event depends on its frame alone.
LEMMA EarnedLaneKept == ASSUME UNCHANGED frame PROVE EarnedLane' = EarnedLane
<1> QED BY DEF EarnedLane, FrameLane

LEMMA RoutingInit == Init => Routing!Init
<1> SUFFICES ASSUME Init PROVE Routing!Init
    OBVIOUS
<1>1. EarnedLane \in [Event -> QueueId]
    BY QueueForType DEF EarnedLane, FrameLane
<1>2. Waiting = <<>>
    BY DEF Init, DispatcherInit, Waiting
<1>3. Delivered = [q \in QueueId |-> <<>>]
    BY DEF Init, BusInit, Delivered
<1> QED BY <1>1, <1>2, <1>3 DEF Init, DispatcherInit, Routing!Init

\* The two modules each have the Range of Functions.
LEMMA RoutingOffered ==
    ASSUME NEW e \in Routing!Offered
    PROVE  \/ e \in Range(Waiting) \cup rejected \cup dropped
           \/ \E l \in QueueId : e \in Range(Delivered[l])
<1>1. ASSUME NEW s PROVE Routing!Range(s) = Range(s)
    BY DEF Routing!Range, Range
<1>2. \/ e \in Routing!Range(Waiting) \cup rejected \cup dropped
      \/ \E l \in QueueId : e \in Routing!Range(Delivered[l])
    BY DEF Routing!Offered
<1> QED BY <1>1, <1>2

\* A fresh event has not been offered to the abstract dispatcher either.
LEMMA FreshNotOffered ==
    ASSUME IInv, NEW e \in fresh
    PROVE  e \notin Routing!Offered
<1> USE DEF IInv, TypeOK, DispatcherTypeOK, BusTypeOK
<1>1. e \notin Range(Waiting)
    <2>1. CASE devt = NoEvent
        BY <2>1 DEF Waiting, FreshIsNowhere
    <2>2. CASE devt # NoEvent
        <3>1. Range(<<devt>> \o inbound) = {devt} \cup Range(inbound)
            BY <2>2, RangeOfFront
        <3> QED BY <2>2, <3>1 DEF Waiting, FreshIsNowhere
    <2> QED BY <2>1, <2>2
<1>2. ASSUME NEW q \in QueueId PROVE e \notin Range(Delivered[q])
    <2>1. Range(consumed[q] \o bus[q]) = Range(consumed[q]) \cup Range(bus[q])
        BY RangeConcatenation
    <2> QED BY <2>1 DEF Delivered, FreshIsNowhere
<1>3. e \notin rejected \cup dropped
    BY DEF FreshIsNowhere
<1> QED BY <1>1, <1>2, <1>3, RoutingOffered

\* tryPush accepts, or refuses.
LEMMA OfferImplements ==
    ASSUME IInv, NEW e \in Event, Offer(e)
    PROVE  Routing!Accept(e) \/ Routing!Refuse(e)
<1> USE DEF IInv, TypeOK, DispatcherTypeOK
<1>1. e \notin Routing!Offered
    BY FreshNotOffered DEF Offer
<1>2. UNCHANGED <<EarnedLane, Delivered>>
    BY EarnedLaneKept DEF Offer, TryPush, TryPushFails, Delivered
<1>3. CASE TryPush(e)
    <2>1. Waiting' = Append(Waiting, e) /\ Len(Waiting) < InboundCapacity + 1
        <3>1. CASE devt = NoEvent
            BY <1>3, <3>1, DispatcherAssumption DEF TryPush, Waiting
        <3>2. CASE devt # NoEvent
            <4>1. <<devt>> \in Seq(Event) /\ Len(<<devt>>) = 1
                BY <3>2
            <4>2. Len(<<devt>> \o inbound) = 1 + Len(inbound)
                BY <4>1, ConcatProperties
            <4>3. <<devt>> \o Append(inbound, e) = Append(<<devt>> \o inbound, e)
                BY <4>1, ConcatAppend
            <4>4. Len(inbound) < InboundCapacity /\ InboundCapacity \in Nat /\ Len(inbound) \in Nat
                BY <1>3, DispatcherAssumption DEF TryPush
            <4> QED BY <1>3, <3>2, <4>2, <4>3, <4>4 DEF TryPush, Waiting
        <3> QED BY <3>1, <3>2
    <2> QED BY <1>1, <1>2, <1>3, <2>1 DEF TryPush, Routing!Accept
<1>4. CASE TryPushFails(e)
    BY <1>1, <1>2, <1>4 DEF TryPushFails, Waiting, Routing!Refuse
<1> QED BY <1>3, <1>4 DEF Offer

\* Taking from a lane is not visible: it stays delivered.
LEMMA ConsumeImplements ==
    ASSUME TypeOK, NEW q \in QueueId, Consume(q)
    PROVE  UNCHANGED Routing!vars
<1>1. Delivered' = Delivered
    <2>1. bus[q] \in Seq(Event) /\ bus[q] # <<>> /\ consumed[q] \in Seq(Event)
        BY DEF Consume, Pop, TypeOK, BusTypeOK
    <2>2. Append(consumed[q], Head(bus[q])) \o Tail(bus[q]) = consumed[q] \o bus[q]
        BY <2>1, MoveHead
    <2>3. ASSUME NEW l \in QueueId PROVE consumed'[l] \o bus'[l] = consumed[l] \o bus[l]
        BY <2>2 DEF Consume, Pop, TypeOK, BusTypeOK
    <2> QED BY <2>3 DEF Delivered
<1> QED BY <1>1, EarnedLaneKept DEF Consume, dispatcherVars, Waiting, Routing!vars

\* The thread delivers or loses the head of what waits, or changes nothing.
LEMMA ThreadImplements ==
    ASSUME IInv, Thread
    PROVE  Routing!Deliver \/ Routing!Lose \/ UNCHANGED Routing!vars
<1> USE DEF IInv, TypeOK, DispatcherTypeOK, Thread
<1>1. CASE (DispatchLoopTest \/ TryPopFails \/ Route \/ DispatchRetry) /\ UNCHANGED bus
    <2>1. UNCHANGED <<frame, inbound, devt, rejected, dropped, bus, consumed>>
        BY <1>1 DEF DispatchLoopTest, TryPopFails, Route, DispatchRetry
    <2> QED BY <2>1, EarnedLaneKept DEF Waiting, Delivered, Routing!vars
<1>2. CASE TryPop /\ UNCHANGED bus
    \* The event goes from the front of the queue to the thread's hand.
    <2>1. devt = NoEvent /\ inbound # <<>> /\ Head(inbound) # NoEvent
        BY <1>2, HeadTailProperties, EventAssumption DEF TryPop
    <2>2. <<Head(inbound)>> \o Tail(inbound) = inbound
        BY <2>1, HeadThenTail
    <2>3. Waiting' = Waiting
        BY <1>2, <2>1, <2>2 DEF TryPop, Waiting
    <2> QED BY <1>2, <2>3, EarnedLaneKept DEF TryPop, Delivered, Routing!vars
<1>3. ASSUME dpc = "push", devt' = NoEvent, inbound' = inbound
      PROVE  Waiting # <<>> /\ Head(Waiting) = devt /\ Waiting' = Tail(Waiting)
    <2>1. devt \in Event /\ devt # NoEvent /\ <<devt>> \in Seq(Event)
        BY <1>3
    <2>2. Waiting = <<devt>> \o inbound /\ Waiting' = inbound
        BY <1>3, <2>1 DEF Waiting
    <2>3. /\ <<devt>> \o inbound # <<>>
          /\ Head(<<devt>> \o inbound) = devt
          /\ Tail(<<devt>> \o inbound) = inbound
        BY <2>1
    <2> QED BY <2>2, <2>3
<1>4. CASE DispatchPush
    \* The lane that the header names is the one the event has earned.
    <2>1. devt \in Event /\ RoutedLane \in QueueId /\ EarnedLane[devt] = RoutedLane
        BY <1>4, QueueForType DEF DispatchPush, HeadersRanked, RoutedLane, EarnedLane, FrameLane
    <2>2. Delivered' = [Delivered EXCEPT ![EarnedLane[devt]] = Append(@, devt)]
        <3>1. ASSUME NEW l \in QueueId
              PROVE  Delivered'[l] = IF l = RoutedLane THEN Append(Delivered[l], devt)
                                                       ELSE Delivered[l]
            <4>1. consumed[l] \o Append(bus[l], devt) = Append(consumed[l] \o bus[l], devt)
                BY <2>1, ConcatAppend DEF BusTypeOK
            <4> QED BY <1>4, <2>1, <4>1 DEF DispatchPush, Push, Delivered, BusTypeOK
        <3>2. Delivered = [l \in QueueId |-> Delivered[l]]
              /\ Delivered' = [l \in QueueId |-> Delivered'[l]]
            BY DEF Delivered
        <3> QED BY <2>1, <3>1, <3>2
    <2>3. Waiting # <<>> /\ Head(Waiting) = devt /\ Waiting' = Tail(Waiting)
        BY <1>3, <1>4 DEF DispatchPush
    <2>4. UNCHANGED <<EarnedLane, rejected, dropped>>
        BY <1>4, EarnedLaneKept DEF DispatchPush
    <2> QED BY <2>2, <2>3, <2>4 DEF Routing!Deliver
<1>5. CASE DispatchDrop
    <2>1. Waiting # <<>> /\ Head(Waiting) = devt /\ Waiting' = Tail(Waiting)
        BY <1>3, <1>5 DEF DispatchDrop
    <2>2. UNCHANGED <<EarnedLane, Delivered, rejected>> /\ dropped' = dropped \cup {devt}
        BY <1>5, EarnedLaneKept DEF DispatchDrop, PushFails, Delivered
    <2> QED BY <2>1, <2>2 DEF Routing!Lose
<1>6. DispatchRetry => UNCHANGED bus
    BY DEF DispatchRetry, PushFails
<1> QED BY <1>1, <1>2, <1>4, <1>5, <1>6 DEF DispatcherThread

LEMMA RoutingStep == IInv /\ [Next]_vars => [Routing!Next]_(Routing!vars)
<1> SUFFICES ASSUME IInv, [Next]_vars PROVE [Routing!Next]_(Routing!vars)
    OBVIOUS
<1>1. CASE Start \/ StopFlag \/ StopJoin \/ UNCHANGED vars
    <2>1. UNCHANGED <<frame, inbound, devt, rejected, dropped, bus, consumed>>
        BY <1>1 DEF Start, StopFlag, StopJoin, DispatcherStart, DispatcherStopFlag,
            DispatcherJoin, vars, dispatcherVars
    <2> QED BY <2>1, EarnedLaneKept DEF Waiting, Delivered, Routing!vars
<1>2. ASSUME NEW e \in Event, Offer(e) PROVE Routing!Next
    BY <1>2, OfferImplements DEF Routing!Next
<1>3. ASSUME NEW q \in QueueId, Consume(q) PROVE UNCHANGED Routing!vars
    BY <1>3, ConsumeImplements DEF IInv
<1>4. CASE Thread
    BY <1>4, ThreadImplements DEF Routing!Next
<1> QED BY <1>1, <1>2, <1>3, <1>4 DEF Next

\* Whatever is refused, retried, dropped, stopped or restarted, the dispatcher
\* is a first-in first-out router with a fixed lane for each event.
THEOREM Implementation == Spec => RoutesInOrder
<1> QED BY RoutingInit, RoutingStep, IInvHolds, PTL DEF Spec, RoutesInOrder, Routing!Spec
=============================================================================
