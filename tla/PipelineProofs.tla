--------------------------- MODULE PipelineProofs ---------------------------
(***************************************************************************)
(* What the steps of the dispatcher keep, and those of the processor's     *)
(* thread and of the workers, in whatever program they are part of, for    *)
(* any topics, topic table, capacities and number of retries; and what     *)
(* putting queues behind each other does to the order of their events.     *)
(***************************************************************************)
EXTENDS Dispatcher, RealtimeProcessor, SequenceTheorems, TLAPS

-----------------------------------------------------------------------------
(* The dispatcher *)

\* Adding an event to a lane with room keeps it within its capacity.
LEMMA PushType ==
    ASSUME BusTypeOK, NEW q \in QueueId, NEW e \in Event, Push(q, e)
    PROVE  BusTypeOK'
<1>1. bus[q] \in Seq(Event) /\ Len(bus[q]) < Capacity[q] /\ Capacity[q] \in Nat
    BY BusAssumption DEF BusTypeOK, Push
<1>2. Append(bus[q], e) \in Seq(Event) /\ Len(Append(bus[q], e)) = Len(bus[q]) + 1
    BY <1>1
<1>3. Len(Append(bus[q], e)) <= Capacity[q]
    BY <1>1, <1>2
<1> QED BY <1>2, <1>3 DEF BusTypeOK, Push

\* A priority never rises, and lowering it again changes nothing.
LEMMA FinalPriorityType ==
    ASSUME NEW p \in EventPriority, NEW t
    PROVE  /\ FinalPriority(p, t) \in EventPriority
           /\ FinalPriority(p, t) <= p
           /\ FinalPriority(FinalPriority(p, t), t) = FinalPriority(p, t)
<1>1. TopicPriority(t) \in EventPriority
    BY DispatcherAssumption DEF TopicPriority, EventPriority, LOW, MEDIUM, CRITICAL
<1> QED BY <1>1 DEF FinalPriority, EventPriority, LOW, CRITICAL

LEMMA QueueForType == ASSUME NEW p PROVE QueueFor(p) \in QueueId
<1> QED BY DEF QueueFor, QueueId

LEMMA FrameType ==
    ASSUME NEW f \in Frame
    PROVE  f.priority \in EventPriority /\ f.topic \in Topic
<1> QED BY DispatcherAssumption

-----------------------------------------------------------------------------
LEMMA DispatcherInitType == DispatcherInit => DispatcherTypeOK
<1> SUFFICES ASSUME DispatcherInit PROVE DispatcherTypeOK
    OBVIOUS
<1>1. priority \in [Event -> EventPriority]
    BY FrameType DEF DispatcherInit
<1>2. 0 \in 0 .. MaxRetry - 1 /\ 0 <= InboundCapacity
    BY DispatcherAssumption
<1>3. inbound \in Seq(Event) /\ Len(inbound) = 0
    BY DEF DispatcherInit
<1> QED BY <1>1, <1>2, <1>3, EventAssumption DEF DispatcherInit, DispatcherTypeOK

\* tryPush keeps the types.
LEMMA TryPushType ==
    ASSUME DispatcherTypeOK, NEW e \in Event, TryPush(e) \/ TryPushFails(e)
    PROVE  DispatcherTypeOK'
<1>1. CASE TryPush(e)
    <2>1. /\ Append(inbound, e) \in Seq(Event)
          /\ Len(Append(inbound, e)) = Len(inbound) + 1
        BY DEF DispatcherTypeOK
    <2>2. Len(inbound) < InboundCapacity /\ Len(inbound) \in Nat /\ InboundCapacity \in Nat
        BY <1>1, DispatcherAssumption DEF TryPush, DispatcherTypeOK
    <2>3. Len(Append(inbound, e)) <= InboundCapacity
        BY <2>1, <2>2
    <2> QED BY <1>1, <2>1, <2>3 DEF TryPush, DispatcherTypeOK
<1>2. CASE TryPushFails(e)
    BY <1>2 DEF TryPushFails, DispatcherTypeOK
<1> QED BY <1>1, <1>2

\* start() and stop() keep the types.
LEMMA DispatcherLifeType ==
    ASSUME DispatcherTypeOK,
           DispatcherStart \/ DispatcherStartThrows \/ DispatcherStopFlag \/ DispatcherJoin
    PROVE  DispatcherTypeOK'
<1> QED BY DEF DispatcherTypeOK, DispatcherStart, DispatcherStartThrows, DispatcherStopFlag,
        DispatcherJoin

\* A step of the dispatcher's thread keeps the types.
LEMMA DispatcherThreadType ==
    ASSUME BusTypeOK, DispatcherTypeOK, DispatcherThread
    PROVE  BusTypeOK' /\ DispatcherTypeOK'
<1> USE DEF DispatcherTypeOK
<1>0. MaxRetry \in Nat \ {0} /\ 0 \in 0 .. MaxRetry - 1
    BY DispatcherAssumption
<1>1. CASE DispatchLoopTest /\ UNCHANGED bus
    BY <1>1 DEF DispatchLoopTest, BusTypeOK
<1>2. CASE TryPop /\ UNCHANGED bus
    <2>1. /\ Head(inbound) \in Event
          /\ Tail(inbound) \in Seq(Event)
          /\ Len(Tail(inbound)) <= Len(inbound)
        BY <1>2 DEF TryPop
    <2>2. Len(Tail(inbound)) <= InboundCapacity
        BY <2>1, DispatcherAssumption
    <2> QED BY <1>2, <2>1, <2>2, EventAssumption DEF TryPop, BusTypeOK
<1>3. CASE TryPopFails /\ UNCHANGED bus
    BY <1>3 DEF TryPopFails, BusTypeOK
<1>4. CASE Route /\ UNCHANGED bus
    <2>1. FinalPriority(priority[devt], frame[devt].topic) \in EventPriority
        BY <1>4, FinalPriorityType DEF Route
    <2> QED BY <1>4, <2>1 DEF Route, BusTypeOK
<1>5. CASE DispatchPush
    <2>1. BusTypeOK'
        BY <1>5, PushType, QueueForType DEF DispatchPush, RoutedLane
    <2> QED BY <1>0, <1>5, <2>1 DEF DispatchPush
<1>6. CASE DispatchRetry
    BY <1>0, <1>6 DEF DispatchRetry, PushFails, BusTypeOK
<1>7. CASE DispatchDrop
    BY <1>0, <1>7 DEF DispatchDrop, PushFails, BusTypeOK
<1> QED BY <1>1, <1>2, <1>3, <1>4, <1>5, <1>6, <1>7 DEF DispatcherThread

-----------------------------------------------------------------------------
(* Ranks *)

\* The header of an event holds what the client asked for or the final
\* priority, and the final one when the event is about to be pushed.
HeadersRanked ==
    /\ \A e \in Event :
           priority[e] \in {frame[e].priority, FinalPriority(frame[e].priority, frame[e].topic)}
    /\ dpc = "push" =>
           priority[devt] = FinalPriority(frame[devt].priority, frame[devt].topic)

\* The dispatcher's thread puts each event on the lane of its rank.
LEMMA DispatcherThreadRanks ==
    ASSUME BusTypeOK, DispatcherTypeOK, HeadersRanked, LanesHoldTheirRank, DispatcherThread
    PROVE  HeadersRanked' /\ LanesHoldTheirRank'
<1> USE DEF DispatcherTypeOK
<1>1. CASE (DispatchLoopTest \/ TryPop \/ TryPopFails) /\ UNCHANGED bus
    BY <1>1 DEF DispatchLoopTest, TryPop, TryPopFails, HeadersRanked, LanesHoldTheirRank,
        FrameLane
<1>2. CASE Route /\ UNCHANGED bus
    <2>1. devt \in Event
        BY <1>2 DEF Route
    <2>2. LET p == frame[devt].priority
              t == frame[devt].topic
          IN  FinalPriority(priority[devt], t) = FinalPriority(p, t)
        BY <2>1, FrameType, FinalPriorityType DEF HeadersRanked
    <2>3. HeadersRanked'
        BY <1>2, <2>1, <2>2 DEF Route, HeadersRanked
    <2> QED BY <1>2, <2>3 DEF Route, LanesHoldTheirRank, FrameLane
<1>3. CASE DispatchPush
    <2>1. devt \in Event /\ RoutedLane = FrameLane(devt) /\ RoutedLane \in QueueId
        BY <1>3, QueueForType DEF DispatchPush, HeadersRanked, RoutedLane, FrameLane
    <2>2. bus' = [bus EXCEPT ![RoutedLane] = Append(@, devt)]
        BY <1>3 DEF DispatchPush, Push
    <2>3. ASSUME NEW q \in QueueId, NEW e \in Range(bus'[q]) PROVE FrameLane(e) = q
        <3>1. CASE q = RoutedLane
            <4>1. bus[q] \in Seq(Event) /\ bus'[q] = Append(bus[q], devt)
                BY <2>1, <2>2, <3>1 DEF BusTypeOK
            <4>2. e \in Range(bus[q]) \/ e = devt
                BY <2>3, <4>1 DEF Range
            <4> QED BY <2>1, <3>1, <4>2 DEF LanesHoldTheirRank
        <3>2. CASE q # RoutedLane
            BY <2>2, <2>3, <3>2 DEF BusTypeOK, LanesHoldTheirRank
        <3> QED BY <3>1, <3>2
    <2>4. LanesHoldTheirRank'
        BY <1>3, <2>3 DEF DispatchPush, LanesHoldTheirRank, FrameLane
    <2> QED BY <1>3, <2>4 DEF DispatchPush, HeadersRanked
<1>4. CASE DispatchRetry \/ DispatchDrop
    BY <1>4 DEF DispatchRetry, DispatchDrop, PushFails, HeadersRanked, LanesHoldTheirRank,
        FrameLane
<1> QED BY <1>1, <1>2, <1>3, <1>4 DEF DispatcherThread

\* Nothing else that is done with the dispatcher moves an event to a lane.
LEMMA CallersKeepRanks ==
    ASSUME HeadersRanked, LanesHoldTheirRank, UNCHANGED bus,
           DispatcherStart \/ DispatcherStartThrows \/ DispatcherStopFlag \/ DispatcherJoin
               \/ (\E e \in Event : TryPush(e) \/ TryPushFails(e))
    PROVE  HeadersRanked' /\ LanesHoldTheirRank'
<1> QED BY DEF DispatcherStart, DispatcherStartThrows, DispatcherStopFlag, DispatcherJoin, TryPush, TryPushFails,
        HeadersRanked, LanesHoldTheirRank, FrameLane

\* Taking the front event leaves the others on their lanes.
LEMMA PopKeepsRanks ==
    ASSUME BusTypeOK, LanesHoldTheirRank, NEW l \in QueueId, Pop(l, Head(bus[l])), UNCHANGED frame
    PROVE  LanesHoldTheirRank'
<1>1. ASSUME NEW q \in QueueId PROVE Range(bus'[q]) \subseteq Range(bus[q])
    <2>1. CASE q = l
        <3>1. bus[q] \in Seq(Event) /\ bus[q] # <<>> /\ bus'[q] = Tail(bus[q])
            BY <2>1 DEF BusTypeOK, Pop
        <3> QED BY <3>1 DEF Range
    <2>2. CASE q # l
        BY <2>2 DEF BusTypeOK, Pop
    <2> QED BY <2>1, <2>2
<1> QED BY <1>1 DEF LanesHoldTheirRank, FrameLane

-----------------------------------------------------------------------------
(* Order *)

\* Of the events in M, t lists only some that s lists, in the order of s.
Within(t, s, M) ==
    /\ \A x \in M : x \in Range(t) => x \in Range(s)
    /\ \A x, y \in M : Ahead(t, x, y) => Ahead(s, x, y)

\* Two queues, one behind the other.
LEMMA BehindEachOther ==
    ASSUME NEW s \in Seq(Event), NEW t \in Seq(Event)
    PROVE  /\ s \o t \in Seq(Event)
           /\ \A x : x \in Range(s \o t) <=> x \in Range(s) \/ x \in Range(t)
           /\ \A x, y : Ahead(s \o t, x, y)
                        <=> Ahead(s, x, y) \/ Ahead(t, x, y) \/ (x \in Range(s) /\ y \in Range(t))
<1>1. PICK u \in Seq(Event) : u = s \o t
    BY ConcatProperties
<1>2. /\ DOMAIN s = 1 .. Len(s) /\ DOMAIN t = 1 .. Len(t) /\ DOMAIN u = 1 .. Len(s) + Len(t)
      /\ Len(s) \in Nat /\ Len(t) \in Nat
      /\ \A i \in 1 .. Len(s) : u[i] = s[i]
      /\ \A i \in 1 .. Len(t) : u[i + Len(s)] = t[i]
      /\ \A i \in 1 .. Len(s) + Len(t) : i > Len(s) => u[i] = t[i - Len(s)]
    BY <1>1, ConcatProperties
<1>3. \A i \in 1 .. Len(s) : i \in DOMAIN u
    BY <1>2
<1>4. \A i \in 1 .. Len(t) : i + Len(s) \in DOMAIN u
    BY <1>2
<1>5. \A i \in DOMAIN u : i \in 1 .. Len(s) \/ (i > Len(s) /\ i - Len(s) \in 1 .. Len(t))
    BY <1>2
<1>6. ASSUME NEW x PROVE x \in Range(u) <=> x \in Range(s) \/ x \in Range(t)
    <2>1. ASSUME x \in Range(u) PROVE x \in Range(s) \/ x \in Range(t)
        BY <1>2, <1>5, <2>1 DEF Range
    <2>2. ASSUME x \in Range(s) PROVE x \in Range(u)
        BY <1>2, <1>3, <2>2 DEF Range
    <2>3. ASSUME x \in Range(t) PROVE x \in Range(u)
        BY <1>2, <1>4, <2>3 DEF Range
    <2> QED BY <2>1, <2>2, <2>3
<1>7. ASSUME NEW x, NEW y, Ahead(u, x, y)
      PROVE  Ahead(s, x, y) \/ Ahead(t, x, y) \/ (x \in Range(s) /\ y \in Range(t))
    <2>1. PICK i, j \in DOMAIN u : i < j /\ u[i] = x /\ u[j] = y
        BY <1>7 DEF Ahead
    <2>2. i \in Int /\ j \in Int
        BY <1>2, <2>1
    <2>3. CASE i <= Len(s) /\ j <= Len(s)
        BY <1>2, <1>5, <2>1, <2>2, <2>3 DEF Ahead
    <2>4. CASE i <= Len(s) /\ j > Len(s)
        BY <1>2, <1>5, <2>1, <2>2, <2>4 DEF Range
    <2>5. CASE i > Len(s)
        <3>1. i - Len(s) \in DOMAIN t /\ j - Len(s) \in DOMAIN t /\ i - Len(s) < j - Len(s)
            BY <1>2, <1>5, <2>1, <2>2, <2>5
        <3>2. t[i - Len(s)] = x /\ t[j - Len(s)] = y
            BY <1>2, <2>1, <2>2, <2>5
        <3> QED BY <3>1, <3>2 DEF Ahead
    <2> QED BY <1>2, <2>2, <2>3, <2>4, <2>5
<1>8. ASSUME NEW x, NEW y, Ahead(s, x, y) PROVE Ahead(u, x, y)
    BY <1>2, <1>3, <1>8 DEF Ahead
<1>9. ASSUME NEW x, NEW y, Ahead(t, x, y) PROVE Ahead(u, x, y)
    <2>1. PICK i, j \in DOMAIN t : i < j /\ t[i] = x /\ t[j] = y
        BY <1>9 DEF Ahead
    <2>2. i + Len(s) \in DOMAIN u /\ j + Len(s) \in DOMAIN u /\ i + Len(s) < j + Len(s)
        BY <1>2, <1>4, <2>1
    <2> QED BY <1>2, <2>1, <2>2 DEF Ahead
<1>10. ASSUME NEW x, NEW y, x \in Range(s), y \in Range(t) PROVE Ahead(u, x, y)
    <2>1. PICK i \in DOMAIN s : s[i] = x
        BY <1>10 DEF Range
    <2>2. PICK j \in DOMAIN t : t[j] = y
        BY <1>10 DEF Range
    <2>3. i \in DOMAIN u /\ j + Len(s) \in DOMAIN u /\ i < j + Len(s)
        BY <1>2, <1>3, <1>4, <2>1, <2>2
    <2> QED BY <1>2, <2>1, <2>2, <2>3 DEF Ahead
<1> QED BY <1>1, <1>6, <1>7, <1>8, <1>9, <1>10

\* A queue of one event, and the ends of a queue.
LEMMA OneAndEnds ==
    /\ \A x : x \notin Range(<<>>)
    /\ \A x, y : ~Ahead(<<>>, x, y)
    /\ \A e \in Event : /\ <<e>> \in Seq(Event)
                        /\ \A x : x \in Range(<<e>>) <=> x = e
                        /\ \A x, y : ~Ahead(<<e>>, x, y)
    /\ \A s \in Seq(Event) : \A e \in Event : Append(s, e) = s \o <<e>>
    /\ \A s \in Seq(Event) : s # <<>> =>
           Head(s) \in Event /\ Tail(s) \in Seq(Event) /\ s = <<Head(s)>> \o Tail(s)
<1>1. /\ \A x : x \notin Range(<<>>)
      /\ \A x, y : ~Ahead(<<>>, x, y)
    BY DEF Range, Ahead
<1>2. ASSUME NEW e \in Event
      PROVE  /\ <<e>> \in Seq(Event)
             /\ \A x : x \in Range(<<e>>) <=> x = e
             /\ \A x, y : ~Ahead(<<e>>, x, y)
    <2>1. DOMAIN <<e>> = {1} /\ <<e>>[1] = e
        OBVIOUS
    <2>2. \A x : x \in Range(<<e>>) <=> x = e
        BY <2>1 DEF Range
    <2>3. \A x, y : ~Ahead(<<e>>, x, y)
        BY <2>1 DEF Ahead
    <2> QED BY <2>2, <2>3
<1>3. \A s \in Seq(Event) : \A e \in Event : Append(s, e) = s \o <<e>>
    BY AppendIsConcat
<1>4. ASSUME NEW s \in Seq(Event), s # <<>>
      PROVE  Head(s) \in Event /\ Tail(s) \in Seq(Event) /\ s = <<Head(s)>> \o Tail(s)
    <2>1. Head(s) \in Event /\ Tail(s) \in Seq(Event)
        BY <1>4, HeadTailProperties
    <2>2. SubSeq(s, 1, Len(s)) = <<s[1]>> \o SubSeq(s, 2, Len(s))
        BY <1>4, SubSeqRecursiveFirst, LenProperties, EmptySeq
    <2>3. SubSeq(s, 1, Len(s)) = s /\ SubSeq(s, 2, Len(s)) = Tail(s) /\ s[1] = Head(s)
        BY <1>4, SubSeqFull, TailIsSubSeq
    <2> QED BY <2>1, <2>2, <2>3
<1> QED BY <1>1, <1>2, <1>3, <1>4

LEMMA WithinBehindEachOther ==
    ASSUME NEW s \in Seq(Event), NEW t \in Seq(Event), NEW u \in Seq(Event), NEW v \in Seq(Event),
           NEW M, Within(s, u, M), Within(t, v, M)
    PROVE  Within(s \o t, u \o v, M)
<1> QED BY BehindEachOther DEF Within

LEMMA WithinParts ==
    ASSUME NEW s \in Seq(Event), NEW t \in Seq(Event), NEW M
    PROVE  /\ Within(t, s \o t, M)
           /\ (\A x \in M : x \notin Range(t)) => Within(s \o t, s, M)
<1>1. \A x, y : Ahead(t, x, y) => x \in Range(t)
    BY DEF Ahead, Range
<1> QED BY <1>1, BehindEachOther DEF Within

LEMMA RowsAssociate ==
    /\ \A a, b, c \in Seq(Event) : (a \o b) \o c = a \o (b \o c)
    /\ \A a \in Seq(Event) : a \o <<>> = a /\ <<>> \o a = a
<1>1. \A a, b, c \in Seq(Event) : (a \o b) \o c = a \o (b \o c)
    OBVIOUS
<1>2. \A a \in Seq(Event) : a \o <<>> = a /\ <<>> \o a = a
    BY ConcatEmptySeq
<1> QED BY <1>1, <1>2

\* It is enough to look at the part of a row of queues that changes.
LEMMA WithinRow ==
    ASSUME NEW M, NEW s \in Seq(Event), NEW t \in Seq(Event), Within(t, s, M),
           NEW u \in Seq(Event)
    PROVE  /\ Within(t \o u, s \o u, M) /\ Within(u \o t, u \o s, M)
           /\ s \o u \in Seq(Event) /\ t \o u \in Seq(Event)
<1> QED BY BehindEachOther DEF Within

LEMMA WithinRowOfTwo ==
    ASSUME NEW M, NEW u \in Seq(Event),
           NEW s1 \in Seq(Event), NEW s2 \in Seq(Event),
           NEW t1 \in Seq(Event), NEW t2 \in Seq(Event), Within(t1 \o t2, s1 \o s2, M)
    PROVE  Within(u \o t1 \o t2, u \o s1 \o s2, M)
<1>1. (u \o t1) \o t2 = u \o (t1 \o t2)
    OBVIOUS
<1>2. (u \o s1) \o s2 = u \o (s1 \o s2)
    OBVIOUS
<1>3. PICK s, t \in Seq(Event) : s = s1 \o s2 /\ t = t1 \o t2
    BY BehindEachOther
<1>4. Within(u \o t, u \o s, M)
    BY <1>3, WithinRow
<1> QED BY <1>1, <1>2, <1>3, <1>4

\* What may happen at the ends of a queue: its front is taken, all of it is, or
\* an event that is not in M is put behind it.
LEMMA WithinEnds ==
    ASSUME NEW s \in Seq(Event), NEW M
    PROVE  /\ Within(s, s, M) /\ Within(<<>>, s, M)
           /\ s # <<>> => Within(Tail(s), s, M)
           /\ \A e \in Event \ M : Within(Append(s, e), s, M)
<1>1. Within(s, s, M) /\ Within(<<>>, s, M)
    BY OneAndEnds DEF Within
<1>2. s # <<>> => Within(Tail(s), s, M)
    <2> SUFFICES ASSUME s # <<>> PROVE Within(Tail(s), s, M)
        OBVIOUS
    <2>1. /\ <<Head(s)>> \in Seq(Event) /\ Tail(s) \in Seq(Event)
          /\ s = <<Head(s)>> \o Tail(s)
        BY OneAndEnds
    <2>2. Within(Tail(s), <<Head(s)>> \o Tail(s), M)
        BY <2>1, WithinParts
    <2> QED BY <2>1, <2>2
<1>3. ASSUME NEW e \in Event \ M PROVE Within(Append(s, e), s, M)
    <2>1. Append(s, e) = s \o <<e>> /\ <<e>> \in Seq(Event)
        BY OneAndEnds
    <2>2. \A x \in M : x \notin Range(<<e>>)
        BY OneAndEnds
    <2>3. Within(s \o <<e>>, s, M)
        BY <2>1, <2>2, WithinParts
    <2> QED BY <2>1, <2>3
<1> QED BY <1>1, <1>2, <1>3

\* An event passes from the front of a queue to the back of the queue before
\* it, or from or to a hand.
LEMMA PassingOn ==
    /\ \A s, t \in Seq(Event) : t # <<>> => Append(s, Head(t)) \o Tail(t) = s \o t
    /\ \A t \in Seq(Event) : t # <<>> => <<Head(t)>> \o Tail(t) = <<>> \o t
    /\ \A s \in Seq(Event) : \A e \in Event : Append(s, e) \o <<>> = s \o <<e>>
<1>1. ASSUME NEW s \in Seq(Event), NEW t \in Seq(Event), t # <<>>
      PROVE  Append(s, Head(t)) \o Tail(t) = s \o t
    <2>1. /\ Head(t) \in Event /\ <<Head(t)>> \in Seq(Event) /\ Tail(t) \in Seq(Event)
          /\ t = <<Head(t)>> \o Tail(t)
        BY <1>1, OneAndEnds
    <2>2. Append(s, Head(t)) = s \o <<Head(t)>>
        BY <2>1, OneAndEnds
    <2>3. \A a, b, c \in Seq(Event) : (a \o b) \o c = a \o (b \o c)
        OBVIOUS
    <2>4. (s \o <<Head(t)>>) \o Tail(t) = s \o (<<Head(t)>> \o Tail(t))
        BY <2>1, <2>3
    <2> QED BY <2>1, <2>2, <2>4
<1>2. ASSUME NEW t \in Seq(Event), t # <<>> PROVE <<Head(t)>> \o Tail(t) = <<>> \o t
    BY <1>2, OneAndEnds, ConcatEmptySeq
<1>3. ASSUME NEW s \in Seq(Event), NEW e \in Event PROVE Append(s, e) \o <<>> = s \o <<e>>
    BY OneAndEnds, BehindEachOther, ConcatEmptySeq
<1> QED BY <1>1, <1>2, <1>3

LEMMA InHandType == \A e \in Event \cup {NoEvent} : InHand(e) \in Seq(Event)
<1> QED BY OneAndEnds, EmptySeq DEF InHand

-----------------------------------------------------------------------------
(* Types *)

\* Taking the front of a lane leaves a lane, and yields an event.
LEMMA PopType ==
    ASSUME BusTypeOK, NEW q \in QueueId, Pop(q, Head(bus[q]))
    PROVE  Head(bus[q]) \in Event /\ BusTypeOK'
<1>1. bus[q] \in Seq(Event) /\ bus[q] # <<>>
    BY DEF BusTypeOK, Pop
<1>2. /\ Head(bus[q]) \in Event
      /\ Tail(bus[q]) \in Seq(Event)
      /\ Len(Tail(bus[q])) <= Len(bus[q])
    BY <1>1
<1>3. Len(Tail(bus[q])) <= Capacity[q]
    BY <1>1, <1>2, BusAssumption DEF BusTypeOK
<1> QED BY <1>2, <1>3 DEF BusTypeOK, Pop

\* storeEvent keeps the types of the store, whether it returns or throws.
LEMMA StoreType ==
    ASSUME StorageTypeOK, NEW e \in Event, StoreEvent(e)
    PROVE  StorageTypeOK'
<1>1. CASE StoreWrites(e)
    <2>1. Append(stored, e) \in Seq(Event)
        BY DEF StorageTypeOK
    <2> QED BY <1>1, <2>1 DEF StorageTypeOK, StoreWrites
<1>2. CASE StoreThrows(e)
    BY <1>2 DEF StorageTypeOK, StoreThrows
<1> QED BY <1>1, <1>2 DEF StoreEvent

\* A step of the processor's thread keeps the types.
LEMMA ProcThreadType ==
    ASSUME BusTypeOK, ProcTypeOK, PoolTypeOK, StorageTypeOK, ProcThread
    PROVE  BusTypeOK' /\ ProcTypeOK' /\ PoolTypeOK' /\ StorageTypeOK'
<1>1. ASSUME NEW q \in QueueId, ProcTake(q)
      PROVE  BusTypeOK' /\ ProcTypeOK'
    <2>1. Head(bus[q]) \in Event /\ BusTypeOK'
        BY <1>1, PopType DEF ProcTake
    <2>2. overtaken' \in [QueueId -> Nat]
        BY <1>1 DEF ProcTake, ProcTypeOK
    <2> QED BY <1>1, <2>1, <2>2, EventAssumption DEF ProcTake, ProcTypeOK
<1>2. ASSUME NEW q \in QueueId, NEW next \in {"transactional", "batch", "loop"},
             ppc # "submit", ProcMiss(q, next)
      PROVE  BusTypeOK' /\ ProcTypeOK'
    BY <1>2 DEF ProcMiss, PopTimesOut, BusTypeOK, ProcTypeOK
<1>3. CASE (ProcLoopTest \/ ProcPopRealtime \/ ProcPopTransactional \/ ProcPopBatch)
           /\ UNCHANGED <<poolVars, storageVars>>
    <2>1. PoolTypeOK' /\ StorageTypeOK'
        BY <1>3 DEF PoolTypeOK, StorageTypeOK, poolVars, storageVars
    <2>2. CASE ProcLoopTest
        BY <2>1, <2>2 DEF ProcLoopTest, BusTypeOK, ProcTypeOK
    <2>3. CASE ProcPopRealtime
        BY <1>1, <1>2, <2>1, <2>3 DEF ProcPopRealtime, QueueId
    <2>4. CASE ProcPopTransactional
        BY <1>1, <1>2, <2>1, <2>4 DEF ProcPopTransactional, QueueId
    <2>5. CASE ProcPopBatch
        BY <1>1, <1>2, <2>1, <2>5 DEF ProcPopBatch, QueueId
    <2> QED BY <1>3, <2>2, <2>3, <2>4, <2>5
<1>4. CASE ProcSubmit /\ UNCHANGED <<bus, storageVars>>
    <2>1. pevt \in Event
        BY <1>4 DEF ProcSubmit, ProcHandOff, ProcTypeOK
    <2> QED BY <1>4, <2>1 DEF ProcSubmit, ProcHandOff, Submit, storageVars,
            BusTypeOK, ProcTypeOK, PoolTypeOK, StorageTypeOK
<1>5. CASE ProcStore /\ UNCHANGED <<bus, poolVars>>
    <2>1. pevt \in Event
        BY <1>5 DEF ProcStore, ProcHandOff, ProcTypeOK
    <2>2. StorageTypeOK'
        BY <1>5, <2>1, StoreType DEF ProcStore
    <2> QED BY <1>5, <2>2 DEF ProcStore, ProcHandOff, poolVars,
            BusTypeOK, ProcTypeOK, PoolTypeOK
<1> QED BY <1>3, <1>4, <1>5 DEF ProcThread

\* A step of a worker keeps the types.
LEMMA WorkerType ==
    ASSUME PoolTypeOK, StorageTypeOK, NEW w \in Worker,
           \/ (WorkerCheck(w) \/ WorkerTake(w) \/ WorkerReturn(w)) /\ UNCHANGED storageVars
           \/ WorkerFinish(w) /\ StoreEvent(wtask[w])
    PROVE  PoolTypeOK' /\ StorageTypeOK'
<1>1. CASE (WorkerCheck(w) \/ WorkerReturn(w)) /\ UNCHANGED storageVars
    BY <1>1 DEF WorkerCheck, WorkerReturn, PoolTypeOK, StorageTypeOK, storageVars
<1>2. CASE WorkerTake(w) /\ UNCHANGED storageVars
    <2>1. Head(tasks) \in Event /\ Tail(tasks) \in Seq(Event)
        BY <1>2 DEF WorkerTake, PoolTypeOK
    <2> QED BY <1>2, <2>1, EventAssumption
            DEF WorkerTake, PoolTypeOK, StorageTypeOK, storageVars
<1>3. CASE WorkerFinish(w) /\ StoreEvent(wtask[w])
    <2>1. wtask[w] \in Event
        BY <1>3 DEF WorkerFinish, PoolTypeOK
    <2>2. StorageTypeOK'
        BY <1>3, <2>1, StoreType
    <2> QED BY <1>3, <2>2 DEF WorkerFinish, PoolTypeOK
<1> QED BY <1>1, <1>2, <1>3

-----------------------------------------------------------------------------
(* Overtaking *)

\* Where the thread is when it has found lane q empty in this round.
Past(q) ==
    CASE q = "REALTIME"      -> {"transactional", "batch"}
      [] q = "TRANSACTIONAL" -> {"batch"}
      [] q = "BATCH"         -> {}

\* A lane that has been overtaken is still occupied, and will be looked at
\* before any lower one.
OvertakenIsNext ==
    \A q \in QueueId :
        /\ overtaken[q] <= 1
        /\ overtaken[q] = 1 => bus[q] # <<>> /\ ppc \notin Past(q)

\* One pop: a lane is overtaken when it filled up after the thread found it
\* empty, so the thread looks at it again before any lower lane.
LEMMA ProcTakeOvertaken ==
    ASSUME BusTypeOK, ProcTypeOK, OvertakenIsNext,
           NEW q \in QueueId, ProcTake(q),
           \A l \in QueueId : q \in Below(l) => ppc \in Past(l)
    PROVE  OvertakenIsNext'
<1> SUFFICES ASSUME NEW l \in QueueId
             PROVE  /\ overtaken'[l] <= 1
                    /\ overtaken'[l] = 1 => bus'[l] # <<>> /\ ppc' \notin Past(l)
    BY DEF OvertakenIsNext
<1>1. ppc' \notin Past(l)
    BY DEF ProcTake, Past, QueueId
<1>2. CASE l = q
    BY <1>2 DEF ProcTake
<1>3. CASE l # q /\ q \in Below(l) /\ bus[l] # <<>>
    <2>1. overtaken[l] \in Nat /\ overtaken[l] <= 1 /\ overtaken[l] # 1
        BY <1>3 DEF OvertakenIsNext, ProcTypeOK
    <2>2. overtaken'[l] = overtaken[l] + 1
        BY <1>3 DEF ProcTake
    <2>3. bus'[l] # <<>>
        BY <1>3 DEF ProcTake, Pop, BusTypeOK
    <2> QED BY <1>1, <2>1, <2>2, <2>3
<1>4. CASE l # q /\ ~(q \in Below(l) /\ bus[l] # <<>>)
    <2>1. overtaken'[l] = overtaken[l] /\ bus'[l] = bus[l]
        BY <1>4 DEF ProcTake, Pop, BusTypeOK
    <2> QED BY <1>1, <2>1 DEF OvertakenIsNext
<1> QED BY <1>2, <1>3, <1>4

\* No step of the thread lets a lane be overtaken twice.
LEMMA ProcThreadOvertaken ==
    ASSUME BusTypeOK, ProcTypeOK, OvertakenIsNext, ProcThread
    PROVE  OvertakenIsNext'
<1>1. CASE ProcLoopTest
    BY <1>1 DEF ProcLoopTest, OvertakenIsNext, Past, QueueId
<1>2. CASE ProcPopRealtime
    <2>1. CASE ProcTake("REALTIME")
        BY <2>1, ProcTakeOvertaken DEF QueueId, Below
    <2>2. CASE ProcMiss("REALTIME", "transactional")
        BY <2>2 DEF ProcMiss, PopTimesOut, OvertakenIsNext, Past, QueueId
    <2> QED BY <1>2, <2>1, <2>2 DEF ProcPopRealtime
<1>3. CASE ProcPopTransactional
    <2>1. CASE ProcTake("TRANSACTIONAL")
        BY <1>3, <2>1, ProcTakeOvertaken DEF ProcPopTransactional, QueueId, Below, Past
    <2>2. CASE ProcMiss("TRANSACTIONAL", "batch")
        BY <1>3, <2>2 DEF ProcPopTransactional, ProcMiss, PopTimesOut, OvertakenIsNext,
            Past, QueueId
    <2> QED BY <1>3, <2>1, <2>2 DEF ProcPopTransactional
<1>4. CASE ProcPopBatch
    <2>1. CASE ProcTake("BATCH")
        BY <1>4, <2>1, ProcTakeOvertaken DEF ProcPopBatch, QueueId, Below, Past
    <2>2. CASE ProcMiss("BATCH", "loop")
        BY <1>4, <2>2 DEF ProcPopBatch, ProcMiss, PopTimesOut, OvertakenIsNext, Past, QueueId
    <2> QED BY <1>4, <2>1, <2>2 DEF ProcPopBatch
<1>5. CASE (ProcSubmit \/ ProcStore) /\ UNCHANGED bus
    BY <1>5 DEF ProcSubmit, ProcStore, ProcHandOff, OvertakenIsNext, Past, QueueId
<1> QED BY <1>1, <1>2, <1>3, <1>4, <1>5 DEF ProcThread
=============================================================================
