----------------------- MODULE ProcessorServiceProofs -----------------------
(***************************************************************************)
(* Proofs about the processor, for any events, ranks, capacities and       *)
(* workers, with a pool or without.                                        *)
(***************************************************************************)
EXTENDS ProcessorService, PipelineProofs

-----------------------------------------------------------------------------
\* Adding an event empties no lane.
LEMMA PushOccupies ==
    ASSUME BusTypeOK, NEW q \in QueueId, NEW e \in Event, Push(q, e)
    PROVE  \A l \in QueueId : bus[l] # <<>> => bus'[l] # <<>>
<1>1. bus[q] \in Seq(Event)
    BY DEF BusTypeOK
<1>2. Append(bus[q], e) # <<>>
    BY <1>1
<1> QED BY <1>2 DEF Push, BusTypeOK

LEMMA TypeOKInit == Init => TypeOK
<1> SUFFICES ASSUME Init PROVE TypeOK
    OBVIOUS
<1> USE DEF Init
<1>1. BusTypeOK
    BY BusAssumption DEF BusTypeOK, BusInit
<1>2. ProcTypeOK
    BY DEF ProcTypeOK, ProcInit
<1>3. PoolTypeOK
    BY EventAssumption DEF PoolTypeOK, PoolInit
<1>4. StorageTypeOK
    BY DEF StorageTypeOK, StorageInit
<1> QED BY <1>1, <1>2, <1>3, <1>4 DEF TypeOK

LEMMA TypeOKStep == TypeOK /\ [Next]_vars => TypeOK'
<1> SUFFICES ASSUME TypeOK, [Next]_vars PROVE TypeOK'
    OBVIOUS
<1> USE DEF TypeOK
<1>1. CASE Owner
    BY <1>1 DEF Owner, ProcStart, ProcStopFlag, ProcJoin, poolVars, storageVars,
        BusTypeOK, ProcTypeOK, PoolTypeOK, StorageTypeOK
<1>2. ASSUME NEW e \in Event, Produce(e) PROVE TypeOK'
    <2>1. Rank[e] \in QueueId
        BY RankAssumption
    <2>2. BusTypeOK'
        BY <1>2, <2>1, PushType DEF Produce
    <2> QED BY <1>2, <2>2 DEF Produce, procVars, poolVars, storageVars,
            ProcTypeOK, PoolTypeOK, StorageTypeOK
<1>3. CASE Thread
    BY <1>3, ProcThreadType DEF Thread
<1>4. ASSUME NEW w \in Worker, WorkerThread(w) PROVE TypeOK'
    <2>1. PoolTypeOK' /\ StorageTypeOK'
        BY <1>4, WorkerType DEF WorkerThread
    <2> QED BY <1>4, <2>1 DEF WorkerThread, procVars, BusTypeOK, ProcTypeOK
<1>5. CASE UNCHANGED vars
    BY <1>5 DEF vars, procVars, poolVars, storageVars,
        BusTypeOK, ProcTypeOK, PoolTypeOK, StorageTypeOK
<1> QED BY <1>1, <1>2, <1>3, <1>4, <1>5 DEF Next

\* The processor, the pool and the store always hold values of their types.
THEOREM TypeCorrect == Spec => []TypeOK
<1> QED BY TypeOKInit, TypeOKStep, PTL DEF Spec

-----------------------------------------------------------------------------
LEMMA OvertakenStep == TypeOK /\ OvertakenIsNext /\ [Next]_vars => OvertakenIsNext'
<1> SUFFICES ASSUME TypeOK, OvertakenIsNext, [Next]_vars PROVE OvertakenIsNext'
    OBVIOUS
<1>1. CASE Owner
    \* The thread is started, or joined, outside its round.
    BY <1>1 DEF Owner, ProcStart, ProcStopFlag, ProcJoin, OvertakenIsNext, Past, QueueId
<1>2. ASSUME NEW e \in Event, Produce(e) PROVE OvertakenIsNext'
    <2>1. \A q \in QueueId : bus[q] # <<>> => bus'[q] # <<>>
        BY <1>2, RankAssumption, PushOccupies DEF Produce, TypeOK
    <2> QED BY <1>2, <2>1 DEF Produce, procVars, OvertakenIsNext
<1>3. CASE Thread
    BY <1>3, ProcThreadOvertaken DEF Thread, TypeOK
<1>4. ASSUME NEW w \in Worker, WorkerThread(w) PROVE OvertakenIsNext'
    BY <1>4 DEF WorkerThread, procVars, OvertakenIsNext
<1>5. CASE UNCHANGED vars
    BY <1>5 DEF vars, procVars, OvertakenIsNext
<1> QED BY <1>1, <1>2, <1>3, <1>4, <1>5 DEF Next

\* While a lane is occupied at most one event of the lower lanes is taken
\* before the processor serves it, whatever the producer does meanwhile.
THEOREM OvertakingIsBounded == Spec => []BoundedOvertaking
<1>1. Init => OvertakenIsNext
    BY DEF Init, ProcInit, OvertakenIsNext
<1>2. OvertakenIsNext => BoundedOvertaking
    BY DEF OvertakenIsNext, BoundedOvertaking
<1> QED BY <1>1, <1>2, OvertakenStep, TypeCorrect, PTL DEF Spec

-----------------------------------------------------------------------------
(* Order of the file *)

\* A pool of one worker, or of none.
SingleWorker == \A v, w \in Worker : v = w

\* StoredInOrder, with what makes it inductive: an event is produced once, and
\* only events that were produced fail; and a processor without a pool leaves the
\* pool alone, so that nothing is between its hand and the file.
OrderKept ==
    /\ StoredInOrder
    /\ IsInjective(history)
    /\ \A e \in fresh : e \notin Range(history)
    /\ \A e \in failed : e \in Range(history)
    /\ ~workerPool => tasks = <<>> /\ \A w \in Worker : wtask[w] = NoEvent

\* One event more or less in the middle of a row of queues.
LEMMA OneInTheMiddle ==
    ASSUME NEW a \in Seq(Event), NEW b \in Seq(Event), NEW e \in Event
    PROVE  /\ \A x : x \in Range(a \o <<e>> \o b) <=> x = e \/ x \in Range(a \o b)
           /\ \A x, y : Ahead(a \o b, x, y) => Ahead(a \o <<e>> \o b, x, y)
           /\ \A x, y : x # e /\ y # e /\ Ahead(a \o <<e>> \o b, x, y) => Ahead(a \o b, x, y)
           /\ e \in Range(a \o b) => Ahead(a \o <<e>> \o b, e, e)
<1>1. PICK m \in Seq(Event) : m = <<e>> /\ (\A x : x \in Range(m) <=> x = e) /\ \A x, y : ~Ahead(m, x, y)
    BY OneAndEnds
<1>2. PICK c \in Seq(Event) : c = a \o m
    BY BehindEachOther
<1>3. /\ \A x : x \in Range(c) <=> x \in Range(a) \/ x = e
      /\ \A x, y : Ahead(c, x, y) <=> Ahead(a, x, y) \/ (x \in Range(a) /\ y = e)
    BY <1>1, <1>2, BehindEachOther
<1>4. /\ \A x : x \in Range(c \o b) <=> x \in Range(c) \/ x \in Range(b)
      /\ \A x, y : Ahead(c \o b, x, y)
                   <=> Ahead(c, x, y) \/ Ahead(b, x, y) \/ (x \in Range(c) /\ y \in Range(b))
    BY BehindEachOther
<1>5. /\ \A x : x \in Range(a \o b) <=> x \in Range(a) \/ x \in Range(b)
      /\ \A x, y : Ahead(a \o b, x, y)
                   <=> Ahead(a, x, y) \/ Ahead(b, x, y) \/ (x \in Range(a) /\ y \in Range(b))
    BY BehindEachOther
<1> QED BY <1>1, <1>2, <1>3, <1>4, <1>5

\* Row t is row s less the event e, which stood somewhere in it.
Less(t, s, e) ==
    /\ \A x : x \in Range(s) <=> x = e \/ x \in Range(t)
    /\ \A x, y : Ahead(t, x, y) => Ahead(s, x, y)
    /\ e \in Range(t) => Ahead(s, e, e)

LEMMA LessInRow ==
    ASSUME NEW e \in Event, NEW s \in Seq(Event), NEW t \in Seq(Event), Less(t, s, e),
           NEW u \in Seq(Event)
    PROVE  Less(t \o u, s \o u, e) /\ s \o u \in Seq(Event) /\ t \o u \in Seq(Event)
<1> QED BY BehindEachOther DEF Less

LEMMA LessAtEnd ==
    ASSUME NEW e \in Event, NEW s \in Seq(Event)
    PROVE  /\ Less(s, s \o <<e>>, e) /\ s \o <<>> = s
           /\ s \o <<e>> \in Seq(Event)
<1>1. PICK m \in Seq(Event) : m = <<e>> /\ (\A x : x \in Range(m) <=> x = e) /\ \A x, y : ~Ahead(m, x, y)
    BY OneAndEnds
<1>2. s \o m \in Seq(Event) /\ Less(s, s \o m, e)
    BY <1>1, BehindEachOther DEF Less
<1> QED BY <1>1, <1>2, RowsAssociate

\* Nothing is produced and nothing fails, and no pipeline changes but by an event
\* of another lane.
LEMMA PipelinesKept ==
    ASSUME OrderKept, UNCHANGED <<history, failed, fresh>>,
           (~workerPool => tasks = <<>> /\ \A w \in Worker : wtask[w] = NoEvent)',
           \A q \in QueueId : \A x, y \in {e \in Event : Rank[e] = q} :
               /\ x \in Range(Pipeline(q)') <=> x \in Range(Pipeline(q))
               /\ Ahead(Pipeline(q)', x, y) => Ahead(Pipeline(q), x, y)
    PROVE  OrderKept'
<1>1. StoredInOrder'
    BY DEF OrderKept, StoredInOrder
<1> QED BY <1>1 DEF OrderKept

\* What is being stored.
LEMMA StoringIs ==
    ASSUME TypeOK, SingleWorker
    PROVE  /\ \A w \in Worker : Storing = InHand(wtask[w])
           /\ (\A w \in Worker : wtask[w] = NoEvent) => Storing = <<>>
<1>1. PICK busy : busy = {w \in Worker : wtask[w] # NoEvent}
    OBVIOUS
<1>2. PICK v : v = CHOOSE w \in busy : TRUE
    OBVIOUS
<1>3. Storing = IF busy = {} THEN <<>> ELSE <<wtask[v]>>
    BY <1>1, <1>2 DEF Storing
<1>4. busy # {} => v \in busy
    BY <1>2
<1> QED BY <1>1, <1>3, <1>4 DEF SingleWorker, InHand

LEMMA StoringType ==
    ASSUME TypeOK, SingleWorker
    PROVE  Storing \in Seq(Event)
<1> QED BY StoringIs, InHandType, EmptySeq DEF TypeOK, PoolTypeOK

\* A step that changes no pipeline.
LEMMA PipelinesSame ==
    ASSUME OrderKept, UNCHANGED <<history, failed, fresh>>,
           (~workerPool => tasks = <<>> /\ \A w \in Worker : wtask[w] = NoEvent)',
           \A q \in QueueId : Pipeline(q)' = Pipeline(q)
    PROVE  OrderKept'
<1> QED BY PipelinesKept

\* A write fails, and the event leaves its place in every pipeline.
LEMMA FailureKept ==
    ASSUME TypeOK, OrderKept, NEW e \in Event, failed' = failed \cup {e}, UNCHANGED <<history, fresh>>,
           (~workerPool => tasks = <<>> /\ \A w \in Worker : wtask[w] = NoEvent)',
           \A q \in QueueId : Less(Pipeline(q)', Pipeline(q), e)
    PROVE  OrderKept'
<1>1. /\ StoredInOrder /\ Rank[e] \in QueueId
      /\ \A q \in QueueId : \A x, y \in {z \in Event : Rank[z] = q} :
             /\ x \in Range(Pipeline(q)) <=> x \in Range(history) \ failed
             /\ Ahead(Pipeline(q), x, y) => Ahead(history, x, y)
    BY RankAssumption DEF OrderKept, StoredInOrder
<1>2. ~Ahead(history, e, e)
    <2>1. \A i \in DOMAIN history : i \in Int
        BY DEF TypeOK
    <2> QED BY <2>1 DEF OrderKept, IsInjective, Ahead
<1>3. ASSUME NEW q \in QueueId
      PROVE  /\ \A x : x \in Range(Pipeline(q)) <=> x = e \/ x \in Range(Pipeline(q)')
             /\ \A x, y : Ahead(Pipeline(q)', x, y) => Ahead(Pipeline(q), x, y)
             /\ e \in Range(Pipeline(q)') => Ahead(Pipeline(q), e, e)
    BY DEF Less
<1>4. e \in Range(history)
    BY <1>1, <1>3
<1>5. e \notin Range(Pipeline(Rank[e])')
    BY <1>1, <1>2, <1>3
<1>6. ASSUME NEW q \in QueueId, NEW x \in Event, Rank[x] = q
      PROVE  x \in Range(Pipeline(q)') <=> x \in Range(history') \ failed'
    <2>1. CASE x = e
        BY <1>5, <1>6, <2>1
    <2>2. CASE x # e
        BY <1>1, <1>3, <1>6, <2>2
    <2> QED BY <2>1, <2>2
<1>7. StoredInOrder'
    BY <1>1, <1>3, <1>6 DEF StoredInOrder
<1> QED BY <1>4, <1>7 DEF OrderKept

LEMMA ProduceKeepsOrder ==
    ASSUME TypeOK, SingleWorker, OrderKept, NEW e \in Event, Produce(e)
    PROVE  OrderKept'
<1>1. /\ history \in Seq(Event) /\ Rank[e] \in QueueId /\ e \in fresh /\ history' = Append(history, e)
      /\ fresh' = fresh \ {e} /\ UNCHANGED <<procVars, poolVars, storageVars>>
    BY RankAssumption DEF Produce, TypeOK
<1>2. /\ \A x : x \in Range(history') <=> x \in Range(history) \/ x = e
      /\ \A x, y : Ahead(history', x, y) <=> Ahead(history, x, y) \/ (x \in Range(history) /\ y = e)
    <2>1. PICK m \in Seq(Event) :
              /\ history' = history \o m
              /\ (\A x : x \in Range(m) <=> x = e) /\ \A x, y : ~Ahead(m, x, y)
        BY <1>1, OneAndEnds
    <2> QED BY <1>1, <2>1, BehindEachOther
<1>3. IsInjective(history')
    <2>1. /\ history' \in Seq(Event) /\ Len(history') = Len(history) + 1 /\ Len(history) \in Nat
          /\ DOMAIN history' = 1 .. Len(history') /\ DOMAIN history = 1 .. Len(history)
          /\ \A i \in 1 .. Len(history) : history'[i] = history[i]
          /\ history'[Len(history) + 1] = e
        BY <1>1, AppendProperties, LenProperties
    <2>2. \A i \in 1 .. Len(history) : history[i] # e
        BY <1>1, <2>1 DEF OrderKept, Range
    <2> QED BY <2>1, <2>2 DEF OrderKept, IsInjective
<1>4. ASSUME NEW q \in QueueId
      PROVE  Pipeline(q)' = IF q = Rank[e] THEN Pipeline(q) \o <<e>> ELSE Pipeline(q)
    <2>1. bus[q] \in Seq(Event)
        BY DEF TypeOK, BusTypeOK
    <2>2. bus'[q] = IF q = Rank[e] THEN bus[q] \o <<e>> ELSE bus[q]
        <3>1. bus'[q] = IF q = Rank[e] THEN Append(bus[q], e) ELSE bus[q]
            BY <1>1 DEF Produce, Push, TypeOK, BusTypeOK
        <3>2. Append(bus[q], e) = bus[q] \o <<e>>
            BY <2>1, OneAndEnds
        <3> QED BY <3>1, <3>2
    <2>3. PICK a \in Seq(Event) : a = stored \o Storing \o tasks \o InHand(pevt)
        BY StoringType, InHandType, BehindEachOther
            DEF TypeOK, StorageTypeOK, PoolTypeOK, ProcTypeOK
    <2>4. Pipeline(q)' = a \o bus'[q] /\ Pipeline(q) = a \o bus[q]
        BY <1>1, <2>3 DEF Pipeline, Storing, procVars, poolVars, storageVars
    <2>5. PICK m, b \in Seq(Event) : m = <<e>> /\ b = bus[q]
        BY <2>1, OneAndEnds
    <2>6. a \o (b \o m) = (a \o b) \o m
        BY <2>3, <2>5, RowsAssociate
    <2> QED BY <2>2, <2>4, <2>5, <2>6
<1>5. ASSUME NEW q \in QueueId, NEW x \in Event, NEW y \in Event, Rank[x] = q, Rank[y] = q
      PROVE  /\ x \in Range(Pipeline(q)') <=> x \in Range(history') \ failed'
             /\ Ahead(Pipeline(q)', x, y) => Ahead(history', x, y)
    <2>1. /\ \A z \in {x, y} : z \in Range(Pipeline(q)) <=> z \in Range(history) \ failed
          /\ Ahead(Pipeline(q), x, y) => Ahead(history, x, y)
        BY <1>5 DEF OrderKept, StoredInOrder
    <2>2. e \notin failed /\ e \notin Range(history) /\ failed' = failed
        BY <1>1 DEF OrderKept, storageVars
    <2>3. CASE q # Rank[e]
        BY <1>2, <1>4, <1>5, <2>1, <2>2, <2>3
    <2>4. CASE q = Rank[e]
        <3>1. PICK p \in Seq(Event) : p = Pipeline(q)
            BY StoringType, InHandType, BehindEachOther
                DEF TypeOK, StorageTypeOK, PoolTypeOK, ProcTypeOK, BusTypeOK, Pipeline
        <3>2. PICK m \in Seq(Event) :
                  /\ Pipeline(q)' = p \o m
                  /\ (\A z : z \in Range(m) <=> z = e) /\ \A z, u : ~Ahead(m, z, u)
            BY <1>4, <2>4, <3>1, OneAndEnds
        <3>3. /\ \A z : z \in Range(Pipeline(q)') <=> z \in Range(p) \/ z = e
              /\ \A z, u : Ahead(Pipeline(q)', z, u) <=> Ahead(p, z, u) \/ (z \in Range(p) /\ u = e)
            BY <3>2, BehindEachOther
        <3> QED BY <1>2, <2>1, <2>2, <3>1, <3>3
    <2> QED BY <2>3, <2>4
<1>6. StoredInOrder'
    BY <1>5 DEF StoredInOrder
<1>7. /\ \A z \in fresh' : z \notin Range(history')
      /\ \A z \in failed' : z \in Range(history')
      /\ (~workerPool => tasks = <<>> /\ \A w \in Worker : wtask[w] = NoEvent)'
    BY <1>1, <1>2 DEF OrderKept, storageVars, procVars, poolVars
<1> QED BY <1>3, <1>6, <1>7 DEF OrderKept

LEMMA FrontAndRest ==
    ASSUME NEW s \in Seq(Event), s # <<>>
    PROVE  \E m, r \in Seq(Event) : m = <<Head(s)>> /\ r = Tail(s) /\ s = m \o r
<1>1. <<Head(s)>> \in Seq(Event) /\ Tail(s) \in Seq(Event) /\ s = <<Head(s)>> \o Tail(s)
    BY OneAndEnds
<1> QED BY <1>1, Zenon

\* The five parts of a pipeline.
LEMMA PartsType ==
    ASSUME TypeOK, SingleWorker, NEW q \in QueueId
    PROVE  /\ stored \in Seq(Event) /\ Storing \in Seq(Event) /\ tasks \in Seq(Event)
           /\ InHand(pevt) \in Seq(Event) /\ bus[q] \in Seq(Event)
<1> QED BY StoringType, InHandType
        DEF TypeOK, StorageTypeOK, PoolTypeOK, ProcTypeOK, BusTypeOK

\* The processor's thread.
LEMMA TakeKeepsOrder ==
    ASSUME TypeOK, SingleWorker, OrderKept, Thread, NEW l \in QueueId, ProcTake(l), pevt = NoEvent,
           UNCHANGED <<poolVars, storageVars>>,
           \A q \in QueueId : \A e \in Range(bus[q]) : Rank[e] = q
    PROVE  OrderKept'
<1>1. UNCHANGED <<history, failed, fresh, stored, tasks, wtask, workerPool>>
    BY DEF Thread, ProcTake, poolVars, storageVars
<1>2. Storing' = Storing
    BY <1>1 DEF Storing
<1>3. PICK s \in Seq(Event) : s = bus[l]
    BY DEF TypeOK, BusTypeOK
<1>4. /\ s # <<>> /\ pevt' = Head(s) /\ bus'[l] = Tail(s)
      /\ \A k \in QueueId \ {l} : bus'[k] = bus[k]
    BY <1>3 DEF ProcTake, Pop, TypeOK, BusTypeOK
<1>5. Head(s) \in Event /\ Head(s) = s[1] /\ 1 \in DOMAIN s
    BY <1>4
<1>6. InHand(pevt) = <<>> /\ InHand(pevt') = <<Head(s)>>
    BY <1>4, <1>5, EventAssumption DEF InHand
<1>7. PICK a \in Seq(Event) : a = stored \o Storing \o tasks
    BY PartsType, BehindEachOther
<1>8. ASSUME NEW q \in QueueId
      PROVE  Pipeline(q) = a \o bus[q] /\ Pipeline(q)' = a \o <<Head(s)>> \o bus'[q]
    <2>1. a \o <<>> = a
        BY <1>7, ConcatEmptySeq
    <2> QED BY <1>1, <1>2, <1>6, <1>7, <2>1 DEF Pipeline
<1>9. ASSUME NEW q \in QueueId, NEW x \in Event, NEW y \in Event, Rank[x] = q, Rank[y] = q
      PROVE  /\ x \in Range(Pipeline(q)') <=> x \in Range(Pipeline(q))
             /\ Ahead(Pipeline(q)', x, y) => Ahead(Pipeline(q), x, y)
    <2>1. CASE q = l
        <3>1. PICK m, r \in Seq(Event) : m = <<Head(s)>> /\ r = Tail(s) /\ s = m \o r
            BY <1>3, <1>4, FrontAndRest
        <3>2. (a \o m) \o r = a \o (m \o r)
            BY <1>7, <3>1, RowsAssociate, ZenonT(40)
        <3>3. Pipeline(q)' = Pipeline(q)
            BY <1>3, <1>4, <1>8, <2>1, <3>1, <3>2
        <3> QED BY <3>3
    <2>2. CASE q # l
        <3>1. Head(s) \in Range(bus[l])
            BY <1>3, <1>5 DEF Range
        <3>2. x # Head(s) /\ y # Head(s)
            BY <1>9, <2>2, <3>1
        <3>3. PICK b \in Seq(Event) : b = bus[q] /\ b = bus'[q]
            BY <1>4, <2>2 DEF TypeOK, BusTypeOK
        <3>4. PICK h \in Event : h = Head(s)
            BY <1>5
        <3>5. /\ x \in Range(a \o <<h>> \o b) <=> x = h \/ x \in Range(a \o b)
              /\ x # h /\ y # h /\ Ahead(a \o <<h>> \o b, x, y) => Ahead(a \o b, x, y)
            BY <1>7, <3>3, <3>4, OneInTheMiddle
        <3> QED BY <1>8, <3>2, <3>3, <3>4, <3>5
    <2> QED BY <2>1, <2>2
<1> QED BY <1>1, <1>9, PipelinesKept DEF OrderKept

LEMMA SubmitKeepsOrder ==
    ASSUME TypeOK, SingleWorker, OrderKept, Thread, ProcSubmit, UNCHANGED <<bus, storageVars>>
    PROVE  OrderKept'
<1>1. /\ pevt \in Event /\ pevt' = NoEvent /\ tasks' = Append(tasks, pevt) /\ workerPool
      /\ UNCHANGED <<history, failed, fresh, stored, wtask, workerPool, bus>>
    BY DEF Thread, ProcSubmit, ProcHandOff, Submit, storageVars, TypeOK, ProcTypeOK
<1>2. Storing' = Storing
    BY <1>1 DEF Storing
<1>3. InHand(pevt') = <<>> /\ InHand(pevt) = <<pevt>>
    BY <1>1, EventAssumption DEF InHand
<1>4. ASSUME NEW q \in QueueId PROVE Pipeline(q)' = Pipeline(q)
    <2>1. PICK a, t \in Seq(Event) : a = stored \o Storing /\ t = tasks
        BY PartsType, BehindEachOther
    <2>2. PICK m \in Seq(Event) : m = <<pevt>> /\ Append(t, pevt) = t \o m
        <3>1. <<pevt>> \in Seq(Event) /\ Append(t, pevt) = t \o <<pevt>>
            BY <1>1, <2>1, OneAndEnds
        <3> QED BY <3>1, Zenon
    <2>3. (a \o (t \o m)) \o <<>> = (a \o t) \o m
        <3>1. PICK b \in Seq(Event) : b = a \o (t \o m)
            BY <2>1, <2>2, BehindEachOther
        <3> QED BY <2>1, <2>2, <3>1, RowsAssociate, SMTT(30)
    <2>4. (a \o tasks') \o InHand(pevt') = (a \o tasks) \o InHand(pevt)
        BY <1>1, <1>3, <2>1, <2>2, <2>3
    <2> QED BY <1>1, <1>2, <2>1, <2>4 DEF Pipeline
<1> QED BY <1>1, <1>4, PipelinesSame

\* The store of a processor without a pool.
LEMMA StoreKeepsOrder ==
    ASSUME TypeOK, SingleWorker, OrderKept, Thread, ProcStore, UNCHANGED <<bus, poolVars>>
    PROVE  OrderKept'
<1>1. /\ pevt \in Event /\ pevt' = NoEvent /\ ~workerPool /\ StoreEvent(pevt)
      /\ UNCHANGED <<history, fresh, tasks, wtask, workerPool, bus>>
    BY DEF Thread, ProcStore, ProcHandOff, poolVars, TypeOK, ProcTypeOK
<1>2. tasks = <<>> /\ \A w \in Worker : wtask[w] = NoEvent
    BY <1>1 DEF OrderKept
<1>3. Storing = <<>> /\ Storing' = <<>>
    BY <1>1, <1>2 DEF Storing
<1>4. InHand(pevt') = <<>> /\ InHand(pevt) = <<pevt>>
    BY <1>1, EventAssumption DEF InHand
<1>5. PICK s \in Seq(Event) : s = stored
    BY DEF TypeOK, StorageTypeOK
<1>6. ASSUME NEW q \in QueueId
      PROVE  Pipeline(q) = s \o <<pevt>> \o bus[q] /\ Pipeline(q)' = stored' \o bus[q]
    <2>1. \A t \in Seq(Event) : t \o <<>> = t
        BY ConcatEmptySeq
    <2>2. stored' \in Seq(Event)
        BY <1>1, <1>5, OneAndEnds, BehindEachOther DEF StoreEvent, StoreWrites, StoreThrows
    <2>3. s \o <<>> = s /\ stored' \o <<>> = stored'
        BY <1>5, <2>1, <2>2
    <2> QED BY <1>1, <1>2, <1>3, <1>4, <1>5, <2>3 DEF Pipeline
<1>7. CASE StoreWrites(pevt)
    <2>1. stored' = s \o <<pevt>> /\ failed' = failed
        BY <1>1, <1>5, <1>7, OneAndEnds DEF StoreWrites
    <2>2. \A q \in QueueId : Pipeline(q)' = Pipeline(q)
        BY <1>6, <2>1
    <2> QED BY <1>1, <1>2, <2>1, <2>2, PipelinesSame
<1>8. CASE StoreThrows(pevt)
    <2>1. stored' = s /\ failed' = failed \cup {pevt}
        BY <1>5, <1>8 DEF StoreThrows
    <2>2. ASSUME NEW q \in QueueId PROVE Less(Pipeline(q)', Pipeline(q), pevt)
        <3>1. bus[q] \in Seq(Event)
            BY DEF TypeOK, BusTypeOK
        <3>2. Less(s \o bus[q], s \o <<pevt>> \o bus[q], pevt)
            BY <1>1, <3>1, LessAtEnd, LessInRow
        <3> QED BY <1>6, <2>1, <3>2
    <2> QED BY <1>1, <1>2, <2>1, <2>2, FailureKept
<1> QED BY <1>1, <1>7, <1>8 DEF StoreEvent

\* The worker.
LEMMA WorkerKeepsOrder ==
    ASSUME TypeOK, TypeOK', SingleWorker, OrderKept, NEW w \in Worker, WorkerThread(w)
    PROVE  OrderKept'
<1>1. UNCHANGED <<bus, pevt, workerPool, history, fresh>>
    BY DEF WorkerThread, procVars
<1>2. /\ Storing = InHand(wtask[w]) /\ Storing' = InHand(wtask'[w])
      /\ Worker = {w}
    <2>1. Worker = {w}
        BY DEF SingleWorker
    <2>2. PICK busy : busy = {v \in Worker : wtask'[v] # NoEvent}
        OBVIOUS
    <2>3. PICK v : v = CHOOSE u \in busy : TRUE
        OBVIOUS
    <2>4. Storing' = IF busy = {} THEN <<>> ELSE <<wtask'[v]>>
        BY <2>2, <2>3 DEF Storing
    <2>5. busy # {} => v \in busy
        BY <2>3
    <2>6. Storing' = InHand(wtask'[w])
        BY <2>1, <2>2, <2>4, <2>5 DEF InHand
    <2> QED BY <2>1, <2>6, StoringIs
<1>3. PICK s, t \in Seq(Event) : s = stored /\ t = tasks
    BY DEF TypeOK, StorageTypeOK, PoolTypeOK
<1>4. CASE WorkerCheck(w) /\ UNCHANGED storageVars
    <2>1. UNCHANGED <<tasks, wtask, stored, failed>>
        BY <1>4 DEF WorkerCheck, storageVars
    <2>2. Storing' = Storing
        BY <2>1 DEF Storing
    <2>3. \A q \in QueueId : Pipeline(q)' = Pipeline(q)
        BY <1>1, <2>1, <2>2 DEF Pipeline
    <2> QED BY <1>1, <2>1, <2>3, PipelinesSame DEF OrderKept
<1>5. CASE WorkerTake(w) /\ UNCHANGED storageVars
    <2>1. /\ t # <<>> /\ tasks' = Tail(t) /\ wtask[w] = NoEvent /\ wtask'[w] = Head(t)
          /\ Head(t) \in Event /\ UNCHANGED <<stored, failed>>
        BY <1>3, <1>5 DEF WorkerTake, storageVars, TypeOK, PoolTypeOK
    <2>2. Storing = <<>> /\ Storing' = <<Head(t)>>
        BY <1>2, <2>1, EventAssumption DEF InHand
    <2>3. PICK m, r \in Seq(Event) : m = <<Head(t)>> /\ r = Tail(t) /\ t = m \o r
        BY <1>3, <2>1, FrontAndRest
    <2>4. (s \o m) \o r = (s \o <<>>) \o (m \o r)
        BY <1>3, <2>3, RowsAssociate
    <2>5. \A q \in QueueId : Pipeline(q)' = Pipeline(q)
        BY <1>1, <1>3, <2>1, <2>2, <2>3, <2>4 DEF Pipeline
    <2>6. workerPool
        BY <1>3, <2>1 DEF OrderKept
    <2> QED BY <1>1, <2>1, <2>5, <2>6, PipelinesSame
<1>6. CASE WorkerFinish(w) /\ StoreEvent(wtask[w])
    <2>1. PICK e \in Event : e = wtask[w]
        BY <1>6 DEF WorkerFinish, TypeOK, PoolTypeOK
    <2>2. wtask'[w] = NoEvent /\ tasks' = t /\ StoreEvent(e)
        BY <1>3, <1>6, <2>1 DEF WorkerFinish, TypeOK, PoolTypeOK
    <2>3. Storing = <<e>> /\ Storing' = <<>>
        BY <1>2, <2>1, <2>2, EventAssumption DEF InHand
    <2>4. (~workerPool => tasks = <<>> /\ \A v \in Worker : wtask[v] = NoEvent)'
        BY <1>1, <1>2, <1>3, <2>2 DEF OrderKept
    <2>5. CASE StoreWrites(e)
        <3>1. stored' = Append(s, e) /\ failed' = failed
            BY <1>3, <2>5 DEF StoreWrites
        <3>2. stored' \o Storing' = s \o Storing
            BY <1>3, <2>3, <3>1, PassingOn
        <3>3. \A q \in QueueId : Pipeline(q)' = Pipeline(q)
            BY <1>1, <1>3, <2>2, <3>2 DEF Pipeline
        <3> QED BY <1>1, <2>4, <3>1, <3>3, PipelinesSame
    <2>6. CASE StoreThrows(e)
        <3>1. stored' = s /\ failed' = failed \cup {e}
            BY <1>3, <2>6 DEF StoreThrows
        <3>2. ASSUME NEW q \in QueueId PROVE Less(Pipeline(q)', Pipeline(q), e)
            <4>1. PICK h, b \in Seq(Event) : h = InHand(pevt) /\ b = bus[q]
                BY PartsType
            <4>2. PICK u \in Seq(Event) : u = s \o <<e>> /\ Less(s, u, e)
                BY LessAtEnd
            <4>3. Less(s \o t \o h \o b, u \o t \o h \o b, e)
                <5>1. PICK s1, u1 \in Seq(Event) : s1 = s \o t /\ u1 = u \o t /\ Less(s1, u1, e)
                    BY <4>2, LessInRow
                <5>2. PICK s2, u2 \in Seq(Event) : s2 = s1 \o h /\ u2 = u1 \o h /\ Less(s2, u2, e)
                    BY <5>1, LessInRow
                <5>3. Less(s2 \o b, u2 \o b, e)
                    BY <5>2, LessInRow
                <5> QED BY <5>1, <5>2, <5>3
            <4>4. Pipeline(q) = u \o t \o h \o b /\ Pipeline(q)' = s \o t \o h \o b
                <5>1. s \o <<>> = s
                    BY LessAtEnd
                <5> QED BY <1>1, <1>3, <2>2, <2>3, <3>1, <4>1, <4>2, <5>1 DEF Pipeline
            <4> QED BY <4>3, <4>4
        <3> QED BY <1>1, <2>4, <3>1, <3>2, FailureKept
    <2> QED BY <2>2, <2>5, <2>6 DEF StoreEvent
<1> QED BY <1>4, <1>5, <1>6 DEF WorkerThread

LEMMA OrderInit == Init => OrderKept
<1> SUFFICES ASSUME Init PROVE OrderKept
    OBVIOUS
<1>1. history = <<>> /\ stored = <<>> /\ tasks = <<>> /\ pevt = NoEvent /\ failed = {}
      /\ \A w \in Worker : wtask[w] = NoEvent
    BY DEF Init, ProcInit, PoolInit, StorageInit
<1>2. Storing = <<>>
    BY <1>1 DEF Storing
<1>3. \A q \in QueueId : bus[q] = <<>>
    BY DEF Init, BusInit
<1>4. \A q \in QueueId : Pipeline(q) = <<>>
    BY <1>1, <1>2, <1>3 DEF Pipeline, InHand
<1>5. StoredInOrder
    BY <1>1, <1>4 DEF StoredInOrder
<1> QED BY <1>1, <1>5 DEF OrderKept, IsInjective, Range

\* The lane of an event is the one of its rank.
LanesHoldRank == \A q \in QueueId : \A e \in Range(bus[q]) : Rank[e] = q

LEMMA LanesHoldRankStep == TypeOK /\ LanesHoldRank /\ [Next]_vars => LanesHoldRank'
<1> SUFFICES ASSUME TypeOK, LanesHoldRank, [Next]_vars PROVE LanesHoldRank'
    OBVIOUS
<1>1. CASE UNCHANGED bus
    BY <1>1 DEF LanesHoldRank
<1>2. ASSUME NEW e \in Event, Produce(e) PROVE LanesHoldRank'
    <2>1. Rank[e] \in QueueId
        BY RankAssumption
    <2>2. ASSUME NEW q \in QueueId PROVE \A x \in Range(bus'[q]) : Rank[x] = q
        <3>1. PICK s \in Seq(Event) : s = bus[q]
            BY DEF TypeOK, BusTypeOK
        <3>2. \A x \in Range(s) : Rank[x] = q
            BY <3>1 DEF LanesHoldRank
        <3>3. bus'[q] = IF q = Rank[e] THEN Append(s, e) ELSE s
            BY <1>2, <2>1, <3>1 DEF Produce, Push, TypeOK, BusTypeOK
        <3>4. \A x \in Range(Append(s, e)) : x \in Range(s) \/ x = e
            BY DEF Range
        <3> QED BY <3>2, <3>3, <3>4
    <2> QED BY <2>2 DEF LanesHoldRank
<1>3. ASSUME NEW l \in QueueId, ProcTake(l) PROVE LanesHoldRank'
    <2>1. ASSUME NEW q \in QueueId PROVE \A x \in Range(bus'[q]) : x \in Range(bus[q])
        <3>1. PICK s \in Seq(Event) : s = bus[q]
            BY DEF TypeOK, BusTypeOK
        <3>2. bus'[q] = s \/ (s # <<>> /\ bus'[q] = Tail(s))
            BY <1>3, <3>1 DEF ProcTake, Pop, TypeOK, BusTypeOK
        <3>3. s # <<>> => \A x \in Range(Tail(s)) : x \in Range(s)
            BY DEF Range
        <3> QED BY <3>1, <3>2, <3>3
    <2> QED BY <2>1 DEF LanesHoldRank
<1>4. CASE Thread
    <2>1. UNCHANGED bus \/ \E l \in QueueId : ProcTake(l)
        BY <1>4 DEF Thread, ProcThread, ProcLoopTest, ProcPopRealtime, ProcPopTransactional,
            ProcPopBatch, ProcMiss, PopTimesOut, QueueId
    <2> QED BY <1>1, <1>3, <2>1
<1>5. CASE Owner \/ (\E w \in Worker : WorkerThread(w)) \/ UNCHANGED vars
    BY <1>1, <1>5 DEF Owner, WorkerThread, vars
<1> QED BY <1>2, <1>4, <1>5 DEF Next

LEMMA OrderStep ==
    SingleWorker => (TypeOK /\ TypeOK' /\ LanesHoldRank /\ OrderKept /\ [Next]_vars => OrderKept')
<1> SUFFICES ASSUME SingleWorker, TypeOK, TypeOK', LanesHoldRank, OrderKept, [Next]_vars
             PROVE  OrderKept'
    OBVIOUS
<1>1. ASSUME UNCHANGED <<bus, pevt, workerPool, poolVars, storageVars, fresh, history>>
      PROVE  OrderKept'
    <2>1. UNCHANGED <<stored, failed, tasks, wtask>>
        BY <1>1 DEF poolVars, storageVars
    <2>2. Storing' = Storing
        BY <2>1 DEF Storing
    <2>3. \A q \in QueueId : Pipeline(q)' = Pipeline(q)
        BY <1>1, <2>1, <2>2 DEF Pipeline
    <2> QED BY <1>1, <2>1, <2>3, PipelinesSame DEF OrderKept
<1>2. CASE Owner \/ UNCHANGED vars
    BY <1>1, <1>2 DEF Owner, ProcStart, ProcStopFlag, ProcJoin, vars, procVars
<1>3. ASSUME NEW e \in Event, Produce(e) PROVE OrderKept'
    BY <1>3, ProduceKeepsOrder
<1>4. CASE Thread
    <2>1. ASSUME NEW l \in QueueId, ProcTake(l), ppc # "submit",
                 UNCHANGED <<poolVars, storageVars>>
          PROVE  OrderKept'
        <3>1. pevt = NoEvent
            BY <2>1 DEF TypeOK, ProcTypeOK
        <3> QED BY <1>4, <2>1, <3>1, TakeKeepsOrder DEF LanesHoldRank
    <2>2. CASE ProcSubmit /\ UNCHANGED <<bus, storageVars>>
        BY <1>4, <2>2, SubmitKeepsOrder
    <2>3. CASE ProcStore /\ UNCHANGED <<bus, poolVars>>
        BY <1>4, <2>3, StoreKeepsOrder
    <2>4. CASE UNCHANGED <<bus, pevt, workerPool, poolVars, storageVars>>
        BY <1>1, <1>4, <2>4 DEF Thread
    <2>5. \/ ProcSubmit /\ UNCHANGED <<bus, storageVars>>
          \/ ProcStore /\ UNCHANGED <<bus, poolVars>>
          \/ UNCHANGED <<bus, pevt, workerPool, poolVars, storageVars>>
          \/ /\ UNCHANGED <<poolVars, storageVars>> /\ ppc # "submit"
             /\ \E l \in QueueId : ProcTake(l)
        BY <1>4 DEF Thread, ProcThread, ProcLoopTest, ProcPopRealtime, ProcPopTransactional,
            ProcPopBatch, ProcMiss, PopTimesOut, QueueId
    <2> QED BY <2>1, <2>2, <2>3, <2>4, <2>5
<1>5. ASSUME NEW w \in Worker, WorkerThread(w) PROVE OrderKept'
    BY <1>5, WorkerKeepsOrder
<1> QED BY <1>2, <1>3, <1>4, <1>5 DEF Next

\* With one worker, or none, the events of a lane reach the file in the order in
\* which they were produced, none of them twice and none missing but those whose
\* write failed: whatever fails, and however often the processor is stopped and
\* started again.
THEOREM FileKeepsOrder == SingleWorker => (Spec => []StoredInOrder)
<1>1. Init => LanesHoldRank
    BY DEF Init, BusInit, LanesHoldRank, Range
<1>2. OrderKept => StoredInOrder
    BY DEF OrderKept
<1> SUFFICES ASSUME SingleWorker PROVE Spec => []StoredInOrder
    OBVIOUS
<1>3. TypeOK /\ TypeOK' /\ LanesHoldRank /\ OrderKept /\ [Next]_vars => OrderKept'
    BY OrderStep
<1> QED BY <1>1, <1>2, <1>3, OrderInit, LanesHoldRankStep, TypeCorrect, PTL DEF Spec
=============================================================================
