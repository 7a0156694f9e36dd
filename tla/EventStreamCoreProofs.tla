----------------------- MODULE EventStreamCoreProofs -----------------------
(***************************************************************************)
(* Proofs about the whole program, for any clients, frames, topic table,   *)
(* capacities, retries and workers.                                        *)
(***************************************************************************)
EXTENDS EventStreamCore, PipelineProofs

USE EventAssumption

-----------------------------------------------------------------------------
(* Types *)

LEMMA TcpInitType == TcpInit => TcpTypeOK
<1> SUFFICES ASSUME TcpInit PROVE TcpTypeOK
    OBVIOUS
<1>1. unsent \in [Client -> Seq(Event)]
    BY TcpAssumption DEF TcpInit
<1>2. client_buf \in [Client -> Seq(Event)] /\ \A c \in Client : client_buf[c] = <<>>
    BY DEF TcpInit
<1> QED BY <1>1, <1>2 DEF TcpInit, TcpTypeOK, ClientPC

\* The calls of main and the steps of the accept thread keep the types of the
\* server.
LEMMA TcpMainType ==
    ASSUME TcpTypeOK,
           TcpStart \/ TcpStartThrows \/ TcpStopFlag \/ TcpStopClose \/ TcpJoinAccept \/ TcpJoinClients
               \/ AcceptThread
    PROVE  TcpTypeOK'
<1> QED BY DEF TcpTypeOK, ClientPC, tcpVars, TcpStart, TcpStartThrows, TcpStopFlag, TcpStopClose,
        TcpJoinAccept, TcpJoinClients, AcceptThread, AcceptTest, AcceptFails, Accept

\* What clients do, likewise.
LEMMA ClientOutsideType ==
    ASSUME TcpTypeOK, NEW c \in Client, ClientOutside(c)
    PROVE  TcpTypeOK'
<1>1. CASE Connect(c) \/ Disconnect(c)
    BY <1>1 DEF TcpTypeOK, ClientPC, Connect, Disconnect
<1>2. ASSUME NEW n \in 0 .. Len(unsent[c]), Receive(c, n) PROVE TcpTypeOK'
    <2>1. unsent[c] \in Seq(Event)
        BY DEF TcpTypeOK
    <2>2. /\ SubSeq(unsent[c], 1, n) \in Seq(Event)
          /\ SubSeq(unsent[c], n + 1, Len(unsent[c])) \in Seq(Event)
        BY <2>1
    <2> QED BY <1>2, <2>2 DEF TcpTypeOK, ClientPC, Receive
<1> QED BY <1>1, <1>2 DEF ClientOutside

\* The thread of a connection keeps the types of the server and the dispatcher.
LEMMA ClientThreadType ==
    ASSUME TcpTypeOK, DispatcherTypeOK, NEW c \in Client, ClientThread(c)
    PROVE  TcpTypeOK' /\ DispatcherTypeOK'
<1>0. client_buf[c] \in Seq(Event)
    BY DEF TcpTypeOK
<1>1. client_buf[c] # <<>> =>
          Head(client_buf[c]) \in Event /\ Tail(client_buf[c]) \in Seq(Event)
    BY <1>0
<1>2. Range(client_buf[c]) \subseteq Event
    BY <1>0 DEF Range
<1>3. CASE (ClientTest(c) \/ FramesDone(c) \/ SkipFrame(c) \/ CloseOversized(c))
           /\ UNCHANGED dispatcherVars
    <2>1. DispatcherTypeOK'
        BY <1>3 DEF DispatcherTypeOK, dispatcherVars
    <2>2. CASE ClientTest(c) \/ FramesDone(c)
        BY <2>1, <2>2 DEF TcpTypeOK, ClientPC, ClientTest, FramesDone
    <2>3. CASE SkipFrame(c)
        BY <1>1, <2>1, <2>3 DEF TcpTypeOK, SkipFrame
    <2>4. CASE CloseOversized(c)
        <3>1. unparsed' \subseteq Event
            BY <1>2, <2>4 DEF TcpTypeOK, CloseOversized
        <3> QED BY <2>1, <2>4, <3>1 DEF TcpTypeOK, ClientPC, CloseOversized
    <2> QED BY <1>3, <2>2, <2>3, <2>4
<1>4. CASE HandleFrame(c)
    <2>1. DispatcherTypeOK'
        BY <1>1, <1>4, TryPushType DEF HandleFrame
    <2> QED BY <1>1, <1>4, <2>1 DEF TcpTypeOK, HandleFrame
<1> QED BY <1>3, <1>4 DEF ClientThread

LEMMA TypeOKInit == Init => TypeOK
<1> SUFFICES ASSUME Init PROVE TypeOK
    OBVIOUS
<1> USE DEF Init
<1>1. BusTypeOK
    BY BusAssumption DEF BusTypeOK, BusInit
<1>2. DispatcherTypeOK
    BY DispatcherInitType
<1>3. TcpTypeOK
    BY TcpInitType
<1>4. ProcTypeOK
    BY DEF ProcTypeOK, ProcInit
<1>5. PoolTypeOK
    BY DEF PoolTypeOK, PoolInit
<1>6. StorageTypeOK
    BY DEF StorageTypeOK, StorageInit
<1> QED BY <1>1, <1>2, <1>3, <1>4, <1>5, <1>6 DEF TypeOK, MainPC

\* A component that a step leaves alone keeps its types.
LEMMA UnchangedTypes ==
    /\ BusTypeOK /\ UNCHANGED bus => BusTypeOK'
    /\ DispatcherTypeOK /\ UNCHANGED dispatcherVars => DispatcherTypeOK'
    /\ TcpTypeOK /\ UNCHANGED tcpVars => TcpTypeOK'
    /\ ProcTypeOK /\ UNCHANGED procVars => ProcTypeOK'
    /\ PoolTypeOK /\ UNCHANGED poolVars => PoolTypeOK'
    /\ StorageTypeOK /\ UNCHANGED storageVars => StorageTypeOK'
<1>1. BusTypeOK /\ UNCHANGED bus => BusTypeOK'
    BY DEF BusTypeOK
<1>2. DispatcherTypeOK /\ UNCHANGED dispatcherVars => DispatcherTypeOK'
    BY DEF DispatcherTypeOK, dispatcherVars
<1>3. TcpTypeOK /\ UNCHANGED tcpVars => TcpTypeOK'
    BY DEF TcpTypeOK, tcpVars
<1>4. ProcTypeOK /\ UNCHANGED procVars => ProcTypeOK'
    BY DEF ProcTypeOK, procVars
<1>5. PoolTypeOK /\ UNCHANGED poolVars => PoolTypeOK'
    BY DEF PoolTypeOK, poolVars
<1>6. StorageTypeOK /\ UNCHANGED storageVars => StorageTypeOK'
    BY DEF StorageTypeOK, storageVars
<1> QED BY <1>1, <1>2, <1>3, <1>4, <1>5, <1>6

LEMMA MainTypes ==
    /\ mpc \in MainPC /\ g_running \in BOOLEAN /\ alive \subseteq Component
    /\ [Next]_vars
    => mpc' \in MainPC /\ g_running' \in BOOLEAN /\ alive' \subseteq Component
<1> SUFFICES ASSUME mpc \in MainPC, g_running \in BOOLEAN, alive \subseteq Component,
                    [Next]_vars
             PROVE  mpc' \in MainPC /\ g_running' \in BOOLEAN /\ alive' \subseteq Component
    OBVIOUS
<1>1. CASE Main
    BY <1>1 DEF Main, MainDispatcher, MainProcessor, MainServer, MainPool, MainOther,
        Step, Destroy, MainPC
<1>2. CASE Signal
    BY <1>2 DEF Signal
<1>3. CASE UNCHANGED mainVars
    BY <1>3 DEF mainVars
<1> QED BY <1>1, <1>2, <1>3
        DEF Next, vars, Accepting, Dispatching, Processing, Handling, Outside, Working, Returning

LEMMA TypeOKStep == TypeOK /\ [Next]_vars => TypeOK'
<1> SUFFICES ASSUME TypeOK, [Next]_vars PROVE TypeOK'
    OBVIOUS
<1> USE DEF TypeOK
<1>0. mpc' \in MainPC /\ g_running' \in BOOLEAN /\ alive' \subseteq Component
    BY MainTypes
<1>1. CASE Signal
    BY <1>0, <1>1, UnchangedTypes DEF Signal
<1>2. CASE Main
    <2>1. CASE MainDispatcher
        BY <1>0, <2>1, UnchangedTypes, DispatcherLifeType DEF MainDispatcher
    <2>2. CASE MainProcessor
        <3>1. ProcTypeOK'
            BY <2>2 DEF MainProcessor, ProcStart, ProcStartThrows, ProcStopFlag, ProcJoin, ProcTypeOK
        <3> QED BY <1>0, <2>2, <3>1, UnchangedTypes DEF MainProcessor
    <2>3. CASE MainServer
        BY <1>0, <2>3, UnchangedTypes, TcpMainType DEF MainServer
    <2>4. CASE MainPool
        <3>1. Range(tasks) \subseteq Event
            BY DEF PoolTypeOK, Range
        <3>2. ShutdownFlag => PoolTypeOK'
            BY DEF ShutdownFlag, PoolTypeOK
        <3>3. ShutdownClear => PoolTypeOK'
            BY <3>1 DEF ShutdownClear, PoolTypeOK
        <3> QED BY <1>0, <2>4, <3>2, <3>3, UnchangedTypes DEF MainPool
    <2>5. CASE MainOther
        BY <1>0, <2>5, UnchangedTypes DEF MainOther
    <2> QED BY <1>2, <2>1, <2>2, <2>3, <2>4, <2>5 DEF Main
<1>3. CASE Accepting
    BY <1>0, <1>3, UnchangedTypes, TcpMainType DEF Accepting
<1>4. CASE Dispatching
    BY <1>0, <1>4, UnchangedTypes, DispatcherThreadType DEF Dispatching
<1>5. CASE Processing
    BY <1>0, <1>5, UnchangedTypes, ProcThreadType DEF Processing
<1>6. ASSUME NEW c \in Client, Handling(c) PROVE TypeOK'
    BY <1>0, <1>6, UnchangedTypes, ClientThreadType DEF Handling
<1>7. ASSUME NEW c \in Client, Outside(c) PROVE TypeOK'
    BY <1>0, <1>7, UnchangedTypes, ClientOutsideType DEF Outside
<1>8. ASSUME NEW w \in Worker, Working(w) \/ Returning(w) PROVE TypeOK'
    <2>1. PoolTypeOK' /\ StorageTypeOK'
        BY <1>8, WorkerType DEF Working, Returning, RunTask
    <2> QED BY <1>0, <1>8, <2>1, UnchangedTypes DEF Working, Returning
<1>9. CASE UNCHANGED vars
    BY <1>0, <1>9, UnchangedTypes DEF vars
<1> QED BY <1>1, <1>2, <1>3, <1>4, <1>5, <1>6, <1>7, <1>8, <1>9 DEF Next

\* In every reachable state of the program every variable holds a value of
\* its type; in particular no queue exceeds its capacity.
THEOREM TypeCorrect == Spec => []TypeOK
<1> QED BY TypeOKInit, TypeOKStep, PTL DEF Spec

-----------------------------------------------------------------------------
(* The life of the components *)

ServerStarting == {"startDispatcher", "startProcessor", "startServer"}

\* Places of main after a component's threads have been joined, or the
\* listening socket closed.
AfterPool == {"storage", "dispatcherFlag", "dispatcherJoin", "bus", "exit"}
AfterProcessor == {"poolFlag", "poolJoin"} \cup AfterPool
AfterServer == {"processorFlag", "processorJoin"} \cup AfterProcessor
AfterAccept == {"serverJoinClients"} \cup AfterServer
AfterClose == {"serverJoinAccept"} \cup AfterAccept

\* The components that are destroyed when main is at pc.
DestroyedAt(pc) ==
    CASE pc \in {"processorFlag", "processorJoin"}   -> {"server"}
      [] pc \in {"poolFlag", "poolJoin"}             -> {"server", "processor"}
      [] pc = "storage"                              -> {"server", "processor", "pool"}
      [] pc \in {"dispatcherFlag", "dispatcherJoin"} ->
             {"server", "processor", "pool", "storage"}
      [] pc = "bus"                                  -> Component \ {"bus"}
      [] pc = "exit"                                 -> Component
      [] OTHER                                       -> {}

\* Threads exist only between the start of their component and its join.
Lives ==
    /\ alive = Component \ DestroyedAt(mpc)
    /\ mpc \in ServerStarting =>
           ~listening /\ apc = "none" /\ \A c \in Client : cpc[c] = "away"
    /\ mpc \in AfterClose => ~listening
    /\ mpc \in AfterAccept => apc = "none"
    /\ mpc \in AfterServer => \A c \in Client : cpc[c] \in {"away", "backlog", "gone"}
    /\ mpc \in AfterProcessor => ppc = "none"
    /\ mpc \in AfterPool => \A w \in Worker : wpc[w] = "exit"
    /\ mpc \in {"bus", "exit"} => dpc = "none"

LEMMA LivesInit == Init => Lives
<1> QED BY DEF Init, TcpInit, Lives, DestroyedAt, ServerStarting, AfterPool, AfterProcessor,
        AfterServer, AfterAccept, AfterClose

\* main joins the threads of a component before it destroys it.
LEMMA MainKeepsLives ==
    ASSUME TypeOK, Lives, Main
    PROVE  Lives'
<1> USE DEF TypeOK, Lives, Step, Destroy, DestroyedAt, ServerStarting, AfterPool,
        AfterProcessor, AfterServer, AfterAccept, AfterClose, Component
<1>1. CASE MainDispatcher
    BY <1>1 DEF MainDispatcher, tcpVars, procVars, poolVars, DispatcherStart,
        DispatcherStartThrows,
        DispatcherStopFlag, DispatcherJoin
<1>2. CASE MainProcessor
    BY <1>2 DEF MainProcessor, dispatcherVars, tcpVars, poolVars, ProcStart,
        ProcStartThrows, ProcStopFlag, ProcJoin
<1>3. CASE MainServer
    BY <1>3 DEF MainServer, dispatcherVars, procVars, poolVars, TcpStart, TcpStartThrows, TcpStopFlag,
        TcpStopClose, TcpJoinAccept, TcpJoinClients, tcpVars
<1>4. CASE MainPool
    BY <1>4 DEF MainPool, dispatcherVars, tcpVars, procVars, ShutdownFlag, ShutdownClear
<1>5. CASE MainOther
    BY <1>5 DEF MainOther, dispatcherVars, tcpVars, procVars, poolVars
<1> QED BY <1>1, <1>2, <1>3, <1>4, <1>5 DEF Main

\* A joined thread takes no step, and no step starts a thread but main's and
\* the accept thread's.
LEMMA ThreadsKeepLives ==
    ASSUME TypeOK, Lives, [Next]_vars, ~Main
    PROVE  Lives'
<1> USE DEF TypeOK, Lives, mainVars
<1>1. CASE Signal
    BY <1>1 DEF Signal, dispatcherVars, tcpVars, procVars, poolVars
<1>2. CASE Accepting
    \* The accept thread exists only outside ServerStarting and AfterAccept.
    BY <1>2 DEF Accepting, AcceptThread, AcceptTest, AcceptFails, Accept, dispatcherVars,
        procVars, poolVars, ServerStarting, AfterPool, AfterProcessor, AfterServer, AfterAccept,
        AfterClose
<1>3. CASE Dispatching
    BY <1>3 DEF Dispatching, DispatcherThread, DispatchLoopTest, TryPop, TryPopFails, Route,
        DispatchPush, DispatchRetry, DispatchDrop, tcpVars, procVars, poolVars
<1>4. CASE Processing
    <2>1. mpc \notin AfterProcessor
        BY <1>4 DEF Processing, ProcThread, ProcLoopTest, ProcPopRealtime,
            ProcPopTransactional, ProcPopBatch, ProcSubmit, ProcStore, ProcHandOff
    <2>2. UNCHANGED wpc
        BY <1>4 DEF Processing, ProcThread, ProcSubmit, Submit, poolVars
    <2> QED BY <1>4, <2>1, <2>2 DEF Processing, dispatcherVars, tcpVars, AfterProcessor
<1>5. ASSUME NEW c \in Client, Handling(c) PROVE Lives'
    <2>1. mpc \notin AfterServer \cup ServerStarting
        BY <1>5 DEF Handling, ClientThread, ClientTest, FramesDone, SkipFrame,
            CloseOversized, HandleFrame, TcpTypeOK
    <2>2. UNCHANGED <<listening, apc, dpc>>
        BY <1>5 DEF Handling, ClientThread, ClientTest, FramesDone, SkipFrame,
            CloseOversized, HandleFrame, TryPush, TryPushFails, dispatcherVars
    <2> QED BY <1>5, <2>1, <2>2 DEF Handling, procVars, poolVars, AfterServer, AfterAccept, AfterClose
<1>6. ASSUME NEW c \in Client, Outside(c) PROVE Lives'
    <2>1. UNCHANGED <<listening, apc, dpc, ppc, wpc, mpc, alive>>
        BY <1>6 DEF Outside, ClientOutside, Connect, Receive, Disconnect, dispatcherVars,
            procVars, poolVars
    <2>2. mpc \notin ServerStarting
        BY <1>6 DEF Outside, ClientOutside, Connect, Receive, Disconnect
    <2>3. mpc \in AfterServer => \A d \in Client : cpc'[d] \in {"away", "backlog", "gone"}
        BY <1>6 DEF Outside, ClientOutside, Connect, Receive, Disconnect, TcpTypeOK
    <2> QED BY <2>1, <2>2, <2>3
<1>7. ASSUME NEW w \in Worker, Working(w) \/ Returning(w) PROVE Lives'
    <2>1. mpc \in AfterPool => \A v \in Worker : wpc'[v] = "exit"
        BY <1>7 DEF Working, Returning, WorkerCheck, WorkerTake, RunTask, WorkerFinish,
            WorkerReturn, PoolTypeOK
    <2> QED BY <1>7, <2>1 DEF Working, Returning, dispatcherVars, tcpVars, procVars
<1>8. CASE UNCHANGED vars
    BY <1>8 DEF vars, dispatcherVars, tcpVars, procVars, poolVars
<1> QED BY <1>1, <1>2, <1>3, <1>4, <1>5, <1>6, <1>7, <1>8 DEF Next

LEMMA LivesHolds == Spec => []Lives
<1>1. TypeOK /\ Lives /\ [Next]_vars => Lives'
    BY MainKeepsLives, ThreadsKeepLives
<1> QED BY <1>1, LivesInit, TypeCorrect, PTL DEF Spec

\* When the destructor of a component has returned, no thread is left that
\* uses the component, but for the tasks that use the processor.
THEOREM NothingUsedAfterDestroy == Spec => []NoUseAfterDestroy
<1>1. TypeOK /\ Lives => NoUseAfterDestroy
    BY DEF TypeOK, Lives, NoUseAfterDestroy, UserActive, DestroyedAt, Component, MainPC,
        AfterPool, AfterProcessor, AfterServer, AfterAccept, PoolTypeOK
<1> QED BY <1>1, LivesHolds, TypeCorrect, PTL

-----------------------------------------------------------------------------
(* Ranks *)

LEMMA RanksStep ==
    TypeOK /\ HeadersRanked /\ LanesHoldTheirRank /\ [Next]_vars
    => HeadersRanked' /\ LanesHoldTheirRank'
<1> SUFFICES ASSUME TypeOK, HeadersRanked, LanesHoldTheirRank, [Next]_vars
             PROVE  HeadersRanked' /\ LanesHoldTheirRank'
    OBVIOUS
<1>1. ASSUME UNCHANGED <<bus, dispatcherVars>>
      PROVE  HeadersRanked' /\ LanesHoldTheirRank'
    BY <1>1 DEF dispatcherVars, HeadersRanked, LanesHoldTheirRank, FrameLane
<1>2. CASE MainDispatcher
    BY <1>2, CallersKeepRanks DEF MainDispatcher
<1>3. CASE Dispatching
    BY <1>3, DispatcherThreadRanks DEF Dispatching, TypeOK
<1>4. CASE Processing
    <2>1. ASSUME NEW q \in QueueId, ProcTake(q) PROVE LanesHoldTheirRank'
        BY <1>4, <2>1, PopKeepsRanks DEF Processing, ProcTake, dispatcherVars, TypeOK
    <2>2. ASSUME UNCHANGED bus PROVE LanesHoldTheirRank'
        BY <1>1, <1>4, <2>2 DEF Processing
    <2>3. LanesHoldTheirRank'
        BY <1>4, <2>1, <2>2 DEF Processing, ProcThread, ProcLoopTest, ProcPopRealtime,
            ProcPopTransactional, ProcPopBatch, ProcMiss, PopTimesOut, QueueId
    <2> QED BY <1>4, <2>3 DEF Processing, dispatcherVars, HeadersRanked
<1>5. ASSUME NEW c \in Client, Handling(c) PROVE HeadersRanked' /\ LanesHoldTheirRank'
    <2>1. CASE HandleFrame(c)
        <3>1. Head(client_buf[c]) \in Event
            BY <2>1 DEF HandleFrame, TypeOK, TcpTypeOK
        <3> QED BY <1>5, <2>1, <3>1, CallersKeepRanks DEF Handling, HandleFrame
    <2>2. CASE UNCHANGED dispatcherVars
        BY <1>1, <1>5, <2>2 DEF Handling
    <2> QED BY <1>5, <2>1, <2>2 DEF Handling, ClientThread
<1> QED BY <1>1, <1>2, <1>3, <1>4, <1>5 DEF Next, vars, Signal, Main, MainProcessor,
        MainServer, MainPool, MainOther, Accepting, Outside, Working, Returning

\* Whatever the clients ask for and whatever the table says, an event on a
\* lane has the rank that both allow.
THEOREM RanksHold == Spec => []LanesHoldTheirRank
<1>1. Init => HeadersRanked /\ LanesHoldTheirRank
    BY DEF Init, BusInit, DispatcherInit, HeadersRanked, LanesHoldTheirRank, Range, QueueId
<1> QED BY <1>1, RanksStep, TypeCorrect, PTL DEF Spec

-----------------------------------------------------------------------------
(* Every event in one place *)

\* The variables that make up the places.
placeVars == <<unsent, client_buf, bus, inbound, devt, pevt, tasks, wtask, unparsed,
               rejected, dropped, stored, failed, discarded>>

LEMMA PlaceIs ==
    ASSUME NEW p \in Place
    PROVE  \/ \E c \in Client : p = <<"unsent", c>> \/ p = <<"client_buf", c>>
           \/ \E q \in QueueId : p = <<"bus", q>>
           \/ \E w \in Worker : p = <<"wtask", w>>
           \/ p = <<"inbound">> \/ p = <<"devt">> \/ p = <<"pevt">> \/ p = <<"tasks">>
           \/ p = <<"unparsed">> \/ p = <<"rejected">> \/ p = <<"dropped">>
           \/ p = <<"stored">> \/ p = <<"failed">> \/ p = <<"discarded">>
<1> QED BY DEF Place

LEMMA AtIs ==
    /\ \A c \in Client : At(<<"unsent", c>>) = Range(unsent[c])
                         /\ At(<<"client_buf", c>>) = Range(client_buf[c])
    /\ \A q \in QueueId : At(<<"bus", q>>) = Range(bus[q])
    /\ \A w \in Worker : At(<<"wtask", w>>) = {wtask[w]}
    /\ At(<<"inbound">>) = Range(inbound) /\ At(<<"devt">>) = {devt}
    /\ At(<<"pevt">>) = {pevt} /\ At(<<"tasks">>) = Range(tasks)
    /\ At(<<"unparsed">>) = unparsed /\ At(<<"rejected">>) = rejected
    /\ At(<<"dropped">>) = dropped /\ At(<<"stored">>) = Range(stored)
    /\ At(<<"failed">>) = failed /\ At(<<"discarded">>) = discarded
<1> QED BY DEF At

LEMMA AtIsNext ==
    /\ \A c \in Client : At(<<"unsent", c>>)' = Range(unsent'[c])
                         /\ At(<<"client_buf", c>>)' = Range(client_buf'[c])
    /\ \A q \in QueueId : At(<<"bus", q>>)' = Range(bus'[q])
    /\ \A w \in Worker : At(<<"wtask", w>>)' = {wtask'[w]}
    /\ At(<<"inbound">>)' = Range(inbound') /\ At(<<"devt">>)' = {devt'}
    /\ At(<<"pevt">>)' = {pevt'} /\ At(<<"tasks">>)' = Range(tasks')
    /\ At(<<"unparsed">>)' = unparsed' /\ At(<<"rejected">>)' = rejected'
    /\ At(<<"dropped">>)' = dropped' /\ At(<<"stored">>)' = Range(stored')
    /\ At(<<"failed">>)' = failed' /\ At(<<"discarded">>)' = discarded'
<1> QED BY DEF At

\* A step that takes the events S from place p to place r, and moves nothing else.
Moves(S, p, r) ==
    /\ \A e \in S : e \in At(p)
    /\ \A e \in Event : e \in At(p)' <=> e \in At(p) /\ e \notin S
    /\ \A e \in Event : e \in At(r)' <=> e \in At(r) \/ e \in S
    /\ \A s \in Place \ {p, r} : \A e \in Event : e \in At(s)' <=> e \in At(s)

LEMMA MoveKeepsOnePlace ==
    ASSUME InOnePlace, NEW p \in Place, NEW r \in Place, p # r, NEW S, Moves(S, p, r)
    PROVE  InOnePlace'
<1> SUFFICES ASSUME NEW e \in Event
             PROVE  \E x \in Place : e \in At(x)' /\ \A y \in Place \ {x} : e \notin At(y)'
    BY DEF InOnePlace, Place
<1>1. PICK x \in Place : e \in At(x) /\ \A y \in Place \ {x} : e \notin At(y)
    BY DEF InOnePlace
<1>2. CASE e \in S
    <2>1. e \in At(r)' /\ \A y \in Place \ {r} : e \notin At(y)'
        BY <1>1, <1>2 DEF Moves
    <2> QED BY <2>1
<1>3. CASE e \notin S
    <2>1. e \in At(x)' /\ \A y \in Place \ {x} : e \notin At(y)'
        BY <1>1, <1>3 DEF Moves
    <2> QED BY <2>1
<1> QED BY <1>2, <1>3

\* Queues as sets of events: an event put at the back, taken from the front,
\* and a queue cut in two.
LEMMA EmptyQueue == IsInjective(<<>>) /\ \A e : e \notin Range(<<>>)
<1> QED BY DEF IsInjective, Range

LEMMA BackOfQueue ==
    ASSUME NEW s \in Seq(Event), IsInjective(s), NEW x \in Event, x \notin Range(s)
    PROVE  /\ IsInjective(Append(s, x))
           /\ \A e : e \in Range(Append(s, x)) <=> e \in Range(s) \/ e = x
<1>1. /\ DOMAIN s = 1 .. Len(s)
      /\ DOMAIN Append(s, x) = 1 .. Len(s) + 1
      /\ \A i \in 1 .. Len(s) : Append(s, x)[i] = s[i] /\ s[i] # x
      /\ Append(s, x)[Len(s) + 1] = x
    BY DEF Range
<1>2. IsInjective(Append(s, x))
    BY <1>1 DEF IsInjective
<1>3. ASSUME NEW e, e \in Range(s) PROVE e \in Range(Append(s, x))
    BY <1>1, <1>3 DEF Range
<1>4. x \in Range(Append(s, x))
    BY <1>1 DEF Range
<1>5. ASSUME NEW e, e \in Range(Append(s, x)) PROVE e \in Range(s) \/ e = x
    BY <1>1, <1>5 DEF Range
<1> QED BY <1>2, <1>3, <1>4, <1>5

LEMMA FrontOfQueue ==
    ASSUME NEW s \in Seq(Event), IsInjective(s), s # <<>>
    PROVE  /\ Head(s) \in Event /\ Tail(s) \in Seq(Event) /\ IsInjective(Tail(s))
           /\ Head(s) \in Range(s)
           /\ \A e : e \in Range(Tail(s)) <=> e \in Range(s) /\ e # Head(s)
<1>1. /\ DOMAIN s = 1 .. Len(s) /\ Len(s) >= 1
      /\ Tail(s) \in Seq(Event) /\ Head(s) = s[1] /\ Head(s) \in Event
      /\ DOMAIN Tail(s) = 1 .. Len(s) - 1
      /\ \A i \in 1 .. Len(s) - 1 : Tail(s)[i] = s[i + 1]
    OBVIOUS
<1>2. IsInjective(Tail(s))
    BY <1>1 DEF IsInjective
<1>3. Head(s) \in Range(s)
    BY <1>1 DEF Range
<1>4. ASSUME NEW e, e \in Range(Tail(s)) PROVE e \in Range(s) /\ e # Head(s)
    BY <1>1, <1>4 DEF Range, IsInjective
<1>5. ASSUME NEW e, e \in Range(s), e # Head(s) PROVE e \in Range(Tail(s))
    <2>1. PICK i \in 1 .. Len(s) : e = s[i]
        BY <1>1, <1>5 DEF Range
    <2>2. i - 1 \in 1 .. Len(s) - 1 /\ Tail(s)[i - 1] = e
        BY <1>1, <1>5, <2>1
    <2> QED BY <1>1, <2>2 DEF Range
<1> QED BY <1>1, <1>2, <1>3, <1>4, <1>5

LEMMA CutQueue ==
    ASSUME NEW s \in Seq(Event), IsInjective(s), NEW n \in 0 .. Len(s)
    PROVE  /\ IsInjective(SubSeq(s, 1, n)) /\ IsInjective(SubSeq(s, n + 1, Len(s)))
           /\ \A e : e \in Range(SubSeq(s, n + 1, Len(s)))
                     <=> e \in Range(s) /\ e \notin Range(SubSeq(s, 1, n))
           /\ \A e \in Range(SubSeq(s, 1, n)) : e \in Range(s)
<1> DEFINE f == SubSeq(s, 1, n)
           b == SubSeq(s, n + 1, Len(s))
<1>1. /\ DOMAIN s = 1 .. Len(s) /\ Len(s) \in Nat
      /\ DOMAIN f = 1 .. n /\ \A i \in 1 .. n : f[i] = s[i]
      /\ DOMAIN b = 1 .. Len(s) - n /\ \A i \in 1 .. Len(s) - n : b[i] = s[i + n]
    OBVIOUS
<1> HIDE DEF f, b
<1>2. IsInjective(f)
    <2>1. \A i \in 1 .. n : i \in DOMAIN s
        BY <1>1
    <2> QED BY <1>1, <2>1 DEF IsInjective
<1>3. IsInjective(b)
    <2>1. \A i \in 1 .. Len(s) - n : i + n \in DOMAIN s
        BY <1>1
    <2> SUFFICES ASSUME NEW i \in 1 .. Len(s) - n, NEW j \in 1 .. Len(s) - n, b[i] = b[j]
                 PROVE  i = j
        BY <1>1 DEF IsInjective
    <2>2. i + n = j + n
        BY <1>1, <2>1 DEF IsInjective
    <2> QED BY <2>2
<1>4. ASSUME NEW e, e \in Range(b) PROVE e \in Range(s) /\ e \notin Range(f)
    <2>1. PICK i \in 1 .. Len(s) - n : e = s[i + n]
        BY <1>1, <1>4 DEF Range
    <2>2. i + n \in 1 .. Len(s) /\ \A j \in 1 .. n : f[j] # e
        BY <1>1, <2>1 DEF IsInjective
    <2> QED BY <1>1, <2>1, <2>2 DEF Range
<1>5. ASSUME NEW e, e \in Range(s), e \notin Range(f) PROVE e \in Range(b)
    <2>1. PICK i \in 1 .. Len(s) : e = s[i]
        BY <1>1, <1>5 DEF Range
    <2>2. i > n
        BY <1>1, <1>5, <2>1 DEF Range
    <2>3. i - n \in 1 .. Len(s) - n /\ b[i - n] = e
        BY <1>1, <2>1, <2>2
    <2> QED BY <1>1, <2>3 DEF Range
<1>6. ASSUME NEW e \in Range(f) PROVE e \in Range(s)
    BY <1>1 DEF Range
<1>7. /\ \A e : e \in Range(b) <=> e \in Range(s) /\ e \notin Range(f)
      /\ \A e \in Range(f) : e \in Range(s)
    BY <1>4, <1>5, <1>6
<1> QED BY <1>2, <1>3, <1>7 DEF f, b

\* A step that touches no place.
LEMMA PlacesUntouched == OnePlace /\ UNCHANGED placeVars => OnePlace'
<1> SUFFICES ASSUME OnePlace, UNCHANGED placeVars PROVE OnePlace'
    OBVIOUS
<1>1. \A s \in Place : At(s)' = At(s)
    BY PlaceIs DEF At, placeVars
<1>2. NoRepetition'
    BY DEF OnePlace, NoRepetition, placeVars
<1> QED BY <1>1, <1>2 DEF OnePlace, InOnePlace, Place

LEMMA NotElsewhere ==
    ASSUME InOnePlace, NEW p \in Place, NEW r \in Place, p # r, NEW e \in Event, e \in At(p)
    PROVE  e \notin At(r)
<1> QED BY DEF InOnePlace

\* The connections: recv() brings frames, and each becomes an event, is refused,
\* or becomes no event.
LEMMA ReceiveOnePlace ==
    ASSUME TypeOK, OnePlace, NEW c \in Client, Outside(c), NEW n \in 0 .. Len(unsent[c]),
           Receive(c, n)
    PROVE  OnePlace'
<1> DEFINE S == Range(SubSeq(unsent[c], 1, n))
           p == <<"unsent", c>>
           r == <<"client_buf", c>>
<1>1. /\ unsent[c] \in Seq(Event) /\ IsInjective(unsent[c])
      /\ client_buf[c] = <<>> /\ \A e : e \notin Range(client_buf[c])
    BY EmptyQueue DEF TypeOK, TcpTypeOK, OnePlace, NoRepetition, Receive
<1>2. /\ unsent' = [unsent EXCEPT ![c] = SubSeq(unsent[c], n + 1, Len(unsent[c]))]
      /\ client_buf' = [client_buf EXCEPT ![c] = SubSeq(unsent[c], 1, n)]
      /\ unsent'[c] = SubSeq(unsent[c], n + 1, Len(unsent[c]))
      /\ client_buf'[c] = SubSeq(unsent[c], 1, n)
      /\ \A d \in Client \ {c} : unsent'[d] = unsent[d] /\ client_buf'[d] = client_buf[d]
    BY DEF Receive, TypeOK, TcpTypeOK
<1>3. /\ IsInjective(unsent'[c]) /\ IsInjective(client_buf'[c])
      /\ \A e : e \in Range(unsent'[c]) <=> e \in Range(unsent[c]) /\ e \notin S
      /\ \A e \in S : e \in Range(unsent[c])
    <2> DEFINE q == unsent[c]
    <2> HIDE DEF q
    <2>1. /\ IsInjective(SubSeq(q, 1, n)) /\ IsInjective(SubSeq(q, n + 1, Len(q)))
          /\ \A e : e \in Range(SubSeq(q, n + 1, Len(q)))
                    <=> e \in Range(q) /\ e \notin Range(SubSeq(q, 1, n))
          /\ \A e \in Range(SubSeq(q, 1, n)) : e \in Range(q)
        <3> q \in Seq(Event) /\ IsInjective(q) /\ n \in 0 .. Len(q)
            BY <1>1 DEF q
        <3> QED BY CutQueue
    <2> QED BY <1>2, <2>1 DEF q
<1>4. UNCHANGED <<bus, inbound, devt, pevt, tasks, wtask, unparsed, rejected, dropped,
                  stored, failed, discarded>>
    BY DEF Outside, Receive, dispatcherVars, procVars, poolVars, storageVars
<1>5. NoRepetition'
    BY <1>2, <1>3, <1>4 DEF OnePlace, NoRepetition
<1>6. \A s \in Place \ {p, r} : At(s)' = At(s)
    BY <1>2, <1>4, PlaceIs DEF At
<1>7. /\ At(p) = Range(unsent[c]) /\ At(p)' = Range(unsent'[c])
      /\ At(r) = Range(client_buf[c]) /\ At(r)' = S
    BY <1>2 DEF At
<1>8. p \in Place /\ r \in Place /\ p # r
    BY DEF Place
<1> HIDE DEF p, r, S
<1>9. Moves(S, p, r)
    BY <1>1, <1>3, <1>6, <1>7 DEF Moves
<1> QED BY <1>5, <1>8, <1>9, MoveKeepsOnePlace DEF OnePlace

LEMMA HandlingOnePlace ==
    ASSUME TypeOK, OnePlace, NEW c \in Client, Handling(c)
    PROVE  OnePlace'
<1> DEFINE h == Head(client_buf[c])
           p == <<"client_buf", c>>
<1>1. UNCHANGED <<bus, unsent, devt, dropped, pevt, tasks, wtask, stored, failed, discarded>>
    BY DEF Handling, ClientThread, ClientTest, FramesDone, SkipFrame, CloseOversized, HandleFrame,
        TryPush, TryPushFails, dispatcherVars, procVars, poolVars, storageVars
<1>2. p \in Place /\ At(p) = Range(client_buf[c])
    BY DEF Place, At
<1>3. CASE ClientTest(c) \/ FramesDone(c)
    BY <1>1, <1>3, PlacesUntouched
        DEF Handling, ClientThread, ClientTest, FramesDone, SkipFrame, CloseOversized, HandleFrame,
            TryPush, TryPushFails, dispatcherVars, placeVars
<1>4. ASSUME client_buf[c] # <<>>
      PROVE  /\ h \in Event /\ IsInjective(Tail(client_buf[c])) /\ h \in Range(client_buf[c])
             /\ \A e : e \in Range(Tail(client_buf[c])) <=> e \in Range(client_buf[c]) /\ e # h
    BY <1>4, FrontOfQueue DEF TypeOK, TcpTypeOK, OnePlace, NoRepetition
<1>5. ASSUME client_buf[c] # <<>>, client_buf' = [client_buf EXCEPT ![c] = Tail(@)]
      PROVE  /\ client_buf'[c] = Tail(client_buf[c]) /\ At(p)' = Range(Tail(client_buf[c]))
             /\ \A d \in Client \ {c} : client_buf'[d] = client_buf[d]
             /\ \A d \in Client : IsInjective(client_buf'[d])
    <2>1. /\ client_buf'[c] = Tail(client_buf[c])
          /\ \A d \in Client \ {c} : client_buf'[d] = client_buf[d]
        BY <1>5 DEF TypeOK, TcpTypeOK
    <2> QED BY <1>4, <1>5, <2>1 DEF At, OnePlace, NoRepetition
<1>6. CASE SkipFrame(c) /\ UNCHANGED dispatcherVars
    <2> DEFINE r == <<"unparsed">>
    <2>1. /\ client_buf[c] # <<>> /\ client_buf' = [client_buf EXCEPT ![c] = Tail(@)]
          /\ unparsed' = unparsed \cup {h} /\ UNCHANGED <<inbound, rejected>>
        BY <1>6 DEF SkipFrame, dispatcherVars
    <2>2. NoRepetition'
        BY <1>1, <1>5, <2>1 DEF OnePlace, NoRepetition
    <2>3. \A s \in Place \ {p, r} : At(s)' = At(s)
        BY <1>1, <1>5, <2>1, PlaceIs DEF At
    <2>4. r \in Place /\ p # r /\ At(r) = unparsed /\ At(r)' = unparsed'
        BY DEF Place, At
    <2> HIDE DEF p, r, h
    <2>5. Moves({h}, p, r)
        BY <1>2, <1>4, <1>5, <2>1, <2>3, <2>4 DEF Moves
    <2> QED BY <1>2, <2>2, <2>4, <2>5, MoveKeepsOnePlace DEF OnePlace
<1>7. CASE CloseOversized(c) /\ UNCHANGED dispatcherVars
    <2> DEFINE r == <<"unparsed">>
               S == Range(client_buf[c])
    <2>1. /\ client_buf' = [client_buf EXCEPT ![c] = <<>>]
          /\ unparsed' = unparsed \cup S /\ UNCHANGED <<inbound, rejected>>
        BY <1>7 DEF CloseOversized, dispatcherVars
    <2>2. client_buf'[c] = <<>> /\ \A d \in Client \ {c} : client_buf'[d] = client_buf[d]
        BY <2>1 DEF TypeOK, TcpTypeOK
    <2>3. NoRepetition'
        BY <1>1, <2>1, <2>2, EmptyQueue DEF OnePlace, NoRepetition
    <2>4. \A s \in Place \ {p, r} : At(s)' = At(s)
        BY <1>1, <2>1, <2>2, PlaceIs DEF At
    <2>5. r \in Place /\ p # r /\ At(r) = unparsed /\ At(r)' = unparsed' /\ At(p)' = Range(<<>>)
        BY <2>2 DEF Place, At
    <2> HIDE DEF p, r, S
    <2>6. Moves(S, p, r)
        BY <1>2, <2>1, <2>4, <2>5, EmptyQueue DEF Moves, S
    <2> QED BY <1>2, <2>3, <2>5, <2>6, MoveKeepsOnePlace DEF OnePlace
<1>8. CASE HandleFrame(c) /\ TryPush(h)
    <2> DEFINE r == <<"inbound">>
    <2>1. /\ client_buf[c] # <<>> /\ client_buf' = [client_buf EXCEPT ![c] = Tail(@)]
          /\ inbound' = Append(inbound, h) /\ UNCHANGED <<unparsed, rejected>>
        BY <1>8 DEF HandleFrame, TryPush
    <2>2. r \in Place /\ p # r /\ At(r) = Range(inbound) /\ At(r)' = Range(inbound')
        BY DEF Place, At
    <2>3. h \notin Range(inbound)
        BY <1>2, <1>4, <2>1, <2>2, NotElsewhere DEF OnePlace
    <2>4. IsInjective(inbound') /\ \A e : e \in Range(inbound') <=> e \in Range(inbound) \/ e = h
        BY <1>4, <2>1, <2>3, BackOfQueue DEF TypeOK, DispatcherTypeOK, OnePlace, NoRepetition
    <2>5. NoRepetition'
        BY <1>1, <1>5, <2>1, <2>4 DEF OnePlace, NoRepetition
    <2>6. \A s \in Place \ {p, r} : At(s)' = At(s)
        BY <1>1, <1>5, <2>1, PlaceIs DEF At
    <2> HIDE DEF p, r, h
    <2>7. Moves({h}, p, r)
        BY <1>2, <1>4, <1>5, <2>1, <2>2, <2>4, <2>6 DEF Moves
    <2> QED BY <1>2, <2>2, <2>5, <2>7, MoveKeepsOnePlace DEF OnePlace
<1>9. CASE HandleFrame(c) /\ TryPushFails(h)
    <2> DEFINE r == <<"rejected">>
    <2>1. /\ client_buf[c] # <<>> /\ client_buf' = [client_buf EXCEPT ![c] = Tail(@)]
          /\ rejected' = rejected \cup {h} /\ UNCHANGED <<unparsed, inbound>>
        BY <1>9 DEF HandleFrame, TryPushFails
    <2>2. NoRepetition'
        BY <1>1, <1>5, <2>1 DEF OnePlace, NoRepetition
    <2>3. \A s \in Place \ {p, r} : At(s)' = At(s)
        BY <1>1, <1>5, <2>1, PlaceIs DEF At
    <2>4. r \in Place /\ p # r /\ At(r) = rejected /\ At(r)' = rejected'
        BY DEF Place, At
    <2> HIDE DEF p, r, h
    <2>5. Moves({h}, p, r)
        BY <1>2, <1>4, <1>5, <2>1, <2>3, <2>4 DEF Moves
    <2> QED BY <1>2, <2>2, <2>4, <2>5, MoveKeepsOnePlace DEF OnePlace
<1> QED BY <1>3, <1>6, <1>7, <1>8, <1>9 DEF Handling, ClientThread, HandleFrame

\* The dispatcher: from the inbound queue to its hand, and from there to a lane
\* or to the events given up.
LEMMA DispatchingOnePlace ==
    ASSUME TypeOK, OnePlace, Dispatching
    PROVE  OnePlace'
<1> DEFINE p == <<"devt">>
<1>1. UNCHANGED <<unsent, client_buf, pevt, tasks, wtask, unparsed, rejected, stored, failed,
                  discarded>>
    BY DEF Dispatching, DispatcherThread, DispatchLoopTest, TryPop, TryPopFails, Route,
        DispatchPush, DispatchRetry, DispatchDrop, tcpVars, procVars, poolVars, storageVars
<1>2. p \in Place /\ At(p) = {devt} /\ At(p)' = {devt'}
    BY DEF Place, At
<1>3. CASE (DispatchLoopTest \/ TryPopFails \/ Route) /\ UNCHANGED bus
    BY <1>1, <1>3, PlacesUntouched DEF DispatchLoopTest, TryPopFails, Route, placeVars
<1>4. CASE DispatchRetry
    BY <1>1, <1>4, PlacesUntouched DEF DispatchRetry, PushFails, placeVars
<1>5. CASE TryPop /\ UNCHANGED bus
    <2> DEFINE h == Head(inbound)
               r == <<"inbound">>
    <2>1. /\ h \in Event /\ h \in Range(inbound) /\ IsInjective(inbound')
          /\ \A e : e \in Range(inbound') <=> e \in Range(inbound) /\ e # h
        BY <1>5, FrontOfQueue DEF TryPop, OnePlace, NoRepetition, TypeOK, DispatcherTypeOK
    <2>2. devt = NoEvent /\ devt' = h /\ UNCHANGED <<bus, dropped>>
        BY <1>5 DEF TryPop, TypeOK, DispatcherTypeOK
    <2>3. NoRepetition'
        BY <1>1, <2>1, <2>2 DEF OnePlace, NoRepetition
    <2>4. \A s \in Place \ {r, p} : At(s)' = At(s)
        BY <1>1, <2>2, PlaceIs DEF At
    <2>5. r \in Place /\ r # p /\ At(r) = Range(inbound) /\ At(r)' = Range(inbound')
        BY DEF Place, At
    <2> HIDE DEF p, r, h
    <2>6. Moves({h}, r, p)
        BY <1>2, <2>1, <2>2, <2>4, <2>5 DEF Moves
    <2> QED BY <1>2, <2>3, <2>5, <2>6, MoveKeepsOnePlace DEF OnePlace
<1>6. CASE DispatchPush
    <2>2. PICK q \in QueueId : q = RoutedLane
        BY QueueForType DEF RoutedLane
    <2> DEFINE r == <<"bus", q>>
    <2>1. devt \in Event /\ devt' = NoEvent /\ UNCHANGED <<inbound, dropped>>
        BY <1>6 DEF DispatchPush, TypeOK, DispatcherTypeOK
    <2>3. r \in Place /\ p # r /\ At(r) = Range(bus[q]) /\ At(r)' = Range(bus'[q])
        BY <2>2 DEF Place, At
    <2>4. /\ bus[q] \in Seq(Event) /\ bus'[q] = Append(bus[q], devt)
          /\ \A l \in QueueId \ {q} : bus'[l] = bus[l]
        BY <1>6, <2>2 DEF DispatchPush, Push, TypeOK, BusTypeOK
    <2> HIDE DEF p, r
    <2>5. devt \notin Range(bus[q])
        BY <1>2, <2>1, <2>3, NotElsewhere DEF OnePlace
    <2>6. /\ IsInjective(bus'[q])
          /\ \A e : e \in Range(bus'[q]) <=> e \in Range(bus[q]) \/ e = devt
        BY <2>1, <2>2, <2>4, <2>5, BackOfQueue DEF OnePlace, NoRepetition
    <2>7. NoRepetition'
        BY <1>1, <2>1, <2>4, <2>6 DEF OnePlace, NoRepetition
    <2>8. \A s \in Place \ {p, r} : At(s)' = At(s)
        BY <1>1, <2>1, <2>4, PlaceIs DEF At, p, r
    <2>9. Moves({devt}, p, r)
        BY <1>2, <2>1, <2>3, <2>6, <2>8 DEF Moves
    <2> QED BY <1>2, <2>3, <2>7, <2>9, MoveKeepsOnePlace DEF OnePlace
<1>7. CASE DispatchDrop
    <2> DEFINE r == <<"dropped">>
    <2>1. /\ devt \in Event /\ devt' = NoEvent /\ dropped' = dropped \cup {devt}
          /\ UNCHANGED <<bus, inbound>>
        BY <1>7 DEF DispatchDrop, PushFails, TypeOK, DispatcherTypeOK
    <2>2. NoRepetition'
        BY <1>1, <2>1 DEF OnePlace, NoRepetition
    <2>3. \A s \in Place \ {p, r} : At(s)' = At(s)
        BY <1>1, <2>1, PlaceIs DEF At
    <2>4. r \in Place /\ p # r /\ At(r) = dropped /\ At(r)' = dropped'
        BY DEF Place, At
    <2> HIDE DEF p, r
    <2>5. Moves({devt}, p, r)
        BY <1>2, <2>1, <2>3, <2>4 DEF Moves
    <2> QED BY <1>2, <2>2, <2>4, <2>5, MoveKeepsOnePlace DEF OnePlace
<1> QED BY <1>3, <1>4, <1>5, <1>6, <1>7 DEF Dispatching, DispatcherThread

\* storeEvent takes an event to the store or to the failures.
LEMMA StoreOnePlace ==
    ASSUME TypeOK, OnePlace, NEW e \in Event, StoreEvent(e), NEW p \in Place, e \in At(p),
           p # <<"stored">>, p # <<"failed">>, \A x \in Event : x \in At(p)' <=> x \in At(p) /\ x # e,
           \A s \in Place \ {p, <<"stored">>, <<"failed">>} : At(s)' = At(s),
           IsInjective(stored') => NoRepetition'
    PROVE  OnePlace'
<1> DEFINE r == <<"stored">>
           f == <<"failed">>
<1>1. /\ r \in Place /\ f \in Place /\ r # f
      /\ At(r) = Range(stored) /\ At(r)' = Range(stored')
      /\ At(f) = failed /\ At(f)' = failed'
    BY DEF Place, At
<1> HIDE DEF r, f
<1>2. CASE StoreWrites(e)
    <2>1. stored \in Seq(Event) /\ stored' = Append(stored, e) /\ failed' = failed
        BY <1>2 DEF StoreWrites, TypeOK, StorageTypeOK
    <2>2. e \notin Range(stored)
        BY <1>1, NotElsewhere DEF OnePlace, r
    <2>3. IsInjective(stored') /\ \A x : x \in Range(stored') <=> x \in Range(stored) \/ x = e
        BY <2>1, <2>2, BackOfQueue DEF OnePlace, NoRepetition
    <2>4. Moves({e}, p, r)
        BY <1>1, <2>1, <2>3 DEF Moves, r, f
    <2> QED BY <1>1, <2>3, <2>4, MoveKeepsOnePlace DEF OnePlace, r
<1>3. CASE StoreThrows(e)
    <2>1. failed' = failed \cup {e} /\ stored' = stored
        BY <1>3 DEF StoreThrows
    <2>2. Moves({e}, p, f)
        BY <1>1, <2>1 DEF Moves, r, f
    <2>3. IsInjective(stored')
        BY <2>1 DEF OnePlace, NoRepetition
    <2> QED BY <1>1, <2>2, <2>3, MoveKeepsOnePlace DEF OnePlace, f
<1> QED BY <1>2, <1>3 DEF StoreEvent

\* The processor: from a lane to its hand, and from there to a task or to the
\* store.
LEMMA ProcTakeOnePlace ==
    ASSUME TypeOK, OnePlace, Processing, NEW q \in QueueId, ProcTake(q),
           UNCHANGED <<poolVars, storageVars>>, pevt = NoEvent
    PROVE  OnePlace'
<1> DEFINE h == Head(bus[q])
           p == <<"bus", q>>
           r == <<"pevt">>
<1>1. UNCHANGED <<unsent, client_buf, inbound, devt, tasks, wtask, unparsed, rejected, dropped,
                  stored, failed, discarded>>
    BY DEF Processing, dispatcherVars, tcpVars, poolVars, storageVars
<1>2. /\ bus[q] \in Seq(Event) /\ bus[q] # <<>> /\ bus'[q] = Tail(bus[q]) /\ pevt' = h
      /\ \A l \in QueueId \ {q} : bus'[l] = bus[l]
    BY DEF ProcTake, Pop, TypeOK, BusTypeOK
<1>3. /\ h \in Event /\ h \in Range(bus[q]) /\ IsInjective(bus'[q])
      /\ \A e : e \in Range(bus'[q]) <=> e \in Range(bus[q]) /\ e # h
    BY <1>2, FrontOfQueue DEF OnePlace, NoRepetition
<1>4. NoRepetition'
    BY <1>1, <1>2, <1>3 DEF OnePlace, NoRepetition
<1>5. \A s \in Place \ {p, r} : At(s)' = At(s)
    BY <1>1, <1>2, PlaceIs DEF At
<1>6. /\ p \in Place /\ r \in Place /\ p # r
      /\ At(p) = Range(bus[q]) /\ At(p)' = Range(bus'[q]) /\ At(r) = {pevt} /\ At(r)' = {pevt'}
    BY DEF Place, At
<1> HIDE DEF p, r, h
<1>7. Moves({h}, p, r)
    BY <1>2, <1>3, <1>5, <1>6 DEF Moves
<1> QED BY <1>4, <1>6, <1>7, MoveKeepsOnePlace DEF OnePlace

LEMMA ProcessingOnePlace ==
    ASSUME TypeOK, OnePlace, Processing
    PROVE  OnePlace'
<1> DEFINE p == <<"pevt">>
<1>1. UNCHANGED <<unsent, client_buf, inbound, devt, wtask, unparsed, rejected, dropped, discarded>>
    BY DEF Processing, ProcThread, ProcSubmit, Submit, dispatcherVars, tcpVars, poolVars
<1>2. p \in Place /\ At(p) = {pevt} /\ At(p)' = {pevt'}
    BY DEF Place, At
<1>3. CASE /\ ProcLoopTest \/ ProcPopRealtime \/ ProcPopTransactional \/ ProcPopBatch
           /\ UNCHANGED <<poolVars, storageVars>>
    <2>1. CASE UNCHANGED <<bus, pevt>>
        BY <1>1, <1>3, <2>1, PlacesUntouched DEF poolVars, storageVars, placeVars
    <2>2. CASE ~UNCHANGED <<bus, pevt>>
        <3>1. PICK q \in QueueId : ProcTake(q)
            BY <1>3, <2>2 DEF ProcLoopTest, ProcPopRealtime, ProcPopTransactional, ProcPopBatch,
                ProcMiss, PopTimesOut, QueueId
        <3>2. pevt = NoEvent
            BY <1>3 DEF ProcLoopTest, ProcPopRealtime, ProcPopTransactional, ProcPopBatch,
                TypeOK, ProcTypeOK
        <3> QED BY <1>3, <3>1, <3>2, ProcTakeOnePlace
    <2> QED BY <2>1, <2>2
<1>4. CASE ProcSubmit /\ UNCHANGED <<bus, storageVars>>
    <2> DEFINE r == <<"tasks">>
    <2>1. /\ pevt \in Event /\ pevt' = NoEvent /\ tasks' = Append(tasks, pevt)
          /\ tasks \in Seq(Event) /\ UNCHANGED <<bus, stored, failed>>
        BY <1>4 DEF ProcSubmit, ProcHandOff, Submit, storageVars, TypeOK, ProcTypeOK, PoolTypeOK
    <2>2. r \in Place /\ p # r /\ At(r) = Range(tasks) /\ At(r)' = Range(tasks')
        BY DEF Place, At
    <2>3. pevt \notin Range(tasks)
        BY <1>2, <2>1, <2>2, NotElsewhere DEF OnePlace
    <2>4. IsInjective(tasks') /\ \A e : e \in Range(tasks') <=> e \in Range(tasks) \/ e = pevt
        BY <2>1, <2>3, BackOfQueue DEF OnePlace, NoRepetition
    <2>5. NoRepetition'
        BY <1>1, <2>1, <2>4 DEF OnePlace, NoRepetition
    <2>6. \A s \in Place \ {p, r} : At(s)' = At(s)
        BY <1>1, <2>1, PlaceIs DEF At
    <2> HIDE DEF p, r
    <2>7. Moves({pevt}, p, r)
        BY <1>2, <2>1, <2>2, <2>4, <2>6 DEF Moves
    <2> QED BY <1>2, <2>2, <2>5, <2>7, MoveKeepsOnePlace DEF OnePlace
<1>5. CASE ProcStore /\ UNCHANGED <<bus, poolVars>>
    <2>1. pevt \in Event /\ pevt' = NoEvent /\ StoreEvent(pevt) /\ UNCHANGED <<bus, tasks>>
        BY <1>5 DEF ProcStore, ProcHandOff, poolVars, TypeOK, ProcTypeOK
    <2>2. \A s \in Place \ {p, <<"stored">>, <<"failed">>} : At(s)' = At(s)
        BY <1>1, <2>1, PlaceIs DEF At
    <2>3. IsInjective(stored') => NoRepetition'
        BY <1>1, <2>1 DEF OnePlace, NoRepetition
    <2>4. p # <<"stored">> /\ p # <<"failed">>
        OBVIOUS
    <2> HIDE DEF p
    <2> QED BY <1>2, <2>1, <2>2, <2>3, <2>4, StoreOnePlace
<1> QED BY <1>3, <1>4, <1>5 DEF Processing, ProcThread

\* The pool: from the queue of tasks to a worker, and from there to the store.
LEMMA WorkingOnePlace ==
    ASSUME TypeOK, OnePlace, NEW w \in Worker, Working(w)
    PROVE  OnePlace'
<1> DEFINE p == <<"wtask", w>>
<1>1. UNCHANGED <<bus, unsent, client_buf, inbound, devt, pevt, unparsed, rejected, dropped, discarded>>
    BY DEF Working, WorkerCheck, WorkerTake, RunTask, WorkerFinish, dispatcherVars, tcpVars, procVars
<1>2. p \in Place /\ At(p) = {wtask[w]} /\ At(p)' = {wtask'[w]}
    BY DEF Place, At
<1>3. CASE WorkerCheck(w) /\ UNCHANGED storageVars
    BY <1>1, <1>3, PlacesUntouched DEF WorkerCheck, storageVars, placeVars
<1>4. CASE WorkerTake(w) /\ UNCHANGED storageVars
    <2> DEFINE h == Head(tasks)
               r == <<"tasks">>
    <2>1. /\ tasks \in Seq(Event) /\ tasks # <<>> /\ tasks' = Tail(tasks)
          /\ wtask[w] = NoEvent /\ wtask'[w] = h /\ UNCHANGED <<stored, failed>>
          /\ \A v \in Worker \ {w} : wtask'[v] = wtask[v]
        BY <1>4 DEF WorkerTake, storageVars, TypeOK, PoolTypeOK
    <2>2. /\ h \in Event /\ h \in Range(tasks) /\ IsInjective(tasks')
          /\ \A e : e \in Range(tasks') <=> e \in Range(tasks) /\ e # h
        BY <2>1, FrontOfQueue DEF OnePlace, NoRepetition
    <2>3. NoRepetition'
        BY <1>1, <2>1, <2>2 DEF OnePlace, NoRepetition
    <2>4. \A s \in Place \ {r, p} : At(s)' = At(s)
        BY <1>1, <2>1, PlaceIs DEF At
    <2>5. r \in Place /\ r # p /\ At(r) = Range(tasks) /\ At(r)' = Range(tasks')
        BY DEF Place, At
    <2> HIDE DEF p, r, h
    <2>6. Moves({h}, r, p)
        BY <1>2, <2>1, <2>2, <2>4, <2>5 DEF Moves
    <2> QED BY <1>2, <2>3, <2>5, <2>6, MoveKeepsOnePlace DEF OnePlace
<1>5. CASE RunTask(w)
    <2>1. /\ wtask[w] \in Event /\ StoreEvent(wtask[w]) /\ UNCHANGED tasks
          /\ wtask'[w] = NoEvent /\ \A v \in Worker \ {w} : wtask'[v] = wtask[v]
        BY <1>5 DEF RunTask, WorkerFinish, TypeOK, PoolTypeOK
    <2>2. \A s \in Place \ {p, <<"stored">>, <<"failed">>} : At(s)' = At(s)
        BY <1>1, <2>1, PlaceIs DEF At
    <2>3. IsInjective(stored') => NoRepetition'
        BY <1>1, <2>1 DEF OnePlace, NoRepetition
    <2>4. p # <<"stored">> /\ p # <<"failed">>
        OBVIOUS
    <2> HIDE DEF p
    <2> QED BY <1>2, <2>1, <2>2, <2>3, <2>4, StoreOnePlace
<1> QED BY <1>3, <1>4, <1>5 DEF Working

LEMMA ClearOnePlace ==
    ASSUME TypeOK, OnePlace, MainPool, ShutdownClear
    PROVE  OnePlace'
<1> DEFINE p == <<"tasks">>
           r == <<"discarded">>
           S == Range(tasks)
<1>1. UNCHANGED <<unsent, client_buf, bus, inbound, devt, pevt, wtask, unparsed, rejected, dropped,
                  stored, failed>>
    BY DEF MainPool, ShutdownClear, dispatcherVars, tcpVars, procVars, storageVars
<1>2. tasks' = <<>> /\ discarded' = discarded \cup S
    BY DEF ShutdownClear
<1>3. NoRepetition'
    BY <1>1, <1>2, EmptyQueue DEF OnePlace, NoRepetition
<1>4. \A s \in Place \ {p, r} : At(s)' = At(s)
    BY <1>1, PlaceIs DEF At
<1>5. /\ p \in Place /\ r \in Place /\ p # r /\ At(p) = S /\ At(p)' = Range(<<>>)
      /\ At(r) = discarded /\ At(r)' = discarded'
    BY <1>2 DEF Place, At
<1> HIDE DEF p, r, S
<1>6. Moves(S, p, r)
    BY <1>2, <1>4, <1>5, EmptyQueue DEF Moves
<1> QED BY <1>3, <1>5, <1>6, MoveKeepsOnePlace DEF OnePlace

LEMMA OnePlaceStep == TypeOK /\ OnePlace /\ [Next]_vars => OnePlace'
<1> SUFFICES ASSUME TypeOK, OnePlace, [Next]_vars PROVE OnePlace'
    OBVIOUS
<1>1. CASE Main
    <2>1. CASE MainPool /\ ShutdownClear
        BY <2>1, ClearOnePlace
    <2>2. CASE ~(MainPool /\ ShutdownClear)
        <3>1. UNCHANGED placeVars
            BY <1>1, <2>2 DEF Main, MainDispatcher, MainProcessor, MainServer, MainPool, MainOther,
                DispatcherStart, DispatcherStartThrows, DispatcherStopFlag, DispatcherJoin,
                ProcStart, ProcStartThrows, ProcStopFlag, ProcJoin, TcpStart, TcpStartThrows,
                TcpStopFlag, TcpStopClose, TcpJoinAccept, TcpJoinClients, ShutdownFlag,
                dispatcherVars, tcpVars, procVars, poolVars, storageVars, placeVars
        <3> QED BY <3>1, PlacesUntouched
    <2> QED BY <2>1, <2>2
<1>2. CASE Signal \/ Accepting \/ \E w \in Worker : Returning(w)
    BY <1>2, PlacesUntouched DEF Signal, Accepting, AcceptThread, AcceptTest, AcceptFails, Accept,
        Returning, WorkerReturn, dispatcherVars, tcpVars, procVars, poolVars, storageVars, placeVars
<1>3. ASSUME NEW c \in Client, Outside(c) PROVE OnePlace'
    <2>1. CASE Connect(c) \/ Disconnect(c)
        BY <1>3, <2>1, PlacesUntouched DEF Outside, Connect, Disconnect, dispatcherVars, procVars,
            poolVars, storageVars, placeVars
    <2> QED BY <1>3, <2>1, ReceiveOnePlace DEF Outside, ClientOutside
<1>4. CASE UNCHANGED vars
    BY <1>4, PlacesUntouched DEF vars, dispatcherVars, tcpVars, procVars, poolVars, storageVars,
        placeVars
<1> QED BY <1>1, <1>2, <1>3, <1>4, HandlingOnePlace, DispatchingOnePlace, ProcessingOnePlace,
        WorkingOnePlace DEF Next

LEMMA OnePlaceInit == Init => OnePlace
<1> SUFFICES ASSUME Init PROVE OnePlace
    OBVIOUS
<1> USE DEF Init
<1>1. NoRepetition
    BY EmptyQueue, TcpAssumption DEF NoRepetition, TcpInit, BusInit, DispatcherInit, PoolInit,
        StorageInit
<1>2. ASSUME NEW e \in Event
      PROVE  \E p \in Place : e \in At(p) /\ \A r \in Place \ {p} : e \notin At(r)
    <2>1. PICK c \in Client : e \in Range(Script[c]) /\ \A d \in Client \ {c} : e \notin Range(Script[d])
        BY TcpAssumption
    <2>2. e \in At(<<"unsent", c>>) /\ <<"unsent", c>> \in Place
        BY <2>1 DEF At, Place, TcpInit
    <2>3. ASSUME NEW r \in Place \ {<<"unsent", c>>} PROVE e \notin At(r)
        BY <2>1, PlaceIs, EmptyQueue DEF At, TcpInit, BusInit, DispatcherInit, ProcInit, PoolInit,
            StorageInit
    <2> QED BY <2>2, <2>3
<1> QED BY <1>1, <1>2 DEF OnePlace, InOnePlace

\* Whatever the clients send, the lanes hold, the disk does and the threads
\* decide, at every moment of the program's run each event is in exactly one
\* place, and nowhere twice.
THEOREM EventsInOnePlace == Spec => []OnePlace
<1> QED BY OnePlaceInit, OnePlaceStep, TypeCorrect, PTL DEF Spec

-----------------------------------------------------------------------------
(* Order from a client to the workers *)

\* The events that client c sends for lane q.
Mine(c, q) == {e \in Range(Script[c]) : FrameLane(e) = q}

\* What a client has still to say comes from its script.
FromScript ==
    \A c \in Client : \A e \in Range(client_buf[c]) \cup Range(unsent[c]) : e \in Range(Script[c])

\* Two neighbours among seven queues in a row exchange events: it is enough to
\* look at the two.
LEMMA NeighboursExchange ==
    ASSUME NEW M,
           NEW s1 \in Seq(Event), NEW s2 \in Seq(Event), NEW s3 \in Seq(Event),
           NEW s4 \in Seq(Event), NEW s5 \in Seq(Event), NEW s6 \in Seq(Event),
           NEW s7 \in Seq(Event),
           NEW t1 \in Seq(Event), NEW t2 \in Seq(Event), NEW t3 \in Seq(Event),
           NEW t4 \in Seq(Event), NEW t5 \in Seq(Event), NEW t6 \in Seq(Event),
           NEW t7 \in Seq(Event),
           \/ /\ Within(t1 \o t2, s1 \o s2, M)
              /\ t3 = s3 /\ t4 = s4 /\ t5 = s5 /\ t6 = s6 /\ t7 = s7
           \/ /\ Within(t2 \o t3, s2 \o s3, M)
              /\ t1 = s1 /\ t4 = s4 /\ t5 = s5 /\ t6 = s6 /\ t7 = s7
           \/ /\ Within(t3 \o t4, s3 \o s4, M)
              /\ t1 = s1 /\ t2 = s2 /\ t5 = s5 /\ t6 = s6 /\ t7 = s7
           \/ /\ Within(t4 \o t5, s4 \o s5, M)
              /\ t1 = s1 /\ t2 = s2 /\ t3 = s3 /\ t6 = s6 /\ t7 = s7
           \/ /\ Within(t5 \o t6, s5 \o s6, M)
              /\ t1 = s1 /\ t2 = s2 /\ t3 = s3 /\ t4 = s4 /\ t7 = s7
           \/ /\ Within(t6 \o t7, s6 \o s7, M)
              /\ t1 = s1 /\ t2 = s2 /\ t3 = s3 /\ t4 = s4 /\ t5 = s5
    PROVE  Within(t1 \o t2 \o t3 \o t4 \o t5 \o t6 \o t7, s1 \o s2 \o s3 \o s4 \o s5 \o s6 \o s7, M)
<1>1. PICK a2, b2 \in Seq(Event) : a2 = s1 \o s2 /\ b2 = t1 \o t2
    BY BehindEachOther
<1>2. PICK a3, b3 \in Seq(Event) : a3 = a2 \o s3 /\ b3 = b2 \o t3
    BY BehindEachOther
<1>3. PICK a4, b4 \in Seq(Event) : a4 = a3 \o s4 /\ b4 = b3 \o t4
    BY BehindEachOther
<1>4. PICK a5, b5 \in Seq(Event) : a5 = a4 \o s5 /\ b5 = b4 \o t5
    BY BehindEachOther
<1>5. PICK a6, b6 \in Seq(Event) : a6 = a5 \o s6 /\ b6 = b5 \o t6
    BY BehindEachOther
<1>6. PICK a7, b7 \in Seq(Event) : a7 = a6 \o s7 /\ b7 = b6 \o t7
    BY BehindEachOther
<1>7. SUFFICES Within(b7, a7, M)
    BY <1>1, <1>2, <1>3, <1>4, <1>5, <1>6
<1>8. t7 = s7 /\ Within(b6, a6, M) => Within(b7, a7, M)
    BY <1>6, WithinRow
<1>9. t6 = s6 /\ t7 = s7 /\ Within(b5, a5, M) => Within(b7, a7, M)
    BY <1>5, <1>8, WithinRow
<1>10. t5 = s5 /\ t6 = s6 /\ t7 = s7 /\ Within(b4, a4, M) => Within(b7, a7, M)
    BY <1>4, <1>9, WithinRow
<1>11. t4 = s4 /\ t5 = s5 /\ t6 = s6 /\ t7 = s7 /\ Within(b3, a3, M) => Within(b7, a7, M)
    BY <1>3, <1>10, WithinRow
<1>12. /\ t3 = s3 /\ t4 = s4 /\ t5 = s5 /\ t6 = s6 /\ t7 = s7 /\ Within(b2, a2, M)
       => Within(b7, a7, M)
    BY <1>2, <1>11, WithinRow
<1>13. t1 = s1 /\ Within(t2 \o t3, s2 \o s3, M) => Within(b3, a3, M)
    BY <1>1, <1>2, WithinRowOfTwo
<1>14. b2 = a2 /\ Within(t3 \o t4, s3 \o s4, M) => Within(b4, a4, M)
    BY <1>2, <1>3, WithinRowOfTwo
<1>15. b3 = a3 /\ Within(t4 \o t5, s4 \o s5, M) => Within(b5, a5, M)
    BY <1>3, <1>4, WithinRowOfTwo
<1>16. b4 = a4 /\ Within(t5 \o t6, s5 \o s6, M) => Within(b6, a6, M)
    BY <1>4, <1>5, WithinRowOfTwo
<1>17. b5 = a5 /\ Within(t6 \o t7, s6 \o s7, M) => Within(b7, a7, M)
    BY <1>5, <1>6, WithinRowOfTwo
<1>18. Within(t1 \o t2, s1 \o s2, M) => Within(b2, a2, M)
    BY <1>1
<1> QED BY <1>1, <1>2, <1>3, <1>4, <1>8, <1>9, <1>10, <1>11, <1>12, <1>13, <1>14, <1>15,
        <1>16, <1>17, <1>18

\* Two neighbouring stages exchange events.
LEMMA StagesExchange ==
    ASSUME TypeOK, TypeOK', NEW c \in Client, NEW q \in QueueId, NEW M,
           \/ /\ Within(tasks' \o InHand(pevt'), tasks \o InHand(pevt), M)
              /\ UNCHANGED <<bus[q], devt, inbound, client_buf[c], unsent[c]>>
           \/ /\ Within(InHand(pevt') \o bus'[q], InHand(pevt) \o bus[q], M)
              /\ UNCHANGED <<tasks, devt, inbound, client_buf[c], unsent[c]>>
           \/ /\ Within(bus'[q] \o InHand(devt'), bus[q] \o InHand(devt), M)
              /\ UNCHANGED <<tasks, pevt, inbound, client_buf[c], unsent[c]>>
           \/ /\ Within(InHand(devt') \o inbound', InHand(devt) \o inbound, M)
              /\ UNCHANGED <<tasks, pevt, bus[q], client_buf[c], unsent[c]>>
           \/ /\ Within(inbound' \o client_buf'[c], inbound \o client_buf[c], M)
              /\ UNCHANGED <<tasks, pevt, bus[q], devt, unsent[c]>>
           \/ /\ Within(client_buf'[c] \o unsent'[c], client_buf[c] \o unsent[c], M)
              /\ UNCHANGED <<tasks, pevt, bus[q], devt, inbound>>
    PROVE  Within(OnTheWay(c, q)', OnTheWay(c, q), M)
<1>1. PICK s1, s2, s3, s4, s5, s6, s7 \in Seq(Event) :
          /\ s1 = tasks /\ s2 = InHand(pevt) /\ s3 = bus[q] /\ s4 = InHand(devt)
          /\ s5 = inbound /\ s6 = client_buf[c] /\ s7 = unsent[c]
    BY InHandType DEF TypeOK, PoolTypeOK, ProcTypeOK, BusTypeOK, DispatcherTypeOK, TcpTypeOK
<1>2. PICK t1, t2, t3, t4, t5, t6, t7 \in Seq(Event) :
          /\ t1 = tasks' /\ t2 = InHand(pevt') /\ t3 = bus'[q] /\ t4 = InHand(devt')
          /\ t5 = inbound' /\ t6 = client_buf'[c] /\ t7 = unsent'[c]
    BY InHandType DEF TypeOK, PoolTypeOK, ProcTypeOK, BusTypeOK, DispatcherTypeOK, TcpTypeOK
<1>3. /\ OnTheWay(c, q) = s1 \o s2 \o s3 \o s4 \o s5 \o s6 \o s7
      /\ OnTheWay(c, q)' = t1 \o t2 \o t3 \o t4 \o t5 \o t6 \o t7
    BY <1>1, <1>2 DEF OnTheWay
<1>4. Within(t1 \o t2 \o t3 \o t4 \o t5 \o t6 \o t7, s1 \o s2 \o s3 \o s4 \o s5 \o s6 \o s7, M)
    BY <1>1, <1>2, NeighboursExchange
<1> QED BY <1>3, <1>4

\* The variables that make up the way.
wayVars == <<tasks, pevt, bus, devt, inbound, client_buf, unsent>>

LEMMA StagesIdle ==
    ASSUME TypeOK, TypeOK', UNCHANGED wayVars, NEW c \in Client, NEW q \in QueueId, NEW M
    PROVE  Within(OnTheWay(c, q)', OnTheWay(c, q), M)
<1>1. OnTheWay(c, q)' = OnTheWay(c, q)
    BY DEF OnTheWay, wayVars
<1> QED BY <1>1 DEF Within

LEMMA HandlingKeepsOrder ==
    ASSUME TypeOK, TypeOK', FromScript, NEW c \in Client, Handling(c),
           NEW d \in Client, NEW q \in QueueId
    PROVE  Within(OnTheWay(d, q)', OnTheWay(d, q), Mine(d, q))
<1>0. PICK M : M = Mine(d, q)
    OBVIOUS
<1>00. PICK h : h = Head(client_buf[c])
    OBVIOUS
<1> SUFFICES Within(OnTheWay(d, q)', OnTheWay(d, q), M)
    BY <1>0
<1>1. UNCHANGED <<tasks, pevt, bus, devt, unsent>>
    BY DEF Handling, ClientThread, ClientTest, FramesDone, SkipFrame, CloseOversized, HandleFrame,
        TryPush, TryPushFails, dispatcherVars, procVars, poolVars
<1>2. /\ inbound \in Seq(Event) /\ client_buf[d] \in Seq(Event) /\ unsent[d] \in Seq(Event)
      /\ client_buf[c] \in Seq(Event)
    BY DEF TypeOK, DispatcherTypeOK, TcpTypeOK
<1>3. CASE ClientTest(c) \/ FramesDone(c)
    BY <1>1, <1>3, StagesIdle
        DEF Handling, ClientThread, ClientTest, FramesDone, SkipFrame, CloseOversized, HandleFrame,
            TryPush, TryPushFails, dispatcherVars, wayVars
<1>4. ASSUME client_buf[c] # <<>>
      PROVE  h \in Event /\ Tail(client_buf[c]) \in Seq(Event) /\ h \in Range(client_buf[c])
    <2>1. h = client_buf[c][1] /\ 1 \in DOMAIN client_buf[c]
        BY <1>2, <1>4, <1>00
    <2> QED BY <1>2, <1>4, <2>1 DEF Range
\* The frame, or all that is buffered, becomes no event.
<1>5. ASSUME \/ client_buf' = [client_buf EXCEPT ![c] = <<>>]
             \/ client_buf[c] # <<>> /\ client_buf' = [client_buf EXCEPT ![c] = Tail(@)],
             UNCHANGED inbound
      PROVE  Within(OnTheWay(d, q)', OnTheWay(d, q), M)
    <2>1. client_buf'[d] \in Seq(Event) /\ Within(client_buf'[d], client_buf[d], M)
        BY <1>2, <1>4, <1>5, WithinEnds, EmptySeq DEF TypeOK, TcpTypeOK
    <2>2. Within(client_buf'[d] \o unsent'[d], client_buf[d] \o unsent[d], M)
        BY <1>1, <1>2, <2>1, WithinRow
    <2> QED BY <1>1, <1>5, <2>2, StagesExchange
<1>6. CASE SkipFrame(c) /\ UNCHANGED dispatcherVars
    BY <1>5, <1>6 DEF SkipFrame, dispatcherVars
<1>7. CASE CloseOversized(c) /\ UNCHANGED dispatcherVars
    BY <1>5, <1>7 DEF CloseOversized, dispatcherVars
<1>8. CASE HandleFrame(c) /\ TryPushFails(h)
    BY <1>5, <1>8 DEF HandleFrame, TryPushFails
<1>9. CASE HandleFrame(c) /\ TryPush(h)
    <2>1. /\ client_buf[c] # <<>> /\ client_buf' = [client_buf EXCEPT ![c] = Tail(@)]
          /\ inbound' = Append(inbound, h)
        BY <1>9, <1>00 DEF HandleFrame, TryPush
    <2>2. CASE d = c
        <3>1. client_buf'[d] = Tail(client_buf[d])
            BY <2>1, <2>2 DEF TypeOK, TcpTypeOK
        <3>2. Append(inbound, Head(client_buf[c])) \o Tail(client_buf[c]) = inbound \o client_buf[c]
            BY <1>2, <2>1, PassingOn
        <3>3. Within(inbound' \o client_buf'[d], inbound \o client_buf[d], M)
            BY <1>00, <2>1, <2>2, <3>1, <3>2 DEF Within
        <3> QED BY <1>1, <3>3, StagesExchange
    <2>3. CASE d # c
        <3>1. h \in Event /\ h \notin M
            BY <1>0, <1>4, <2>1, <2>3, TcpAssumption DEF FromScript, Mine
        <3>2. client_buf'[d] = client_buf[d]
            BY <2>1, <2>3 DEF TypeOK, TcpTypeOK
        <3>3. inbound' \in Seq(Event) /\ Within(inbound', inbound, M)
            <4>1. \A e \in Event \ M : Within(Append(inbound, e), inbound, M)
                BY <1>2, WithinEnds
            <4>2. inbound' \in Seq(Event)
                BY DEF TypeOK, DispatcherTypeOK
            <4> QED BY <2>1, <3>1, <4>1, <4>2
        <3>4. Within(inbound' \o client_buf'[d], inbound \o client_buf[d], M)
            BY <1>2, <3>2, <3>3, WithinRow
        <3> QED BY <1>1, <3>4, StagesExchange
    <2> QED BY <2>2, <2>3
<1> QED BY <1>00, <1>3, <1>6, <1>7, <1>8, <1>9 DEF Handling, ClientThread, HandleFrame

LEMMA ReceiveKeepsOrder ==
    ASSUME TypeOK, TypeOK', NEW c \in Client, Outside(c), NEW n \in 0 .. Len(unsent[c]),
           Receive(c, n), NEW d \in Client, NEW q \in QueueId, NEW M
    PROVE  Within(OnTheWay(d, q)', OnTheWay(d, q), M)
<1>1. UNCHANGED <<tasks, pevt, bus, devt, inbound>>
    BY DEF Outside, Receive, dispatcherVars, procVars, poolVars
<1>2. client_buf'[d] \o unsent'[d] = client_buf[d] \o unsent[d]
    <2>1. CASE d # c
        BY <2>1 DEF Receive, TypeOK, TcpTypeOK
    <2>2. CASE d = c
        <3>1. PICK u \in Seq(Event) : u = unsent[c]
            BY DEF TypeOK, TcpTypeOK
        <3>2. /\ client_buf[c] = <<>> /\ client_buf'[c] = SubSeq(u, 1, n)
              /\ unsent'[c] = SubSeq(u, n + 1, Len(u))
            BY <3>1 DEF Receive, TypeOK, TcpTypeOK
        <3>3. SubSeq(u, 1, n) \o SubSeq(u, n + 1, Len(u)) = SubSeq(u, 1, Len(u))
            <4>1. Len(u) \in Nat /\ 1 \in 1 .. Len(u) + 1 /\ n \in 1 - 1 .. Len(u)
                  /\ Len(u) \in n .. Len(u)
                BY <3>1
            <4> QED BY <4>1, ConcatAdjacentSubSeq
        <3>4. SubSeq(u, 1, Len(u)) = u /\ <<>> \o u = u
            BY SubSeqFull, ConcatEmptySeq
        <3> QED BY <2>2, <3>1, <3>2, <3>3, <3>4
    <2> QED BY <2>1, <2>2
<1>3. Within(client_buf'[d] \o unsent'[d], client_buf[d] \o unsent[d], M)
    BY <1>2 DEF Within
<1> QED BY <1>1, <1>3, StagesExchange

\* The dispatcher: an event keeps its place before the ones still queued, and
\* one that is dropped leaves the way.
LEMMA DispatchingKeepsOrder ==
    ASSUME TypeOK, TypeOK', Dispatching, NEW d \in Client, NEW q \in QueueId, NEW M
    PROVE  Within(OnTheWay(d, q)', OnTheWay(d, q), M)
<1>1. UNCHANGED <<tasks, pevt, client_buf, unsent>>
    BY DEF Dispatching, tcpVars, procVars, poolVars
<1>2. bus[q] \in Seq(Event) /\ InHand(devt) \in Seq(Event)
    BY InHandType DEF TypeOK, BusTypeOK, DispatcherTypeOK
<1>3. CASE (DispatchLoopTest \/ TryPopFails \/ Route) /\ UNCHANGED bus
    BY <1>1, <1>3, StagesIdle DEF DispatchLoopTest, TryPopFails, Route, wayVars
<1>4. CASE DispatchRetry
    BY <1>1, <1>4, StagesIdle DEF DispatchRetry, PushFails, wayVars
<1>5. CASE TryPop /\ UNCHANGED bus
    <2>1. PICK s \in Seq(Event) : s = inbound
        BY DEF TypeOK, DispatcherTypeOK
    <2>2. s # <<>> /\ devt = NoEvent /\ devt' = Head(s) /\ inbound' = Tail(s) /\ Head(s) \in Event
        BY <1>5, <2>1 DEF TryPop, TypeOK, DispatcherTypeOK
    <2>3. InHand(devt) = <<>> /\ InHand(devt') = <<Head(s)>>
        BY <2>2 DEF InHand
    <2>4. InHand(devt') \o inbound' = InHand(devt) \o inbound
        BY <2>1, <2>2, <2>3, PassingOn
    <2>5. Within(InHand(devt') \o inbound', InHand(devt) \o inbound, M)
        BY <2>4 DEF Within
    <2> QED BY <1>1, <1>5, <2>5, StagesExchange
<1>6. ASSUME devt' = NoEvent, UNCHANGED <<bus[q], inbound>>
      PROVE  Within(OnTheWay(d, q)', OnTheWay(d, q), M)
    <2>1. InHand(devt') = <<>> /\ <<>> \in Seq(Event)
        BY <1>6 DEF InHand
    <2>2. Within(InHand(devt'), InHand(devt), M)
        BY <1>2, <2>1, WithinEnds
    <2>3. Within(bus'[q] \o InHand(devt'), bus[q] \o InHand(devt), M)
        BY <1>2, <1>6, <2>1, <2>2, WithinRow
    <2> QED BY <1>1, <1>6, <2>3, StagesExchange
<1>7. CASE DispatchDrop
    BY <1>6, <1>7 DEF DispatchDrop, PushFails
<1>8. CASE DispatchPush
    <2>1. devt \in Event /\ devt' = NoEvent /\ UNCHANGED inbound
        BY <1>8 DEF DispatchPush, TypeOK, DispatcherTypeOK
    <2>2. CASE q # RoutedLane
        BY <1>6, <1>8, <2>1, <2>2 DEF DispatchPush, Push, TypeOK, BusTypeOK
    <2>3. CASE q = RoutedLane
        <3>1. bus'[q] = Append(bus[q], devt)
            BY <1>8, <2>3 DEF DispatchPush, Push, TypeOK, BusTypeOK
        <3>2. InHand(devt') = <<>> /\ InHand(devt) = <<devt>>
            BY <2>1 DEF InHand
        <3>3. bus'[q] \o InHand(devt') = bus[q] \o InHand(devt)
            BY <1>2, <2>1, <3>1, <3>2, PassingOn
        <3>4. Within(bus'[q] \o InHand(devt'), bus[q] \o InHand(devt), M)
            BY <3>3 DEF Within
        <3> QED BY <1>1, <2>1, <3>4, StagesExchange
    <2> QED BY <2>2, <2>3
<1> QED BY <1>3, <1>4, <1>5, <1>7, <1>8 DEF Dispatching, DispatcherThread

\* The processor: what it takes from another lane is not of this one.
LEMMA ProcessingKeepsOrder ==
    ASSUME TypeOK, TypeOK', LanesHoldTheirRank, Processing, NEW d \in Client, NEW q \in QueueId
    PROVE  Within(OnTheWay(d, q)', OnTheWay(d, q), Mine(d, q))
<1>0. PICK M : M = Mine(d, q)
    OBVIOUS
<1> SUFFICES Within(OnTheWay(d, q)', OnTheWay(d, q), M)
    BY <1>0
<1>1. UNCHANGED <<client_buf, unsent, devt, inbound>>
    BY DEF Processing, dispatcherVars, tcpVars
<1>2. tasks \in Seq(Event) /\ InHand(pevt) \in Seq(Event) /\ bus[q] \in Seq(Event)
    BY InHandType DEF TypeOK, BusTypeOK, PoolTypeOK, ProcTypeOK
<1>3. ASSUME NEW l \in QueueId, ProcTake(l), pevt = NoEvent, UNCHANGED tasks
      PROVE  Within(OnTheWay(d, q)', OnTheWay(d, q), M)
    <2>1. PICK s \in Seq(Event) : s = bus[l]
        BY DEF TypeOK, BusTypeOK
    <2>2. /\ s # <<>> /\ pevt' = Head(s) /\ bus'[l] = Tail(s)
          /\ \A k \in QueueId \ {l} : bus'[k] = bus[k]
        BY <1>3, <2>1 DEF ProcTake, Pop, TypeOK, BusTypeOK
    <2>3. Head(s) \in Event /\ Head(s) = s[1] /\ 1 \in DOMAIN s
        BY <2>2
    <2>4. InHand(pevt) = <<>> /\ InHand(pevt') = <<Head(s)>>
        BY <1>3, <2>2, <2>3 DEF InHand
    <2>5. CASE l = q
        <3>1. InHand(pevt') \o bus'[q] = InHand(pevt) \o bus[q]
            BY <2>1, <2>2, <2>4, <2>5, PassingOn
        <3>2. Within(InHand(pevt') \o bus'[q], InHand(pevt) \o bus[q], M)
            BY <3>1 DEF Within
        <3> QED BY <1>1, <1>3, <3>2, StagesExchange
    <2>6. CASE l # q
        <3>1. Head(s) \in Range(bus[l])
            BY <2>1, <2>3 DEF Range
        <3>2. Head(s) \notin M
            BY <1>0, <2>6, <3>1 DEF LanesHoldTheirRank, Mine
        <3>3. <<Head(s)>> \in Seq(Event) /\ \A x : x \in Range(<<Head(s)>>) <=> x = Head(s)
            BY <2>3, OneAndEnds
        <3>4. Within(<<>> \o <<Head(s)>>, <<>>, M) /\ <<>> \o <<Head(s)>> = <<Head(s)>>
            BY <3>2, <3>3, WithinParts, ConcatEmptySeq, EmptySeq
        <3>5. InHand(pevt') \in Seq(Event) /\ Within(InHand(pevt'), InHand(pevt), M)
            BY <2>4, <3>3, <3>4
        <3>6. Within(InHand(pevt') \o bus'[q], InHand(pevt) \o bus[q], M)
            BY <1>2, <2>2, <2>6, <3>5, WithinRow
        <3> QED BY <1>1, <1>3, <3>6, StagesExchange
    <2> QED BY <2>5, <2>6
<1>4. CASE /\ ProcLoopTest \/ ProcPopRealtime \/ ProcPopTransactional \/ ProcPopBatch
           /\ UNCHANGED <<poolVars, storageVars>>
    <2>1. UNCHANGED tasks
        BY <1>4 DEF poolVars
    <2>2. CASE UNCHANGED <<bus, pevt>>
        BY <1>1, <2>1, <2>2, StagesIdle DEF wayVars
    <2>3. CASE ~UNCHANGED <<bus, pevt>>
        <3>1. PICK l \in QueueId : ProcTake(l)
            BY <1>4, <2>3 DEF ProcLoopTest, ProcPopRealtime, ProcPopTransactional, ProcPopBatch,
                ProcMiss, PopTimesOut, QueueId
        <3>2. pevt = NoEvent
            BY <1>4 DEF ProcLoopTest, ProcPopRealtime, ProcPopTransactional, ProcPopBatch,
                TypeOK, ProcTypeOK
        <3> QED BY <1>3, <2>1, <3>1, <3>2
    <2> QED BY <2>2, <2>3
<1>5. CASE ProcSubmit /\ UNCHANGED <<bus, storageVars>>
    <2>1. pevt \in Event /\ pevt' = NoEvent /\ tasks' = Append(tasks, pevt)
        BY <1>5 DEF ProcSubmit, ProcHandOff, Submit, TypeOK, ProcTypeOK
    <2>2. InHand(pevt') = <<>> /\ InHand(pevt) = <<pevt>>
        BY <2>1 DEF InHand
    <2>3. tasks' \o InHand(pevt') = tasks \o InHand(pevt)
        BY <1>2, <2>1, <2>2, PassingOn
    <2>4. Within(tasks' \o InHand(pevt'), tasks \o InHand(pevt), M)
        BY <2>3 DEF Within
    <2> QED BY <1>1, <1>5, <2>4, StagesExchange
<1>6. CASE ProcStore /\ UNCHANGED <<bus, poolVars>>
    <2>1. pevt' = NoEvent /\ UNCHANGED tasks
        BY <1>6 DEF ProcStore, ProcHandOff, poolVars
    <2>2. InHand(pevt') = <<>> /\ <<>> \in Seq(Event)
        BY <2>1 DEF InHand
    <2>3. Within(InHand(pevt'), InHand(pevt), M)
        BY <1>2, <2>2, WithinEnds
    <2>4. Within(tasks' \o InHand(pevt'), tasks \o InHand(pevt), M)
        BY <1>2, <2>1, <2>2, <2>3, WithinRow
    <2> QED BY <1>1, <1>6, <2>1, <2>4, StagesExchange
<1> QED BY <1>4, <1>5, <1>6 DEF Processing, ProcThread

\* Tasks leave the queue at its front, or all at once.
LEMMA TasksLeaveInOrder ==
    ASSUME TypeOK, TypeOK', tasks' = <<>> \/ (tasks # <<>> /\ tasks' = Tail(tasks)),
           UNCHANGED <<pevt, bus, devt, inbound, client_buf, unsent>>,
           NEW d \in Client, NEW q \in QueueId, NEW M
    PROVE  Within(OnTheWay(d, q)', OnTheWay(d, q), M)
<1>1. tasks \in Seq(Event) /\ tasks' \in Seq(Event) /\ InHand(pevt) \in Seq(Event)
    BY InHandType DEF TypeOK, PoolTypeOK, ProcTypeOK
<1>2. Within(tasks', tasks, M)
    BY <1>1, WithinEnds
<1>3. Within(tasks' \o InHand(pevt'), tasks \o InHand(pevt), M)
    BY <1>1, <1>2, WithinRow
<1> QED BY <1>3, StagesExchange

\* No step puts an event ahead of one that it was behind, on the way from a
\* client by a lane to the workers.
LEMMA StepKeepsOrder ==
    ASSUME TypeOK, TypeOK', FromScript, LanesHoldTheirRank, [Next]_vars,
           NEW d \in Client, NEW q \in QueueId
    PROVE  Within(OnTheWay(d, q)', OnTheWay(d, q), Mine(d, q))
<1>1. CASE Main
    <2>1. CASE MainPool /\ ShutdownClear
        BY <2>1, TasksLeaveInOrder DEF MainPool, ShutdownClear, dispatcherVars, tcpVars, procVars
    <2>2. CASE ~(MainPool /\ ShutdownClear)
        <3>1. UNCHANGED wayVars
            BY <1>1, <2>2 DEF Main, MainDispatcher, MainProcessor, MainServer, MainPool, MainOther,
                DispatcherStart, DispatcherStartThrows, DispatcherStopFlag, DispatcherJoin,
                ProcStart, ProcStartThrows, ProcStopFlag, ProcJoin, TcpStart, TcpStartThrows,
                TcpStopFlag, TcpStopClose, TcpJoinAccept, TcpJoinClients, ShutdownFlag,
                dispatcherVars, tcpVars, procVars, poolVars, wayVars
        <3> QED BY <3>1, StagesIdle
    <2> QED BY <2>1, <2>2
<1>2. CASE Signal \/ Accepting \/ \E w \in Worker : Returning(w)
    BY <1>2, StagesIdle DEF Signal, Accepting, AcceptThread, AcceptTest, AcceptFails, Accept,
        Returning, WorkerReturn, dispatcherVars, tcpVars, procVars, poolVars, wayVars
<1>3. ASSUME NEW c \in Client, Outside(c)
      PROVE  Within(OnTheWay(d, q)', OnTheWay(d, q), Mine(d, q))
    <2>1. CASE Connect(c) \/ Disconnect(c)
        BY <1>3, <2>1, StagesIdle DEF Outside, Connect, Disconnect, dispatcherVars, procVars,
            poolVars, wayVars
    <2> QED BY <1>3, <2>1, ReceiveKeepsOrder DEF Outside, ClientOutside
<1>4. ASSUME NEW w \in Worker, Working(w)
      PROVE  Within(OnTheWay(d, q)', OnTheWay(d, q), Mine(d, q))
    <2>1. UNCHANGED <<pevt, bus, devt, inbound, client_buf, unsent>>
        BY <1>4 DEF Working, dispatcherVars, tcpVars, procVars
    <2>2. CASE WorkerTake(w)
        BY <2>1, <2>2, TasksLeaveInOrder DEF WorkerTake
    <2>3. CASE WorkerCheck(w) \/ RunTask(w)
        BY <2>1, <2>3, StagesIdle DEF WorkerCheck, RunTask, WorkerFinish, wayVars
    <2> QED BY <1>4, <2>2, <2>3 DEF Working
<1>5. CASE UNCHANGED vars
    BY <1>5, StagesIdle DEF vars, dispatcherVars, tcpVars, procVars, poolVars, wayVars
<1> QED BY <1>1, <1>2, <1>3, <1>4, <1>5, HandlingKeepsOrder, DispatchingKeepsOrder,
        ProcessingKeepsOrder DEF Next

LEMMA FromScriptStep == TypeOK /\ FromScript /\ [Next]_vars => FromScript'
<1> SUFFICES ASSUME TypeOK, FromScript, [Next]_vars PROVE FromScript'
    OBVIOUS
<1>1. CASE UNCHANGED <<client_buf, unsent>>
    BY <1>1 DEF FromScript
<1>2. ASSUME NEW c \in Client, NEW n \in 0 .. Len(unsent[c]), Receive(c, n) PROVE FromScript'
    <2>1. PICK u \in Seq(Event) : u = unsent[c]
        BY DEF TypeOK, TcpTypeOK
    <2>2. /\ client_buf'[c] = SubSeq(u, 1, n) /\ unsent'[c] = SubSeq(u, n + 1, Len(u))
          /\ \A d \in Client \ {c} : client_buf'[d] = client_buf[d] /\ unsent'[d] = unsent[d]
        BY <1>2, <2>1 DEF Receive, TypeOK, TcpTypeOK
    <2>3. \A e \in Range(SubSeq(u, 1, n)) \cup Range(SubSeq(u, n + 1, Len(u))) : e \in Range(u)
        BY <1>2, <2>1 DEF Range
    <2> QED BY <2>1, <2>2, <2>3 DEF FromScript
<1>3. ASSUME NEW c \in Client, ClientThread(c) PROVE FromScript'
    <2>1. PICK b \in Seq(Event) : b = client_buf[c]
        BY DEF TypeOK, TcpTypeOK
    <2>2. CASE UNCHANGED <<client_buf, unsent>>
        BY <2>2 DEF FromScript
    <2>3. ASSUME UNCHANGED unsent,
                 \/ client_buf' = [client_buf EXCEPT ![c] = <<>>]
                 \/ b # <<>> /\ client_buf' = [client_buf EXCEPT ![c] = Tail(@)]
          PROVE  FromScript'
        <3>1. /\ client_buf'[c] = <<>> \/ (b # <<>> /\ client_buf'[c] = Tail(b))
              /\ \A d \in Client \ {c} : client_buf'[d] = client_buf[d]
            BY <2>1, <2>3 DEF TypeOK, TcpTypeOK
        <3>2. b # <<>> => \A e \in Range(Tail(b)) : e \in Range(b)
            BY DEF Range
        <3>3. \A e \in Range(client_buf'[c]) : e \in Range(client_buf[c])
            BY <2>1, <3>1, <3>2, OneAndEnds
        <3> QED BY <2>3, <3>1, <3>3 DEF FromScript
    <2> QED BY <1>3, <2>1, <2>2, <2>3 DEF ClientThread, ClientTest, FramesDone, SkipFrame,
            CloseOversized, HandleFrame
<1> QED BY <1>1, <1>2, <1>3 DEF Next, Main, MainDispatcher, MainProcessor, MainServer, MainPool,
        MainOther, TcpStart, TcpStartThrows, TcpStopFlag, TcpStopClose, TcpJoinAccept, TcpJoinClients,
        Signal, Accepting, AcceptThread, AcceptTest, AcceptFails, Accept, Dispatching, Processing,
        Handling, Outside, ClientOutside, Connect, Disconnect, Working, Returning, vars, tcpVars

\* The frames do not change, so an event does not change its lane.
LEMMA FramesStay == [Next]_vars => frame' = frame
<1> SUFFICES ASSUME [Next]_vars PROVE frame' = frame
    OBVIOUS
<1>1. CASE Main
    BY <1>1 DEF Main, MainDispatcher, MainProcessor, MainServer, MainPool, MainOther,
        DispatcherStart, DispatcherStartThrows, DispatcherStopFlag, DispatcherJoin, dispatcherVars
<1>2. CASE Dispatching
    BY <1>2 DEF Dispatching, DispatcherThread, DispatchLoopTest, TryPop, TryPopFails, Route,
        DispatchPush, DispatchRetry, DispatchDrop
<1>3. ASSUME NEW c \in Client, Handling(c) PROVE frame' = frame
    BY <1>3 DEF Handling, ClientThread, HandleFrame, TryPush, TryPushFails, dispatcherVars
<1> QED BY <1>1, <1>2, <1>3 DEF Next, Signal, Accepting, Processing, Outside, Working, Returning,
        vars, dispatcherVars

LEMMA LaneOrderStep ==
    /\ TypeOK /\ TypeOK' /\ FromScript /\ LanesHoldTheirRank /\ LaneOrder /\ [Next]_vars
    => LaneOrder'
<1> SUFFICES ASSUME TypeOK, TypeOK', FromScript, LanesHoldTheirRank, LaneOrder, [Next]_vars,
                    NEW c \in Client, NEW q \in QueueId,
                    NEW m \in DOMAIN Script[c], NEW n \in DOMAIN Script[c],
                    FrameLane(Script[c][m])' = q, FrameLane(Script[c][n])' = q,
                    Ahead(OnTheWay(c, q)', Script[c][m], Script[c][n])
             PROVE  m < n
    BY DEF LaneOrder
<1>1. FrameLane(Script[c][m]) = q /\ FrameLane(Script[c][n]) = q
    BY FramesStay DEF FrameLane
<1>2. Script[c][m] \in Mine(c, q) /\ Script[c][n] \in Mine(c, q)
    BY <1>1 DEF Mine, Range
<1>3. Within(OnTheWay(c, q)', OnTheWay(c, q), Mine(c, q))
    BY StepKeepsOrder
<1>4. Ahead(OnTheWay(c, q), Script[c][m], Script[c][n])
    BY <1>2, <1>3 DEF Within
<1> QED BY <1>1, <1>4 DEF LaneOrder

LEMMA LaneOrderInit == Init => FromScript /\ LaneOrder
<1> SUFFICES ASSUME Init PROVE FromScript /\ LaneOrder
    OBVIOUS
<1>1. \A c \in Client : Script[c] \in Seq(Event) /\ unsent[c] = Script[c] /\ client_buf[c] = <<>>
    BY TcpAssumption DEF Init, TcpInit
<1>2. FromScript
    BY <1>1, OneAndEnds DEF FromScript
<1>3. ASSUME NEW c \in Client, NEW q \in QueueId PROVE OnTheWay(c, q) = Script[c]
    <2>1. /\ tasks = <<>> /\ InHand(pevt) = <<>> /\ bus[q] = <<>> /\ InHand(devt) = <<>>
          /\ inbound = <<>>
        BY DEF Init, PoolInit, ProcInit, BusInit, DispatcherInit, InHand
    <2>2. <<>> \o <<>> = <<>> /\ <<>> \o Script[c] = Script[c]
        BY <1>1, ConcatEmptySeq
    <2> QED BY <1>1, <2>1, <2>2 DEF OnTheWay
<1>4. ASSUME NEW c \in Client, NEW m \in DOMAIN Script[c], NEW n \in DOMAIN Script[c],
             Ahead(Script[c], Script[c][m], Script[c][n])
      PROVE  m < n
    BY <1>4, TcpAssumption DEF Ahead, IsInjective
<1> QED BY <1>2, <1>3, <1>4 DEF LaneOrder

\* Events that a client sends for one lane stay in order from the socket to the
\* workers, for any clients, scripts, capacities, retries and table, whatever is
\* refused, skipped, retried, dropped or discarded between them.
THEOREM LanesKeepOrder == Spec => []LaneOrder
<1>1. Spec => []LanesHoldTheirRank
    BY RanksHold
<1> QED BY <1>1, LaneOrderInit, LaneOrderStep, FromScriptStep, TypeCorrect, PTL DEF Spec

-----------------------------------------------------------------------------
(* What becomes of the neighbours of a bad frame *)

\* What is in the buffer, b, and still to come, u, is what follows the first k
\* frames of the script s.
Follows(k, b, u, s) ==
    /\ k + Len(b) + Len(u) = Len(s)
    /\ \A i \in 1 .. Len(b) : b[i] = s[k + i]
    /\ \A i \in 1 .. Len(u) : u[i] = s[k + Len(b) + i]

\* Frame n of the script of c should become no event.
Bad(c, n) == Script[c][n] \in Malformed \/ CutOff(c, n)

\* The first k frames of client c have left its connection, and the bad ones among
\* them are those that became no event.  While it is open none was too long.
FatesAt(c, k) ==
    /\ Follows(k, client_buf[c], unsent[c], Script[c])
    /\ cpc[c] # "gone" => \A i \in 1 .. k : Script[c][i] \notin Oversized
    /\ \A n \in DOMAIN Script[c] : Script[c][n] \in unparsed <=> n \in 1 .. k /\ Bad(c, n)

Fates == \A c \in Client : \E k \in 0 .. Len(Script[c]) : FatesAt(c, k)

\* The frame at the front of the buffer is taken.
LEMMA FrontFollows ==
    ASSUME NEW s \in Seq(Event), NEW b \in Seq(Event), NEW u \in Seq(Event),
           NEW k \in 0 .. Len(s), Follows(k, b, u, s), b # <<>>
    PROVE  /\ k + 1 \in 1 .. Len(s) /\ k + 1 \in 0 .. Len(s) /\ Head(b) = s[k + 1]
           /\ Follows(k + 1, Tail(b), u, s)
<1>1. Len(b) \in Nat \ {0} /\ Len(u) \in Nat /\ Len(s) \in Nat /\ k \in Nat
    OBVIOUS
<1>2. k + Len(b) + Len(u) = Len(s)
    BY DEF Follows
<1>3. k + 1 \in 1 .. Len(s) /\ k + 1 \in 0 .. Len(s)
    BY <1>1, <1>2
<1>4. Head(b) = s[k + 1]
    <2>1. b[1] = s[k + 1]
        BY <1>1 DEF Follows
    <2> QED BY <2>1
<1> DEFINE t == Tail(b)
<1>5. t \in Seq(Event) /\ Len(t) = Len(b) - 1 /\ \A i \in 1 .. Len(t) : t[i] = b[i + 1]
    BY <1>1
<1> HIDE DEF t
<1>6. \A i \in 1 .. Len(t) : t[i] = s[(k + 1) + i]
    <2> TAKE i \in 1 .. Len(t)
    <2>1. i + 1 \in 1 .. Len(b) /\ k + (i + 1) = (k + 1) + i
        BY <1>1, <1>5
    <2>2. b[i + 1] = s[k + (i + 1)]
        BY <2>1 DEF Follows
    <2> QED BY <1>5, <2>1, <2>2
<1>7. \A i \in 1 .. Len(u) : u[i] = s[(k + 1) + Len(t) + i]
    <2>1. (k + 1) + Len(t) = k + Len(b)
        BY <1>1, <1>5
    <2> QED BY <2>1 DEF Follows
<1>8. (k + 1) + Len(t) + Len(u) = Len(s)
    <2>1. (k + 1) + (Len(b) - 1) + Len(u) = Len(s)
        BY <1>1, <1>2
    <2> QED BY <1>5, <2>1, Zenon
<1>9. Follows(k + 1, t, u, s)
    BY <1>6, <1>7, <1>8 DEF Follows
<1> QED BY <1>3, <1>4, <1>9 DEF t

\* recv() brings n frames into the empty buffer.
LEMMA ReceivedFollows ==
    ASSUME NEW s \in Seq(Event), NEW u \in Seq(Event), NEW k \in 0 .. Len(s),
           Follows(k, <<>>, u, s), NEW n \in 0 .. Len(u)
    PROVE  Follows(k, SubSeq(u, 1, n), SubSeq(u, n + 1, Len(u)), s)
<1>1. /\ Len(u) \in Nat /\ Len(s) \in Nat /\ k \in Nat /\ n \in Nat
      /\ n <= Len(u) /\ k + Len(u) = Len(s)
    BY DEF Follows
<1>2. \A i \in 1 .. Len(u) : u[i] = s[k + i]
    BY DEF Follows
<1> DEFINE b == SubSeq(u, 1, n)
           r == SubSeq(u, n + 1, Len(u))
<1>3. b \in Seq(Event) /\ Len(b) = n /\ \A i \in 1 .. n : b[i] = u[i]
    BY <1>1
<1>4. /\ r \in Seq(Event) /\ Len(r) = Len(u) - n
      /\ \A i \in 1 .. Len(r) : r[i] = u[n + i]
    BY <1>1
<1> HIDE DEF b, r
<1>5. \A i \in 1 .. Len(b) : b[i] = s[k + i]
    <2> TAKE i \in 1 .. Len(b)
    <2>1. i \in 1 .. n /\ i \in 1 .. Len(u)
        BY <1>1, <1>3
    <2> QED BY <1>2, <1>3, <2>1, Zenon
<1>6. \A i \in 1 .. Len(r) : r[i] = s[k + Len(b) + i]
    <2> TAKE i \in 1 .. Len(r)
    <2>1. n + i \in 1 .. Len(u) /\ k + (n + i) = k + Len(b) + i
        BY <1>1, <1>3, <1>4
    <2>2. u[n + i] = s[k + (n + i)]
        BY <1>2, <2>1
    <2> QED BY <1>4, <2>1, <2>2
<1>7. k + Len(b) + Len(r) = Len(s)
    <2>1. k + n + (Len(u) - n) = Len(s)
        BY <1>1
    <2> QED BY <1>3, <1>4, <2>1, Zenon
<1>8. Follows(k, b, r, s)
    BY <1>5, <1>6, <1>7 DEF Follows
<1> QED BY <1>8 DEF b, r

\* The whole buffer is thrown away.
LEMMA NothingFollows ==
    ASSUME NEW s \in Seq(Event), NEW b \in Seq(Event), NEW u \in Seq(Event),
           NEW k \in 0 .. Len(s), Follows(k, b, u, s)
    PROVE  /\ k + Len(b) \in 0 .. Len(s) /\ Follows(k + Len(b), <<>>, u, s)
           /\ Range(b) = {s[n] : n \in k + 1 .. k + Len(b)}
<1>1. Len(b) \in Nat /\ Len(u) \in Nat /\ Len(s) \in Nat /\ k + Len(b) + Len(u) = Len(s)
    BY DEF Follows
<1>2. Follows(k + Len(b), <<>>, u, s)
    BY <1>1 DEF Follows
<1>3. \A i \in 1 .. Len(b) : k + i \in k + 1 .. k + Len(b) /\ b[i] = s[k + i]
    BY <1>1 DEF Follows
<1>4. \A n \in k + 1 .. k + Len(b) : n - k \in 1 .. Len(b) /\ k + (n - k) = n
    BY <1>1
<1>5. \A n \in k + 1 .. k + Len(b) : s[n] \in Range(b)
    <2> TAKE n \in k + 1 .. k + Len(b)
    <2>1. b[n - k] = s[n] /\ n - k \in 1 .. Len(b)
        BY <1>3, <1>4
    <2> QED BY <2>1 DEF Range
<1>6. \A e \in Range(b) : e \in {s[n] : n \in k + 1 .. k + Len(b)}
    <2> TAKE e \in Range(b)
    <2>1. PICK i \in 1 .. Len(b) : e = b[i]
        BY DEF Range
    <2> QED BY <1>3, <2>1
<1> QED BY <1>1, <1>2, <1>5, <1>6

\* A step that leaves the connection of a client alone, and adds none of its frames
\* to those that became no event, leaves the fates of its frames alone.
LEMMA UntouchedFates ==
    ASSUME NEW c \in Client, NEW k \in 0 .. Len(Script[c]), FatesAt(c, k),
           client_buf'[c] = client_buf[c], unsent'[c] = unsent[c],
           cpc[c] = "gone" => cpc'[c] = "gone",
           \A n \in DOMAIN Script[c] : Script[c][n] \in unparsed' <=> Script[c][n] \in unparsed
    PROVE  FatesAt(c, k)'
<1>1. Follows(k, client_buf[c], unsent[c], Script[c])'
    BY DEF FatesAt
<1>2. (cpc[c] # "gone" => \A i \in 1 .. k : Script[c][i] \notin Oversized)'
    BY DEF FatesAt
<1>3. (\A n \in DOMAIN Script[c] : Script[c][n] \in unparsed <=> n \in 1 .. k /\ Bad(c, n))'
    BY DEF FatesAt, Bad, CutOff
<1> QED BY <1>1, <1>2, <1>3 DEF FatesAt

\* recv() decides nothing.
LEMMA ReceiveFates ==
    ASSUME TypeOK, NEW c \in Client, NEW k \in 0 .. Len(Script[c]), FatesAt(c, k),
           NEW n \in 0 .. Len(unsent[c]), Receive(c, n)
    PROVE  FatesAt(c, k)'
<1>1. Script[c] \in Seq(Event) /\ unsent[c] \in Seq(Event) /\ client_buf[c] = <<>>
    BY TcpAssumption DEF TypeOK, TcpTypeOK, Receive
<1>2. /\ client_buf'[c] = SubSeq(unsent[c], 1, n)
      /\ unsent'[c] = SubSeq(unsent[c], n + 1, Len(unsent[c]))
      /\ unparsed' = unparsed
    BY DEF TypeOK, TcpTypeOK, Receive
<1>3. Follows(k, client_buf[c], unsent[c], Script[c])'
    <2>1. Follows(k, <<>>, unsent[c], Script[c])
        BY <1>1 DEF FatesAt
    <2>2. Follows(k, SubSeq(unsent[c], 1, n), SubSeq(unsent[c], n + 1, Len(unsent[c])), Script[c])
        BY <1>1, <2>1, ReceivedFollows
    <2> QED BY <1>2, <2>2
<1>4. \A i \in 1 .. k : Script[c][i] \notin Oversized
    BY DEF FatesAt, Receive
<1>5. (\A m \in DOMAIN Script[c] : Script[c][m] \in unparsed <=> m \in 1 .. k /\ Bad(c, m))'
    BY <1>2 DEF FatesAt, Bad, CutOff
<1> QED BY <1>3, <1>4, <1>5 DEF FatesAt

\* The frame at the front is taken: it becomes no event exactly if it is bad.
LEMMA TakenFates ==
    ASSUME NEW c \in Client, NEW k \in 0 .. Len(Script[c]), FatesAt(c, k),
           client_buf[c] \in Seq(Event), unsent[c] \in Seq(Event), client_buf[c] # <<>>,
           cpc[c] # "gone", client_buf'[c] = Tail(client_buf[c]), unsent'[c] = unsent[c],
           NEW e, e = Head(client_buf[c]), e \notin Oversized,
           \/ e \in Malformed /\ unparsed' = unparsed \cup {e}
           \/ e \notin Malformed /\ unparsed' = unparsed
    PROVE  k + 1 \in 0 .. Len(Script[c]) /\ FatesAt(c, k + 1)'
<1> DEFINE s == Script[c]
<1>1. s \in Seq(Event) /\ IsInjective(s)
    BY TcpAssumption
<1>2. /\ k + 1 \in 1 .. Len(s) /\ k + 1 \in 0 .. Len(s) /\ e = s[k + 1]
      /\ Follows(k + 1, Tail(client_buf[c]), unsent[c], s)
    BY <1>1, FrontFollows DEF FatesAt
<1>3. \A i \in 1 .. k + 1 : i \in 1 .. k \/ i = k + 1
    OBVIOUS
<1>4. \A i \in 1 .. k + 1 : s[i] \notin Oversized
    BY <1>2, <1>3 DEF FatesAt
<1>5. Bad(c, k + 1) <=> e \in Malformed
    BY <1>2, <1>4 DEF Bad, CutOff
<1>6. ASSUME NEW n \in DOMAIN s
      PROVE  s[n] \in unparsed' <=> n \in 1 .. k + 1 /\ Bad(c, n)
    <2>1. s[n] = e <=> n = k + 1
        BY <1>1, <1>2 DEF IsInjective
    <2>2. n \in 1 .. k + 1 <=> n \in 1 .. k \/ n = k + 1
        BY <1>1
    <2>3. s[n] \in unparsed <=> n \in 1 .. k /\ Bad(c, n)
        BY DEF FatesAt
    <2>4. s[n] \in unparsed' <=> s[n] \in unparsed \/ (s[n] = e /\ e \in Malformed)
        OBVIOUS
    <2>5. n = k + 1 => (Bad(c, n) <=> e \in Malformed)
        BY <1>5
    <2> HIDE DEF s
    <2> QED BY <2>1, <2>2, <2>3, <2>4, <2>5, Zenon
<1>7. Follows(k + 1, client_buf[c], unsent[c], Script[c])'
    BY <1>2
<1>8. (\A n \in DOMAIN Script[c] : Script[c][n] \in unparsed <=> n \in 1 .. k + 1 /\ Bad(c, n))'
    BY <1>6 DEF Bad, CutOff
<1> QED BY <1>2, <1>4, <1>7, <1>8 DEF FatesAt

\* The connection is closed because of the frame at the front.
LEMMA ClosedFates ==
    ASSUME NEW c \in Client, NEW k \in 0 .. Len(Script[c]), FatesAt(c, k),
           client_buf[c] \in Seq(Event), unsent[c] \in Seq(Event),
           cpc \in [Client -> ClientPC], client_buf \in [Client -> Seq(Event)],
           CloseOversized(c)
    PROVE  \E j \in 0 .. Len(Script[c]) : FatesAt(c, j)'
<1> DEFINE s == Script[c]
<1>1. s \in Seq(Event) /\ IsInjective(s) /\ Len(client_buf[c]) \in Nat
    BY TcpAssumption
<1>a. PICK j \in Nat : j = k + Len(client_buf[c])
    BY <1>1
<1>2. /\ client_buf'[c] = <<>> /\ unsent'[c] = unsent[c] /\ cpc'[c] = "gone"
      /\ unparsed' = unparsed \cup Range(client_buf[c])
      /\ client_buf[c] # <<>> /\ Head(client_buf[c]) \in Oversized
    BY DEF CloseOversized
<1>3. Follows(k, client_buf[c], unsent[c], s)
    BY DEF FatesAt
<1>4. /\ j \in 0 .. Len(s) /\ Follows(j, <<>>, unsent[c], s)
      /\ Range(client_buf[c]) = {s[n] : n \in k + 1 .. j}
    BY <1>1, <1>3, <1>a, NothingFollows
<1>5. k + 1 \in 1 .. Len(s) /\ s[k + 1] \in Oversized
    BY <1>1, <1>2, <1>3, FrontFollows
<1>6. \A n \in k + 1 .. j : Bad(c, n)
    <2> TAKE n \in k + 1 .. j
    <2>1. k + 1 \in 1 .. n
        BY <1>1
    <2> QED BY <1>5, <2>1 DEF Bad, CutOff
<1>7. ASSUME NEW n \in DOMAIN s
      PROVE  s[n] \in unparsed' <=> n \in 1 .. j /\ Bad(c, n)
    <2>1. s[n] \in Range(client_buf[c]) <=> n \in k + 1 .. j
        <3>1. k + 1 .. j \subseteq DOMAIN s
            BY <1>1, <1>4
        <3>2. \A m \in k + 1 .. j : s[m] = s[n] => m = n
            BY <1>1, <3>1 DEF IsInjective
        <3> QED BY <1>4, <3>2
    <2>2. n \in 1 .. j <=> n \in 1 .. k \/ n \in k + 1 .. j
        BY <1>1, <1>a
    <2>3. s[n] \in unparsed <=> n \in 1 .. k /\ Bad(c, n)
        BY DEF FatesAt
    <2>4. s[n] \in unparsed' <=> s[n] \in unparsed \/ s[n] \in Range(client_buf[c])
        BY <1>2
    <2> HIDE DEF s
    <2> QED BY <1>6, <2>1, <2>2, <2>3, <2>4, Zenon
<1>8. Follows(j, client_buf'[c], unsent'[c], s)
    BY <1>2, <1>4
<1>9. FatesAt(c, j)'
    <2>1. (\A n \in DOMAIN Script[c] : Script[c][n] \in unparsed <=> n \in 1 .. j /\ Bad(c, n))'
        BY <1>7 DEF Bad, CutOff
    <2> QED BY <1>2, <1>8, <2>1 DEF FatesAt
<1> QED BY <1>4, <1>9

\* What the thread of a connection does to the frames of its own client ...
LEMMA HandlingFates ==
    ASSUME TypeOK, NEW c \in Client, NEW k \in 0 .. Len(Script[c]), FatesAt(c, k), Handling(c)
    PROVE  \E j \in 0 .. Len(Script[c]) : FatesAt(c, j)'
<1>1. /\ client_buf \in [Client -> Seq(Event)] /\ unsent \in [Client -> Seq(Event)]
      /\ cpc \in [Client -> ClientPC]
    BY DEF TypeOK, TcpTypeOK
<1>2. client_buf[c] \in Seq(Event) /\ unsent[c] \in Seq(Event)
    BY <1>1
<1>3. CASE ClientTest(c) \/ FramesDone(c)
    <2>1. FatesAt(c, k)'
        BY <1>3, UntouchedFates DEF ClientTest, FramesDone
    <2> QED BY <2>1
<1>4. CASE SkipFrame(c)
    <2>1. /\ client_buf[c] # <<>> /\ cpc[c] # "gone" /\ Head(client_buf[c]) \in Malformed
          /\ Head(client_buf[c]) \notin Oversized
          /\ client_buf'[c] = Tail(client_buf[c]) /\ unsent'[c] = unsent[c]
          /\ unparsed' = unparsed \cup {Head(client_buf[c])}
        BY <1>1, <1>4, TcpAssumption DEF SkipFrame
    <2>2. k + 1 \in 0 .. Len(Script[c]) /\ FatesAt(c, k + 1)'
        BY <1>2, <2>1, TakenFates
    <2> QED BY <2>2
<1>5. CASE HandleFrame(c)
    <2>1. /\ client_buf[c] # <<>> /\ cpc[c] # "gone" /\ Head(client_buf[c]) \notin Malformed
          /\ Head(client_buf[c]) \notin Oversized
          /\ client_buf'[c] = Tail(client_buf[c]) /\ unsent'[c] = unsent[c]
          /\ unparsed' = unparsed
        BY <1>1, <1>5 DEF HandleFrame
    <2>2. k + 1 \in 0 .. Len(Script[c]) /\ FatesAt(c, k + 1)'
        BY <1>2, <2>1, TakenFates
    <2> QED BY <2>2
<1>6. CASE CloseOversized(c)
    BY <1>1, <1>2, <1>6, ClosedFates
<1> QED BY <1>3, <1>4, <1>5, <1>6 DEF Handling, ClientThread

\* ... and to those of the others: nothing.
LEMMA HandlingOthersFates ==
    ASSUME TypeOK, NEW c \in Client, NEW i \in 0 .. Len(Script[c]), FatesAt(c, i), Handling(c),
           NEW d \in Client, d # c, NEW k \in 0 .. Len(Script[d]), FatesAt(d, k)
    PROVE  FatesAt(d, k)'
<1>1. /\ client_buf \in [Client -> Seq(Event)] /\ unsent \in [Client -> Seq(Event)]
      /\ cpc \in [Client -> ClientPC]
    BY DEF TypeOK, TcpTypeOK
<1>2. client_buf'[d] = client_buf[d] /\ unsent'[d] = unsent[d] /\ cpc'[d] = cpc[d]
    BY <1>1 DEF Handling, ClientThread, ClientTest, FramesDone, SkipFrame, CloseOversized, HandleFrame
<1>3. client_buf[c] \in Seq(Event) /\ Script[c] \in Seq(Event) /\ unsent[c] \in Seq(Event)
    BY <1>1, TcpAssumption
<1>4. unparsed \subseteq unparsed' /\ unparsed' \subseteq unparsed \cup Range(client_buf[c])
    <2>1. client_buf[c] # <<>> => Head(client_buf[c]) \in Range(client_buf[c])
        BY <1>3 DEF Range
    <2> QED BY <2>1
            DEF Handling, ClientThread, ClientTest, FramesDone, SkipFrame, CloseOversized, HandleFrame
<1>5. Range(client_buf[c]) \subseteq Range(Script[c])
    <2>1. Follows(i, client_buf[c], unsent[c], Script[c])
        BY DEF FatesAt
    <2>2. /\ i + Len(client_buf[c]) \in 0 .. Len(Script[c])
          /\ Range(client_buf[c]) = {Script[c][n] : n \in i + 1 .. i + Len(client_buf[c])}
        BY <1>3, <2>1, NothingFollows
    <2>3. i + 1 .. i + Len(client_buf[c]) \subseteq DOMAIN Script[c]
        BY <1>3, <2>2
    <2> QED BY <2>2, <2>3 DEF Range
<1>6. \A n \in DOMAIN Script[d] : Script[d][n] \notin Range(client_buf[c])
    <2>1. Range(Script[c]) \cap Range(Script[d]) = {}
        BY TcpAssumption
    <2>2. \A n \in DOMAIN Script[d] : Script[d][n] \in Range(Script[d])
        BY DEF Range
    <2> QED BY <1>5, <2>1, <2>2
<1>7. \A n \in DOMAIN Script[d] : Script[d][n] \in unparsed' <=> Script[d][n] \in unparsed
    BY <1>4, <1>6
<1> QED BY <1>2, <1>7, UntouchedFates

LEMMA FatesStep == TypeOK /\ Fates /\ [Next]_vars => Fates'
<1> SUFFICES ASSUME TypeOK, Fates, [Next]_vars, NEW c \in Client
             PROVE  \E k \in 0 .. Len(Script[c]) : FatesAt(c, k)'
    BY DEF Fates
<1>1. PICK k \in 0 .. Len(Script[c]) : FatesAt(c, k)
    BY DEF Fates
<1>2. cpc \in [Client -> ClientPC] /\ client_buf \in [Client -> Seq(Event)]
      /\ unsent \in [Client -> Seq(Event)]
    BY DEF TypeOK, TcpTypeOK
<1>3. ASSUME UNCHANGED <<client_buf, unsent, unparsed>>, cpc[c] = "gone" => cpc'[c] = "gone"
      PROVE  FatesAt(c, k)'
    BY <1>1, <1>3, UntouchedFates
<1>4. CASE Main
    <2>1. UNCHANGED <<client_buf, unsent, unparsed, cpc>>
        BY <1>4 DEF Main, MainDispatcher, MainProcessor, MainServer, MainPool, MainOther, tcpVars,
            TcpStart, TcpStartThrows, TcpStopFlag, TcpStopClose, TcpJoinAccept, TcpJoinClients
    <2> QED BY <1>3, <2>1
<1>5. CASE Accepting
    <2>1. UNCHANGED <<client_buf, unsent, unparsed>> /\ (cpc[c] = "gone" => cpc'[c] = "gone")
        BY <1>2, <1>5 DEF Accepting, AcceptThread, AcceptTest, AcceptFails, Accept
    <2> QED BY <1>3, <2>1
<1>6. ASSUME NEW d \in Client, Handling(d)
      PROVE  \E j \in 0 .. Len(Script[c]) : FatesAt(c, j)'
    <2>1. CASE d = c
        BY <1>1, <1>6, <2>1, HandlingFates
    <2>2. CASE d # c
        <3>1. PICK i \in 0 .. Len(Script[d]) : FatesAt(d, i)
            BY DEF Fates
        <3>2. FatesAt(c, k)'
            BY <1>1, <1>6, <2>2, <3>1, HandlingOthersFates
        <3> QED BY <3>2
    <2> QED BY <2>1, <2>2
<1>7. ASSUME NEW d \in Client, Outside(d)
      PROVE  FatesAt(c, k)'
    <2>1. CASE Connect(d) \/ Disconnect(d)
        <3>1. UNCHANGED <<client_buf, unsent, unparsed>> /\ (cpc[c] = "gone" => cpc'[c] = "gone")
            BY <1>2, <2>1 DEF Connect, Disconnect
        <3> QED BY <1>3, <3>1
    <2>2. ASSUME NEW n \in 0 .. Len(unsent[d]), Receive(d, n) PROVE FatesAt(c, k)'
        <3>1. CASE d = c
            BY <1>1, <2>2, <3>1, ReceiveFates
        <3>2. CASE d # c
            <4>1. /\ client_buf'[c] = client_buf[c] /\ unsent'[c] = unsent[c]
                  /\ cpc'[c] = cpc[c] /\ unparsed' = unparsed
                BY <1>2, <2>2, <3>2 DEF Receive
            <4> QED BY <1>1, <4>1, UntouchedFates
        <3> QED BY <3>1, <3>2
    <2> QED BY <1>7, <2>1, <2>2 DEF Outside, ClientOutside
<1>8. CASE UNCHANGED tcpVars
    BY <1>3, <1>8 DEF tcpVars
<1> QED BY <1>1, <1>4, <1>5, <1>6, <1>7, <1>8
        DEF Next, vars, Signal, Dispatching, Processing, Working, Returning

LEMMA FatesInit == Init => Fates
<1> SUFFICES ASSUME Init, NEW c \in Client
             PROVE  \E k \in 0 .. Len(Script[c]) : FatesAt(c, k)
    BY DEF Fates
<1>1. Script[c] \in Seq(Event)
    BY TcpAssumption
<1>2. client_buf[c] = <<>> /\ unsent[c] = Script[c] /\ unparsed = {}
    BY DEF Init, TcpInit
<1>3. Follows(0, <<>>, Script[c], Script[c])
    BY <1>1 DEF Follows
<1>4. FatesAt(c, 0)
    BY <1>2, <1>3 DEF FatesAt
<1>5. 0 \in 0 .. Len(Script[c])
    BY <1>1
<1> QED BY <1>4, <1>5

LEMMA FatesAreRight == TypeOK /\ Fates => NeighboursAreKept
<1> SUFFICES ASSUME TypeOK, Fates, NEW c \in Client, NEW n \in DOMAIN Script[c],
                    Script[c][n] \notin Range(client_buf[c]) \cup Range(unsent[c])
             PROVE  Script[c][n] \in unparsed <=> Bad(c, n)
    BY DEF NeighboursAreKept, Bad
<1>1. PICK k \in 0 .. Len(Script[c]) : FatesAt(c, k)
    BY DEF Fates
<1>2. Script[c] \in Seq(Event) /\ client_buf[c] \in Seq(Event) /\ unsent[c] \in Seq(Event)
    BY TcpAssumption DEF TypeOK, TcpTypeOK
<1>3. Follows(k, client_buf[c], unsent[c], Script[c])
    BY <1>1 DEF FatesAt
<1>4. Len(client_buf[c]) \in Nat /\ Len(unsent[c]) \in Nat /\ Len(Script[c]) \in Nat
    BY <1>2
<1>5. k + Len(client_buf[c]) + Len(unsent[c]) = Len(Script[c])
    BY <1>3 DEF Follows
<1>6. n \in 1 .. Len(Script[c])
    BY <1>2
<1>7. n - k \notin 1 .. Len(client_buf[c])
    <2> SUFFICES ASSUME n - k \in 1 .. Len(client_buf[c]) PROVE FALSE
        OBVIOUS
    <2>1. client_buf[c][n - k] = Script[c][k + (n - k)]
        BY <1>3 DEF Follows
    <2>2. k + (n - k) = n
        BY <1>6
    <2>3. client_buf[c][n - k] \in Range(client_buf[c])
        BY <1>2 DEF Range
    <2> QED BY <2>1, <2>2, <2>3
<1>8. n - k - Len(client_buf[c]) \notin 1 .. Len(unsent[c])
    <2> DEFINE m == n - k - Len(client_buf[c])
    <2> SUFFICES ASSUME m \in 1 .. Len(unsent[c]) PROVE FALSE
        OBVIOUS
    <2>1. unsent[c][m] = Script[c][k + Len(client_buf[c]) + m]
        BY <1>3 DEF Follows
    <2>2. k + Len(client_buf[c]) + m = n
        <3>1. \A x, y, z \in Int : x + y + (z - x - y) = z
            OBVIOUS
        <3>2. k \in Int /\ Len(client_buf[c]) \in Int /\ n \in Int
            BY <1>4, <1>6
        <3> QED BY <3>1, <3>2
    <2>3. unsent[c][m] \in Range(unsent[c])
        BY <1>2 DEF Range
    <2> QED BY <2>1, <2>2, <2>3
<1>9. n \in 1 .. k
    <2>1. \A p, x, y, z \in Nat : p + x + y = z /\ n \in 1 .. z /\ n - p \notin 1 .. x
                                 /\ n - p - x \notin 1 .. y => n \in 1 .. p
        OBVIOUS
    <2>2. k \in Nat
        OBVIOUS
    <2> QED BY <1>4, <1>5, <1>6, <1>7, <1>8, <2>1, <2>2
<1> QED BY <1>1, <1>9 DEF FatesAt

\* A malformed frame takes no neighbour with it, and one that is too long takes all
\* behind it and none before it, for any clients, scripts and frames, however recv()
\* cuts the stream and whatever the other threads do.
THEOREM NeighboursKept == Spec => []NeighboursAreKept
<1> QED BY TypeCorrect, FatesInit, FatesStep, FatesAreRight, PTL DEF Spec

=============================================================================
