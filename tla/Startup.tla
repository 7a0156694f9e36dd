------------------------------ MODULE Startup ------------------------------
(***************************************************************************)
(* main (src/app/main.cpp) from its first statement to the point where     *)
(* module EventStreamCore begins, "ready", and the first events that the   *)
(* connection threads create from there on.  Everything before "ready" is  *)
(* done by one thread; what can go wrong there is the configuration, the   *)
(* topic file, the storage file, a thread that cannot be created, and a    *)
(* signal.                                                                 *)
(***************************************************************************)
EXTENDS ConfigLoader, TopicTable, EventFactory, FiniteSets

CONSTANTS Input,        \* pairs of a configuration file and a topic file
          SizeModulus,  \* number of values of size_t
          NoConfig,     \* config before it is loaded
          MaxEvents     \* bound on the events created

\* What a configuration file and a topic file are.  The numbers that as<int>()
\* reads are within size_t, if they are not negative.
ASSUME StartupAssumption ==
    /\ SizeModulus \in Nat \ {0} /\ MaxEvents \in Nat
    /\ \A i \in Input :
        /\ i[1] # NoFile =>
              /\ DOMAIN i[1] = Key
              /\ \A k \in IntKey : i[1][k] \in {Missing, Malformed} \/ i[1][k] \in Int
              /\ LET n == i[1]["Threads_pool.max_threads"]
                 IN  n \in {Missing, Malformed} \/ n < SizeModulus
              /\ AppConfiguration(i[1]) # NoConfig
        /\ i[2] # NoTopics => i[2] \in Seq(Seq(Token))

VARIABLES doc,          \* the configuration file
          topics,       \* the topic file
          mpc,          \* where main is
          config,       \* config
          handlers,     \* signal_handler is installed
          g_running,    \* the flag it clears
          Table,        \* topicTable
          lines,        \* the lines of the topic file that have been read
          open,         \* storageEngine exists, and has opened its file
          workers,      \* the threads of workerPool
          serverPort    \* the port that the server will listen on, 0: no server

mainVars ==
    <<doc, topics, mpc, config, handlers, g_running, Table, lines, open, workers, serverPort>>

\* What the creators of events have returned, and with which checksums.
VARIABLES returned,     \* numbers of the events
          badCrc        \* those of which the checksum is wrong

vars == <<mainVars, factoryVars, returned, badCrc>>

\* static_cast<size_t>
Size(n) == n % SizeModulus

\* A file that cannot be opened has no lines for the loop.
LineCount == IF topics = NoTopics THEN 0 ELSE Len(topics)

PoolSize == Size(config["Threads_pool.max_threads"])

\* How main may end before it is ready: EXIT_FAILURE, std::terminate, a signal.
Ended == {"failed", "aborted", "killed"}

TypeOK ==
    /\ FactoryTypeOK
    /\ mpc \in Ended \cup {"load", "signals", "topics", "storage", "pool", "unwind", "ready"}
    /\ config = NoConfig \/ (DOMAIN config = Key /\ DOMAIN doc = Key)
    /\ handlers \in BOOLEAN /\ g_running \in BOOLEAN
    /\ \A t \in DOMAIN Table : t \in Seq(Token) /\ Table[t] \in EventPriority
    /\ lines \in 0 .. LineCount
    /\ open \in BOOLEAN
    /\ workers \in 0 .. IF config = NoConfig THEN 0 ELSE PoolSize
    /\ serverPort \in Nat /\ serverPort < 65536
    /\ returned \subseteq Nat /\ badCrc \subseteq returned

Init ==
    /\ \E i \in Input : doc = i[1] /\ topics = i[2]
    /\ mpc = "load"
    /\ config = NoConfig
    /\ handlers = FALSE
    /\ g_running = TRUE
    /\ Table = <<>>
    /\ lines = 0
    /\ open = FALSE
    /\ workers = 0
    /\ serverPort = 0
    /\ FactoryInit
    /\ returned = {}
    /\ badCrc = {}

-----------------------------------------------------------------------------
Step(from, to) == mpc = from /\ mpc' = to

Load ==
    /\ \/ Step("load", "failed") /\ loadConfig(doc) = Throws /\ UNCHANGED config
       \/ Step("load", "signals") /\ loadConfig(doc) # Throws /\ config' = loadConfig(doc)
    /\ UNCHANGED <<doc, topics, handlers, g_running, Table, lines, open, workers, serverPort>>

InstallHandlers ==
    /\ Step("signals", "topics")
    /\ handlers' = TRUE
    /\ UNCHANGED <<doc, topics, config, g_running, Table, lines, open, workers, serverPort>>

\* Bus and dispatcher have been constructed.  LoadFileConfig reads a line.
LoadFileConfig ==
    /\ mpc = "topics" /\ lines < LineCount
    /\ lines' = lines + 1
    /\ Table' = Enter(Table, EntryOf(topics[lines + 1]))
    /\ UNCHANGED <<doc, topics, mpc, config, handlers, g_running, open, workers, serverPort>>

\* The dispatcher gets the table.  Without a topic file main goes on.
SetTopicTable ==
    /\ Step("topics", "storage") /\ lines = LineCount
    /\ UNCHANGED <<doc, topics, config, handlers, g_running, Table, lines, open, workers, serverPort>>

\* The constructor of StorageEngine, which throws if it cannot open the file.
OpenStorage ==
    /\ \/ Step("storage", "pool") /\ open' = TRUE
       \/ Step("storage", "unwind") /\ UNCHANGED open
    /\ UNCHANGED <<doc, topics, config, handlers, g_running, Table, lines, workers, serverPort>>

\* Variant for mutation: one thread too many.
CreateWorkerOneMore ==
    /\ mpc = "pool" /\ workers <= PoolSize
    /\ workers' = workers + 1
    /\ UNCHANGED <<doc, topics, mpc, config, handlers, g_running, Table, lines, open, serverPort>>

\* The constructor of ThreadPool creates its threads one by one.  If the system
\* refuses one, the vector with those that run is destroyed: std::terminate.
CreateWorker ==
    /\ mpc = "pool" /\ workers < PoolSize
    /\ \/ workers' = workers + 1 /\ UNCHANGED mpc
       \/ mpc' = (IF workers = 0 THEN "unwind" ELSE "aborted") /\ UNCHANGED workers
    /\ UNCHANGED <<doc, topics, config, handlers, g_running, Table, lines, open, serverPort>>

\* htons
Port(n) == n % 65536

\* Processor and server are constructed.
ConstructRest ==
    /\ Step("pool", "ready") /\ workers = PoolSize
    /\ serverPort' = Port(config["ingestion.tcp.port"])
    /\ UNCHANGED <<doc, topics, config, handlers, g_running, Table, lines, open, workers>>

\* The exception leaves the block: what has been constructed is destroyed.
Unwind ==
    /\ Step("unwind", "failed")
    /\ open' = FALSE
    /\ g_running' = FALSE
    /\ UNCHANGED <<doc, topics, config, handlers, Table, lines, workers, serverPort>>

\* SIGINT or SIGTERM.  Later ones are in EventStreamCore.
Signal ==
    /\ mpc \notin Ended \cup {"ready"}
    /\ \/ ~handlers /\ mpc' = "killed" /\ UNCHANGED g_running
       \/ handlers /\ g_running /\ g_running' = FALSE /\ UNCHANGED mpc
    /\ UNCHANGED <<doc, topics, config, handlers, Table, lines, open, workers, serverPort>>

Main ==
    /\ \/ Load \/ InstallHandlers \/ LoadFileConfig \/ SetTopicTable \/ OpenStorage
       \/ CreateWorker \/ ConstructRest \/ Unwind \/ Signal
    /\ UNCHANGED <<factoryVars, returned, badCrc>>

\* createEvent, by a connection thread.
Create(c) ==
    /\ mpc = "ready"
    /\ \/ global_event_id < MaxEvents /\ DrawId(c) /\ UNCHANGED <<returned, badCrc>>
       \/ (FindTable(c) \/ FillTable(c)) /\ UNCHANGED <<returned, badCrc>>
       \/ /\ ReturnEvent(c)
          /\ returned' = returned \cup {number[c]}
          /\ badCrc' = IF TableRight(c) THEN badCrc ELSE badCrc \cup {number[c]}
    /\ UNCHANGED mainVars

\* A store of thread c becomes visible.
Visible(c) == StoreSeen(c) /\ UNCHANGED <<mainVars, returned, badCrc>>

Next == Main \/ \E c \in Creator : Create(c) \/ Visible(c)

Spec == Init /\ [][Next]_vars

-----------------------------------------------------------------------------
(* Properties *)

\* The program gets ready only with what the rest of it relies on, whatever the
\* file says: the server's port is the one asked for, not what 16 bits leave of
\* it, nor 0, by which the system would choose one; the pool has the threads
\* asked for, at least one, so no conversion to size_t has wrapped; the store
\* has its file.
ReadyIsUsable ==
    mpc = "ready" =>
        /\ serverPort = doc["ingestion.tcp.port"] /\ serverPort > 0
        /\ workers = doc["Threads_pool.max_threads"] /\ workers > 0
        /\ open

\* What line i of the topic file says of topic t, the last line about t, and the
\* topics that some line is about.
SaidOf(t, i) == {p \in EventPriority : Says(topics[i], t, p)}
LastAbout(t) == CHOOSE i \in 1 .. Len(topics) :
    SaidOf(t, i) # {} /\ \A j \in i + 1 .. Len(topics) : SaidOf(t, j) = {}
Parts(line) == {SubSeq(line, i, j) : i, j \in 1 .. Len(line)}
TopicsNamed == {t \in UNION {Parts(line) : line \in Range(topics)} :
                    \E i \in 1 .. Len(topics) : SaidOf(t, i) # {}}

\* The table that the dispatcher is given says of each topic what the last line
\* says that is about it, and nothing of other topics.
TableIsTheFile ==
    mpc = "storage" /\ topics # NoTopics =>
        /\ DOMAIN Table = TopicsNamed
        /\ \A t \in TopicsNamed : Table[t] \in SaidOf(t, LastAbout(t))

\* Events with the same identifier were created at least 2^32 events apart,
\* however the threads that create them interleave.
IdsApart ==
    \A c \in Creator :
        created[c] # "none" =>
            \A n \in returned \cup {number[d] : d \in {d \in Creator \ {c} : created[d] # "none"}} :
                Id(n) = Id(number[c]) =>
                    n + IdModulus <= number[c] \/ number[c] + IdModulus <= n

\* A checksum can be wrong, since the table is filled without synchronisation,
\* but never one that a thread computes which has filled the table itself, even
\* while other threads fill it again.
FillersAreRight ==
    [][\A c \in filled : created[c] = "use" /\ created'[c] = "none" => badCrc' = badCrc]_vars
=============================================================================
