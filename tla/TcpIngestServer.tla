-------------------------- MODULE TcpIngestServer --------------------------
(***************************************************************************)
(* The TCP server (include/ingest/*.hpp, src/ingest/*.cpp): a thread that  *)
(* accepts connections and one thread per connection that cuts the bytes   *)
(* it receives into frames and offers each as an event to the dispatcher.  *)
(*                                                                         *)
(* The unit is the frame: a connection carries a sequence of frames, known *)
(* by the events they become, and a recv() completes any number of them    *)
(* (none, when it ends inside one).  Malformed frames make the parser      *)
(* throw; an Oversized one makes handleClient close the connection.        *)
(***************************************************************************)
EXTENDS Dispatcher

CONSTANTS Client,     \* connections
          Script,     \* the frames each client has to send, in order
          Malformed,  \* frames that parseTCPFrame refuses
          Oversized   \* frames whose length exceeds MAX_BUFFER_SIZE

ASSUME TcpAssumption ==
    /\ Script \in [Client -> Seq(Event)]
    /\ \A c \in Client : IsInjective(Script[c])
    /\ \A c, d \in Client : c # d => Range(Script[c]) \cap Range(Script[d]) = {}
    /\ Event = UNION {Range(Script[c]) : c \in Client}
    /\ Malformed \subseteq Event
    /\ Oversized \subseteq Event \ Malformed

VARIABLES tcpRunning, \* isRunning
          listening,  \* server_fd is a listening socket
          apc,        \* where the accept thread is; "none": not joinable
          cpc,        \* where each connection's thread is
          client_buf, \* complete frames in each thread's client_buf
          unsent,     \* frames each client still has to send
          unparsed    \* frames that were received and became no event

tcpVars == <<tcpRunning, listening, apc, cpc, client_buf, unsent, unparsed>>

\* "away": no connection yet; "backlog": waiting to be accepted; "gone": the
\* thread has returned.
ClientPC == {"away", "backlog", "test", "recv", "frames", "gone"}

TcpTypeOK ==
    /\ tcpRunning \in BOOLEAN
    /\ listening \in BOOLEAN
    /\ apc \in {"none", "test", "accept", "returned"}
    /\ cpc \in [Client -> ClientPC]
    /\ client_buf \in [Client -> Seq(Event)]
    /\ \A c \in Client : client_buf[c] # <<>> => cpc[c] = "frames"
    /\ unsent \in [Client -> Seq(Event)]
    /\ unparsed \subseteq Event

TcpInit ==
    /\ tcpRunning = FALSE
    /\ listening = FALSE
    /\ apc = "none"
    /\ cpc = [c \in Client |-> "away"]
    /\ client_buf = [c \in Client |-> <<>>]
    /\ unsent = Script
    /\ unparsed = {}

-----------------------------------------------------------------------------
(* Called by main. *)

\* start(): socket() may fail, and then no thread is started; bind() or
\* listen() may fail, and the thread is started all the same.
TcpStart ==
    /\ tcpRunning' = TRUE
    /\ listening' \in BOOLEAN
    /\ apc' \in IF listening' THEN {"test"} ELSE {"test", "none"}
    /\ UNCHANGED <<cpc, client_buf, unsent, unparsed>>

\* start(): the accept thread cannot be created, and the exception leaves
\* start(), with the socket open or not.
TcpStartThrows ==
    /\ tcpRunning' = TRUE
    /\ listening' \in BOOLEAN
    /\ UNCHANGED <<apc, cpc, client_buf, unsent, unparsed>>

\* stop() stores the flag, ...
TcpStopFlag ==
    /\ tcpRunning' = FALSE
    /\ UNCHANGED <<listening, apc, cpc, client_buf, unsent, unparsed>>

\* Variant for mutation: the listening socket is not closed.
TcpStopKeepsSocket == UNCHANGED tcpVars

\* ... closes the listening socket, ...
TcpStopClose ==
    /\ listening' = FALSE
    /\ UNCHANGED <<tcpRunning, apc, cpc, client_buf, unsent, unparsed>>

\* ... joins the accept thread, if there is one, ...
TcpJoinAccept ==
    /\ apc \in {"none", "returned"}
    /\ apc' = "none"
    /\ UNCHANGED <<tcpRunning, listening, cpc, client_buf, unsent, unparsed>>

\* Variant for mutation: the connections' threads are detached.
TcpDetachClients == UNCHANGED tcpVars

\* ... and then every thread that acceptConnections started.
TcpJoinClients ==
    /\ \A c \in Client : cpc[c] \in {"away", "backlog", "gone"}
    /\ UNCHANGED tcpVars

-----------------------------------------------------------------------------
(* acceptConnections *)

AcceptTest ==
    /\ apc = "test"
    /\ apc' = IF tcpRunning THEN "accept" ELSE "returned"
    /\ UNCHANGED <<tcpRunning, listening, cpc, client_buf, unsent, unparsed>>

\* accept() returns a connection; the flag is not looked at again.
Accept(c) ==
    /\ apc = "accept"
    /\ listening
    /\ cpc[c] = "backlog"
    /\ cpc' = [cpc EXCEPT ![c] = "test"]
    /\ apc' = "test"
    /\ UNCHANGED <<tcpRunning, listening, client_buf, unsent, unparsed>>

\* accept() fails: the socket is closed, or never was one; or the connection was
\* aborted, or no descriptor is free for it.
AcceptFails ==
    /\ apc = "accept"
    /\ apc' = "test"
    /\ UNCHANGED <<tcpRunning, listening, cpc, client_buf, unsent, unparsed>>

-----------------------------------------------------------------------------
(* The clients and the network. *)

\* A client connects.
Connect(c) ==
    /\ listening
    /\ cpc[c] = "away"
    /\ cpc' = [cpc EXCEPT ![c] = "backlog"]
    /\ UNCHANGED <<tcpRunning, listening, apc, client_buf, unsent, unparsed>>

\* recv() returns bytes that complete the next n frames.
Receive(c, n) ==
    /\ cpc[c] = "recv"
    /\ n <= Len(unsent[c])
    /\ client_buf' = [client_buf EXCEPT ![c] = SubSeq(unsent[c], 1, n)]
    /\ unsent' = [unsent EXCEPT ![c] = SubSeq(@, n + 1, Len(@))]
    /\ cpc' = [cpc EXCEPT ![c] = "frames"]
    /\ UNCHANGED <<tcpRunning, listening, apc, unparsed>>

\* recv() returns 0 or an error: the client has closed, or the network failed.
Disconnect(c) ==
    /\ cpc[c] = "recv"
    /\ cpc' = [cpc EXCEPT ![c] = "gone"]
    /\ UNCHANGED <<tcpRunning, listening, apc, client_buf, unsent, unparsed>>

-----------------------------------------------------------------------------
(* handleClient *)

ClientTest(c) ==
    /\ cpc[c] = "test"
    /\ cpc' = [cpc EXCEPT ![c] = IF tcpRunning THEN "recv" ELSE "gone"]
    /\ UNCHANGED <<tcpRunning, listening, apc, client_buf, unsent, unparsed>>

\* The buffer holds no complete frame any more.
FramesDone(c) ==
    /\ cpc[c] = "frames"
    /\ client_buf[c] = <<>>
    /\ cpc' = [cpc EXCEPT ![c] = "test"]
    /\ UNCHANGED <<tcpRunning, listening, apc, client_buf, unsent, unparsed>>

\* Variant for mutation: a malformed frame clears the buffer.
SkipClearsBuffer(c) ==
    /\ cpc[c] = "frames"
    /\ client_buf[c] # <<>>
    /\ Head(client_buf[c]) \in Malformed
    /\ unparsed' = unparsed \cup {Head(client_buf[c])}
    /\ client_buf' = [client_buf EXCEPT ![c] = <<>>]
    /\ UNCHANGED <<tcpRunning, listening, apc, cpc, unsent>>

\* Variant for mutation: a malformed frame closes the connection.
SkipCloses(c) ==
    /\ cpc[c] = "frames"
    /\ client_buf[c] # <<>>
    /\ Head(client_buf[c]) \in Malformed
    /\ unparsed' = unparsed \cup Range(client_buf[c])
    /\ client_buf' = [client_buf EXCEPT ![c] = <<>>]
    /\ cpc' = [cpc EXCEPT ![c] = "gone"]
    /\ UNCHANGED <<tcpRunning, listening, apc, unsent>>

\* parseTCPFrame throws and the frame is skipped.
SkipFrame(c) ==
    /\ cpc[c] = "frames"
    /\ client_buf[c] # <<>>
    /\ Head(client_buf[c]) \in Malformed
    /\ unparsed' = unparsed \cup {Head(client_buf[c])}
    /\ client_buf' = [client_buf EXCEPT ![c] = Tail(@)]
    /\ UNCHANGED <<tcpRunning, listening, apc, cpc, unsent>>

\* The frame is too long: the connection is closed, with all it has buffered.
CloseOversized(c) ==
    /\ cpc[c] = "frames"
    /\ client_buf[c] # <<>>
    /\ Head(client_buf[c]) \in Oversized
    /\ unparsed' = unparsed \cup Range(client_buf[c])
    /\ client_buf' = [client_buf EXCEPT ![c] = <<>>]
    /\ cpc' = [cpc EXCEPT ![c] = "gone"]
    /\ UNCHANGED <<tcpRunning, listening, apc, unsent>>

\* The frame becomes an event and is offered to the dispatcher, whose answer
\* is not looked at.
HandleFrame(c) ==
    /\ cpc[c] = "frames"
    /\ client_buf[c] # <<>>
    /\ LET e == Head(client_buf[c])
       IN  /\ e \notin Malformed \cup Oversized
           /\ TryPush(e) \/ TryPushFails(e)
    /\ client_buf' = [client_buf EXCEPT ![c] = Tail(@)]
    /\ UNCHANGED <<tcpRunning, listening, apc, cpc, unsent, unparsed>>

AcceptThread == AcceptTest \/ AcceptFails \/ \E c \in Client : Accept(c)

\* The steps of it that must come: accept() returns for a connection, or because
\* there is no socket, but waits for nothing else.
AcceptOwed == AcceptTest \/ (~listening /\ AcceptFails) \/ \E c \in Client : Accept(c)

\* Steps that a connection's thread takes of itself: all but returning from recv.
ClientThread(c) ==
    \/ /\ ClientTest(c) \/ FramesDone(c) \/ SkipFrame(c) \/ CloseOversized(c)
       /\ UNCHANGED dispatcherVars
    \/ HandleFrame(c)

\* What the client and the network do.
ClientOutside(c) ==
    \/ Connect(c)
    \/ \E n \in 0 .. Len(unsent[c]) : Receive(c, n)
    \/ Disconnect(c)
=============================================================================
