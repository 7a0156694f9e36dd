---------------------------- MODULE TcpFraming ----------------------------
(***************************************************************************)
(* One connection of the TCP server byte by byte: handleClient, which cuts *)
(* what recv() returns into frames (src/ingest/tcpingest_server.cpp), and  *)
(* the parser of a frame (src/ingest/tcp_parser.cpp).  TcpIngestServer     *)
(* models the same thread frame by frame, with its neighbours.             *)
(*                                                                         *)
(* The client writes whole frames, each around a body of any bytes; the    *)
(* network hands them over in pieces of any size.  src/test.py defines the *)
(* format from the sender's side.                                          *)
(***************************************************************************)
EXTENDS Integers, Sequences

CONSTANTS Body,             \* the bodies that the client sends
          MaxWrites,        \* bound: frames written on the connection
          MAX_BUFFER_SIZE,  \* the longest body that is accepted
          buffer_chunk,     \* the most bytes that one recv() returns
          NoEvent           \* parsing threw

Two8 == 256
Two16 == 65536
Two24 == 16777216

Byte == 0 .. 255
EventPriority == 0 .. 3
CRITICAL == 3

ParsedResult == [priority : EventPriority, topic : Seq(Byte), payload : Seq(Byte)]

\* A length is sent in 32 bits, and 4 + frame_len does not wrap around in them.
ASSUME FramingAssumption ==
    /\ Body \subseteq Seq(Byte)
    /\ \A b \in Body : Len(b) \div Two16 < Two16
    /\ MaxWrites \in Nat
    /\ MAX_BUFFER_SIZE \in Nat
    /\ (4 + MAX_BUFFER_SIZE) \div Two16 < Two16
    /\ buffer_chunk \in Nat \ {0}
    /\ NoEvent \notin ParsedResult

-----------------------------------------------------------------------------
(* The format, as a sender writes it (make_frame). *)

BE16(n) == <<(n \div Two8) % Two8, n % Two8>>
BE32(n) == <<(n \div Two24) % Two8, (n \div Two16) % Two8>> \o BE16(n)

MakeBody(r) == <<r.priority>> \o BE16(Len(r.topic)) \o r.topic \o r.payload
MakeFrame(b) == BE32(Len(b)) \o b

\* The events that a sender could have meant with body b: at most one.
Readings(b) ==
    {r \in {[priority |-> p,
             topic    |-> SubSeq(b, 4, 3 + n),
             payload  |-> SubSeq(b, 4 + n, Len(b))] :
                p \in EventPriority, n \in 1 .. Len(b) - 3} :
        Len(r.topic) < Two16 /\ MakeBody(r) = b}

Meaning(b) == IF Readings(b) = {} THEN NoEvent ELSE CHOOSE r \in Readings(b) : TRUE

Fatal(b) == Len(b) > MAX_BUFFER_SIZE

-----------------------------------------------------------------------------
(* The parser. *)

read_uint8_be(d) == d[1]
read_uint16_be(d) == Two8 * d[1] + d[2]
read_uint32_be(d) == Two24 * d[1] + Two16 * d[2] + Two8 * d[3] + d[4]

\* Everything of d from the n-th byte on.
From(d, n) == SubSeq(d, n, Len(d))

\* parseFrame.  Where the code throws, this is NoEvent.
parseFrame(d) ==
    LET topic_len == read_uint16_be(From(d, 2))
    IN  IF \/ Len(d) < 3
           \/ read_uint8_be(d) > CRITICAL
           \/ Len(d) < 3 + topic_len
           \/ topic_len = 0
        THEN NoEvent
        ELSE [priority |-> read_uint8_be(d),
              topic    |-> SubSeq(d, 4, 3 + topic_len),
              payload  |-> From(d, 4 + topic_len)]

parseTCPFrame(f) ==
    IF Len(f) < 4 \/ read_uint32_be(f) # Len(f) - 4 THEN NoEvent ELSE parseFrame(From(f, 5))

-----------------------------------------------------------------------------

VARIABLES isRunning,  \* the server's flag
          pc,         \* where the connection's thread is
          wire,       \* bytes written and not received yet
          client_buf, \* bytes received and not cut into frames yet
          offered,    \* events offered to the dispatcher, oldest first
          written,    \* history: the bodies written
          ends,       \* history: where each frame written ends in the stream
          taken       \* history: how many frames have left client_buf

vars == <<isRunning, pc, wire, client_buf, offered, written, ends, taken>>

TypeOK ==
    /\ isRunning \in BOOLEAN
    /\ pc \in {"test", "recv", "frames", "gone"}
    /\ wire \in Seq(Byte)
    /\ client_buf \in Seq(Byte)
    /\ offered \in Seq(ParsedResult)
    /\ written \in Seq(Body)
    /\ ends \in Seq(Nat)
    /\ taken \in Nat

Init ==
    /\ isRunning = TRUE
    /\ pc = "test"
    /\ wire = <<>>
    /\ client_buf = <<>>
    /\ offered = <<>>
    /\ written = <<>>
    /\ ends = <<>>
    /\ taken = 0

-----------------------------------------------------------------------------
(* The client, the network and the owner of the server. *)

\* Where the k-th frame begins: how many bytes of the stream are before it.
Start(k) == IF k = 1 THEN 0 ELSE ends[k - 1]

Write(b) ==
    /\ Len(written) < MaxWrites
    /\ wire' = wire \o MakeFrame(b)
    /\ written' = Append(written, b)
    /\ ends' = Append(ends, Start(Len(written) + 1) + Len(MakeFrame(b)))
    /\ UNCHANGED <<isRunning, pc, client_buf, offered, taken>>

\* recv() returns the next n bytes, ...
Receive(n) ==
    /\ pc = "recv"
    /\ n <= Len(wire)
    /\ client_buf' = client_buf \o SubSeq(wire, 1, n)
    /\ wire' = From(wire, n + 1)
    /\ pc' = "frames"
    /\ UNCHANGED <<isRunning, offered, written, ends, taken>>

\* ... or 0, or an error, whatever has been written.
Disconnect ==
    /\ pc = "recv"
    /\ pc' = "gone"
    /\ client_buf' = <<>>
    /\ UNCHANGED <<isRunning, wire, offered, written, ends, taken>>

StopFlag ==
    /\ isRunning' = FALSE
    /\ UNCHANGED <<pc, wire, client_buf, offered, written, ends, taken>>

-----------------------------------------------------------------------------
(* handleClient *)

ClientTest ==
    /\ pc = "test"
    /\ pc' = IF isRunning THEN "recv" ELSE "gone"
    /\ client_buf' = IF isRunning THEN client_buf ELSE <<>>
    /\ UNCHANGED <<isRunning, wire, offered, written, ends, taken>>

\* The inner loop looks at the length of the next frame, if it is there.
frame_len == read_uint32_be(client_buf)
HasLength == pc = "frames" /\ Len(client_buf) >= 4
HasFrame ==
    /\ HasLength
    /\ frame_len # 0
    /\ frame_len <= MAX_BUFFER_SIZE
    /\ Len(client_buf) >= 4 + frame_len

\* Variant for mutation: a frame that ends the buffer waits for a further byte.
WaitForOneMore ==
    /\ pc = "frames"
    /\ HasLength => /\ frame_len \in 1 .. MAX_BUFFER_SIZE
                    /\ Len(client_buf) <= 4 + frame_len
    /\ pc' = "test"
    /\ UNCHANGED <<isRunning, wire, client_buf, offered, written, ends, taken>>

\* Variant for mutation: the length is not held against the limit.
WaitForAnyLength ==
    /\ pc = "frames"
    /\ HasLength => /\ frame_len # 0
                    /\ Len(client_buf) < 4 + frame_len
    /\ pc' = "test"
    /\ UNCHANGED <<isRunning, wire, client_buf, offered, written, ends, taken>>

\* The rest has to wait for more bytes.
WaitForMore ==
    /\ pc = "frames"
    /\ HasLength => /\ frame_len \in 1 .. MAX_BUFFER_SIZE
                    /\ Len(client_buf) < 4 + frame_len
    /\ pc' = "test"
    /\ UNCHANGED <<isRunning, wire, client_buf, offered, written, ends, taken>>

\* Variant for mutation: all that is buffered goes with it.
SkipZeroClears ==
    /\ HasLength
    /\ frame_len = 0
    /\ client_buf' = <<>>
    /\ taken' = taken + 1
    /\ UNCHANGED <<isRunning, pc, wire, offered, written, ends>>

\* A frame of no length is skipped.
SkipZero ==
    /\ HasLength
    /\ frame_len = 0
    /\ client_buf' = From(client_buf, 5)
    /\ taken' = taken + 1
    /\ UNCHANGED <<isRunning, pc, wire, offered, written, ends>>

\* A frame that is too long ends the connection.
CloseOversized ==
    /\ HasLength
    /\ frame_len > MAX_BUFFER_SIZE
    /\ pc' = "gone"
    /\ client_buf' = <<>>
    /\ UNCHANGED <<isRunning, wire, offered, written, ends, taken>>

\* Variant for mutation: what the parser refuses is offered all the same.
TakeFrameUnchecked ==
    /\ HasFrame
    /\ offered' = Append(offered, parseTCPFrame(SubSeq(client_buf, 1, 4 + frame_len)))
    /\ client_buf' = From(client_buf, 5 + frame_len)
    /\ taken' = taken + 1
    /\ UNCHANGED <<isRunning, pc, wire, written, ends>>

\* Variant for mutation: the frame is copied without its last byte.
TakeFrameShort ==
    /\ HasFrame
    /\ LET result == parseTCPFrame(SubSeq(client_buf, 1, 3 + frame_len))
       IN  offered' = IF result = NoEvent THEN offered ELSE Append(offered, result)
    /\ client_buf' = From(client_buf, 5 + frame_len)
    /\ taken' = taken + 1
    /\ UNCHANGED <<isRunning, pc, wire, written, ends>>

\* A frame is cut off, and offered as an event, or, where the parser throws, left
\* out.
TakeFrame ==
    /\ HasFrame
    /\ LET result == parseTCPFrame(SubSeq(client_buf, 1, 4 + frame_len))
       IN  offered' = IF result = NoEvent THEN offered ELSE Append(offered, result)
    /\ client_buf' = From(client_buf, 5 + frame_len)
    /\ taken' = taken + 1
    /\ UNCHANGED <<isRunning, pc, wire, written, ends>>

Thread == ClientTest \/ WaitForMore \/ SkipZero \/ CloseOversized \/ TakeFrame
Delivery == \E n \in 1 .. buffer_chunk : Receive(n)

Next == Thread \/ Delivery \/ Disconnect \/ StopFlag \/ \E b \in Body : Write(b)

Spec == Init /\ [][Next]_vars

\* The thread runs, and what has been written arrives while it is asked for.
FairSpec == Spec /\ WF_vars(Thread) /\ WF_vars(Delivery)

-----------------------------------------------------------------------------
(* Properties *)

pending == From(written, taken + 1)

\* The frame that is written k-th, cut out of the bytes that are not taken yet.
Unread == client_buf \o wire
CutOut(k) == SubSeq(Unread, Start(k) + 1 - Start(taken + 1), ends[k] - Start(taken + 1))

\* However recv() cuts the stream, what has been received and not taken yet,
\* followed by what is still on the wire, is exactly the frames that are pending:
\* the loop of handleClient is never out of step with its client.
InStep ==
    pc # "gone" =>
        /\ taken <= Len(written)
        /\ Len(Unread) = Start(Len(written) + 1) - Start(taken + 1)
        /\ \A k \in taken + 1 .. Len(written) : CutOut(k) = MakeFrame(written[k])

\* A connection holds at most one longest frame and one recv() in memory,
\* whatever its client writes.
BufferBounded == Len(client_buf) < 4 + MAX_BUFFER_SIZE + buffer_chunk

\* The events offered are what the client meant, in order, each once.
Channel == INSTANCE FrameChannel WITH
    Message <- Body,
    open    <- pc # "gone"

ImplementsChannel == Channel!Spec

\* A frame that has been written in full is taken, unless the connection ends: none
\* waits in the buffer for bytes of the next one.
WrittenIsTaken ==
    \A k \in 1 .. MaxWrites : Len(written) >= k ~> (taken >= k \/ pc = "gone")
=============================================================================
