------------------------- MODULE MCEventStreamCore -------------------------
(* Small instances of EventStreamCore: lanes of one place, an inbound      *)
(* queue of one or two, two attempts to push, one to five frames, one or   *)
(* two workers.                                                            *)
EXTENDS EventStreamCore

CONSTANTS e1, e2, e3, e4, e5, \* frames
          c1, c2,             \* clients
          w1, w2,             \* workers
          listed, other       \* a topic of the table and one outside it

MCCapacity == [q \in QueueId |-> 1]

MCTopicTable == [t \in {listed} |-> HIGH]

\* Frames of two ranks from the same client priority.
MCFrame == {[topic |-> listed, priority |-> CRITICAL],
            [topic |-> other,  priority |-> CRITICAL]}

\* Frames that ask for more than their topic allows: Route lowers them.
MCCappedFrame == {[topic |-> other, priority |-> CRITICAL]}

\* Frames of one rank.
MCOneFrame == {[topic |-> listed, priority |-> HIGH]}

\* One client with two frames.
MCOneClient == [c \in Client |-> <<e1, e2>>]

\* One client with one frame.
MCOneFrameClient == [c \in Client |-> <<e1>>]

\* One client with three frames.
MCThreeFrameClient == [c \in Client |-> <<e1, e2, e3>>]

\* Two clients.  In the run where e2 is malformed and e4 too long, e2 is
\* skipped and e4 closes the second connection, with e5 in the buffer or not.
MCTwoClients == [c \in Client |-> IF c = c1 THEN <<e1>> ELSE <<e2, e3, e4, e5>>]
=============================================================================
