----------------------- MODULE MCDispatcherService -----------------------
(* A small instance of DispatcherService: every assignment of four frames *)
(* to three events, lanes of one place, an inbound queue of two and two   *)
(* attempts to push.                                                       *)
EXTENDS DispatcherService

CONSTANTS e1, e2, e3,    \* events
          listed, other  \* a topic of the table and one outside it

MCCapacity == [q \in QueueId |-> 1]

\* The listed topic may go to the realtime lane, if the client asks for it.
MCTopicTable == [t \in {listed} |-> HIGH]

MCFrame == {[topic |-> listed, priority |-> CRITICAL],
            [topic |-> listed, priority |-> LOW],
            [topic |-> other,  priority |-> CRITICAL],
            [topic |-> other,  priority |-> LOW]}
=============================================================================
