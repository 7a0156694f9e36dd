------------------------------ MODULE Events ------------------------------
(***************************************************************************)
(* The events that the components hand to each other (include/event/      *)
(* Event.hpp).  An EventPtr is the identity of the event it points to;     *)
(* topic, priority and sender are functions of that identity.              *)
(***************************************************************************)
EXTENDS Naturals, Sequences, Functions

CONSTANTS Event,    \* the events
          NoEvent   \* a null EventPtr, or no value

ASSUME EventAssumption == NoEvent \notin Event

\* EventPriority, ordered as the enumerators are.
LOW == 0
MEDIUM == 1
HIGH == 2
CRITICAL == 3
EventPriority == LOW .. CRITICAL

\* An event in hand, if there is one, as a queue.
InHand(e) == IF e = NoEvent THEN <<>> ELSE <<e>>

\* x is ahead of y in a queue, or in a log.
Ahead(s, x, y) == \E i, j \in DOMAIN s : i < j /\ s[i] = x /\ s[j] = y
=============================================================================
