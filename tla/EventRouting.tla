--------------------------- MODULE EventRouting ---------------------------
(***************************************************************************)
(* What the dispatcher promises its callers, with no thread, no retry and  *)
(* no header that is rewritten on the way: events are accepted into a      *)
(* first-in first-out backlog, and the oldest one leaves it either on the  *)
(* lane fixed by what the client asked for and the topic, or for good.     *)
(***************************************************************************)
EXTENDS Naturals, Sequences, Functions

CONSTANTS Event,     \* events
          Lane,      \* lanes an event can be delivered on
          Backlog    \* the most events that wait at one time

VARIABLES lane,      \* the lane each event belongs on, fixed from the start
          backlog,   \* accepted events that have not left, oldest first
          delivered, \* what was delivered on each lane, oldest first
          refused,   \* events that were not accepted
          lost       \* accepted events that left without being delivered

vars == <<lane, backlog, delivered, refused, lost>>

Init ==
    /\ lane \in [Event -> Lane]
    /\ backlog = <<>>
    /\ delivered = [l \in Lane |-> <<>>]
    /\ refused = {}
    /\ lost = {}

\* Events the dispatcher has been offered.
Offered ==
    Range(backlog) \cup (UNION {Range(delivered[l]) : l \in Lane}) \cup refused \cup lost

Accept(e) ==
    /\ e \notin Offered
    /\ Len(backlog) < Backlog
    /\ backlog' = Append(backlog, e)
    /\ UNCHANGED <<lane, delivered, refused, lost>>

Refuse(e) ==
    /\ e \notin Offered
    /\ refused' = refused \cup {e}
    /\ UNCHANGED <<lane, backlog, delivered, lost>>

Deliver ==
    /\ backlog # <<>>
    /\ LET e == Head(backlog)
       IN  delivered' = [delivered EXCEPT ![lane[e]] = Append(@, e)]
    /\ backlog' = Tail(backlog)
    /\ UNCHANGED <<lane, refused, lost>>

Lose ==
    /\ backlog # <<>>
    /\ lost' = lost \cup {Head(backlog)}
    /\ backlog' = Tail(backlog)
    /\ UNCHANGED <<lane, delivered, refused>>

Next == (\E e \in Event : Accept(e) \/ Refuse(e)) \/ Deliver \/ Lose

Spec == Init /\ [][Next]_vars
=============================================================================
