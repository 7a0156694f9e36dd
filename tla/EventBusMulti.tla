--------------------------- MODULE EventBusMulti ---------------------------
(***************************************************************************)
(* The three bounded lanes between the dispatcher and the processor        *)
(* (include/event/EventBusMulti.hpp, src/event/EventBusMulti.cpp).         *)
(*                                                                         *)
(* Each method runs its body under the lane's mutex, so each of its        *)
(* outcomes is one action.  A timed pop() returns std::nullopt only when   *)
(* the predicate is false at the moment it gives up, that is, when the     *)
(* lane is empty; how long it waited before is left open.                  *)
(***************************************************************************)
EXTENDS Events

CONSTANT Capacity    \* capacity of each lane

QueueId == {"REALTIME", "TRANSACTIONAL", "BATCH"}

ASSUME BusAssumption == Capacity \in [QueueId -> Nat \ {0}]

VARIABLE bus         \* the deque of each lane

BusTypeOK ==
    /\ bus \in [QueueId -> Seq(Event)]
    /\ \A q \in QueueId : Len(bus[q]) <= Capacity[q]

BusInit == bus = [q \in QueueId |-> <<>>]

-----------------------------------------------------------------------------
\* push() finds room and returns true.
Push(q, e) ==
    /\ Len(bus[q]) < Capacity[q]
    /\ bus' = [bus EXCEPT ![q] = Append(@, e)]

\* push() finds the lane full and returns false.
PushFails(q) ==
    /\ Len(bus[q]) >= Capacity[q]
    /\ UNCHANGED bus

\* pop() returns the front event.
Pop(q, e) ==
    /\ bus[q] # <<>>
    /\ e = Head(bus[q])
    /\ bus' = [bus EXCEPT ![q] = Tail(@)]

\* pop() gives up: the lane is empty when the timeout expires.
PopTimesOut(q) ==
    /\ bus[q] = <<>>
    /\ UNCHANGED bus
=============================================================================
