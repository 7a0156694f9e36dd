--------------------------- MODULE FrameChannel ---------------------------
(***************************************************************************)
(* What a connection promises its client, with no bytes, no buffer and no  *)
(* recv: what was written is taken in order and whole, each legal message  *)
(* becomes one event, a message that is refused costs only itself, and a   *)
(* fatal one, or the end of the connection, all that is still pending.     *)
(***************************************************************************)
EXTENDS Naturals, Sequences

CONSTANTS Message,    \* what a client can write
          Meaning(_), \* the event a message stands for, or NoEvent
          Fatal(_),   \* the message ends the connection
          NoEvent

VARIABLES pending, \* messages written and not taken yet, oldest first
          offered, \* events handed to the dispatcher, oldest first
          open     \* the connection has a thread

vars == <<pending, offered, open>>

Init ==
    /\ pending = <<>>
    /\ offered = <<>>
    /\ open = TRUE

Write(m) ==
    /\ pending' = Append(pending, m)
    /\ UNCHANGED <<offered, open>>

\* The oldest message leaves the channel.
Take ==
    /\ open
    /\ pending # <<>>
    /\ ~Fatal(Head(pending))
    /\ pending' = Tail(pending)
    /\ UNCHANGED open

Deliver ==
    /\ Take
    /\ Meaning(Head(pending)) # NoEvent
    /\ offered' = Append(offered, Meaning(Head(pending)))

Refuse ==
    /\ Take
    /\ Meaning(Head(pending)) = NoEvent
    /\ UNCHANGED offered

Close ==
    /\ open' = FALSE
    /\ UNCHANGED <<pending, offered>>

Next == (\E m \in Message : Write(m)) \/ Deliver \/ Refuse \/ Close

Spec == Init /\ [][Next]_vars
=============================================================================
