------------------------ MODULE MCProcessorService ------------------------
(* Four events on three lanes of two places; with a pool of one worker, or *)
(* none.                                                                   *)
EXTENDS ProcessorService

CONSTANTS e1, e2, e3, e4, w1

MCCapacity == [q \in QueueId |-> 2]

\* One urgent event, and enough others to overtake it twice.
MCRank == [e \in Event |-> CASE e = e1        -> "REALTIME"
                             [] e \in {e2, e3} -> "TRANSACTIONAL"
                             [] OTHER         -> "BATCH"]
=============================================================================
