--------------------------- MODULE MCThreadPool ---------------------------
(* Two workers and three tasks: both may sleep, one may run while the      *)
(* other takes, and a task may be left when the pool is shut down.         *)
EXTENDS ThreadPool

CONSTANTS w1, w2, e1, e2, e3
=============================================================================
