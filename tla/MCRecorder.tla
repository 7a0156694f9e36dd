---------------------------- MODULE MCRecorder ----------------------------
(* Two processes, of one event and of two, stored by two threads. *)
EXTENDS Recorder

CONSTANTS w1, w2

MCEvent == {<<1, 1>>, <<2, 1>>, <<2, 2>>}
=============================================================================
