--------------------------- MODULE MCTcpFraming ---------------------------
(* Bodies of up to seven bytes, six of which are accepted.                 *)
EXTENDS TcpFraming

\* Priorities 2 and 3 with and without a payload, one of the longest bodies
\* that are accepted, a priority and a topic length out of range, a body without
\* a topic, an empty one, and one that is too long.
MCBody == {<<2, 0, 1, 7>>, <<3, 0, 2, 7, 8, 9>>, <<4, 0, 1, 7>>, <<1, 0, 0, 5>>,
           <<1, 0, 2, 6>>, <<1>>, <<>>, <<0, 0, 1, 7, 0, 0, 0>>}

\* The parser against the format, over all bodies of up to six bytes out of the
\* values at which it branches.
MCAnyBody == UNION {[1 .. n -> {0, 1, 2, 3, 4}] : n \in 0 .. 5} \cup [1 .. 6 -> {0, 1, 2}]

ASSUME ParserAgrees == \A b \in MCAnyBody : parseFrame(b) = Meaning(b)
=============================================================================
