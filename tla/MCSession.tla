----------------------------- MODULE MCSession -----------------------------
(* Session for TLC.  The addresses and contents contain the control bytes  *)
(* SYNC, ACK and NACK, so that a telegram left on the line can be mistaken *)
(* for an answer.                                                          *)
EXTENDS SessionRefinement

MCAddr == {1, 2, 5}
MCConstant == {1, 2}
MCVal == {<< 5 >>, << 6 >>}
MCNoise == {0, 5, 6, 21}

\* A content that looks like the beginning of a telegram.
MCLeadinVal == {<< 5 >>, << 65 >>}

\* No telegram of these addresses and contents has one inside.
ASSUME MCNoFalseAnswer == NoFalseAnswer

\* One content is enough where only the end of a call matters.
MCOneVal == {<< 5 >>}

=============================================================================
