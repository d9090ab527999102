------------------------------- MODULE MCVs1 -------------------------------
(* Vs1 for TLC: contents that contain SYNC (5) and the 0x00 of a write. *)
EXTENDS Vs1Refinement

MCAddr == {1, 2}
MCVal == {<< 5, 0 >>, << 0, 5 >>, << 1, 1 >>}

=============================================================================
