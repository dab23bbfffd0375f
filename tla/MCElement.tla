------------------------------ MODULE MCElement ------------------------------
(* Instances of Element for TLC.                                            *)
EXTENDS Element

Free  == {"TP_UNDEF"}
BeamA == {"TE_HIT_BEAM_A"}
=============================================================================
