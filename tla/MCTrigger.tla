------------------------------ MODULE MCTrigger ------------------------------
(* Instances of Trigger for TLC.                                            *)
EXTENDS Trigger

FreeAndForth == {"TP_A_TO_B", "TP_UNDEF"}
FreeAndBack  == {"TP_B_TO_A", "TP_UNDEF"}
BothBeams    == {"TE_HIT_BEAM_A", "TE_HIT_BEAM_B"}
=============================================================================
