--------------------------- MODULE MCHdlcChannel ---------------------------
(* HdlcChannel on all data of up to four bytes that matter to the code:    *)
(* the two special bytes, what they are sent as, and an ordinary one.      *)
EXTENDS HdlcChannel, SequencesExt

MCBytes == {0, Flag, Esc, Masked(Flag), Masked(Esc)}
MCInputs == BoundedSeq(MCBytes, 4)
MCNoise == {0, Esc, Masked(Flag), Flag}
=============================================================================
