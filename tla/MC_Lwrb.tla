------------------------------ MODULE MC_Lwrb -------------------------------
(* A ring of four slots, every call of one to four bytes.                  *)
EXTENDS Lwrb, SequencesExt

MC_Calls == SeqOf(Data, Size) \ {<< >>}
MC_Wants == 1 .. Size
=============================================================================
