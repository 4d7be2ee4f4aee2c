------------------------------ MODULE MCParser ------------------------------
(***************************************************************************)
(* Small instance of Parser: every byte string of length at most MaxLength *)
(* over the seven opcodes and one byte that is none.                       *)
(***************************************************************************)
EXTENDS Parser, SequencesExt

CONSTANT MaxLength

AllPrograms == SeqOf(Byte, MaxLength)
=============================================================================
