----------------------------- MODULE MCLockstep -----------------------------
(***************************************************************************)
(* Small instance of Lockstep: byte strings over the seven opcodes and one *)
(* byte that is none, of length at most MaxLength, alone and behind a LOAD *)
(* that lets them go on; words differ from each other modulo WordMod.      *)
(***************************************************************************)
EXTENDS Lockstep, SequencesExt

CONSTANT MaxLength

Tails == SeqOf(Byte, MaxLength)
SomePrograms == Tails \cup {<<LOAD, 1>> \o tail : tail \in Tails}

OneInput == {[b \in Byte |-> (3 * b + 1) % WordMod]}
=============================================================================
