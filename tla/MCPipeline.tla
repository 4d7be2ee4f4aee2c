----------------------------- MODULE MCPipeline -----------------------------
(***************************************************************************)
(* Small instances of Pipeline.  Programs are put together from whole      *)
(* instructions and closed by STOP, so that most of them compile.          *)
(***************************************************************************)
EXTENDS Pipeline, SequencesExt

CONSTANTS
  Instructions,  \* the instructions programs are made of
  MaxLength      \* the most instructions in front of STOP

EveryInstruction ==
  {<<LOAD, 0>>, <<LOAD, 1>>, <<STORE, 0>>, <<STORE, 1>>, <<STORE, OutputWords>>,
   <<POP>>, <<ADD>>, <<SUB>>, <<DUP>>}

FewInstructions == {<<LOAD, 0>>, <<LOAD, 1>>, <<STORE, 0>>, <<POP>>, <<SUB>>, <<DUP>>}

StoppedPrograms ==
  {FlattenSeq(s) \o <<STOP>> : s \in SeqOf(Instructions, MaxLength)}

(***************************************************************************)
(* The height that the attribute cannot say, and one instruction more.     *)
(***************************************************************************)
DeepPrograms ==
  {[n \in 1..(2 * PtrMod) |-> IF n % 2 = 1 THEN LOAD ELSE 0] \o last \o <<STOP>> :
     last \in Instructions}

(***************************************************************************)
(* A word for every operand byte, and an input of one word.                *)
(***************************************************************************)
OneInput == {[b \in Byte |-> (3 * b + 1) % WordMod]}
ShortInput == {[b \in {0} |-> 1]}
ShortAndFullInput == OneInput \cup ShortInput
=============================================================================
