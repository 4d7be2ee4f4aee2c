------------------------------ MODULE Lockstep ------------------------------
(***************************************************************************)
(* The reference interpreter and the parser read the same byte code, one   *)
(* instruction each per step.  README.md: "All control flow in this        *)
(* language are static, so stack underbound errors can be detected at      *)
(* compile time"; "Programs that trigger runtime exceptions in the         *)
(* interpreter are expected to fail compilation".  Both are deterministic  *)
(* and share nothing but the byte code, so it does not matter that the     *)
(* fuzzing script runs one after the other.                                *)
(*                                                                         *)
(* The script gives the interpreter INPUT_WORDS = 256 words, one for every *)
(* operand byte: so LockstepAssumption.                                    *)
(***************************************************************************)
EXTENDS StackIR

CONSTANT Inputs

ASSUME LockstepAssumption ==
  \A input \in Inputs : DOMAIN input = Byte /\ \A b \in Byte : input[b] \in Int

VARIABLES
  code,                                                  \* shared
  words, pc, stack, out_words, verdict,                  \* Interpreter
  i, stack_ptr, stack_size, ops, status, error_at        \* Parser

I == INSTANCE Interpreter
P == INSTANCE Parser

vars == <<code, words, pc, stack, out_words, verdict,
          i, stack_ptr, stack_size, ops, status, error_at>>

Init == I!Init /\ P!Init

(***************************************************************************)
(* Each side is always able to step or has ended: the conjunction of the   *)
(* two next-state relations blocks neither.                                *)
(***************************************************************************)
Next == I!Next /\ P!Next

Spec == Init /\ [][Next]_vars /\ WF_vars(Next)

TypeOK == I!TypeOK /\ P!TypeOK

(***************************************************************************)
(* What the parser knows of a run is exact at every instruction: where it  *)
(* is and how high its stack is.                                           *)
(***************************************************************************)
HeightIsStatic ==
  verdict = "running" => (i = pc /\ stack_ptr = Len(stack))

(***************************************************************************)
(* The parser accepts exactly the programs that the interpreter runs to    *)
(* the end, and rejects exactly those that make it raise, at the same      *)
(* instruction.                                                            *)
(***************************************************************************)
SameVerdict ==
  /\ verdict = "running"  <=> status = "parsing"
  /\ verdict = "returned" <=> status = "parsed"

(***************************************************************************)
(* The offset in the parser's message is the one in the interpreter's:     *)
(* the instruction that is at fault.                                       *)
(***************************************************************************)
SameOffset ==
  error_at # P!NoOffset => (error_at = pc /\ verdict \in I!Errors)

(***************************************************************************)
(* parse and interpret_bytecode both end, whatever the byte code: every    *)
(* turn of either loop consumes a byte or leaves the loop.                 *)
(***************************************************************************)
BothEnd == <>(verdict # "running" /\ status # "parsing")
=============================================================================
