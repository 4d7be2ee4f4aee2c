----------------------------- MODULE Interpreter ----------------------------
(***************************************************************************)
(* interpret_bytecode of src/test/fuzz/fuzzer.py: the reference semantics  *)
(* of the byte code, against which the fuzzing script compares what the    *)
(* compiler produces.  One action is one turn of the while loop.  A        *)
(* RuntimeError ends the run with the kind of the error as the verdict and *)
(* pc left at the instruction that the message names.                      *)
(***************************************************************************)
EXTENDS Bytecode, SequencesExt

CONSTANT Inputs  \* the inputs a run may read, functions from word index to word

VARIABLES
  code,       \* the byte string; never changes
  words,      \* the input words; never change
  pc,         \* offset of the next instruction
  stack,      \* the operand stack, top last
  out_words,  \* the output buffer
  verdict     \* "running", "returned" or the kind of the RuntimeError

vars == <<code, words, pc, stack, out_words, verdict>>

Errors == {"missing operand", "load index", "store index", "underflow",
           "unknown opcode", "no STOP"}

Init ==
  /\ code \in Programs
  /\ words \in Inputs
  /\ pc = 0
  /\ stack = <<>>
  /\ out_words = ZeroOutput
  /\ verdict = "running"

Decoding == verdict = "running" /\ pc < Len(code)
Opcode   == code[pc + 1]
Operand  == code[pc + 2]

(***************************************************************************)
(* The instruction at pc is op, with its operand byte if it takes one.     *)
(***************************************************************************)
At(op) ==
  /\ Decoding
  /\ Opcode = op
  /\ op \in WithOperand => pc + 1 < Len(code)

Raise(kind) ==
  /\ verdict' = kind
  /\ UNCHANGED <<code, words, pc, stack, out_words>>

(***************************************************************************)
(* The instruction took effect and the loop moves on by its width.         *)
(***************************************************************************)
Retire(newStack, newOut, width) ==
  /\ stack' = newStack
  /\ out_words' = newOut
  /\ pc' = pc + width
  /\ UNCHANGED <<code, words, verdict>>

InterpretStop ==
  /\ At(STOP)
  /\ verdict' = "returned"
  /\ UNCHANGED <<code, words, pc, stack, out_words>>

MissingOperand ==
  /\ Decoding
  /\ Opcode \in WithOperand
  /\ pc + 1 >= Len(code)
  /\ Raise("missing operand")

InterpretLoad ==
  /\ At(LOAD)
  /\ IF Operand \notin DOMAIN words
     THEN Raise("load index")
     ELSE Retire(Append(stack, words[Operand] % WordMod), out_words, 2)

InterpretStoreInPlace ==  \* mutant: pc stays at STORE
  /\ At(STORE)
  /\ IF Operand >= OutputWords
     THEN Raise("store index")
     ELSE IF stack = <<>>
          THEN Raise("underflow")
          ELSE Retire(stack, [out_words EXCEPT ![Operand] = Last(stack)], 0)

InterpretStore ==
  /\ At(STORE)
  /\ IF Operand >= OutputWords
     THEN Raise("store index")
     ELSE IF stack = <<>>
          THEN Raise("underflow")
          ELSE Retire(stack, [out_words EXCEPT ![Operand] = Last(stack)], 2)

InterpretPop ==
  /\ At(POP)
  /\ IF stack = <<>>
     THEN Raise("underflow")
     ELSE Retire(Front(stack), out_words, 1)

InterpretAdd ==
  /\ At(ADD)
  /\ IF Len(stack) < 2
     THEN Raise("underflow")
     ELSE LET rhs  == Last(stack)
              lhs  == Last(Front(stack))
              rest == Front(Front(stack))
          IN  Retire(Append(rest, AddWords(lhs, rhs)), out_words, 1)

InterpretSub ==
  /\ At(SUB)
  /\ IF Len(stack) < 2
     THEN Raise("underflow")
     ELSE LET top       == Last(stack)
              below_top == Last(Front(stack))
              rest      == Front(Front(stack))
          IN  Retire(Append(rest, SubWords(top, below_top)), out_words, 1)

InterpretDup ==
  /\ At(DUP)
  /\ IF stack = <<>>
     THEN Raise("underflow")
     ELSE Retire(Append(stack, Last(stack)), out_words, 1)

UnknownOpcode ==
  /\ Decoding
  /\ Opcode \notin STOP..DUP
  /\ Raise("unknown opcode")

NoStop ==
  /\ verdict = "running"
  /\ pc >= Len(code)
  /\ Raise("no STOP")

Step ==
  \/ InterpretStop \/ MissingOperand
  \/ InterpretLoad \/ InterpretStore
  \/ InterpretPop \/ InterpretAdd \/ InterpretSub \/ InterpretDup
  \/ UnknownOpcode \/ NoStop

(***************************************************************************)
(* The call has returned or raised: nothing more happens.                  *)
(***************************************************************************)
Ended == verdict # "running" /\ UNCHANGED vars

Next == Step \/ Ended

Spec == Init /\ [][Next]_vars

TypeOK ==
  /\ code \in Seq(Byte)
  /\ words \in Inputs
  /\ pc \in 0..Len(code)
  /\ stack \in Seq(Word)
  /\ out_words \in [OutputIndex -> Word]
  /\ verdict \in {"running", "returned"} \cup Errors
=============================================================================
