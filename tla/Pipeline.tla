------------------------------ MODULE Pipeline ------------------------------
(***************************************************************************)
(* From byte code to the result of running it: main of src/src/main.cpp    *)
(* parses the byte code and lowers the StackIR module (an exception of the *)
(* parser ends it with exit code 1); the executable it links calls f once, *)
(* on the words of the input file and a zeroed output buffer.  Printing,   *)
(* optimisation, code generation and linking keep the meaning of f and     *)
(* leave no trace here.                                                    *)
(*                                                                         *)
(* The reference interpreter is the abstract specification: on a program   *)
(* that compiles, the run of the compiled code is a run of the             *)
(* interpreter.                                                            *)
(***************************************************************************)
EXTENDS Lowerer

CONSTANT Inputs  \* the inputs of f, functions from word index to word

(***************************************************************************)
(* What the wrapper passes to f is a buffer of words.                      *)
(***************************************************************************)
ASSUME PipelineAssumption ==
  \A input \in Inputs : \A n \in DOMAIN input : input[n] \in Word

VARIABLES
  code, i, stack_ptr, stack_size, ops, status, error_at,  \* Parser
  fn, words, mem, out_words, ip, run                      \* CompiledFunction

P == INSTANCE Parser
F == INSTANCE CompiledFunction

parserVars   == <<code, i, stack_ptr, stack_size, ops, status, error_at>>
functionVars == <<fn, words, mem, out_words, ip, run>>
vars         == <<parserVars, functionVars>>

Init ==
  /\ P!Init
  /\ words \in Inputs
  /\ fn = F!NoFunction
  /\ mem = [s \in {} |-> 0]
  /\ out_words = ZeroOutput
  /\ ip = 1
  /\ run = "idle"

Parse == P!Step /\ UNCHANGED functionVars

(***************************************************************************)
(* The module was parsed: it is lowered, and the program is started.       *)
(***************************************************************************)
LowerAndStart ==
  /\ status = "parsed"
  /\ F!Call(Lower(ops, stack_size))
  /\ UNCHANGED parserVars

Execute == F!Next /\ UNCHANGED parserVars

Rejected == status \in P!Errors
Finished == run \in {"returned", "undefined"}

Ended == (Rejected \/ Finished) /\ UNCHANGED vars

Next == Parse \/ LowerAndStart \/ Execute \/ Ended

Spec == Init /\ [][Next]_vars

-----------------------------------------------------------------------------
(***************************************************************************)
(* The parser has to have seen to it that f stores to words of the output  *)
(* buffer only: the lowering takes an index as it is.                      *)
(***************************************************************************)
StoresToOutput(body) ==
  \A k \in DOMAIN body :
    body[k].target.base = "out" => body[k].target.index \in OutputIndex

TypeOK ==
  /\ P!TypeOK
  /\ words \in Inputs
  /\ fn = F!NoFunction \/ fn = Lower(ops, stack_size)
  /\ StoresToOutput(fn.body)
  /\ \E slots \in SUBSET (0..(fn.slots - 1)) : mem \in [slots -> Word]
  /\ out_words \in [OutputIndex -> Word]
  /\ ip \in 1..(Len(fn.body) + 1)
  /\ run \in {"idle", "running", "returned", "undefined"}

(***************************************************************************)
(* README.md: "The compiled runtime does not exhibit undefined behavior    *)
(* and does not fail at runtime."                                          *)
(***************************************************************************)
NoUndefinedBehaviour == run # "undefined"

(***************************************************************************)
(* The heights below which a decoration says the height itself: up to      *)
(* there the compiled code addresses the slot it means.                    *)
(***************************************************************************)
Shallow == stack_size < PtrMod

(***************************************************************************)
(* Of a program that stays shallow and reads no word its input lacks, no   *)
(* run is undefined.                                                       *)
(***************************************************************************)
InputSuffices ==
  \A k \in DOMAIN ops : ops[k].name = "load" => ops[k].index \in DOMAIN words

DefinedWhenShallow == Shallow /\ InputSuffices => NoUndefinedBehaviour

(***************************************************************************)
(* While f runs, every slot below the height has been written, and when it *)
(* returns every slot that alloca reserved, and no other, has been: the    *)
(* array is neither too small nor too large.                               *)
(***************************************************************************)
SlotsFollowHeight ==
  (Shallow /\ run \in {"running", "returned"}) =>
    /\ 0..(Height(ops, ip) - 1) \subseteq DOMAIN mem
    /\ run = "returned" => DOMAIN mem = 0..(fn.slots - 1)

(***************************************************************************)
(* Refinement: the interpreter's pc is the location of the operation being *)
(* executed, its stack the slots below the height.  A program that is      *)
(* rejected never starts.                                                  *)
(***************************************************************************)
AbstractPc    == IF run = "idle" THEN 0 ELSE ops[ip].loc
AbstractStack ==
  IF run = "idle" THEN <<>> ELSE [s \in 1..Height(ops, ip) |-> mem[s - 1]]
AbstractVerdict == IF run \in {"idle", "running"} THEN "running" ELSE run

I == INSTANCE Interpreter
       WITH pc <- AbstractPc, stack <- AbstractStack, verdict <- AbstractVerdict

(***************************************************************************)
(* Every step of the compiled code is the interpreter's step for the same  *)
(* instruction, or leaves the interpreter's state alone.                   *)
(***************************************************************************)
ImplementsInterpreter == I!Spec
=============================================================================
