--------------------------- MODULE LockstepProofs ---------------------------
(***************************************************************************)
(* The parser agrees with the interpreter on every byte string: the        *)
(* exactness of the static analysis, for programs of any length and words  *)
(* of any width.                                                           *)
(***************************************************************************)
EXTENDS Lockstep, SequenceTheorems, TLAPS

(***************************************************************************)
(* Neither agreement is inductive alone: the verdicts agree because the    *)
(* height and the position agree, and those agree because both sides       *)
(* stopped if one did.  A run that goes on has reported no error.          *)
(***************************************************************************)
Agreement ==
  /\ code \in Seq(Byte)
  /\ words \in Inputs
  /\ pc \in Nat
  /\ stack \in Seq(Int)
  /\ status = "parsing" => error_at = P!NoOffset
  /\ HeightIsStatic
  /\ SameVerdict
  /\ SameOffset

(***************************************************************************)
(* What Front and Last do to the length and the elements of a stack.       *)
(***************************************************************************)
LEMMA PopShape ==
  ASSUME NEW s \in Seq(Int), s # <<>>
  PROVE  /\ I!Last(s) \in Int
         /\ I!Front(s) \in Seq(Int)
         /\ Len(I!Front(s)) = Len(s) - 1
         /\ Len(s) \in Nat /\ Len(s) >= 1
<1>1. Len(s) \in Nat /\ Len(s) >= 1
  BY EmptySeq, LenProperties
<1>2. I!Last(s) \in Int
  BY <1>1, ElementOfSeq DEF I!Last
<1> DEFINE n == Len(s) - 1
<1>3. n \in Int /\ \A k \in 1..n : s[k] \in Int
  BY <1>1, ElementOfSeq
<1>4. SubSeq(s, 1, n) \in Seq(Int) /\ Len(SubSeq(s, 1, n)) = n
  <2> HIDE DEF n
  <2>1. Len(SubSeq(s, 1, n)) = IF 1 <= n THEN n - 1 + 1 ELSE 0
    BY <1>3, SubSeqProperties
  <2>2. SubSeq(s, 1, n) \in Seq(Int)
    BY <1>3, SubSeqProperties
  <2>3. n >= 0
    BY <1>1 DEF n
  <2> QED  BY <1>3, <2>1, <2>2, <2>3
<1> QED  BY <1>1, <1>2, <1>4 DEF I!Front

LEMMA EmptyStack ==
  ASSUME NEW s \in Seq(Int)
  PROVE  /\ Len(s) \in Nat
         /\ s = <<>> <=> Len(s) = 0
BY EmptySeq, LenProperties

(***************************************************************************)
(* A word is an integer.                                                   *)
(***************************************************************************)
LEMMA Modulo ==
  ASSUME NEW a \in Int
  PROVE  a % WordMod \in Int
BY BytecodeAssumption

-----------------------------------------------------------------------------
(***************************************************************************)
(* While both run they read the same instruction: a step of one takes the  *)
(* case of the opcode at pc, and so does the step of the other.            *)
(***************************************************************************)
Running == verdict = "running" /\ status = "parsing" /\ i = pc

OpcodeAt(op) == pc < Len(code) /\ code[pc + 1] = op

LEMMA RunningSteps ==
  ASSUME Running, Next
  PROVE  I!Step /\ P!Step
BY DEF Running, Next, I!Next, I!Ended, P!Next, P!Ended

NoOpcodeAt == pc < Len(code) /\ code[pc + 1] \notin STOP..DUP

(***************************************************************************)
(* Each case of the parser's switch is taken at its opcode.                *)
(***************************************************************************)
LEMMA ParserCase ==
  ASSUME i = pc
  PROVE  /\ P!ParseStop  => OpcodeAt(STOP)
         /\ P!ParseLoad  => OpcodeAt(LOAD)
         /\ P!ParseStore => OpcodeAt(STORE)
         /\ P!ParsePop   => OpcodeAt(POP)
         /\ P!ParseAdd   => OpcodeAt(ADD)
         /\ P!ParseSub   => OpcodeAt(SUB)
         /\ P!ParseDup   => OpcodeAt(DUP)
         /\ P!UnknownOpcode => NoOpcodeAt
         /\ P!NoStop => pc >= Len(code)
<1> USE DEF P!Fetch, OpcodeAt
<1>1. P!ParseStop => OpcodeAt(STOP)
  BY DEF P!ParseStop, P!STOP, STOP
<1>2. P!ParseLoad => OpcodeAt(LOAD)
  BY DEF P!ParseLoad, P!LOAD, LOAD
<1>3. P!ParseStore => OpcodeAt(STORE)
  BY DEF P!ParseStore, P!STORE, STORE
<1>4. P!ParsePop => OpcodeAt(POP)
  BY DEF P!ParsePop, P!POP, POP
<1>5. P!ParseAdd => OpcodeAt(ADD)
  BY DEF P!ParseAdd, P!ParseArithmetic, P!ADD, ADD
<1>6. P!ParseSub => OpcodeAt(SUB)
  BY DEF P!ParseSub, P!ParseArithmetic, P!SUB, SUB
<1>7. P!ParseDup => OpcodeAt(DUP)
  BY DEF P!ParseDup, P!DUP, DUP
<1>8. P!UnknownOpcode => NoOpcodeAt
  BY DEF P!UnknownOpcode, NoOpcodeAt, P!STOP, STOP, P!DUP, DUP
<1>9. P!NoStop => pc >= Len(code)
  BY DEF P!NoStop
<1> QED  BY <1>1, <1>2, <1>3, <1>4, <1>5, <1>6, <1>7, <1>8, <1>9

(***************************************************************************)
(* Each case of the interpreter's loop is taken at its opcode.             *)
(***************************************************************************)
LEMMA InterpreterCase ==
  /\ I!InterpretStop  => OpcodeAt(STOP)
  /\ I!MissingOperand => OpcodeAt(LOAD) \/ OpcodeAt(STORE)
  /\ I!InterpretLoad  => OpcodeAt(LOAD)
  /\ I!InterpretStore => OpcodeAt(STORE)
  /\ I!InterpretPop   => OpcodeAt(POP)
  /\ I!InterpretAdd   => OpcodeAt(ADD)
  /\ I!InterpretSub   => OpcodeAt(SUB)
  /\ I!InterpretDup   => OpcodeAt(DUP)
  /\ I!UnknownOpcode  => NoOpcodeAt
  /\ I!NoStop => pc >= Len(code)
<1> USE DEF I!At, I!Decoding, I!Opcode, OpcodeAt
<1>1. I!InterpretStop => OpcodeAt(STOP)
  BY DEF I!InterpretStop, I!STOP, STOP
<1>2. I!MissingOperand => OpcodeAt(LOAD) \/ OpcodeAt(STORE)
  BY DEF I!MissingOperand, I!WithOperand, I!LOAD, LOAD, I!STORE, STORE
<1>3. I!InterpretLoad => OpcodeAt(LOAD)
  BY DEF I!InterpretLoad, I!LOAD, LOAD
<1>4. I!InterpretStore => OpcodeAt(STORE)
  BY DEF I!InterpretStore, I!STORE, STORE
<1>5. I!InterpretPop => OpcodeAt(POP)
  BY DEF I!InterpretPop, I!POP, POP
<1>6. I!InterpretAdd => OpcodeAt(ADD)
  BY DEF I!InterpretAdd, I!ADD, ADD
<1>7. I!InterpretSub => OpcodeAt(SUB)
  BY DEF I!InterpretSub, I!SUB, SUB
<1>8. I!InterpretDup => OpcodeAt(DUP)
  BY DEF I!InterpretDup, I!DUP, DUP
<1>9. I!UnknownOpcode => NoOpcodeAt
  BY DEF I!UnknownOpcode, NoOpcodeAt, I!STOP, STOP, I!DUP, DUP
<1>10. I!NoStop => pc >= Len(code)
  BY DEF I!NoStop
<1> QED  BY <1>1, <1>2, <1>3, <1>4, <1>5, <1>6, <1>7, <1>8, <1>9, <1>10

(***************************************************************************)
(* At most one of the cases applies at pc.                                 *)
(***************************************************************************)
LEMMA OneCase ==
  ASSUME Agreement
  PROVE  /\ \A o, p \in STOP..DUP : OpcodeAt(o) /\ OpcodeAt(p) => o = p
         /\ \A o \in STOP..DUP : ~(OpcodeAt(o) /\ NoOpcodeAt)
         /\ \A o \in STOP..DUP : ~(OpcodeAt(o) /\ pc >= Len(code))
         /\ ~(NoOpcodeAt /\ pc >= Len(code))
<1>1. pc \in Nat /\ Len(code) \in Nat
  BY LenProperties DEF Agreement
<1> QED  BY <1>1 DEF OpcodeAt, NoOpcodeAt

(***************************************************************************)
(* Both take the case of the same instruction.                             *)
(***************************************************************************)
LEMMA SameCase ==
  ASSUME Agreement, Running, Next
  PROVE  \/ I!InterpretStop /\ P!ParseStop
         \/ (I!MissingOperand \/ I!InterpretLoad)  /\ P!ParseLoad
         \/ (I!MissingOperand \/ I!InterpretStore) /\ P!ParseStore
         \/ I!InterpretPop /\ P!ParsePop
         \/ I!InterpretAdd /\ P!ParseAdd
         \/ I!InterpretSub /\ P!ParseSub
         \/ I!InterpretDup /\ P!ParseDup
         \/ I!UnknownOpcode /\ P!UnknownOpcode
         \/ I!NoStop /\ P!NoStop
<1>1. I!Step /\ P!Step
  BY RunningSteps
<1>2. /\ STOP \in STOP..DUP /\ LOAD \in STOP..DUP /\ STORE \in STOP..DUP
      /\ POP \in STOP..DUP /\ ADD \in STOP..DUP /\ SUB \in STOP..DUP
      /\ DUP \in STOP..DUP
      /\ STOP = 0 /\ LOAD = 1 /\ STORE = 2 /\ POP = 3 /\ ADD = 4 /\ SUB = 5 /\ DUP = 6
  BY DEF STOP, LOAD, STORE, POP, ADD, SUB, DUP
<1> QED  BY <1>1, <1>2, OneCase, ParserCase, InterpreterCase DEF Running, I!Step, P!Step

-----------------------------------------------------------------------------
(***************************************************************************)
(* Both give up on the instruction, or both go on behind it.               *)
(***************************************************************************)
LEMMA BothRaise ==
  ASSUME Agreement, Running,
         NEW kind \in I!Errors, I!Raise(kind),
         NEW error \in P!Errors, NEW at \in {i, P!NoOffset}, P!Throw(error, at)
  PROVE  Agreement'
<1>1. kind \notin {"running", "returned"} /\ error \notin {"parsing", "parsed"}
  BY DEF I!Errors, P!Errors
<1> QED  BY <1>1 DEF Agreement, Running, I!Raise, P!Throw, HeightIsStatic, SameVerdict,
                     SameOffset

LEMMA BothRetire ==
  ASSUME Agreement, Running,
         NEW newStack \in Seq(Int), NEW newOut, NEW width \in {1, 2},
         I!Retire(newStack, newOut, width),
         NEW op, P!Create(op, width, Len(newStack)), UNCHANGED status
  PROVE  Agreement'
BY DEF Agreement, Running, I!Retire, P!Create, HeightIsStatic, SameVerdict, SameOffset

(***************************************************************************)
(* What both know while they run.                                          *)
(***************************************************************************)
LEMMA RunningFacts ==
  ASSUME Agreement, Running
  PROVE  /\ pc \in Nat /\ i = pc /\ Len(code) \in Nat
         /\ stack \in Seq(Int) /\ stack_ptr = Len(stack) /\ Len(stack) \in Nat
         /\ stack = <<>> <=> stack_ptr <= 0
<1>1. /\ pc \in Nat /\ i = pc /\ Len(code) \in Nat
      /\ stack \in Seq(Int) /\ stack_ptr = Len(stack)
  BY LenProperties DEF Agreement, Running, HeightIsStatic
<1>2. Len(stack) \in Nat /\ (stack = <<>> <=> Len(stack) = 0)
  BY <1>1, EmptyStack
<1> QED  BY <1>1, <1>2

(***************************************************************************)
(* The kinds of error that the two sides report.                           *)
(***************************************************************************)
LEMMA ErrorKinds ==
  /\ "missing operand" \in I!Errors /\ "load index" \in I!Errors
  /\ "store index" \in I!Errors /\ "underflow" \in I!Errors
  /\ "unknown opcode" \in I!Errors /\ "no STOP" \in I!Errors
  /\ "underflow" \in P!Errors /\ "missing argument" \in P!Errors
  /\ "store index" \in P!Errors /\ "unknown opcode" \in P!Errors
  /\ "no STOP" \in P!Errors
BY DEF I!Errors, P!Errors

(***************************************************************************)
(* The instructions, one by one.                                           *)
(***************************************************************************)
LEMMA StopAgrees ==
  ASSUME Agreement, Running, I!InterpretStop, P!ParseStop
  PROVE  Agreement'
BY DEF Agreement, Running, I!InterpretStop, P!ParseStop, P!Create, HeightIsStatic,
       SameVerdict, SameOffset

LEMMA LoadAgrees ==
  ASSUME Agreement, Running, I!MissingOperand \/ I!InterpretLoad, P!ParseLoad
  PROVE  Agreement'
<1>1. /\ pc \in Nat /\ i = pc /\ Len(code) \in Nat /\ pc < Len(code)
      /\ stack \in Seq(Int) /\ stack_ptr = Len(stack)
  BY RunningFacts DEF P!ParseLoad, P!Fetch
<1>2. CASE pc + 1 >= Len(code)
  <2>1. P!Throw("missing argument", i)
    BY <1>1, <1>2 DEF P!ParseLoad, P!ArgumentMissing
  <2>2. I!Raise("missing operand")
    <3>1. ~I!At(I!LOAD)
      BY <1>1, <1>2 DEF I!At, I!WithOperand
    <3> QED  BY <3>1 DEF I!MissingOperand, I!InterpretLoad
  <2> QED  BY <2>1, <2>2, ErrorKinds, BothRaise
<1>3. CASE ~(pc + 1 >= Len(code))
  <2>1. P!Create(P!Indexed("load", P!Argument, stack_ptr, i), 2, stack_ptr + 1)
        /\ UNCHANGED status
    BY <1>1, <1>3 DEF P!ParseLoad, P!ArgumentMissing
  <2>2. code[pc + 2] \in Byte /\ I!Operand = code[pc + 2]
    BY <1>1, <1>3, ElementOfSeq DEF Agreement, I!Operand
  <2>3. I!Operand \in DOMAIN words /\ words[I!Operand] \in Int
    BY <2>2, LockstepAssumption DEF Agreement
  <2> DEFINE word == words[I!Operand] % WordMod
             newStack == Append(stack, word)
  <2>4. I!Retire(newStack, out_words, 2)
    BY <1>3, <2>3 DEF I!MissingOperand, I!InterpretLoad
  <2>5. newStack \in Seq(Int) /\ Len(newStack) = stack_ptr + 1
    <3>1. word \in Int
      BY <2>3, Modulo
    <3> HIDE DEF word
    <3> QED  BY <1>1, <3>1, AppendProperties
  <2> HIDE DEF newStack
  <2> QED  BY <2>1, <2>4, <2>5, BothRetire
<1> QED  BY <1>2, <1>3

LEMMA StoreAgrees ==
  ASSUME Agreement, Running, I!MissingOperand \/ I!InterpretStore, P!ParseStore
  PROVE  Agreement'
<1>1. /\ pc \in Nat /\ i = pc /\ Len(code) \in Nat /\ pc < Len(code)
      /\ stack \in Seq(Int) /\ stack_ptr = Len(stack) /\ Len(stack) \in Nat
      /\ stack = <<>> <=> stack_ptr <= 0
  BY RunningFacts DEF P!ParseStore, P!Fetch
<1>2. P!Argument = I!Operand
  BY <1>1 DEF P!Argument, I!Operand
<1>3. I!MissingOperand <=> pc + 1 >= Len(code)
  <2>1. CASE I!MissingOperand
    BY <2>1 DEF I!MissingOperand
  <2>2. CASE I!InterpretStore
    <3>1. I!At(I!STORE)
      BY <2>2 DEF I!InterpretStore
    <3>2. ~(pc + 1 >= Len(code))
      BY <1>1, <3>1 DEF I!At, I!WithOperand
    <3> QED  BY <3>2 DEF I!MissingOperand
  <2> QED  BY <2>1, <2>2
<1>4. CASE pc + 1 >= Len(code) \/ stack_ptr <= 0 \/ P!Argument >= OutputWords
  <2>1. \E error \in P!Errors : P!Throw(error, i)
    <3>1. \/ P!Throw("underflow", i)
          \/ P!Throw("missing argument", i)
          \/ P!Throw("store index", i)
      BY <1>1, <1>4 DEF P!ParseStore, P!ArgumentMissing
    <3> QED  BY <3>1, ErrorKinds
  <2>2. \E kind \in I!Errors : I!Raise(kind)
    <3>1. \/ I!Raise("missing operand")
          \/ I!Raise("store index")
          \/ I!Raise("underflow")
      BY <1>1, <1>2, <1>3, <1>4 DEF I!MissingOperand, I!InterpretStore
    <3> QED  BY <3>1, ErrorKinds
  <2> QED  BY <2>1, <2>2, BothRaise
<1>5. CASE ~(pc + 1 >= Len(code) \/ stack_ptr <= 0 \/ P!Argument >= OutputWords)
  <2>1. P!Create(P!Indexed("store", P!Argument, stack_ptr, i), 2, Len(stack))
        /\ UNCHANGED status
    BY <1>1, <1>5 DEF P!ParseStore, P!ArgumentMissing
  <2>2. \E newOut : I!Retire(stack, newOut, 2)
    BY <1>1, <1>2, <1>3, <1>5 DEF I!InterpretStore
  <2> QED  BY <1>1, <2>1, <2>2, BothRetire
<1> QED  BY <1>4, <1>5

LEMMA PopAgrees ==
  ASSUME Agreement, Running, I!InterpretPop, P!ParsePop
  PROVE  Agreement'
<1>1. CASE stack_ptr <= 0
  BY <1>1, RunningFacts, ErrorKinds, BothRaise DEF I!InterpretPop, P!ParsePop
<1>2. CASE ~(stack_ptr <= 0)
  <2>1. P!Create(P!Plain("pop", stack_ptr, i), 1, stack_ptr - 1) /\ UNCHANGED status
    BY <1>2 DEF P!ParsePop
  <2>2. I!Retire(I!Front(stack), out_words, 1)
    BY <1>2, RunningFacts DEF I!InterpretPop
  <2>3. I!Front(stack) \in Seq(Int) /\ Len(I!Front(stack)) = stack_ptr - 1
    BY <1>2, RunningFacts, PopShape
  <2> QED  BY <2>1, <2>2, <2>3, BothRetire
<1> QED  BY <1>1, <1>2

(***************************************************************************)
(* ADD and SUB: two words make place for one.                              *)
(***************************************************************************)
LEMMA ArithmeticAgrees ==
  ASSUME Agreement, Running,
         NEW opcode, NEW name, P!ParseArithmetic(opcode, name),
         NEW result \in Int,
         IF Len(stack) < 2
         THEN I!Raise("underflow")
         ELSE I!Retire(Append(I!Front(I!Front(stack)), result), out_words, 1)
  PROVE  Agreement'
<1>1. CASE stack_ptr <= 1
  <2>1. I!Raise("underflow")
    BY <1>1, RunningFacts
  <2>2. P!Throw("underflow", i)
    BY <1>1 DEF P!ParseArithmetic
  <2> QED  BY <2>1, <2>2, ErrorKinds, BothRaise
<1>2. CASE ~(stack_ptr <= 1)
  <2> DEFINE rest == I!Front(I!Front(stack))
             newStack == Append(rest, result)
  <2>1. P!Create(P!Plain(name, stack_ptr, i), 1, stack_ptr - 1) /\ UNCHANGED status
    BY <1>2 DEF P!ParseArithmetic
  <2>2. I!Retire(newStack, out_words, 1)
    BY <1>2, RunningFacts
  <2>3. I!Front(stack) \in Seq(Int) /\ Len(I!Front(stack)) = stack_ptr - 1
    BY <1>2, RunningFacts, PopShape
  <2>4. I!Front(stack) # <<>>
    BY <1>2, <2>3, RunningFacts, EmptyStack
  <2>5. rest \in Seq(Int) /\ Len(rest) = stack_ptr - 2
    BY <2>3, <2>4, PopShape, RunningFacts
  <2>6. newStack \in Seq(Int) /\ Len(newStack) = stack_ptr - 1
    <3> HIDE DEF rest
    <3> QED  BY <2>5, AppendProperties, RunningFacts
  <2> HIDE DEF newStack
  <2> QED  BY <2>1, <2>2, <2>6, BothRetire
<1> QED  BY <1>1, <1>2

(***************************************************************************)
(* The two words on top of a stack of at least two are integers.           *)
(***************************************************************************)
LEMMA TwoOnTop ==
  ASSUME Agreement, Running, ~(Len(stack) < 2)
  PROVE  I!Last(stack) \in Int /\ I!Last(I!Front(stack)) \in Int
<1>1. /\ I!Last(stack) \in Int
      /\ I!Front(stack) \in Seq(Int)
      /\ Len(I!Front(stack)) = stack_ptr - 1
  BY RunningFacts, PopShape
<1>2. I!Front(stack) # <<>>
  BY <1>1, RunningFacts, EmptyStack
<1> QED  BY <1>1, <1>2, PopShape

LEMMA AddAgrees ==
  ASSUME Agreement, Running, I!InterpretAdd, P!ParseAdd
  PROVE  Agreement'
<1> DEFINE sum == I!AddWords(I!Last(I!Front(stack)), I!Last(stack))
           result == IF Len(stack) < 2 THEN 0 ELSE sum
<1>1. result \in Int
  <2>1. CASE ~(Len(stack) < 2)
    BY <2>1, TwoOnTop, Modulo DEF I!AddWords
  <2> QED  BY <2>1
<1>2. IF Len(stack) < 2
      THEN I!Raise("underflow")
      ELSE I!Retire(Append(I!Front(I!Front(stack)), result), out_words, 1)
  BY DEF I!InterpretAdd
<1>3. P!ParseArithmetic(P!ADD, "add")
  BY DEF P!ParseAdd
<1> HIDE DEF result
<1> QED  BY <1>1, <1>2, <1>3, ArithmeticAgrees

LEMMA SubAgrees ==
  ASSUME Agreement, Running, I!InterpretSub, P!ParseSub
  PROVE  Agreement'
<1> DEFINE difference == I!SubWords(I!Last(stack), I!Last(I!Front(stack)))
           result == IF Len(stack) < 2 THEN 0 ELSE difference
<1>1. result \in Int
  <2>1. CASE ~(Len(stack) < 2)
    BY <2>1, TwoOnTop, Modulo DEF I!SubWords
  <2> QED  BY <2>1
<1>2. IF Len(stack) < 2
      THEN I!Raise("underflow")
      ELSE I!Retire(Append(I!Front(I!Front(stack)), result), out_words, 1)
  BY DEF I!InterpretSub
<1>3. P!ParseArithmetic(P!SUB, "sub")
  BY DEF P!ParseSub
<1> HIDE DEF result
<1> QED  BY <1>1, <1>2, <1>3, ArithmeticAgrees

LEMMA DupAgrees ==
  ASSUME Agreement, Running, I!InterpretDup, P!ParseDup
  PROVE  Agreement'
<1>1. CASE stack_ptr <= 0
  BY <1>1, RunningFacts, ErrorKinds, BothRaise DEF I!InterpretDup, P!ParseDup
<1>2. CASE ~(stack_ptr <= 0)
  <2> DEFINE newStack == Append(stack, I!Last(stack))
  <2>1. P!Create(P!Plain("dup", stack_ptr, i), 1, stack_ptr + 1) /\ UNCHANGED status
    BY <1>2 DEF P!ParseDup
  <2>2. I!Retire(newStack, out_words, 1)
    BY <1>2, RunningFacts DEF I!InterpretDup
  <2>3. I!Last(stack) \in Int
    BY <1>2, RunningFacts, PopShape
  <2>4. newStack \in Seq(Int) /\ Len(newStack) = stack_ptr + 1
    BY <2>3, RunningFacts, AppendProperties
  <2> HIDE DEF newStack
  <2> QED  BY <2>1, <2>2, <2>4, BothRetire
<1> QED  BY <1>1, <1>2

-----------------------------------------------------------------------------
(***************************************************************************)
(* Agreement holds throughout.                                             *)
(***************************************************************************)
LEMMA AgreementInvariant == Spec => []Agreement
<1>1. Init => Agreement
  <2> SUFFICES ASSUME Init PROVE Agreement
    OBVIOUS
  <2>1. stack = <<>> /\ Len(stack) = 0 /\ stack \in Seq(Int)
    BY DEF Init, I!Init
  <2> QED  BY <2>1, BytecodeAssumption
           DEF Init, I!Init, P!Init, Agreement, HeightIsStatic, SameVerdict, SameOffset,
               Byte
<1>2. Agreement /\ [Next]_vars => Agreement'
  <2> SUFFICES ASSUME Agreement, [Next]_vars PROVE Agreement'
    OBVIOUS
  <2>1. CASE Next /\ verdict = "running"
    <3>1. Running
      BY <2>1 DEF Agreement, Running, HeightIsStatic, SameVerdict
    <3> QED  BY <2>1, <3>1, SameCase, StopAgrees, LoadAgrees, StoreAgrees, PopAgrees,
                AddAgrees, SubAgrees, DupAgrees, ErrorKinds, BothRaise
             DEF I!UnknownOpcode, P!UnknownOpcode, I!NoStop, P!NoStop
  <2>2. CASE Next /\ verdict # "running"
    <3>1. status # "parsing"
      BY <2>2 DEF Agreement, SameVerdict
    <3>2. UNCHANGED vars
      BY <2>2, <3>1 DEF Next, I!Next, I!Step, I!InterpretStop, I!MissingOperand,
         I!InterpretLoad, I!InterpretStore, I!InterpretPop, I!InterpretAdd,
         I!InterpretSub, I!InterpretDup, I!UnknownOpcode, I!NoStop, I!At, I!Decoding,
         I!Ended, I!vars, P!Next, P!Step, P!ParseStop, P!ParseLoad, P!ParseStore,
         P!ParsePop, P!ParseAdd, P!ParseSub, P!ParseDup, P!ParseArithmetic, P!Fetch,
         P!UnknownOpcode, P!NoStop, P!Ended, P!vars, vars
    <3> QED  BY <3>2 DEF vars, Agreement, HeightIsStatic, SameVerdict, SameOffset
  <2>3. CASE UNCHANGED vars
    BY <2>3 DEF vars, Agreement, HeightIsStatic, SameVerdict, SameOffset
  <2> QED  BY <2>1, <2>2, <2>3
<1> QED  BY <1>1, <1>2, PTL DEF Spec

(***************************************************************************)
(* Where the parser is, and how high it believes the stack to be, is where *)
(* a run is and how high its stack is.                                     *)
(***************************************************************************)
THEOREM AnalysisIsExact == Spec => []HeightIsStatic
<1>1. Agreement => HeightIsStatic
  BY DEF Agreement
<1> QED  BY <1>1, AgreementInvariant, PTL

(***************************************************************************)
(* The parser accepts exactly the programs that run to the end.            *)
(***************************************************************************)
THEOREM VerdictsAgree == Spec => []SameVerdict
<1>1. Agreement => SameVerdict
  BY DEF Agreement
<1> QED  BY <1>1, AgreementInvariant, PTL

(***************************************************************************)
(* The two report an error at the same instruction.                        *)
(***************************************************************************)
THEOREM OffsetsAgree == Spec => []SameOffset
<1>1. Agreement => SameOffset
  BY DEF Agreement
<1> QED  BY <1>1, AgreementInvariant, PTL

-----------------------------------------------------------------------------
PP == INSTANCE ParserProofs

(***************************************************************************)
(* The parser that steps here is the one of ParserProofs: its types are    *)
(* proved there.                                                           *)
(***************************************************************************)
LEMMA ParserTypes == Spec => []P!TypeOK
<1>1. Init => PP!Init
  BY DEF Init, P!Init, PP!Init, P!NoOffset, PP!NoOffset
<1>2. [Next]_vars => [PP!Next]_(PP!vars)
  <2> SUFFICES ASSUME [Next]_vars PROVE [PP!Next]_(PP!vars)
    OBVIOUS
  <2>1. CASE Next
    BY <2>1 DEF Next, P!Next, P!Step, P!ParseStop, P!ParseLoad, P!ParseStore, P!ParsePop,
       P!ParseAdd, P!ParseSub, P!ParseDup, P!ParseArithmetic, P!UnknownOpcode, P!NoStop,
       P!Ended, P!vars, P!Fetch, P!ArgumentMissing, P!Argument, P!Create, P!Throw,
       P!Greater, P!Plain, P!Indexed, P!StackPtrAttr, P!NoOffset,
       P!STOP, P!LOAD, P!STORE, P!POP, P!ADD, P!SUB, P!DUP,
       PP!Next, PP!Step, PP!ParseStop, PP!ParseLoad, PP!ParseStore, PP!ParsePop,
       PP!ParseAdd, PP!ParseSub, PP!ParseDup, PP!ParseArithmetic, PP!UnknownOpcode,
       PP!NoStop, PP!Ended, PP!vars, PP!Fetch, PP!ArgumentMissing, PP!Argument,
       PP!Create, PP!Throw, PP!Greater, PP!Plain, PP!Indexed, PP!StackPtrAttr,
       PP!NoOffset, PP!STOP, PP!LOAD, PP!STORE, PP!POP, PP!ADD, PP!SUB, PP!DUP
  <2>2. CASE UNCHANGED vars
    BY <2>2 DEF vars, PP!vars
  <2> QED  BY <2>1, <2>2
<1>3. PP!Spec => []PP!TypeOK
  BY PP!TypeCorrect, BytecodeAssumption, StackIRAssumption
  DEF PP!BytecodeAssumption, PP!StackIRAssumption, PP!Byte, Byte
<1>4. PP!TypeOK => P!TypeOK
  BY DEF PP!TypeOK, P!TypeOK, PP!Errors, P!Errors, PP!Byte, P!Byte, PP!StackOp, P!StackOp,
     PP!PlainOp, P!PlainOp, PP!IndexedOp, P!IndexedOp, PP!PlainName, P!PlainName,
     PP!IndexedName, P!IndexedName, PP!NoOffset, P!NoOffset
<1> QED  BY <1>1, <1>2, <1>3, <1>4, PTL DEF Spec, PP!Spec

(***************************************************************************)
(* What is cut to a word is a word.                                        *)
(***************************************************************************)
LEMMA WordType ==
  ASSUME NEW a \in Int
  PROVE  a % WordMod \in Word
BY BytecodeAssumption DEF Word

(***************************************************************************)
(* The top of a stack of words is a word, and what is below it a stack of  *)
(* words.                                                                  *)
(***************************************************************************)
LEMMA FrontType ==
  ASSUME NEW s \in Seq(Word), s # <<>>
  PROVE  /\ I!Last(s) \in Word
         /\ I!Front(s) \in Seq(Word)
<1>1. Len(s) \in Nat /\ Len(s) >= 1
  BY EmptySeq, LenProperties
<1>2. I!Last(s) \in Word
  BY <1>1, ElementOfSeq DEF I!Last
<1>3. Len(s) - 1 \in Int /\ \A k \in 1..(Len(s) - 1) : s[k] \in Word
  BY <1>1, ElementOfSeq
<1>4. SubSeq(s, 1, Len(s) - 1) \in Seq(Word)
  <2> DEFINE n == Len(s) - 1
  <2> HIDE DEF n
  <2>1. n \in Int /\ \A k \in 1..n : s[k] \in Word
    BY <1>3 DEF n
  <2>2. SubSeq(s, 1, n) \in Seq(Word)
    BY <2>1, SubSeqProperties
  <2> QED BY <2>2 DEF n
<1> QED  BY <1>2, <1>4 DEF I!Front

(***************************************************************************)
(* An instruction that takes effect on words leaves words, and one that    *)
(* raises leaves everything.                                               *)
(***************************************************************************)
LEMMA RetireType ==
  ASSUME I!TypeOK, NEW newStack \in Seq(Word), NEW newOut \in [OutputIndex -> Word],
         NEW width \in {1, 2}, pc + width <= Len(code),
         I!Retire(newStack, newOut, width)
  PROVE  I!TypeOK'
BY LenProperties
DEF I!TypeOK, I!Retire, I!Byte, Byte, I!Word, Word, I!OutputIndex, OutputIndex

LEMMA RaiseType ==
  ASSUME I!TypeOK, NEW kind \in I!Errors, I!Raise(kind)
  PROVE  I!TypeOK'
BY DEF I!TypeOK, I!Raise

(***************************************************************************)
(* The stacks that the instructions push.                                  *)
(***************************************************************************)
LEMMA PushType ==
  ASSUME NEW s \in Seq(Word), NEW word \in Word
  PROVE  Append(s, word) \in Seq(Word)
BY AppendProperties

LEMMA BinaryType ==
  ASSUME I!TypeOK, ~(Len(stack) < 2)
  PROVE  /\ I!AddWords(I!Last(I!Front(stack)), I!Last(stack)) \in Word
         /\ I!SubWords(I!Last(stack), I!Last(I!Front(stack))) \in Word
         /\ I!Front(I!Front(stack)) \in Seq(Word)
<1>1. Word \subseteq Int
  BY DEF Word
<1>2. stack \in Seq(Word) /\ stack \in Seq(Int) /\ stack # <<>>
  <2>1. stack \in Seq(Word)
    BY DEF I!TypeOK, I!Word, Word
  <2>2. stack # <<>>
    BY <2>1, EmptySeq
  <2> QED  BY <1>1, <2>1, <2>2, SeqMonotonic
<1>3. I!Last(stack) \in Word /\ I!Front(stack) \in Seq(Word)
  BY <1>2, FrontType
<1>4. Len(I!Front(stack)) = Len(stack) - 1 /\ Len(stack) \in Nat
  BY <1>2, PopShape
<1>5. I!Front(stack) # <<>>
  BY <1>3, <1>4, EmptySeq
<1>6. I!Last(I!Front(stack)) \in Word /\ I!Front(I!Front(stack)) \in Seq(Word)
  BY <1>3, <1>5, FrontType
<1> DEFINE a == I!Last(I!Front(stack))
           b == I!Last(stack)
<1>7. a \in Int /\ b \in Int
  BY <1>1, <1>3, <1>6
<1>8. (a + b) % WordMod \in Word /\ (b - a) % WordMod \in Word
  <2> HIDE DEF a, b
  <2> QED  BY <1>7, WordType
<1> QED  BY <1>6, <1>8 DEF I!AddWords, I!SubWords

(***************************************************************************)
(* Every turn of the interpreter's loop keeps its types.                   *)
(***************************************************************************)
LEMMA InterpreterStepType ==
  ASSUME I!TypeOK, I!Step
  PROVE  I!TypeOK'
<1>1. /\ Len(code) \in Nat /\ pc \in Nat
      /\ stack \in Seq(Word) /\ out_words \in [OutputIndex -> Word]
      /\ words \in Inputs /\ code \in Seq(Byte)
  BY LenProperties DEF I!TypeOK, I!Word, Word, I!OutputIndex, OutputIndex, I!Byte, Byte
<1>2. CASE I!InterpretStop
  BY <1>2 DEF I!InterpretStop, I!TypeOK
<1>3. CASE I!MissingOperand \/ I!UnknownOpcode \/ I!NoStop
  BY <1>3, ErrorKinds, RaiseType DEF I!MissingOperand, I!UnknownOpcode, I!NoStop
<1>4. CASE I!InterpretLoad
  <2>1. pc + 2 <= Len(code) /\ I!Operand \in Byte
    <3>1. pc + 1 < Len(code)
      BY <1>4 DEF I!InterpretLoad, I!At, I!WithOperand
    <3>2. pc + 2 \in 1..Len(code) /\ pc + 2 <= Len(code)
      BY <1>1, <3>1
    <3> QED  BY <1>1, <3>2, ElementOfSeq DEF I!Operand
  <2> DEFINE word == words[I!Operand] % WordMod
  <2>2. word \in Word
    BY <1>1, <2>1, LockstepAssumption, WordType
  <2>3. \/ I!Raise("load index")
        \/ I!Retire(Append(stack, word), out_words, 2)
    BY <1>4 DEF I!InterpretLoad
  <2>4. Append(stack, word) \in Seq(Word)
    <3> HIDE DEF word
    <3> QED  BY <1>1, <2>2, PushType
  <2> HIDE DEF word
  <2> QED  BY <1>1, <2>1, <2>3, <2>4, ErrorKinds, RaiseType, RetireType
<1>5. CASE I!InterpretStore
  <2>1. pc + 2 <= Len(code) /\ I!Operand \in Byte
    <3>1. pc + 1 < Len(code)
      BY <1>5 DEF I!InterpretStore, I!At, I!WithOperand
    <3>2. pc + 2 \in 1..Len(code) /\ pc + 2 <= Len(code)
      BY <1>1, <3>1
    <3> QED  BY <1>1, <3>2, ElementOfSeq DEF I!Operand
  <2>2. CASE stack = <<>> \/ I!Operand >= OutputWords
    BY <1>5, <2>2, ErrorKinds, RaiseType DEF I!InterpretStore
  <2>3. CASE ~(stack = <<>> \/ I!Operand >= OutputWords)
    <3> DEFINE newOut == [out_words EXCEPT ![I!Operand] = I!Last(stack)]
    <3>1. I!Retire(stack, newOut, 2)
      BY <1>5, <2>3 DEF I!InterpretStore
    <3>2. newOut \in [OutputIndex -> Word]
      BY <1>1, <2>3, FrontType
    <3> HIDE DEF newOut
    <3> QED  BY <1>1, <2>1, <3>1, <3>2, RetireType
  <2> QED  BY <2>2, <2>3
<1>6. CASE I!InterpretPop
  <2>1. pc + 1 <= Len(code)
    BY <1>1, <1>6 DEF I!InterpretPop, I!At, I!Decoding
  <2> QED  BY <1>1, <1>6, <2>1, ErrorKinds, RaiseType, RetireType, FrontType DEF I!InterpretPop
<1>7. CASE I!InterpretAdd \/ I!InterpretSub
  <2>1. pc + 1 <= Len(code)
    BY <1>1, <1>7 DEF I!InterpretAdd, I!InterpretSub, I!At, I!Decoding
  <2>2. CASE Len(stack) < 2
    BY <1>7, <2>2, ErrorKinds, RaiseType DEF I!InterpretAdd, I!InterpretSub
  <2>3. CASE ~(Len(stack) < 2)
    <3>1. \E word \in Word : I!Retire(Append(I!Front(I!Front(stack)), word), out_words, 1)
      BY <1>7, <2>3, BinaryType DEF I!InterpretAdd, I!InterpretSub
    <3>2. PICK word \in Word : I!Retire(Append(I!Front(I!Front(stack)), word), out_words, 1)
      BY <3>1
    <3>3. Append(I!Front(I!Front(stack)), word) \in Seq(Word)
      BY <2>3, BinaryType, PushType
    <3> QED  BY <1>1, <2>1, <3>2, <3>3, RetireType
  <2> QED  BY <2>2, <2>3
<1>8. CASE I!InterpretDup
  <2>1. pc + 1 <= Len(code)
    BY <1>1, <1>8 DEF I!InterpretDup, I!At, I!Decoding
  <2>2. CASE stack = <<>>
    BY <1>8, <2>2, ErrorKinds, RaiseType DEF I!InterpretDup
  <2>3. CASE stack # <<>>
    <3>1. I!Retire(Append(stack, I!Last(stack)), out_words, 1)
      BY <1>8, <2>3 DEF I!InterpretDup
    <3>2. Append(stack, I!Last(stack)) \in Seq(Word)
      BY <1>1, <2>3, FrontType, PushType
    <3> QED  BY <1>1, <2>1, <3>1, <3>2, RetireType
  <2> QED  BY <2>2, <2>3
<1> QED  BY <1>2, <1>3, <1>4, <1>5, <1>6, <1>7, <1>8 DEF I!Step

LEMMA InterpreterTypes == Spec => []I!TypeOK
<1>1. Init => I!TypeOK
  <2> SUFFICES ASSUME Init PROVE I!TypeOK
    OBVIOUS
  <2>1. /\ code \in Seq(Byte) /\ words \in Inputs /\ pc = 0 /\ stack = <<>>
        /\ out_words = I!ZeroOutput /\ verdict = "running"
    BY BytecodeAssumption DEF Init, I!Init
  <2>2. out_words \in [I!OutputIndex -> I!Word]
    BY <2>1, BytecodeAssumption DEF I!ZeroOutput, I!OutputIndex, I!Word
  <2>3. 0 \in 0..Len(code)
    BY <2>1, LenProperties
  <2> QED  BY <2>1, <2>2, <2>3, EmptySeq DEF I!TypeOK, I!Byte, Byte
<1>2. I!TypeOK /\ [Next]_vars => I!TypeOK'
  <2>1. I!TypeOK /\ UNCHANGED I!vars => I!TypeOK'
    BY DEF I!vars, I!TypeOK
  <2>2. UNCHANGED vars => UNCHANGED I!vars
    BY DEF vars, I!vars
  <2> QED  BY <2>1, <2>2, InterpreterStepType DEF Next, I!Next, I!Ended
<1> QED  BY <1>1, <1>2, PTL DEF Spec

(***************************************************************************)
(* Type correctness: the interpreter's pc stays within the code, its stack *)
(* and its output hold words, and the parser's types are those of          *)
(* ParserProofs.                                                           *)
(***************************************************************************)
THEOREM TypeCorrect == Spec => []TypeOK
BY ParserTypes, InterpreterTypes, PTL DEF TypeOK
=============================================================================
