---------------------------- MODULE ParserProofs ----------------------------
(***************************************************************************)
(* The invariants of the parser, for every set of programs and every width *)
(* of words and attributes.                                                *)
(*                                                                         *)
(* Whatever the opcode, a step of the parser either throws or creates one  *)
(* operation that fits the instruction.  StepShape says so, action by      *)
(* action; each invariant then has two cases instead of nine.              *)
(***************************************************************************)
EXTENDS Parser, StackIRProofs

(***************************************************************************)
(* op is what the instruction at i should become: named after one of the   *)
(* opcodes, located at it, with its operand, decorated with the height     *)
(* before it, not in need of more words than there are, storing only into  *)
(* the output, and ptr the height after it.                                *)
(***************************************************************************)
Fits(op, width, ptr) ==
  /\ i + width <= Len(code)
  /\ code[i + 1] \in STOP..DUP
  /\ op.name = NameOf(code[i + 1])
  /\ op.loc = i
  /\ width = Width(code[i + 1])
  /\ code[i + 1] \in WithOperand => op.index = code[i + 2]
  /\ op.name = "store" => op.index < OutputWords
  /\ op.stack_ptr = stack_ptr % PtrMod
  /\ Needs(op.name) <= stack_ptr
  /\ ptr = stack_ptr + Delta(op.name)

Creates ==
  \E op \in StackOp, width \in {1, 2}, ptr \in Nat :
    /\ Create(op, width, ptr)
    /\ Fits(op, width, ptr)
    /\ status' = IF op.name = "stop" THEN "parsed" ELSE "parsing"

Throws ==
  /\ status' \in Errors
  /\ error_at' \in Nat \cup {NoOffset}
  /\ UNCHANGED <<code, i, stack_ptr, stack_size, ops>>

-----------------------------------------------------------------------------
(***************************************************************************)
(* The attribute of a height is a value of the attribute's type.           *)
(***************************************************************************)
LEMMA AttrType ==
  ASSUME NEW n \in Nat
  PROVE  StackPtrAttr(n) \in 0..(PtrMod - 1)
BY StackIRAssumption DEF StackPtrAttr

LEMMA PlainType ==
  ASSUME NEW name \in PlainName, NEW ptr \in Nat, NEW at \in Nat
  PROVE  Plain(name, ptr, at) \in StackOp
BY AttrType DEF Plain, PlainOp, StackOp

LEMMA IndexedType ==
  ASSUME NEW name \in IndexedName, NEW idx \in Byte, NEW ptr \in Nat, NEW at \in Nat
  PROVE  Indexed(name, idx, ptr, at) \in StackOp
BY AttrType DEF Indexed, IndexedOp, StackOp

(***************************************************************************)
(* How the names, widths and effects of the seven opcodes are tabulated.   *)
(***************************************************************************)
LEMMA Opcodes ==
  /\ NameOf(STOP) = "stop"   /\ Width(STOP) = 1   /\ STOP \notin WithOperand
  /\ NameOf(LOAD) = "load"   /\ Width(LOAD) = 2   /\ LOAD \in WithOperand
  /\ NameOf(STORE) = "store" /\ Width(STORE) = 2  /\ STORE \in WithOperand
  /\ NameOf(POP) = "pop"     /\ Width(POP) = 1    /\ POP \notin WithOperand
  /\ NameOf(ADD) = "add"     /\ Width(ADD) = 1    /\ ADD \notin WithOperand
  /\ NameOf(SUB) = "sub"     /\ Width(SUB) = 1    /\ SUB \notin WithOperand
  /\ NameOf(DUP) = "dup"     /\ Width(DUP) = 1    /\ DUP \notin WithOperand
BY DEF NameOf, Width, WithOperand, STOP, LOAD, STORE, POP, ADD, SUB, DUP

LEMMA Effects ==
  /\ Needs("stop") = 0  /\ Delta("stop") = 0
  /\ Needs("load") = 0  /\ Delta("load") = 1
  /\ Needs("store") = 1 /\ Delta("store") = 0
  /\ Needs("pop") = 1   /\ Delta("pop") = -1
  /\ Needs("add") = 2   /\ Delta("add") = -1
  /\ Needs("sub") = 2   /\ Delta("sub") = -1
  /\ Needs("dup") = 1   /\ Delta("dup") = 1
BY DEF Needs, Delta, Growing, Shrinking

(***************************************************************************)
(* An operation without operand, created for a plain opcode, fits it.      *)
(***************************************************************************)
LEMMA PlainFits ==
  ASSUME TypeOK,
         NEW opcode \in {STOP, POP, ADD, SUB, DUP}, Fetch(opcode),
         NEW ptr \in Nat,
         Needs(NameOf(opcode)) <= stack_ptr,
         ptr = stack_ptr + Delta(NameOf(opcode)),
         Create(Plain(NameOf(opcode), stack_ptr, i), 1, ptr),
         status' = IF opcode = STOP THEN "parsed" ELSE "parsing"
  PROVE  Creates
<1> DEFINE op == Plain(NameOf(opcode), stack_ptr, i)
<1>1. /\ NameOf(opcode) \in PlainName /\ NameOf(opcode) # "store"
      /\ Width(opcode) = 1 /\ opcode \notin WithOperand
      /\ opcode \in STOP..DUP
  BY Opcodes DEF PlainName, STOP, POP, ADD, SUB, DUP
<1>2. NameOf(opcode) = "stop" <=> opcode = STOP
  BY Opcodes
<1>3. op \in StackOp
  BY <1>1, PlainType DEF TypeOK
<1>4. /\ op.name = NameOf(opcode)
      /\ op.loc = i
      /\ op.stack_ptr = stack_ptr % PtrMod
  BY DEF Plain, StackPtrAttr
<1>5. code[i + 1] = opcode /\ i + 1 <= Len(code)
  BY DEF Fetch, TypeOK
<1>6. Fits(op, 1, ptr)
  BY <1>1, <1>4, <1>5 DEF Fits
<1> HIDE DEF op
<1> QED  BY <1>2, <1>3, <1>4, <1>6 DEF Creates, op

(***************************************************************************)
(* An operation with an operand, created for LOAD or STORE, fits it.       *)
(***************************************************************************)
LEMMA IndexedFits ==
  ASSUME TypeOK,
         NEW opcode \in {LOAD, STORE}, Fetch(opcode), ~ArgumentMissing,
         opcode = STORE => Argument < OutputWords,
         NEW ptr \in Nat,
         Needs(NameOf(opcode)) <= stack_ptr,
         ptr = stack_ptr + Delta(NameOf(opcode)),
         Create(Indexed(NameOf(opcode), Argument, stack_ptr, i), 2, ptr),
         status' = "parsing"
  PROVE  Creates
<1> DEFINE op == Indexed(NameOf(opcode), Argument, stack_ptr, i)
<1>1. /\ NameOf(opcode) \in IndexedName /\ NameOf(opcode) # "stop"
      /\ Width(opcode) = 2 /\ opcode \in WithOperand
      /\ opcode \in STOP..DUP
      /\ NameOf(opcode) = "store" => opcode = STORE
  BY Opcodes DEF IndexedName, STOP, LOAD, STORE, DUP
<1>2. /\ code[i + 1] = opcode
      /\ i + 2 <= Len(code)
      /\ Argument \in Byte
  BY DEF Fetch, TypeOK, ArgumentMissing, Argument
<1>3. op \in StackOp
  BY <1>1, <1>2, IndexedType DEF TypeOK
<1>4. /\ op.name = NameOf(opcode)
      /\ op.loc = i
      /\ op.index = code[i + 2] /\ op.index = Argument
      /\ op.stack_ptr = stack_ptr % PtrMod
  BY DEF Indexed, StackPtrAttr, Argument
<1>5. Fits(op, 2, ptr)
  BY <1>1, <1>2, <1>4 DEF Fits
<1> HIDE DEF op
<1> QED  BY <1>1, <1>3, <1>4, <1>5 DEF Creates, op

(***************************************************************************)
(* A throw with a kind and an offset of the right types is a throw.        *)
(***************************************************************************)
LEMMA ThrowShape ==
  ASSUME TypeOK, NEW kind \in Errors, NEW at \in Nat \cup {NoOffset},
         Throw(kind, at)
  PROVE  Throws
BY DEF Throw, Throws

(***************************************************************************)
(* What every step of the parser does: it creates an operation that fits   *)
(* the instruction, or throws.                                             *)
(***************************************************************************)
LEMMA StepShape ==
  ASSUME TypeOK, Step
  PROVE  status = "parsing" /\ (Creates \/ Throws)
<1> USE DEF TypeOK
<1>0. /\ i \in Nat /\ NoOffset \in {NoOffset}
      /\ "underflow" \in Errors /\ "missing argument" \in Errors
      /\ "store index" \in Errors /\ "unknown opcode" \in Errors
      /\ "no STOP" \in Errors
  <2>1. i \in Nat
    OBVIOUS
  <2> QED  BY <2>1 DEF Errors
<1>1. CASE ParseStop
  BY <1>1, Opcodes, Effects, PlainFits DEF ParseStop, Fetch
<1>2. CASE ParseLoad
  <2>1. CASE ArgumentMissing
    BY <1>0, <1>2, <2>1, ThrowShape DEF ParseLoad, Fetch
  <2>2. CASE ~ArgumentMissing
    BY <1>2, <2>2, Opcodes, Effects, IndexedFits DEF ParseLoad, Fetch, LOAD, STORE
  <2> QED  BY <2>1, <2>2
<1>3. CASE ParseStore
  <2> DEFINE Rejected ==
        stack_ptr <= 0 \/ ArgumentMissing \/ Argument >= OutputWords
  <2>1. CASE Rejected
    BY <1>0, <1>3, <2>1, ThrowShape DEF ParseStore, Fetch
  <2>2. CASE ~Rejected
    <3>1. /\ Create(Indexed("store", Argument, stack_ptr, i), 2, stack_ptr)
          /\ status' = status
      BY <1>3, <2>2 DEF ParseStore
    <3>2. Fetch(STORE) /\ status = "parsing"
      BY <1>3 DEF ParseStore, Fetch
    <3>3. 1 <= stack_ptr /\ stack_ptr = stack_ptr + 0
      BY <2>2
    <3>4. Argument < OutputWords
      <4>1. Argument \in Byte
        BY <2>2 DEF ArgumentMissing, Argument
      <4> QED  BY <2>2, <4>1, BytecodeAssumption DEF Byte
    <3> QED  BY <2>2, <3>1, <3>2, <3>3, <3>4, Opcodes, Effects, IndexedFits
  <2> QED  BY <2>1, <2>2
<1>4. CASE ParsePop
  <2>1. CASE stack_ptr <= 0
    BY <1>0, <1>4, <2>1, ThrowShape DEF ParsePop, Fetch
  <2>2. CASE stack_ptr > 0
    BY <1>4, <2>2, Opcodes, Effects, PlainFits DEF ParsePop, Fetch, POP, STOP
  <2> QED  BY <2>1, <2>2
<1>5. CASE ParseAdd
  <2>1. CASE stack_ptr <= 1
    BY <1>0, <1>5, <2>1, ThrowShape DEF ParseAdd, ParseArithmetic, Fetch
  <2>2. CASE stack_ptr > 1
    BY <1>5, <2>2, Opcodes, Effects, PlainFits
    DEF ParseAdd, ParseArithmetic, Fetch, ADD, STOP
  <2> QED  BY <2>1, <2>2
<1>6. CASE ParseSub
  <2>1. CASE stack_ptr <= 1
    BY <1>0, <1>6, <2>1, ThrowShape DEF ParseSub, ParseArithmetic, Fetch
  <2>2. CASE stack_ptr > 1
    BY <1>6, <2>2, Opcodes, Effects, PlainFits
    DEF ParseSub, ParseArithmetic, Fetch, SUB, STOP
  <2> QED  BY <2>1, <2>2
<1>7. CASE ParseDup
  <2>1. CASE stack_ptr <= 0
    BY <1>0, <1>7, <2>1, ThrowShape DEF ParseDup, Fetch
  <2>2. CASE stack_ptr > 0
    BY <1>7, <2>2, Opcodes, Effects, PlainFits DEF ParseDup, Fetch, DUP, STOP
  <2> QED  BY <2>1, <2>2
<1>8. CASE UnknownOpcode
  BY <1>0, <1>8, ThrowShape DEF UnknownOpcode
<1>9. CASE NoStop
  BY <1>0, <1>9, ThrowShape DEF NoStop
<1> QED  BY <1>1, <1>2, <1>3, <1>4, <1>5, <1>6, <1>7, <1>8, <1>9 DEF Step

-----------------------------------------------------------------------------
(***************************************************************************)
(* Type correctness.                                                       *)
(***************************************************************************)
THEOREM TypeCorrect == Spec => []TypeOK
<1>1. Init => TypeOK
  BY BytecodeAssumption DEF Init, TypeOK
<1>2. TypeOK /\ [Next]_vars => TypeOK'
  <2> SUFFICES ASSUME TypeOK, [Next]_vars PROVE TypeOK'
    OBVIOUS
  <2>1. CASE Step
    <3>1. CASE Creates
      <4>1. PICK op \in StackOp, width \in {1, 2}, ptr \in Nat :
              /\ Create(op, width, ptr)
              /\ i + width <= Len(code)
              /\ status' \in {"parsed", "parsing"}
        BY <3>1 DEF Creates, Fits
      <4>2. ops' \in Seq(StackOp)
        BY <4>1, AppendProperties DEF Create, TypeOK
      <4> QED  BY <4>1, <4>2 DEF Create, Greater, TypeOK
    <3>2. CASE Throws
      BY <3>2 DEF Throws, TypeOK
    <3> QED  BY <2>1, <3>1, <3>2, StepShape
  <2>2. CASE UNCHANGED vars
    BY <2>2 DEF vars, TypeOK
  <2> QED  BY <2>1, <2>2 DEF Next, Ended
<1> QED  BY <1>1, <1>2, PTL DEF Spec

-----------------------------------------------------------------------------
(***************************************************************************)
(* The static analysis.  The three invariants about heights are inductive  *)
(* together: that the counter is the height after the operations created   *)
(* so far makes the check before an underflow one of the height, and makes *)
(* the counter the height that stack_size has to follow.                   *)
(***************************************************************************)
Heights == DecorationIsHeight /\ NeverUnderflows /\ StackSizeIsPeak

(***************************************************************************)
(* Creating an operation that fits keeps the three.                        *)
(***************************************************************************)
LEMMA CreateKeepsHeights ==
  ASSUME TypeOK, Heights,
         NEW op \in StackOp, NEW width \in {1, 2}, NEW ptr \in Nat,
         Create(op, width, ptr), Fits(op, width, ptr)
  PROVE  Heights'
<1> DEFINE n == Len(ops)
<1>1. /\ n \in Nat
      /\ DOMAIN ops = 1..n
      /\ Len(ops') = n + 1
      /\ DOMAIN ops' = 1..(n + 1)
      /\ \A k \in 1..n : ops'[k] = ops[k]
      /\ ops'[n + 1] = op
      /\ ops' \in Seq(StackOp)
  BY AppendProperties, LenProperties DEF Create, TypeOK
<1>2. /\ \A k \in 1..(n + 1) : Height(ops', k) = Height(ops, k)
      /\ Height(ops', n + 2) = Height(ops, n + 1) + Delta(op.name)
  BY HeightAppend DEF Create, TypeOK
<1>3. stack_ptr = Height(ops, n + 1) /\ stack_ptr \in Nat
  BY DEF Heights, DecorationIsHeight, TypeOK
<1>4. Height(ops', n + 2) = ptr
  BY <1>2, <1>3 DEF Fits
<1>5. (Len(ops) + 1)' = n + 2 /\ n + 1 \in 1..(n + 1)
  BY <1>1
<1>6. DecorationIsHeight'
  <2>1. stack_ptr' = Height(ops', (Len(ops) + 1)')
    BY <1>4, <1>5 DEF Create
  <2>2. ASSUME NEW k \in 1..n
        PROVE  ops'[k].stack_ptr = Height(ops', k) % PtrMod
    BY <1>1, <1>2 DEF Heights, DecorationIsHeight
  <2>3. ops'[n + 1].stack_ptr = Height(ops', n + 1) % PtrMod
    BY <1>1, <1>2, <1>3, <1>5 DEF Fits
  <2> QED  BY <1>1, <2>1, <2>2, <2>3 DEF DecorationIsHeight
<1>7. NeverUnderflows'
  <2>1. ASSUME NEW k \in 1..n
        PROVE  Height(ops', k) >= Needs(ops'[k].name)
    BY <1>1, <1>2 DEF Heights, NeverUnderflows
  <2>2. Height(ops', n + 1) >= Needs(ops'[n + 1].name)
    BY <1>1, <1>2, <1>3, <1>5 DEF Fits
  <2> QED  BY <1>1, <2>1, <2>2 DEF NeverUnderflows
<1>8. StackSizeIsPeak'
  <2>1. stack_size' = IF ptr > stack_size THEN ptr ELSE stack_size
    BY DEF Create, Greater
  <2>2. /\ \E k \in 1..(n + 1) : stack_size = Height(ops, k)
        /\ \A k \in 1..(n + 1) : Height(ops, k) <= stack_size
    BY DEF Heights, StackSizeIsPeak
  <2>3. /\ stack_size \in Nat
        /\ \A k \in 1..(n + 1) : Height(ops, k) \in Int
    BY HeightType DEF TypeOK
  <2>4. \E k \in 1..(n + 2) : stack_size' = Height(ops', k)
    BY <1>1, <1>2, <1>4, <2>1, <2>2
  <2>5. ASSUME NEW k \in 1..(n + 2)
        PROVE  Height(ops', k) <= stack_size'
    <3>1. CASE k \in 1..(n + 1)
      BY <1>2, <2>1, <2>2, <2>3, <3>1
    <3>2. CASE k = n + 2
      BY <1>4, <2>1, <2>3, <3>2
    <3> QED  BY <1>1, <3>1, <3>2
  <2> QED  BY <1>5, <2>4, <2>5 DEF StackSizeIsPeak
<1> QED  BY <1>6, <1>7, <1>8 DEF Heights

LEMMA HeightsInvariant == Spec => []Heights
<1>1. Init => Heights
  <2> SUFFICES ASSUME Init PROVE Heights
    OBVIOUS
  <2>1. /\ ops = <<>> /\ stack_ptr = 0 /\ stack_size = 0
        /\ Len(ops) = 0 /\ DOMAIN ops = {}
    BY DEF Init
  <2>2. Height(ops, 1) = 0
    BY HeightAtStart
  <2>3. \A k \in 1..(Len(ops) + 1) : k = 1
    BY <2>1
  <2> QED  BY <2>1, <2>2, <2>3
           DEF Heights, DecorationIsHeight, NeverUnderflows, StackSizeIsPeak
<1>2. TypeOK /\ Heights /\ [Next]_vars => Heights'
  <2> SUFFICES ASSUME TypeOK, Heights, [Next]_vars PROVE Heights'
    OBVIOUS
  <2>1. CASE Creates
    BY <2>1, CreateKeepsHeights DEF Creates
  <2>2. CASE UNCHANGED <<stack_ptr, stack_size, ops>>
    BY <2>2 DEF Heights, DecorationIsHeight, NeverUnderflows, StackSizeIsPeak
  <2> QED  BY <2>1, <2>2, StepShape DEF Next, Ended, Throws, vars
<1> QED  BY <1>1, <1>2, TypeCorrect, PTL DEF Spec

(***************************************************************************)
(* Every operation is decorated with the height of the stack before it,    *)
(* cut to the width of the attribute.                                      *)
(***************************************************************************)
THEOREM DecorationCorrect == Spec => []DecorationIsHeight
<1>1. Heights => DecorationIsHeight
  BY DEF Heights
<1> QED  BY <1>1, HeightsInvariant, PTL

(***************************************************************************)
(* No stack underflow gets past the parser.                                *)
(***************************************************************************)
THEOREM UnderflowsCaught == Spec => []NeverUnderflows
<1>1. Heights => NeverUnderflows
  BY DEF Heights
<1> QED  BY <1>1, HeightsInvariant, PTL

(***************************************************************************)
(* The stack array is given exactly the words that the code needs.         *)
(***************************************************************************)
THEOREM StackSizeCorrect == Spec => []StackSizeIsPeak
<1>1. Heights => StackSizeIsPeak
  BY DEF Heights
<1> QED  BY <1>1, HeightsInvariant, PTL

-----------------------------------------------------------------------------
(***************************************************************************)
(* A parsed module ends with its only stop.                                *)
(***************************************************************************)
THEOREM StopEndsModule == Spec => []EndsWithOnlyStop
<1>1. Init => EndsWithOnlyStop
  BY DEF Init, EndsWithOnlyStop
<1>2. TypeOK /\ EndsWithOnlyStop /\ [Next]_vars => EndsWithOnlyStop'
  <2> SUFFICES ASSUME TypeOK, EndsWithOnlyStop, [Next]_vars PROVE EndsWithOnlyStop'
    OBVIOUS
  <2>1. CASE Creates /\ status = "parsing"
    <3>1. PICK op \in StackOp : /\ ops' = Append(ops, op)
                                /\ status' = IF op.name = "stop" THEN "parsed" ELSE "parsing"
      BY <2>1 DEF Creates, Create
    <3>2. /\ Len(ops) \in Nat
          /\ DOMAIN ops = 1..Len(ops)
          /\ Len(ops') = Len(ops) + 1
          /\ DOMAIN ops' = 1..(Len(ops) + 1)
          /\ \A k \in 1..Len(ops) : ops'[k] = ops[k]
          /\ ops'[Len(ops) + 1] = op
      BY <3>1, AppendProperties, LenProperties DEF TypeOK
    <3>3. \A k \in 1..Len(ops) : ops'[k].name # "stop"
      BY <2>1, <3>2 DEF EndsWithOnlyStop
    <3>4. ASSUME NEW k \in DOMAIN ops'
          PROVE  ops'[k].name = "stop" <=> (status' = "parsed" /\ k = Len(ops'))
      <4>1. CASE k \in 1..Len(ops)
        BY <3>2, <3>3, <4>1
      <4>2. CASE k = Len(ops) + 1
        BY <3>1, <3>2, <4>2
      <4> QED  BY <3>2, <4>1, <4>2
    <3> QED  BY <3>4 DEF EndsWithOnlyStop
  <2>2. CASE Throws /\ status = "parsing"
    BY <2>2 DEF Throws, Errors, EndsWithOnlyStop
  <2>3. CASE UNCHANGED vars
    BY <2>3 DEF vars, EndsWithOnlyStop
  <2> QED  BY <2>1, <2>2, <2>3, StepShape DEF Next, Ended
<1> QED  BY <1>1, <1>2, TypeCorrect, PTL DEF Spec

-----------------------------------------------------------------------------
(***************************************************************************)
(* The operations stand for the byte code one to one and in order.         *)
(***************************************************************************)
THEOREM ModuleMirrorsCode == Spec => []MirrorsCode
<1>1. Init => MirrorsCode
  BY DEF Init, MirrorsCode
<1>2. TypeOK /\ MirrorsCode /\ [Next]_vars => MirrorsCode'
  <2> SUFFICES ASSUME TypeOK, MirrorsCode, [Next]_vars PROVE MirrorsCode'
    OBVIOUS
  <2>1. CASE Creates
    <3>1. PICK op \in StackOp, width \in {1, 2} :
            /\ ops' = Append(ops, op)
            /\ i' = i + width
            /\ code' = code
            /\ op.name = NameOf(code[i + 1])
            /\ op.loc = i
            /\ width = Width(code[i + 1])
            /\ code[i + 1] \in WithOperand => op.index = code[i + 2]
      BY <2>1 DEF Creates, Create, Fits
    <3>2. /\ Len(ops) \in Nat
          /\ DOMAIN ops = 1..Len(ops)
          /\ Len(ops') = Len(ops) + 1
          /\ DOMAIN ops' = 1..(Len(ops) + 1)
          /\ ops' # <<>>
          /\ \A k \in 1..Len(ops) : ops'[k] = ops[k]
          /\ ops'[Len(ops) + 1] = op
      BY <3>1, AppendProperties, LenProperties DEF TypeOK
    <3>3. ops'[1].loc = 0
      <4>1. CASE ops = <<>>
        BY <3>1, <3>2, <4>1 DEF MirrorsCode
      <4>2. CASE ops # <<>>
        BY <3>2, <4>2 DEF MirrorsCode, TypeOK
      <4> QED  BY <4>1, <4>2
    <3>4. ASSUME NEW k \in DOMAIN ops'
          PROVE  LET at     == ops'[k].loc
                     opcode == code[at + 1]
                 IN  /\ ops'[k].name = NameOf(opcode)
                     /\ opcode \in WithOperand => ops'[k].index = code[at + 2]
                     /\ at + Width(opcode)
                          = IF k < Len(ops') THEN ops'[k + 1].loc ELSE i'
      <4>1. CASE k = Len(ops) + 1
        BY <3>1, <3>2, <4>1
      <4>2. CASE k = Len(ops)
        BY <3>1, <3>2, <4>2 DEF MirrorsCode
      <4>3. CASE k \in 1..Len(ops) /\ k # Len(ops)
        BY <3>1, <3>2, <4>3 DEF MirrorsCode
      <4> QED  BY <3>2, <4>1, <4>2, <4>3
    <3> QED  BY <3>1, <3>2, <3>3, <3>4 DEF MirrorsCode
  <2>2. CASE UNCHANGED <<code, i, ops>>
    BY <2>2 DEF MirrorsCode
  <2> QED  BY <2>1, <2>2, StepShape DEF Next, Ended, Throws, vars
<1> QED  BY <1>1, <1>2, TypeCorrect, PTL DEF Spec

-----------------------------------------------------------------------------
(***************************************************************************)
(* What a lowering may rely on besides: every operation stands for an      *)
(* instruction that is whole, a store for one with a word of the output,   *)
(* and a module that parse returns is not empty.                           *)
(***************************************************************************)
InstructionsWhole ==
  /\ status = "parsed" => ops # <<>>
  /\ \A k \in DOMAIN ops :
       LET opcode == code[ops[k].loc + 1]
       IN  /\ opcode \in STOP..DUP
           /\ ops[k].loc + Width(opcode) <= Len(code)
           /\ ops[k].name = "store" => ops[k].index < OutputWords

LEMMA EveryInstructionWhole == Spec => []InstructionsWhole
<1>1. Init => InstructionsWhole
  BY DEF Init, InstructionsWhole
<1>2. TypeOK /\ InstructionsWhole /\ [Next]_vars => InstructionsWhole'
  <2> SUFFICES ASSUME TypeOK, InstructionsWhole, [Next]_vars PROVE InstructionsWhole'
    OBVIOUS
  <2>1. CASE Creates
    <3>1. PICK op \in StackOp, width \in {1, 2} :
            /\ ops' = Append(ops, op)
            /\ code' = code
            /\ i + width <= Len(code)
            /\ code[i + 1] \in STOP..DUP
            /\ op.loc = i
            /\ width = Width(code[i + 1])
            /\ op.name = "store" => op.index < OutputWords
      BY <2>1 DEF Creates, Create, Fits
    <3>2. /\ Len(ops) \in Nat
          /\ DOMAIN ops = 1..Len(ops)
          /\ Len(ops') = Len(ops) + 1
          /\ DOMAIN ops' = 1..(Len(ops) + 1)
          /\ ops' # <<>>
          /\ \A k \in 1..Len(ops) : ops'[k] = ops[k]
          /\ ops'[Len(ops) + 1] = op
      BY <3>1, AppendProperties, LenProperties DEF TypeOK
    <3> QED  BY <3>1, <3>2 DEF InstructionsWhole
  <2>2. CASE Throws
    BY <2>2 DEF Throws, Errors, InstructionsWhole
  <2>3. CASE UNCHANGED vars
    BY <2>3 DEF vars, InstructionsWhole
  <2> QED  BY <2>1, <2>2, <2>3, StepShape DEF Next, Ended
<1> QED  BY <1>1, <1>2, TypeCorrect, PTL DEF Spec
=============================================================================
