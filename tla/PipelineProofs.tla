---------------------------- MODULE PipelineProofs --------------------------
(***************************************************************************)
(* The compiled code does what the interpreter does: for programs of any   *)
(* length, inputs of any size and words of any width, as long as no stack  *)
(* height exceeds the attribute it is written into and no load goes beyond *)
(* the input.                                                              *)
(*                                                                         *)
(* The parser's guarantees come from ParserProofs.  The invariant of the   *)
(* compiled function says which slots were written; with the two, no       *)
(* access is undefined, and every group of instructions is one step of the *)
(* interpreter.                                                            *)
(***************************************************************************)
EXTENDS Pipeline, StackIRProofs

PP == INSTANCE ParserProofs

-----------------------------------------------------------------------------
(***************************************************************************)
(* Until the module is lowered, the steps are those of the parser whose    *)
(* invariants ParserProofs proves; after that they leave it alone.         *)
(***************************************************************************)
LEMMA ParserRuns == Spec => PP!Spec
<1>1. Init => PP!Init
  BY DEF Init, P!Init, PP!Init, P!NoOffset, PP!NoOffset
<1>2. [Next]_vars => [PP!Next]_(PP!vars)
  <2> SUFFICES ASSUME [Next]_vars PROVE [PP!Next]_(PP!vars)
    OBVIOUS
  <2>1. CASE Parse
    BY <2>1 DEF Parse, P!Step, P!ParseStop, P!ParseLoad, P!ParseStore, P!ParsePop,
       P!ParseAdd, P!ParseSub, P!ParseDup, P!ParseArithmetic, P!UnknownOpcode, P!NoStop,
       P!Fetch, P!ArgumentMissing, P!Argument, P!Create, P!Throw,
       P!Greater, P!Plain, P!Indexed, P!StackPtrAttr, P!NoOffset,
       P!STOP, P!LOAD, P!STORE, P!POP, P!ADD, P!SUB, P!DUP,
       PP!Next, PP!Step, PP!ParseStop, PP!ParseLoad, PP!ParseStore, PP!ParsePop,
       PP!ParseAdd, PP!ParseSub, PP!ParseDup, PP!ParseArithmetic, PP!UnknownOpcode,
       PP!NoStop, PP!Fetch, PP!ArgumentMissing, PP!Argument,
       PP!Create, PP!Throw, PP!Greater, PP!Plain, PP!Indexed, PP!StackPtrAttr,
       PP!NoOffset, PP!STOP, PP!LOAD, PP!STORE, PP!POP, PP!ADD, PP!SUB, PP!DUP
  <2>2. CASE UNCHANGED parserVars
    BY <2>2 DEF parserVars, PP!vars
  <2> QED  BY <2>1, <2>2 DEF Next, LowerAndStart, Execute, Ended, vars
<1> QED  BY <1>1, <1>2, PTL DEF Spec, PP!Spec

(***************************************************************************)
(* The heights that ParserProofs speaks of are those of this module.       *)
(***************************************************************************)
LEMMA SameHeight ==
  ASSUME NEW module, NEW k
  PROVE  PP!Height(module, k) = Height(module, k)
BY DEF PP!Height, Height, PP!Count, Count, PP!Growing, Growing, PP!Shrinking, Shrinking,
   PP!Cardinality, Cardinality

(***************************************************************************)
(* All that the parser guarantees and the run of the compiled code needs.  *)
(***************************************************************************)
Stands(k) ==
  LET op     == ops[k]
      opcode == code[op.loc + 1]
  IN  /\ op.loc \in Nat /\ op.loc < Len(code)
      /\ opcode \in STOP..DUP
      /\ op.name = P!NameOf(opcode)
      /\ opcode \in WithOperand =>
           op.loc + 1 < Len(code) /\ op.index = code[op.loc + 2]
      /\ op.name = "store" => op.index < OutputWords
      /\ k < Len(ops) => ops[k + 1].loc = op.loc + P!Width(opcode)

Analysed(k) ==
  /\ ops[k].stack_ptr = Height(ops, k) % PtrMod
  /\ Height(ops, k) >= Needs(ops[k].name)

Sound ==
  /\ code \in Seq(Byte)
  /\ ops \in Seq(StackOp)
  /\ stack_size \in Nat
  /\ status = "parsed" => ops # <<>>
  /\ ops # <<>> => ops[1].loc = 0
  /\ \A k \in 1..Len(ops) :
       /\ Stands(k)
       /\ Analysed(k)
       /\ ops[k].name = "stop" <=> (status = "parsed" /\ k = Len(ops))
  /\ \A k \in 1..(Len(ops) + 1) : Height(ops, k) \in 0..stack_size
  /\ \E k \in 1..(Len(ops) + 1) : Height(ops, k) = stack_size

LEMMA Guarantees ==
  ASSUME PP!TypeOK, PP!Heights, PP!EndsWithOnlyStop, PP!MirrorsCode, PP!InstructionsWhole
  PROVE  Sound
<1>1. /\ code \in Seq(Byte) /\ ops \in Seq(StackOp) /\ stack_size \in Nat
      /\ Len(ops) \in Nat /\ DOMAIN ops = 1..Len(ops) /\ stack_ptr \in Nat
  <2>1. code \in Seq(Byte) /\ ops \in Seq(StackOp) /\ stack_size \in Nat /\ stack_ptr \in Nat
    BY DEF PP!TypeOK, PP!Byte, Byte, PP!StackOp, StackOp, PP!PlainOp, PlainOp,
       PP!IndexedOp, IndexedOp, PP!PlainName, PlainName, PP!IndexedName, IndexedName
  <2> QED  BY <2>1, LenProperties
<1>2. /\ PP!STOP = STOP /\ PP!DUP = DUP /\ PP!WithOperand = WithOperand
      /\ \A opcode : PP!NameOf(opcode) = P!NameOf(opcode)
      /\ \A opcode : PP!Width(opcode) = P!Width(opcode)
      /\ \A name : PP!Needs(name) = Needs(name)
  BY DEF PP!STOP, STOP, PP!DUP, DUP, PP!LOAD, LOAD, PP!STORE, STORE, PP!WithOperand,
     WithOperand, PP!NameOf, P!NameOf, PP!Width, P!Width, P!WithOperand, P!LOAD, P!STORE,
     PP!Needs, Needs
<1>3. ASSUME NEW k \in 1..Len(ops)
      PROVE  Stands(k)
  <2> DEFINE at == ops[k].loc
             opcode == code[at + 1]
  <2>1. at \in Nat
    <3>1. ops[k] \in StackOp
      BY <1>1, ElementOfSeq
    <3> QED  BY <3>1 DEF StackOp, PlainOp, IndexedOp
  <2>2. /\ opcode \in STOP..DUP
        /\ at + P!Width(opcode) <= Len(code)
        /\ ops[k].name = "store" => ops[k].index < OutputWords
    BY <1>1, <1>2 DEF PP!InstructionsWhole
  <2>3. /\ ops[k].name = P!NameOf(opcode)
        /\ opcode \in WithOperand => ops[k].index = code[at + 2]
        /\ k < Len(ops) => ops[k + 1].loc = at + P!Width(opcode)
    BY <1>1, <1>2 DEF PP!MirrorsCode
  <2>4. /\ at < Len(code)
        /\ opcode \in WithOperand => at + 1 < Len(code)
    <3>1. P!Width(opcode) = IF opcode \in WithOperand THEN 2 ELSE 1
      BY DEF P!Width, P!WithOperand, WithOperand, P!LOAD, LOAD, P!STORE, STORE
    <3>2. Len(code) \in Nat
      BY <1>1, LenProperties
    <3> HIDE DEF opcode, at
    <3> QED  BY <2>1, <2>2, <3>1, <3>2
  <2> QED  BY <2>1, <2>2, <2>3, <2>4 DEF Stands
<1>4. ASSUME NEW k \in 1..Len(ops)
      PROVE  Analysed(k)
  BY <1>1, <1>2, SameHeight
  DEF PP!Heights, PP!DecorationIsHeight, PP!NeverUnderflows, Analysed
<1>5. ASSUME NEW k \in 1..(Len(ops) + 1)
      PROVE  Height(ops, k) \in 0..stack_size
  <2>1. Height(ops, k) \in Int
    BY <1>1, HeightType
  <2>2. Height(ops, k) <= stack_size
    BY SameHeight DEF PP!Heights, PP!StackSizeIsPeak
  <2>3. Height(ops, k) >= 0
    <3>1. CASE k = Len(ops) + 1
      BY <1>1, <3>1, SameHeight DEF PP!Heights, PP!DecorationIsHeight
    <3>2. CASE k \in 1..Len(ops)
      <4>1. Height(ops, k) >= Needs(ops[k].name)
        BY <1>4, <3>2 DEF Analysed
      <4>2. Needs(ops[k].name) \in Nat
        <5>1. ops[k] \in StackOp
          BY <1>1, <3>2, ElementOfSeq
        <5> QED  BY <5>1 DEF StackOp, PlainOp, IndexedOp, PlainName, IndexedName, Needs
      <4> QED  BY <2>1, <4>1, <4>2
    <3> QED  BY <1>1, <3>1, <3>2
  <2> QED  BY <1>1, <2>1, <2>2, <2>3
<1>6. \E k \in 1..(Len(ops) + 1) : Height(ops, k) = stack_size
  BY SameHeight DEF PP!Heights, PP!StackSizeIsPeak
<1>7. /\ status = "parsed" => ops # <<>>
      /\ ops # <<>> => ops[1].loc = 0
      /\ \A k \in 1..Len(ops) : ops[k].name = "stop" <=> (status = "parsed" /\ k = Len(ops))
  BY <1>1 DEF PP!EndsWithOnlyStop, PP!MirrorsCode, PP!InstructionsWhole
<1> QED  BY <1>1, <1>3, <1>4, <1>5, <1>6, <1>7 DEF Sound

LEMMA SoundInvariant == Spec => []Sound
<1>1. PP!Spec => []PP!TypeOK
  BY PP!TypeCorrect, BytecodeAssumption, StackIRAssumption
  DEF PP!BytecodeAssumption, PP!StackIRAssumption, PP!Byte, Byte
<1>2. PP!Spec => []PP!Heights
  BY PP!HeightsInvariant, BytecodeAssumption, StackIRAssumption
  DEF PP!BytecodeAssumption, PP!StackIRAssumption, PP!Byte, Byte
<1>3. PP!Spec => []PP!EndsWithOnlyStop
  BY PP!StopEndsModule, BytecodeAssumption, StackIRAssumption
  DEF PP!BytecodeAssumption, PP!StackIRAssumption, PP!Byte, Byte
<1>4. PP!Spec => []PP!MirrorsCode
  BY PP!ModuleMirrorsCode, BytecodeAssumption, StackIRAssumption
  DEF PP!BytecodeAssumption, PP!StackIRAssumption, PP!Byte, Byte
<1>5. PP!Spec => []PP!InstructionsWhole
  BY PP!EveryInstructionWhole, BytecodeAssumption, StackIRAssumption
  DEF PP!BytecodeAssumption, PP!StackIRAssumption, PP!Byte, Byte
<1> QED  BY <1>1, <1>2, <1>3, <1>4, <1>5, ParserRuns, Guarantees, PTL

-----------------------------------------------------------------------------
(***************************************************************************)
(* What a step of the compiled code does, in terms of the operation that   *)
(* its group was lowered from and of the height in its attribute.          *)
(***************************************************************************)
Op  == ops[ip]
Top == Op.stack_ptr

(***************************************************************************)
(* The accesses of the group are within the objects and to written slots.  *)
(***************************************************************************)
Fits ==
  /\ Op.name = "load" => Op.index \in DOMAIN words /\ Top \in 0..(stack_size - 1)
  /\ Op.name = "store" => Top - 1 \in DOMAIN mem /\ Op.index \in DOMAIN out_words
  /\ Op.name \in {"add", "sub"} =>
       Top - 1 \in DOMAIN mem /\ Top - 2 \in DOMAIN mem /\ Top - 2 \in 0..(stack_size - 1)
  /\ Op.name = "dup" => Top - 1 \in DOMAIN mem /\ Top \in 0..(stack_size - 1)

Advances == ip' = ip + 1 /\ UNCHANGED <<fn, words, run>>

Writes(n, v) == mem' = F!Stored(mem, n, v) /\ UNCHANGED out_words

Effect ==
  /\ Op.name = "load" => Writes(Top, words[Op.index])
  /\ Op.name = "store" =>
       out_words' = F!Stored(out_words, Op.index, mem[Top - 1]) /\ UNCHANGED mem
  /\ Op.name = "pop" => UNCHANGED <<mem, out_words>>
  /\ Op.name = "add" => Writes(Top - 2, AddWords(mem[Top - 2], mem[Top - 1]))
  /\ Op.name = "sub" => Writes(Top - 2, SubWords(mem[Top - 1], mem[Top - 2]))
  /\ Op.name = "dup" => Writes(Top, mem[Top - 1])

Goes   == Op.name # "stop" /\ Fits /\ Effect /\ Advances
Stops  == Op.name = "stop" /\ F!Return
Strays ==
  /\ Op.name # "stop"
  /\ ~Fits
  /\ run' = "undefined"
  /\ out_words' \in [OutputIndex -> Word]
  /\ UNCHANGED <<fn, words, mem, ip>>

Linked == fn = Lower(ops, stack_size) /\ ip \in 1..Len(ops)

(***************************************************************************)
(* The operations that the parser creates have seven names.                *)
(***************************************************************************)
LEMMA Names ==
  ASSUME NEW op \in StackOp
  PROVE  op.name \in {"stop", "load", "store", "pop", "add", "sub", "dup"}
BY DEF StackOp, PlainOp, IndexedOp, PlainName, IndexedName

(***************************************************************************)
(* A group that computes goes on if its accesses are defined, and strays   *)
(* if one is not.                                                          *)
(***************************************************************************)
LEMMA ComputingShape ==
  ASSUME F!Next,
         F!Current.kind \in F!Computing,
         F!Accessible(F!Current) <=> Fits,
         Op.name # "stop",
         F!Compute => Effect
  PROVE  Goes \/ Strays
<1>1. CASE F!Compute
  BY <1>1 DEF F!Compute, Goes, Advances
<1>2. CASE F!Misbehave
  BY <1>2 DEF F!Misbehave, Strays, F!OutputIndex, OutputIndex, F!Word, Word
<1> QED  BY <1>1, <1>2 DEF F!Next, F!Pass, F!Return, F!Executing, F!Computing

(***************************************************************************)
(* Whatever the operation, a step of its group is of one of three kinds.   *)
(***************************************************************************)
LEMMA StepShape ==
  ASSUME Sound, Linked, F!Next
  PROVE  run = "running" /\ (Goes \/ Stops \/ Strays)
<1>1. /\ Len(ops) \in Nat /\ DOMAIN ops = 1..Len(ops) /\ Op \in StackOp
      /\ Top \in Nat
  <2>1. Len(ops) \in Nat /\ DOMAIN ops = 1..Len(ops) /\ Op \in StackOp
    BY LenProperties, ElementOfSeq DEF Sound, Linked, Op
  <2>2. Top \in 0..(PtrMod - 1)
    BY <2>1 DEF StackOp, PlainOp, IndexedOp, Top
  <2> QED  BY <2>1, <2>2, StackIRAssumption
<1>2. F!Current = Lowered(Op) /\ fn.slots = stack_size
  BY <1>1 DEF Linked, Lower, F!Current, Op
<1>3. Op.name \in {"stop", "load", "store", "pop", "add", "sub", "dup"}
  BY <1>1, Names
<1>4. run = "running"
  BY DEF F!Next, F!Compute, F!Misbehave, F!Pass, F!Return, F!Executing
<1> USE DEF Group, Slot, InWord, OutWord, Nowhere, F!Computing
<1>5. CASE Op.name = "stop"
  <2>1. F!Current = LowerStop
    BY <1>2, <1>5 DEF Lowered
  <2>2. F!Current.kind = "ret"
    BY <2>1 DEF LowerStop
  <2> QED  BY <1>4, <1>5, <2>2
           DEF Stops, F!Next, F!Compute, F!Misbehave, F!Pass, F!Executing
<1>6. CASE Op.name = "pop"
  <2>1. F!Current = LowerPop
    BY <1>2, <1>6 DEF Lowered
  <2>2. F!Current.kind = "nothing"
    BY <2>1 DEF LowerPop
  <2>3. F!Pass
    BY <2>2 DEF F!Next, F!Compute, F!Misbehave, F!Return, F!Executing
  <2> QED  BY <1>4, <1>6, <2>3 DEF Goes, Fits, Effect, Advances, F!Pass
<1>7. CASE Op.name = "load"
  <2>1. F!Current = LowerLoad(Op.index, Top)
    BY <1>2, <1>7 DEF Lowered, Top
  <2>2. /\ F!Current.kind = "move" /\ F!Current.loads = <<InWord(Op.index)>>
        /\ F!Current.target = Slot(Top)
    BY <2>1 DEF LowerLoad
  <2>3. F!Accessible(F!Current) <=> Fits
    BY <1>2, <1>7, <2>2 DEF F!Accessible, F!Readable, F!Writable, Fits
  <2>4. F!Result(F!Current) = words[Op.index]
    BY <2>2 DEF F!Result, F!Value
  <2>5. F!Compute => Effect
    BY <1>7, <2>2, <2>4 DEF F!Compute, Effect, Writes
  <2> QED  BY <1>4, <1>7, <2>2, <2>3, <2>5, ComputingShape
<1>8. CASE Op.name = "store"
  <2>1. F!Current = LowerStore(Op.index, Top)
    BY <1>2, <1>8 DEF Lowered, Top
  <2>2. /\ F!Current.kind = "move" /\ F!Current.loads = <<Slot(Top - 1)>>
        /\ F!Current.target = OutWord(Op.index)
    BY <2>1 DEF LowerStore
  <2>3. F!Accessible(F!Current) <=> Fits
    BY <1>2, <1>8, <2>2 DEF F!Accessible, F!Readable, F!Writable, Fits
  <2>4. F!Result(F!Current) = mem[Top - 1]
    BY <2>2 DEF F!Result, F!Value
  <2>5. F!Compute => Effect
    BY <1>8, <2>2, <2>4 DEF F!Compute, Effect, Writes
  <2> QED  BY <1>4, <1>8, <2>2, <2>3, <2>5, ComputingShape
<1>9. CASE Op.name = "dup"
  <2>1. F!Current = LowerDup(Top)
    BY <1>2, <1>9 DEF Lowered, Top
  <2>2. /\ F!Current.kind = "move" /\ F!Current.loads = <<Slot(Top - 1)>>
        /\ F!Current.target = Slot(Top)
    BY <2>1 DEF LowerDup
  <2>3. F!Accessible(F!Current) <=> Fits
    BY <1>2, <1>9, <2>2 DEF F!Accessible, F!Readable, F!Writable, Fits
  <2>4. F!Result(F!Current) = mem[Top - 1]
    BY <2>2 DEF F!Result, F!Value
  <2>5. F!Compute => Effect
    BY <1>9, <2>2, <2>4 DEF F!Compute, Effect, Writes
  <2> QED  BY <1>4, <1>9, <2>2, <2>3, <2>5, ComputingShape
<1>10. CASE Op.name = "add"
  <2>1. F!Current = LowerAdd(Top)
    BY <1>2, <1>10 DEF Lowered, Top
  <2>2. /\ F!Current.kind = "add" /\ F!Current.loads = <<Slot(Top - 2), Slot(Top - 1)>>
        /\ F!Current.target = Slot(Top - 2)
    BY <2>1 DEF LowerAdd
  <2>3. F!Accessible(F!Current) <=> Fits
    BY <1>2, <1>10, <2>2 DEF F!Accessible, F!Readable, F!Writable, Fits
  <2>4. F!Result(F!Current) = AddWords(mem[Top - 2], mem[Top - 1])
    BY <2>2 DEF F!Result, F!Value, F!AddWords, AddWords
  <2>5. F!Compute => Effect
    BY <1>10, <2>2, <2>4 DEF F!Compute, Effect, Writes
  <2> QED  BY <1>4, <1>10, <2>2, <2>3, <2>5, ComputingShape
<1>11. CASE Op.name = "sub"
  <2>1. F!Current = LowerSub(Top)
    BY <1>2, <1>11 DEF Lowered, Top
  <2>2. /\ F!Current.kind = "sub" /\ F!Current.loads = <<Slot(Top - 1), Slot(Top - 2)>>
        /\ F!Current.target = Slot(Top - 2)
    BY <2>1 DEF LowerSub
  <2>3. F!Accessible(F!Current) <=> Fits
    BY <1>2, <1>11, <2>2 DEF F!Accessible, F!Readable, F!Writable, Fits
  <2>4. F!Result(F!Current) = SubWords(mem[Top - 1], mem[Top - 2])
    BY <2>2 DEF F!Result, F!Value, F!SubWords, SubWords
  <2>5. F!Compute => Effect
    BY <1>11, <2>2, <2>4 DEF F!Compute, Effect, Writes
  <2> QED  BY <1>4, <1>11, <2>2, <2>3, <2>5, ComputingShape
<1> QED  BY <1>3, <1>5, <1>6, <1>7, <1>8, <1>9, <1>10, <1>11

-----------------------------------------------------------------------------
(***************************************************************************)
(* The invariant of the compiled function.  While it runs, the slots that  *)
(* were written are those below some height reached so far: pop leaves the *)
(* slot, so it is not the height alone that counts.                        *)
(***************************************************************************)
Reached(k) == {s \in 0..(stack_size - 1) : \E j \in 1..k : s < Height(ops, j)}

NotCalled ==
  /\ fn = F!NoFunction
  /\ ip = 1
  /\ mem = [s \in {} |-> 0]
  /\ out_words = ZeroOutput

Memory == mem \in [DOMAIN mem -> Word] /\ DOMAIN mem \subseteq 0..(fn.slots - 1)

FunctionInv ==
  /\ words \in Inputs
  /\ out_words \in [OutputIndex -> Word]
  /\ run \in {"idle", "running", "returned", "undefined"}
  /\ run = "idle" => NotCalled
  /\ run # "idle" => status = "parsed" /\ Linked
  /\ Memory
  /\ run = "returned" => Op.name = "stop"
  /\ Shallow /\ run \in {"running", "returned"} => DOMAIN mem = Reached(ip)
  /\ DefinedWhenShallow

(***************************************************************************)
(* Writing a word to a store of words.                                     *)
(***************************************************************************)
LEMMA StoredShape ==
  ASSUME NEW S, NEW store \in [S -> Word], NEW n, NEW v \in Word
  PROVE  /\ F!Stored(store, n, v) \in [S \cup {n} -> Word]
         /\ DOMAIN F!Stored(store, n, v) = S \cup {n}
         /\ F!Stored(store, n, v)[n] = v
         /\ \A x \in S : x # n => F!Stored(store, n, v)[x] = store[x]
BY DEF F!Stored

(***************************************************************************)
(* Where the height fits into the attribute, the attribute is the height.  *)
(***************************************************************************)
LEMMA TopIsHeight ==
  ASSUME Sound, Linked, Shallow
  PROVE  /\ Op \in StackOp
         /\ Top = Height(ops, ip)
         /\ Top \in 0..stack_size
         /\ Top >= Needs(Op.name)
         /\ Height(ops, ip + 1) = Top + Delta(Op.name)
         /\ Height(ops, ip + 1) \in 0..stack_size
         /\ Len(ops) \in Nat
<1>1. Len(ops) \in Nat /\ Op \in StackOp /\ ip \in 1..Len(ops)
  BY LenProperties, ElementOfSeq DEF Sound, Linked, Op
<1>2. Height(ops, ip) \in 0..stack_size /\ stack_size \in Nat /\ stack_size < PtrMod
  BY <1>1 DEF Sound, Shallow
<1>3. Top = Height(ops, ip) % PtrMod /\ Height(ops, ip) >= Needs(Op.name)
  BY <1>1 DEF Sound, Analysed, Top, Op
<1>4. Top = Height(ops, ip)
  <2> DEFINE h == Height(ops, ip)
  <2>1. h \in Nat /\ h < PtrMod /\ PtrMod \in Nat
    BY <1>2, StackIRAssumption
  <2>2. h % PtrMod = h
    <3> HIDE DEF h
    <3> QED  BY <2>1
  <2> QED  BY <1>3, <2>2
<1>5. Height(ops, ip + 1) = Height(ops, ip) + Delta(Op.name)
  <2>1. ops \in Seq(StackOp)
    BY DEF Sound
  <2> QED  BY <1>1, <2>1, HeightStep DEF Op
<1>6. Height(ops, ip + 1) \in 0..stack_size
  BY <1>1 DEF Sound
<1> QED  BY <1>1, <1>2, <1>3, <1>4, <1>5, <1>6

(***************************************************************************)
(* What the operations do to the height and need of it.                    *)
(***************************************************************************)
LEMMA Effects ==
  /\ Needs("stop") = 0  /\ Delta("stop") = 0
  /\ Needs("load") = 0  /\ Delta("load") = 1
  /\ Needs("store") = 1 /\ Delta("store") = 0
  /\ Needs("pop") = 1   /\ Delta("pop") = -1
  /\ Needs("add") = 2   /\ Delta("add") = -1
  /\ Needs("sub") = 2   /\ Delta("sub") = -1
  /\ Needs("dup") = 1   /\ Delta("dup") = 1
BY DEF Needs, Delta, Growing, Shrinking

(***************************************************************************)
(* No access of a shallow program with enough input is undefined.          *)
(***************************************************************************)
LEMMA NothingStrays ==
  ASSUME Sound, FunctionInv, run = "running", Shallow, InputSuffices
  PROVE  Fits
<1>1. /\ Linked
      /\ DOMAIN mem = Reached(ip)
      /\ DOMAIN out_words = OutputIndex
  BY DEF FunctionInv
<1>2. /\ Op \in StackOp
      /\ Top = Height(ops, ip)
      /\ Top \in 0..stack_size
      /\ Top >= Needs(Op.name)
      /\ Top + Delta(Op.name) \in 0..stack_size
      /\ ip \in 1..Len(ops) /\ Len(ops) \in Nat /\ stack_size \in Nat
  BY <1>1, TopIsHeight DEF Sound, Linked
<1>3. \A s \in 0..(Top - 1) : s \in DOMAIN mem
  BY <1>1, <1>2 DEF Reached
<1>4. CASE Op.name = "load"
  <2>1. Op.index \in DOMAIN words
    <3>1. ip \in DOMAIN ops
      BY <1>2, LenProperties DEF Sound
    <3> QED  BY <1>4, <3>1 DEF InputSuffices, Op
  <2> QED  BY <1>2, <1>4, <2>1, Effects DEF Fits
<1>5. CASE Op.name = "store"
  <2>1. Op.index \in OutputIndex
    <3>1. Op.index \in Byte
      BY <1>2, <1>5 DEF StackOp, PlainOp, IndexedOp, PlainName
    <3>2. Op.index < OutputWords
      BY <1>2, <1>5 DEF Sound, Stands, Op
    <3> QED  BY <3>1, <3>2, BytecodeAssumption DEF Byte, OutputIndex
  <2>2. Top - 1 \in 0..(Top - 1)
    BY <1>2, <1>5, Effects
  <2> QED  BY <1>1, <1>3, <1>5, <2>1, <2>2 DEF Fits
<1>6. CASE Op.name \in {"add", "sub"}
  <2>1. /\ Top - 1 \in 0..(Top - 1) /\ Top - 2 \in 0..(Top - 1)
        /\ Top - 2 \in 0..(stack_size - 1)
    BY <1>2, <1>6, Effects
  <2> QED  BY <1>3, <1>6, <2>1 DEF Fits
<1>7. CASE Op.name = "dup"
  <2>1. Top - 1 \in 0..(Top - 1) /\ Top \in 0..(stack_size - 1)
    BY <1>2, <1>7, Effects
  <2> QED  BY <1>3, <1>7, <2>1 DEF Fits
<1>8. CASE Op.name \in {"stop", "pop"}
  BY <1>8 DEF Fits
<1> QED  BY <1>2, <1>4, <1>5, <1>6, <1>7, <1>8, Names

(***************************************************************************)
(* The word that an operation writes, and what the memory is afterwards.   *)
(***************************************************************************)
LEMMA WordType ==
  ASSUME NEW a \in Word, NEW b \in Word
  PROVE  AddWords(a, b) \in Word /\ SubWords(a, b) \in Word
BY BytecodeAssumption DEF AddWords, SubWords, Word

LEMMA WritesKeeps ==
  ASSUME Memory, NEW n \in 0..(fn.slots - 1), NEW v \in Word, Writes(n, v), fn' = fn
  PROVE  Memory' /\ DOMAIN mem' = DOMAIN mem \cup {n}
<1> DEFINE slots == DOMAIN mem \cup {n}
<1>1. mem' \in [slots -> Word] /\ DOMAIN mem' = slots
  <2>1. mem \in [DOMAIN mem -> Word] /\ mem' = F!Stored(mem, n, v)
    BY DEF Memory, Writes
  <2>2. F!Stored(mem, n, v) \in [DOMAIN mem \cup {n} -> Word]
    BY <2>1, StoredShape
  <2> QED  BY <2>1, <2>2
<1>2. slots \subseteq 0..(fn.slots - 1)
  BY DEF Memory
<1> HIDE DEF slots
<1>3. mem' \in [DOMAIN mem' -> Word] /\ DOMAIN mem' \subseteq 0..(fn'.slots - 1)
  BY <1>1, <1>2
<1> QED  BY <1>1, <1>3 DEF Memory, slots

LEMMA GoesTypes ==
  ASSUME Sound, FunctionInv, run = "running", Goes
  PROVE  /\ Memory'
         /\ out_words' \in [OutputIndex -> Word]
         /\ DOMAIN mem' = CASE Op.name \in {"store", "pop"} -> DOMAIN mem
                            [] Op.name \in {"load", "dup"}  -> DOMAIN mem \cup {Top}
                            [] Op.name \in {"add", "sub"}   -> DOMAIN mem \cup {Top - 2}
<1>1. /\ Linked /\ Fits /\ Effect /\ fn' = fn /\ Op.name # "stop"
      /\ fn.slots = stack_size
      /\ \A n \in DOMAIN mem : mem[n] \in Word
      /\ Memory /\ out_words \in [OutputIndex -> Word]
  BY DEF FunctionInv, Goes, Advances, Linked, Lower, Memory
<1>2. Op.name \in {"stop", "load", "store", "pop", "add", "sub", "dup"}
  <2>1. Op \in StackOp
    BY <1>1, ElementOfSeq DEF Sound, Linked, Op
  <2> QED  BY <2>1, Names
<1>3. CASE Op.name = "load"
  <2>1. words[Op.index] \in Word
    BY <1>1, <1>3, PipelineAssumption DEF FunctionInv, Fits
  <2>2. Top \in 0..(fn.slots - 1) /\ Writes(Top, words[Op.index])
    BY <1>1, <1>3 DEF Fits, Effect
  <2> QED  BY <1>1, <1>3, <2>1, <2>2, WritesKeeps DEF Writes
<1>4. CASE Op.name = "dup"
  <2>1. mem[Top - 1] \in Word
    BY <1>1, <1>4 DEF Fits
  <2>2. Top \in 0..(fn.slots - 1) /\ Writes(Top, mem[Top - 1])
    BY <1>1, <1>4 DEF Fits, Effect
  <2> QED  BY <1>1, <1>4, <2>1, <2>2, WritesKeeps DEF Writes
<1>5. CASE Op.name \in {"add", "sub"}
  <2>1. mem[Top - 1] \in Word /\ mem[Top - 2] \in Word
    BY <1>1, <1>5 DEF Fits
  <2>2. \E v \in Word : Writes(Top - 2, v)
    BY <1>1, <1>5, <2>1, WordType DEF Effect
  <2>3. Top - 2 \in 0..(fn.slots - 1)
    BY <1>1, <1>5 DEF Fits
  <2> QED  BY <1>1, <1>5, <2>2, <2>3, WritesKeeps DEF Writes
<1>6. CASE Op.name = "pop"
  BY <1>1, <1>6 DEF Effect, Memory
<1>7. CASE Op.name = "store"
  <2>1. mem[Top - 1] \in Word /\ Op.index \in OutputIndex
    BY <1>1, <1>7 DEF Fits
  <2>2. out_words' = F!Stored(out_words, Op.index, mem[Top - 1]) /\ mem' = mem
    BY <1>1, <1>7 DEF Effect
  <2>3. OutputIndex \cup {Op.index} = OutputIndex
    BY <2>1
  <2>4. out_words' \in [OutputIndex -> Word]
    <3>1. F!Stored(out_words, Op.index, mem[Top - 1])
            \in [OutputIndex \cup {Op.index} -> Word]
      BY <1>1, <2>1, StoredShape
    <3> QED  BY <2>2, <2>3, <3>1
  <2> QED  BY <1>1, <1>7, <2>2, <2>4 DEF Memory
<1> QED  BY <1>1, <1>2, <1>3, <1>4, <1>5, <1>6, <1>7

(***************************************************************************)
(* The slots below the heights reached grow with what is written.          *)
(***************************************************************************)
LEMMA ReachedGrows ==
  ASSUME Sound, Linked, Shallow, Op.name # "stop",
         DOMAIN mem = Reached(ip), Fits
  PROVE  Reached(ip + 1) = CASE Op.name \in {"store", "pop"} -> DOMAIN mem
                             [] Op.name \in {"load", "dup"}  -> DOMAIN mem \cup {Top}
                             [] Op.name \in {"add", "sub"}   -> DOMAIN mem \cup {Top - 2}
<1> DEFINE next == Height(ops, ip + 1)
<1>1. /\ Op \in StackOp
      /\ Top = Height(ops, ip)
      /\ Top \in 0..stack_size
      /\ Top >= Needs(Op.name)
      /\ next = Top + Delta(Op.name)
      /\ next \in 0..stack_size
      /\ ip \in 1..Len(ops) /\ Len(ops) \in Nat /\ stack_size \in Nat
  BY TopIsHeight DEF Sound, Linked
<1>2. Reached(ip + 1) = Reached(ip) \cup {s \in 0..(stack_size - 1) : s < next}
  <2>1. 1..(ip + 1) = (1..ip) \cup {ip + 1}
    BY <1>1
  <2> QED  BY <2>1 DEF Reached
<1>3. \A s \in 0..(stack_size - 1) : s < Top => s \in Reached(ip)
  BY <1>1 DEF Reached
<1>4. \A s \in Reached(ip) : s \in 0..(stack_size - 1)
  BY DEF Reached
<1> HIDE DEF next
<1>5. CASE Op.name \in {"load", "dup"}
  <2>1. next = Top + 1 /\ Top \in 0..(stack_size - 1)
    BY <1>1, <1>5, Effects
  <2>2. Reached(ip + 1) = Reached(ip) \cup {Top}
    BY <1>1, <1>2, <1>3, <2>1
  <2> QED  BY <1>5, <2>2
<1>6. CASE Op.name \in {"add", "sub"}
  <2>1. next = Top - 1 /\ Top - 2 \in 0..(stack_size - 1) /\ Top - 2 < Top
    BY <1>1, <1>6, Effects
  <2>2. \A s \in 0..(stack_size - 1) : s < next => s < Top
    BY <1>1, <2>1
  <2>3. Reached(ip + 1) = Reached(ip) /\ Top - 2 \in Reached(ip)
    BY <1>2, <1>3, <2>1, <2>2
  <2> QED  BY <1>6, <2>3
<1>7. CASE Op.name \in {"store", "pop"}
  <2>1. next <= Top
    BY <1>1, <1>7, Effects
  <2>2. \A s \in 0..(stack_size - 1) : s < next => s < Top
    BY <1>1, <2>1
  <2>3. Reached(ip + 1) = Reached(ip)
    BY <1>2, <1>3, <2>2
  <2> QED  BY <1>7, <2>3
<1> QED  BY <1>1, <1>5, <1>6, <1>7, Names

(***************************************************************************)
(* Every step keeps the invariant.                                         *)
(***************************************************************************)
LEMMA GoesKeeps ==
  ASSUME Sound, FunctionInv, run = "running", Goes, UNCHANGED parserVars
  PROVE  FunctionInv'
<1>1. /\ Linked /\ status = "parsed" /\ Op.name # "stop" /\ Fits
      /\ ip' = ip + 1 /\ fn' = fn /\ words' = words /\ run' = "running"
      /\ ops' = ops /\ stack_size' = stack_size /\ status' = status
  BY DEF FunctionInv, Goes, Advances, parserVars
<1>2. Linked'
  <2>1. ip # Len(ops)
    BY <1>1 DEF Sound, Linked, Op
  <2>2. Len(ops) \in Nat /\ ip \in 1..Len(ops)
    BY <1>1, LenProperties DEF Sound, Linked
  <2>3. ip + 1 \in 1..Len(ops)
    BY <2>1, <2>2
  <2> QED  BY <1>1, <2>3 DEF Linked
<1>3. Shallow' => DOMAIN mem' = Reached(ip)'
  <2> SUFFICES ASSUME Shallow PROVE DOMAIN mem' = Reached(ip + 1)
    BY <1>1 DEF Shallow, Reached
  <2>1. DOMAIN mem = Reached(ip)
    BY DEF FunctionInv
  <2> QED  BY <1>1, <2>1, GoesTypes, ReachedGrows
<1> QED  BY <1>1, <1>2, <1>3, GoesTypes
         DEF FunctionInv, DefinedWhenShallow, NoUndefinedBehaviour

LEMMA StopsKeeps ==
  ASSUME Sound, FunctionInv, run = "running", Stops, UNCHANGED parserVars
  PROVE  FunctionInv'
BY DEF FunctionInv, Stops, F!Return, F!Executing, parserVars, Linked, Memory, Op, Shallow,
   Reached, DefinedWhenShallow, NoUndefinedBehaviour

LEMMA StraysKeeps ==
  ASSUME Sound, FunctionInv, run = "running", Strays, UNCHANGED parserVars
  PROVE  FunctionInv'
<1>1. ~(Shallow /\ InputSuffices)
  BY NothingStrays DEF Strays
<1>2. ~(Shallow /\ InputSuffices)'
  BY <1>1 DEF Strays, parserVars, Shallow, InputSuffices
<1> QED  BY <1>2 DEF FunctionInv, Strays, parserVars, Linked, Memory, Op, Shallow, Reached,
            DefinedWhenShallow

LEMMA StartKeeps ==
  ASSUME Sound, FunctionInv, LowerAndStart
  PROVE  FunctionInv'
<1>1. /\ run = "idle" /\ status = "parsed" /\ fn' = Lower(ops, stack_size)
      /\ mem' = [s \in {} |-> 0] /\ ip' = 1 /\ run' = "running"
      /\ UNCHANGED <<words, out_words, ops, stack_size, status>>
  BY DEF LowerAndStart, F!Call, parserVars
<1>2. Linked' /\ Op \in StackOp
  <2>1. Len(ops) \in Nat /\ Len(ops) # 0
    BY <1>1, EmptySeq DEF Sound
  <2> QED  BY <1>1, <2>1, ElementOfSeq DEF Linked, Sound, FunctionInv, NotCalled, Op
<1>3. Memory' /\ DOMAIN mem' = {}
  BY <1>1 DEF Memory
<1>4. Reached(ip)' = {}
  <2>1. Height(ops, 1) = 0
    BY HeightAtStart
  <2>2. \A s \in 0..(stack_size - 1) : ~(\E j \in 1..1 : s < Height(ops, j))
    BY <2>1
  <2> QED  BY <1>1, <2>2 DEF Reached
<1> QED  BY <1>1, <1>2, <1>3, <1>4
         DEF FunctionInv, DefinedWhenShallow, NoUndefinedBehaviour

LEMMA ParseKeeps ==
  ASSUME Sound, FunctionInv, Parse
  PROVE  FunctionInv'
<1>1. status = "parsing"
  BY DEF Parse, P!Step, P!ParseStop, P!ParseLoad, P!ParseStore, P!ParsePop, P!ParseAdd,
     P!ParseSub, P!ParseDup, P!ParseArithmetic, P!UnknownOpcode, P!NoStop, P!Fetch
<1>2. run = "idle" /\ NotCalled /\ UNCHANGED functionVars
  BY <1>1 DEF FunctionInv, Parse
<1> QED  BY <1>2 DEF functionVars, FunctionInv, NotCalled, Memory, DefinedWhenShallow,
            NoUndefinedBehaviour

LEMMA FunctionInvariant == Spec => []FunctionInv
<1>1. Init => FunctionInv
  <2> SUFFICES ASSUME Init PROVE FunctionInv
    OBVIOUS
  <2>1. ZeroOutput \in [OutputIndex -> Word]
    BY BytecodeAssumption DEF ZeroOutput, OutputIndex, Word
  <2> QED  BY <2>1 DEF Init, FunctionInv, NotCalled, Memory, DefinedWhenShallow,
              NoUndefinedBehaviour
<1>2. Sound /\ FunctionInv /\ [Next]_vars => FunctionInv'
  <2> SUFFICES ASSUME Sound, FunctionInv, [Next]_vars PROVE FunctionInv'
    OBVIOUS
  <2>1. CASE Parse
    BY <2>1, ParseKeeps
  <2>2. CASE LowerAndStart
    BY <2>2, StartKeeps
  <2>3. CASE Execute
    <3>1. run = "running"
      BY <2>3 DEF Execute, F!Next, F!Compute, F!Misbehave, F!Pass, F!Return, F!Executing
    <3>2. Linked
      BY <3>1 DEF FunctionInv
    <3> QED  BY <2>3, <3>1, <3>2, StepShape, GoesKeeps, StopsKeeps, StraysKeeps DEF Execute
  <2>4. CASE UNCHANGED vars
    BY <2>4 DEF vars, parserVars, functionVars, FunctionInv, NotCalled, Linked, Memory, Op,
       Shallow, Reached, DefinedWhenShallow, NoUndefinedBehaviour, InputSuffices
  <2> QED  BY <2>1, <2>2, <2>3, <2>4 DEF Next, Ended
<1> QED  BY <1>1, <1>2, SoundInvariant, PTL DEF Spec

-----------------------------------------------------------------------------
(***************************************************************************)
(* The parser's types are those of ParserProofs.                           *)
(***************************************************************************)
LEMMA ParserTypes == Spec => []P!TypeOK
<1>1. PP!Spec => []PP!TypeOK
  BY PP!TypeCorrect, BytecodeAssumption, StackIRAssumption
  DEF PP!BytecodeAssumption, PP!StackIRAssumption, PP!Byte, Byte
<1>2. PP!TypeOK => P!TypeOK
  BY DEF PP!TypeOK, P!TypeOK, PP!Errors, P!Errors, PP!Byte, P!Byte, PP!StackOp, P!StackOp,
     PP!PlainOp, P!PlainOp, PP!IndexedOp, P!IndexedOp, PP!PlainName, P!PlainName,
     PP!IndexedName, P!IndexedName, PP!NoOffset, P!NoOffset
<1> QED  BY <1>1, <1>2, ParserRuns, PTL

(***************************************************************************)
(* The body of f has one group for each operation.                         *)
(***************************************************************************)
LEMMA BodyLength ==
  ASSUME Sound
  PROVE  Len(Lower(ops, stack_size).body) = Len(ops)
<1> DEFINE S == {Lowered(ops[k]) : k \in 1..Len(ops)}
           body == [k \in DOMAIN ops |-> Lowered(ops[k])]
<1>1. Len(ops) \in Nat /\ DOMAIN ops = 1..Len(ops)
  BY LenProperties DEF Sound
<1>2. body \in [1..Len(ops) -> S]
  BY <1>1
<1>3. body \in Seq(S) /\ DOMAIN body = 1..Len(ops)
  <2> HIDE DEF body, S
  <2> QED  BY <1>1, <1>2, SeqDef
<1>4. Len(body) = Len(ops)
  <2> HIDE DEF body, S
  <2> QED  BY <1>1, <1>3, LenProperties
<1> QED  BY <1>4 DEF Lower

(***************************************************************************)
(* Only a store has its target in the output, at the index that the parser *)
(* has let through.                                                        *)
(***************************************************************************)
LEMMA StoresFit ==
  ASSUME Sound
  PROVE  StoresToOutput(Lower(ops, stack_size).body)
<1> SUFFICES ASSUME NEW k \in DOMAIN ops, Lowered(ops[k]).target.base = "out"
             PROVE  Lowered(ops[k]).target.index \in OutputIndex
  BY DEF StoresToOutput, Lower
<1>1. k \in 1..Len(ops) /\ ops[k] \in StackOp
  BY LenProperties, ElementOfSeq DEF Sound
<1>2. ops[k].name = "store"
  BY <1>1, Names DEF Lowered, Group, LowerStop, LowerLoad, LowerPop, LowerAdd, LowerSub,
     LowerDup, Slot, Nowhere
<1>3. Lowered(ops[k]).target.index = ops[k].index
  BY <1>2 DEF Lowered, Group, LowerStore, OutWord
<1>4. ops[k].index \in Byte /\ ops[k].index < OutputWords
  BY <1>1, <1>2 DEF StackOp, PlainOp, IndexedOp, PlainName, Sound, Stands
<1> QED  BY <1>3, <1>4, BytecodeAssumption DEF Byte, OutputIndex

(***************************************************************************)
(* Type correctness of the compilation and the run: the function that runs *)
(* is the one lowered from the module and stores within the output, its    *)
(* memory is within the slots, and only words are in it and in the output. *)
(***************************************************************************)
THEOREM TypeCorrect == Spec => []TypeOK
<1>1. Sound /\ FunctionInv /\ P!TypeOK => TypeOK
  <2> SUFFICES ASSUME Sound, FunctionInv, P!TypeOK PROVE TypeOK
    OBVIOUS
  <2>1. \E slots \in SUBSET (0..(fn.slots - 1)) : mem \in [slots -> Word]
    BY DEF FunctionInv, Memory
  <2>2. CASE run = "idle"
    <3>1. fn = F!NoFunction /\ ip = 1
      BY <2>2 DEF FunctionInv, NotCalled
    <3>2. Len(fn.body) = 0 /\ DOMAIN fn.body = {}
      BY <3>1, EmptySeq DEF F!NoFunction
    <3> QED  BY <2>1, <3>1, <3>2 DEF FunctionInv, TypeOK, StoresToOutput
  <2>3. CASE run # "idle"
    <3>1. fn = Lower(ops, stack_size) /\ ip \in 1..Len(ops)
      BY <2>3 DEF FunctionInv, Linked
    <3>2. Len(fn.body) = Len(ops) /\ Len(ops) \in Nat
      BY <3>1, BodyLength, LenProperties DEF Sound
    <3>3. StoresToOutput(fn.body)
      BY <3>1, StoresFit
    <3> QED  BY <2>1, <3>1, <3>2, <3>3 DEF FunctionInv, TypeOK
  <2> QED  BY <2>2, <2>3
<1> QED  BY <1>1, SoundInvariant, FunctionInvariant, ParserTypes, PTL

(***************************************************************************)
(* The compiled code of a shallow program with enough input has no         *)
(* undefined behaviour.                                                    *)
(***************************************************************************)
THEOREM NoSurprises == Spec => []DefinedWhenShallow
<1>1. FunctionInv => DefinedWhenShallow
  BY DEF FunctionInv
<1> QED  BY <1>1, FunctionInvariant, PTL

(***************************************************************************)
(* The stack array is exactly as large as it has to be: while f runs the   *)
(* slots below the height were written, and when it returns every slot     *)
(* that alloca reserved.                                                   *)
(***************************************************************************)
THEOREM SlotsAreUsed == Spec => []SlotsFollowHeight
<1>1. Sound /\ FunctionInv => SlotsFollowHeight
  <2> SUFFICES ASSUME Sound, FunctionInv, Shallow, run \in {"running", "returned"}
               PROVE  /\ 0..(Height(ops, ip) - 1) \subseteq DOMAIN mem
                      /\ run = "returned" => DOMAIN mem = 0..(fn.slots - 1)
    BY DEF SlotsFollowHeight
  <2>1. Linked /\ DOMAIN mem = Reached(ip) /\ fn.slots = stack_size
    BY DEF FunctionInv, Linked, Lower
  <2>2. /\ Height(ops, ip) = Top /\ Top \in 0..stack_size /\ stack_size \in Nat
        /\ Height(ops, ip + 1) = Top + Delta(Op.name)
        /\ ip \in 1..Len(ops) /\ Len(ops) \in Nat
    BY <2>1, TopIsHeight DEF Sound, Linked
  <2>3. 0..(Height(ops, ip) - 1) \subseteq DOMAIN mem
    BY <2>1, <2>2 DEF Reached
  <2>4. CASE run = "returned"
    <3>1. Op.name = "stop" /\ ip = Len(ops)
      BY <2>2, <2>4 DEF FunctionInv, Sound, Op
    <3>2. Height(ops, ip + 1) = Height(ops, ip)
      BY <2>2, <3>1, Effects
    <3>3. PICK k \in 1..(Len(ops) + 1) : Height(ops, k) = stack_size
      BY DEF Sound
    <3>4. \E j \in 1..ip : Height(ops, j) = stack_size
      BY <2>2, <3>1, <3>2, <3>3
    <3>5. Reached(ip) = 0..(stack_size - 1)
      BY <2>2, <3>4 DEF Reached
    <3> QED  BY <2>1, <2>3, <3>5
  <2> QED  BY <2>3, <2>4
<1> QED  BY <1>1, SoundInvariant, FunctionInvariant, PTL

-----------------------------------------------------------------------------
(***************************************************************************)
(* The refinement.  The stack of the interpreter is the slots below a      *)
(* height; a step that writes one slot pushes, pops or replaces its top.   *)
(***************************************************************************)
StackOf(height, slots) == [s \in 1..height |-> slots[s - 1]]

Holds(height, slots) == \A s \in 0..(height - 1) : slots[s] \in Word

LEMMA StackShape ==
  ASSUME NEW height \in Nat, NEW slots, Holds(height, slots)
  PROVE  /\ StackOf(height, slots) \in Seq(Word)
         /\ Len(StackOf(height, slots)) = height
         /\ \A s \in 1..height : StackOf(height, slots)[s] = slots[s - 1]
<1> DEFINE stack == StackOf(height, slots)
<1>1. \A s \in 1..height : slots[s - 1] \in Word
  <2> SUFFICES ASSUME NEW s \in 1..height PROVE slots[s - 1] \in Word
    OBVIOUS
  <2>1. s - 1 \in 0..(height - 1)
    OBVIOUS
  <2> QED  BY <2>1 DEF Holds
<1>2. stack \in [1..height -> Word] /\ DOMAIN stack = 1..height
  BY <1>1 DEF StackOf
<1>3. stack \in Seq(Word)
  <2> HIDE DEF stack
  <2> QED  BY <1>2, SeqDef
<1>4. Len(stack) = height
  <2> HIDE DEF stack
  <2> QED  BY <1>2, <1>3, LenProperties
<1> QED  BY <1>3, <1>4 DEF StackOf

(***************************************************************************)
(* Two stacks are the same if the slots below the height are.              *)
(***************************************************************************)
LEMMA SameStack ==
  ASSUME NEW height \in Nat, NEW slots, NEW other,
         \A s \in 0..(height - 1) : other[s] = slots[s]
  PROVE  StackOf(height, other) = StackOf(height, slots)
<1>1. \A s \in 1..height : other[s - 1] = slots[s - 1]
  <2> SUFFICES ASSUME NEW s \in 1..height PROVE other[s - 1] = slots[s - 1]
    OBVIOUS
  <2>1. s - 1 \in 0..(height - 1)
    OBVIOUS
  <2> QED  BY <2>1
<1> QED  BY <1>1 DEF StackOf

(***************************************************************************)
(* The top of a stack and what is below it.                                *)
(***************************************************************************)
LEMMA TopShape ==
  ASSUME NEW height \in Nat, NEW slots, Holds(height + 1, slots)
  PROVE  /\ I!Last(StackOf(height + 1, slots)) = slots[height]
         /\ I!Front(StackOf(height + 1, slots)) = StackOf(height, slots)
         /\ Holds(height, slots)
<1> DEFINE stack == StackOf(height + 1, slots)
<1>1. /\ stack \in Seq(Word) /\ Len(stack) = height + 1
      /\ \A s \in 1..(height + 1) : stack[s] = slots[s - 1]
  BY StackShape
<1>2. I!Last(stack) = slots[height]
  <2>1. stack[height + 1] = slots[(height + 1) - 1]
    <3>1. height + 1 \in 1..(height + 1)
      OBVIOUS
    <3> QED  BY <1>1, <3>1
  <2>2. (height + 1) - 1 = height
    OBVIOUS
  <2> HIDE DEF stack
  <2> QED  BY <1>1, <2>1, <2>2 DEF I!Last
<1>3. Holds(height, slots)
  BY DEF Holds
<1>4. I!Front(stack) = StackOf(height, slots)
  <2> DEFINE front == SubSeq(stack, 1, height)
             below == StackOf(height, slots)
  <2>1. I!Front(stack) = front
    <3>1. (height + 1) - 1 = height
      OBVIOUS
    <3> HIDE DEF stack
    <3> QED  BY <1>1, <3>1 DEF I!Front
  <2>2. \A s \in 1..height : stack[s] \in Word
    <3> HIDE DEF stack
    <3> QED  BY <1>1, ElementOfSeq
  <2>3. /\ front \in Seq(Word) /\ Len(front) = height
        /\ \A s \in 1..height : front[s] = stack[s]
    <3> HIDE DEF stack
    <3>1. front \in Seq(Word) /\ Len(front) = IF 1 <= height THEN height - 1 + 1 ELSE 0
      BY <2>2, SubSeqProperties
    <3>2. \A s \in 1..height : front[s] = stack[s]
      BY <1>1
    <3> QED  BY <3>1, <3>2
  <2>4. /\ below \in Seq(Word) /\ Len(below) = height
        /\ \A s \in 1..height : below[s] = slots[s - 1]
    BY <1>3, StackShape
  <2>5. \A s \in 1..height : front[s] = below[s]
    <3> HIDE DEF stack, front, below
    <3> QED  BY <1>1, <2>3, <2>4
  <2>6. front = below
    <3> HIDE DEF front, below
    <3> QED  BY <2>3, <2>4, <2>5, SeqEqual
  <2> QED  BY <2>1, <2>6
<1> QED  BY <1>2, <1>3, <1>4

(***************************************************************************)
(* A word written on top of the height is pushed.                          *)
(***************************************************************************)
LEMMA PushShape ==
  ASSUME NEW height \in Nat, NEW slots, Holds(height, slots),
         NEW other, NEW v \in Word, other[height] = v,
         \A s \in 0..(height - 1) : other[s] = slots[s]
  PROVE  StackOf(height + 1, other) = Append(StackOf(height, slots), v)
<1> DEFINE before == StackOf(height, slots)
           pushed == Append(before, v)
           after  == StackOf(height + 1, other)
<1>1. /\ before \in Seq(Word) /\ Len(before) = height
      /\ \A s \in 1..height : before[s] = slots[s - 1]
  BY StackShape
<1>2. Holds(height + 1, other)
  <2> SUFFICES ASSUME NEW s \in 0..((height + 1) - 1) PROVE other[s] \in Word
    BY DEF Holds
  <2>1. s = height \/ s \in 0..(height - 1)
    OBVIOUS
  <2> QED  BY <2>1 DEF Holds
<1>3. /\ after \in Seq(Word) /\ Len(after) = height + 1
      /\ \A s \in 1..(height + 1) : after[s] = other[s - 1]
  BY <1>2, StackShape
<1>4. /\ pushed \in Seq(Word) /\ Len(pushed) = height + 1
      /\ \A s \in 1..height : pushed[s] = before[s]
      /\ pushed[height + 1] = v
  <2> HIDE DEF before
  <2> QED  BY <1>1, AppendProperties
<1>5. ASSUME NEW s \in 1..(height + 1)
      PROVE  after[s] = pushed[s]
  <2> HIDE DEF after, pushed, before
  <2>1. CASE s = height + 1
    <3>1. (height + 1) - 1 = height
      OBVIOUS
    <3> QED  BY <1>3, <1>4, <2>1, <3>1
  <2>2. CASE s \in 1..height
    <3>1. s - 1 \in 0..(height - 1)
      BY <2>2
    <3> QED  BY <1>1, <1>3, <1>4, <2>2, <3>1
  <2> QED  BY <2>1, <2>2
<1>6. after = pushed
  <2> HIDE DEF after, pushed
  <2> QED  BY <1>3, <1>4, <1>5, SeqEqual
<1> QED  BY <1>6

-----------------------------------------------------------------------------
(***************************************************************************)
(* While f runs, the interpreter is at the instruction that the operation  *)
(* of the current group stands for.                                        *)
(***************************************************************************)
Executing ==
  Sound /\ FunctionInv /\ run = "running" /\ Shallow /\ InputSuffices

LEMMA Opcodes ==
  /\ P!NameOf(STOP) = "stop"   /\ P!NameOf(LOAD) = "load"
  /\ P!NameOf(STORE) = "store" /\ P!NameOf(POP) = "pop"
  /\ P!NameOf(ADD) = "add"     /\ P!NameOf(SUB) = "sub"
  /\ P!NameOf(DUP) = "dup"
  /\ STOP..DUP = {STOP, LOAD, STORE, POP, ADD, SUB, DUP}
  /\ WithOperand = {LOAD, STORE}
BY DEF P!NameOf, STOP, LOAD, STORE, POP, ADD, SUB, DUP, WithOperand

LEMMA Fetched ==
  ASSUME Executing
  PROVE  /\ Op.name = "stop"  => I!At(I!STOP)
         /\ Op.name = "load"  => I!At(I!LOAD) /\ I!Operand = Op.index
         /\ Op.name = "store" => I!At(I!STORE) /\ I!Operand = Op.index
         /\ Op.name = "pop"   => I!At(I!POP)
         /\ Op.name = "add"   => I!At(I!ADD)
         /\ Op.name = "sub"   => I!At(I!SUB)
         /\ Op.name = "dup"   => I!At(I!DUP)
<1> DEFINE opcode == code[Op.loc + 1]
<1>1. Stands(ip) /\ AbstractPc = Op.loc /\ AbstractVerdict = "running"
  BY DEF Executing, Sound, FunctionInv, Linked, AbstractPc, AbstractVerdict, Op
<1>2. /\ Op.loc \in Nat /\ Op.loc < Len(code)
      /\ opcode \in STOP..DUP
      /\ Op.name = P!NameOf(opcode)
      /\ opcode \in WithOperand => Op.loc + 1 < Len(code) /\ Op.index = code[Op.loc + 2]
  BY <1>1 DEF Stands, Op
<1>3. /\ I!STOP = STOP /\ I!LOAD = LOAD /\ I!STORE = STORE /\ I!POP = POP
      /\ I!ADD = ADD /\ I!SUB = SUB /\ I!DUP = DUP /\ I!WithOperand = WithOperand
  BY DEF I!STOP, STOP, I!LOAD, LOAD, I!STORE, STORE, I!POP, POP, I!ADD, ADD, I!SUB, SUB,
     I!DUP, DUP, I!WithOperand, WithOperand
<1>4. I!Decoding /\ I!Opcode = opcode /\ I!Operand = code[Op.loc + 2]
  BY <1>1, <1>2 DEF I!Decoding, I!Opcode, I!Operand
<1>5. /\ Op.name = "stop"  => opcode = STOP
      /\ Op.name = "load"  => opcode = LOAD
      /\ Op.name = "store" => opcode = STORE
      /\ Op.name = "pop"   => opcode = POP
      /\ Op.name = "add"   => opcode = ADD
      /\ Op.name = "sub"   => opcode = SUB
      /\ Op.name = "dup"   => opcode = DUP
  <2> HIDE DEF opcode
  <2> QED  BY <1>2, Opcodes
<1>6. ASSUME NEW op, opcode = op, op \in WithOperand => Op.loc + 1 < Len(code)
      PROVE  I!At(op)
  BY <1>1, <1>3, <1>4, <1>6 DEF I!At
<1> HIDE DEF opcode
<1> QED  BY <1>2, <1>3, <1>4, <1>5, <1>6, Opcodes

(***************************************************************************)
(* And when f goes on, the interpreter goes on to the next instruction.    *)
(***************************************************************************)
LEMMA Onward ==
  ASSUME Executing, Goes, UNCHANGED parserVars
  PROVE  /\ AbstractPc' = AbstractPc + (IF Op.name \in {"load", "store"} THEN 2 ELSE 1)
         /\ AbstractStack = StackOf(Top, mem)
         /\ AbstractStack' = StackOf(Top + Delta(Op.name), mem')
         /\ UNCHANGED <<code, words, AbstractVerdict>>
<1>1. /\ Linked /\ Op.name # "stop" /\ status = "parsed"
      /\ ip' = ip + 1 /\ run' = "running" /\ words' = words
      /\ ops' = ops /\ code' = code
  BY DEF Executing, FunctionInv, Goes, Advances, parserVars
<1>2. /\ Top = Height(ops, ip) /\ Height(ops, ip + 1) = Top + Delta(Op.name)
      /\ Op \in StackOp /\ Len(ops) \in Nat /\ ip \in 1..Len(ops)
  BY <1>1, TopIsHeight DEF Executing, Linked
<1>3. AbstractStack = StackOf(Top, mem)
  BY <1>2 DEF Executing, AbstractStack, StackOf
<1>4. AbstractStack' = StackOf(Top + Delta(Op.name), mem')
  <2>1. AbstractStack' = [s \in 1..Height(ops, ip + 1) |-> mem'[s - 1]]
    BY <1>1 DEF AbstractStack
  <2> QED  BY <1>2, <2>1 DEF StackOf
<1>5. AbstractPc' = AbstractPc + (IF Op.name \in {"load", "store"} THEN 2 ELSE 1)
  <2>1. ip < Len(ops) /\ Stands(ip)
    BY <1>1, <1>2 DEF Executing, Sound, Op
  <2>2. ops[ip + 1].loc = Op.loc + P!Width(code[Op.loc + 1])
    BY <2>1 DEF Stands, Op
  <2>3. P!Width(code[Op.loc + 1]) = IF Op.name \in {"load", "store"} THEN 2 ELSE 1
    <3>1. /\ code[Op.loc + 1] \in STOP..DUP
          /\ Op.name = P!NameOf(code[Op.loc + 1])
      BY <2>1 DEF Stands, Op
    <3>2. P!WithOperand = WithOperand
      BY DEF P!WithOperand, WithOperand, P!LOAD, LOAD, P!STORE, STORE
    <3>3. code[Op.loc + 1] \in WithOperand <=> Op.name \in {"load", "store"}
      BY <3>1, Opcodes DEF STOP, LOAD, STORE, POP, ADD, SUB, DUP
    <3> QED  BY <3>2, <3>3 DEF P!Width
  <2>4. AbstractPc = Op.loc /\ AbstractPc' = ops[ip + 1].loc
    BY <1>1 DEF Executing, AbstractPc, Op
  <2> QED  BY <2>2, <2>3, <2>4
<1>6. AbstractVerdict' = AbstractVerdict
  BY <1>1 DEF Executing, AbstractVerdict
<1> QED  BY <1>1, <1>3, <1>4, <1>5, <1>6

(***************************************************************************)
(* The slots below the height hold words, as many as the operation needs.  *)
(***************************************************************************)
LEMMA Operands ==
  ASSUME Executing
  PROVE  /\ Op \in StackOp /\ Top \in Nat /\ Top >= Needs(Op.name)
         /\ 0..(Top - 1) \subseteq DOMAIN mem /\ Holds(Top, mem)
         /\ Linked /\ Fits
<1>1. Linked /\ DOMAIN mem = Reached(ip) /\ Memory
  BY DEF Executing, FunctionInv
<1>2. /\ Op \in StackOp /\ Top \in 0..stack_size /\ Top >= Needs(Op.name)
      /\ Top = Height(ops, ip) /\ ip \in 1..Len(ops) /\ Len(ops) \in Nat
      /\ stack_size \in Nat
  BY <1>1, TopIsHeight DEF Executing, Linked, Sound
<1>3. 0..(Top - 1) \subseteq DOMAIN mem
  BY <1>1, <1>2 DEF Reached
<1>4. Holds(Top, mem)
  BY <1>1, <1>3 DEF Memory, Holds
<1>5. Fits
  BY NothingStrays DEF Executing
<1> QED  BY <1>1, <1>2, <1>3, <1>4, <1>5

(***************************************************************************)
(* The operations, one by one: each is the interpreter's instruction.      *)
(***************************************************************************)
LEMMA LoadRefines ==
  ASSUME Executing, Goes, UNCHANGED parserVars, Op.name = "load"
  PROVE  I!InterpretLoad
<1>1. /\ I!At(I!LOAD) /\ I!Operand = Op.index /\ Op.index \in DOMAIN words
      /\ Holds(Top, mem) /\ Top \in Nat
  BY Fetched, Operands DEF Fits
<1> DEFINE word == words[Op.index]
<1>2. word \in Word /\ word % WordMod = word
  <2>1. word \in Word
    BY <1>1, PipelineAssumption DEF Executing, FunctionInv
  <2> HIDE DEF word
  <2> QED  BY <2>1, BytecodeAssumption DEF Word
<1>3. mem' = F!Stored(mem, Top, word) /\ out_words' = out_words
  BY DEF Goes, Effect, Writes
<1>4. AbstractStack' = Append(AbstractStack, word)
  <2>1. /\ AbstractStack = StackOf(Top, mem)
        /\ AbstractStack' = StackOf(Top + 1, mem')
    BY Onward, Effects
  <2>2. mem'[Top] = word /\ \A s \in 0..(Top - 1) : mem'[s] = mem[s]
    <3>1. 0..(Top - 1) \subseteq DOMAIN mem
      BY Operands
    <3>2. \A s \in 0..(Top - 1) : s # Top
      BY <1>1
    <3> QED  BY <1>3, <3>1, <3>2 DEF F!Stored
  <2> HIDE DEF word
  <2> QED  BY <1>1, <1>2, <2>1, <2>2, PushShape
<1>5. I!Retire(Append(AbstractStack, words[I!Operand] % WordMod), out_words, 2)
  BY <1>1, <1>2, <1>3, <1>4, Onward DEF I!Retire
<1> QED  BY <1>1, <1>5 DEF I!InterpretLoad

LEMMA DupRefines ==
  ASSUME Executing, Goes, UNCHANGED parserVars, Op.name = "dup"
  PROVE  I!InterpretDup
<1>1. I!At(I!DUP) /\ Holds(Top, mem) /\ Top \in Nat /\ Top >= 1
  BY Fetched, Operands, Effects
<1> DEFINE below == Top - 1
<1>2. below \in Nat /\ below + 1 = Top
  BY <1>1
<1>3. mem' = F!Stored(mem, Top, mem[below]) /\ out_words' = out_words
  BY DEF Goes, Effect, Writes
<1>4. /\ AbstractStack = StackOf(Top, mem)
      /\ AbstractStack' = StackOf(Top + 1, mem')
  BY Onward, Effects
<1>5. I!Last(AbstractStack) = mem[below]
  <2> HIDE DEF below
  <2>1. Holds(below + 1, mem) /\ AbstractStack = StackOf(below + 1, mem)
    BY <1>1, <1>2, <1>4
  <2> QED  BY <1>2, <2>1, TopShape
<1>6. mem[below] \in Word
  BY <1>1, <1>2 DEF Holds
<1>7. AbstractStack # <<>>
  BY <1>1, <1>4, StackShape, EmptySeq
<1>8. AbstractStack' = Append(AbstractStack, mem[below])
  <2>1. mem'[Top] = mem[below] /\ \A s \in 0..(Top - 1) : mem'[s] = mem[s]
    <3>1. 0..(Top - 1) \subseteq DOMAIN mem
      BY Operands
    <3>2. \A s \in 0..(Top - 1) : s # Top
      BY <1>1
    <3> QED  BY <1>3, <3>1, <3>2 DEF F!Stored
  <2> HIDE DEF below
  <2> QED  BY <1>1, <1>4, <1>6, <2>1, PushShape
<1>9. I!Retire(Append(AbstractStack, I!Last(AbstractStack)), out_words, 1)
  BY <1>3, <1>5, <1>8, Onward DEF I!Retire
<1> QED  BY <1>1, <1>7, <1>9 DEF I!InterpretDup

LEMMA StoreRefines ==
  ASSUME Executing, Goes, UNCHANGED parserVars, Op.name = "store"
  PROVE  I!InterpretStore
<1>1. /\ I!At(I!STORE) /\ I!Operand = Op.index /\ Op.index \in DOMAIN out_words
      /\ Holds(Top, mem) /\ Top \in Nat /\ Top >= 1
  BY Fetched, Operands, Effects DEF Fits
<1> DEFINE below == Top - 1
<1>2. below \in Nat /\ below + 1 = Top
  BY <1>1
<1>3. out_words' = F!Stored(out_words, Op.index, mem[below]) /\ mem' = mem
  BY DEF Goes, Effect
<1>4. AbstractStack = StackOf(Top, mem) /\ AbstractStack' = StackOf(Top + 0, mem')
  BY Onward, Effects
<1>5. I!Last(AbstractStack) = mem[below]
  <2> HIDE DEF below
  <2>1. Holds(below + 1, mem) /\ AbstractStack = StackOf(below + 1, mem)
    BY <1>1, <1>2, <1>4
  <2> QED  BY <1>2, <2>1, TopShape
<1>6. AbstractStack # <<>>
  BY <1>1, <1>4, StackShape, EmptySeq
<1>7. AbstractStack' = AbstractStack
  <2>1. Top + 0 = Top
    BY <1>1
  <2> QED  BY <1>3, <1>4, <2>1
<1>8. ~(Op.index >= OutputWords) /\ out_words \in [OutputIndex -> Word]
  BY <1>1, BytecodeAssumption DEF Executing, FunctionInv, OutputIndex
<1>9. out_words' = [out_words EXCEPT ![Op.index] = mem[below]]
  <2> HIDE DEF below
  <2> QED  BY <1>1, <1>3, <1>8 DEF F!Stored
<1>10. I!Retire(AbstractStack,
                [out_words EXCEPT ![I!Operand] = I!Last(AbstractStack)], 2)
  <2> HIDE DEF below
  <2> QED  BY <1>1, <1>5, <1>7, <1>9, Onward DEF I!Retire
<1> QED  BY <1>1, <1>6, <1>8, <1>10 DEF I!InterpretStore

LEMMA PopRefines ==
  ASSUME Executing, Goes, UNCHANGED parserVars, Op.name = "pop"
  PROVE  I!InterpretPop
<1>1. I!At(I!POP) /\ Holds(Top, mem) /\ Top \in Nat /\ Top >= 1
  BY Fetched, Operands, Effects
<1> DEFINE below == Top - 1
<1>2. below \in Nat /\ below + 1 = Top /\ Top + (-1) = below
  BY <1>1
<1>3. AbstractStack = StackOf(Top, mem) /\ AbstractStack' = StackOf(below, mem')
  BY <1>2, Onward, Effects
<1>4. mem' = mem /\ out_words' = out_words
  BY DEF Goes, Effect
<1>5. I!Front(AbstractStack) = AbstractStack'
  <2> HIDE DEF below
  <2>1. Holds(below + 1, mem) /\ AbstractStack = StackOf(below + 1, mem)
    BY <1>1, <1>2, <1>3
  <2> QED  BY <1>2, <1>3, <1>4, <2>1, TopShape
<1>6. AbstractStack # <<>>
  BY <1>1, <1>3, StackShape, EmptySeq
<1>7. I!Retire(I!Front(AbstractStack), out_words, 1)
  BY <1>4, <1>5, Onward DEF I!Retire
<1> QED  BY <1>1, <1>6, <1>7 DEF I!InterpretPop

(***************************************************************************)
(* Two words make place for one: add and sub.                              *)
(***************************************************************************)
LEMMA BinaryShape ==
  ASSUME Executing, Goes, UNCHANGED parserVars, Op.name \in {"add", "sub"},
         NEW v \in Word, mem' = F!Stored(mem, Top - 2, v)
  PROVE  /\ ~(Len(AbstractStack) < 2)
         /\ I!Last(AbstractStack) = mem[Top - 1]
         /\ I!Last(I!Front(AbstractStack)) = mem[Top - 2]
         /\ AbstractStack' = Append(I!Front(I!Front(AbstractStack)), v)
<1>1. Holds(Top, mem) /\ Top \in Nat /\ Top >= 2
  BY Operands, Effects
<1> DEFINE below == Top - 1
           base  == Top - 2
<1>2. /\ below \in Nat /\ base \in Nat /\ below + 1 = Top /\ base + 1 = below
      /\ Top + (-1) = base + 1
  BY <1>1
<1>3. AbstractStack = StackOf(Top, mem) /\ AbstractStack' = StackOf(base + 1, mem')
  BY <1>2, Onward, Effects
<1>4. mem'[base] = v /\ \A s \in 0..(base - 1) : mem'[s] = mem[s]
  <2>1. 0..(Top - 1) \subseteq DOMAIN mem
    BY Operands
  <2>2. \A s \in 0..(base - 1) : s # base /\ s \in 0..(Top - 1)
    BY <1>1, <1>2
  <2> QED  BY <2>1, <2>2 DEF F!Stored
<1>5. Len(AbstractStack) = Top
  BY <1>1, <1>3, StackShape
<1> HIDE DEF below, base
<1>6. /\ I!Last(AbstractStack) = mem[below]
      /\ I!Front(AbstractStack) = StackOf(below, mem)
      /\ Holds(below, mem)
  <2>1. Holds(below + 1, mem) /\ AbstractStack = StackOf(below + 1, mem)
    BY <1>1, <1>2, <1>3
  <2> QED  BY <1>2, <2>1, TopShape
<1>7. /\ I!Last(I!Front(AbstractStack)) = mem[base]
      /\ I!Front(I!Front(AbstractStack)) = StackOf(base, mem)
      /\ Holds(base, mem)
  <2>1. Holds(base + 1, mem) /\ I!Front(AbstractStack) = StackOf(base + 1, mem)
    BY <1>2, <1>6
  <2> QED  BY <1>2, <2>1, TopShape
<1>8. StackOf(base + 1, mem') = Append(StackOf(base, mem), v)
  BY <1>2, <1>4, <1>7, PushShape
<1> QED  BY <1>1, <1>3, <1>5, <1>6, <1>7, <1>8 DEF below, base

LEMMA AddRefines ==
  ASSUME Executing, Goes, UNCHANGED parserVars, Op.name = "add"
  PROVE  I!InterpretAdd
<1> DEFINE sum == AddWords(mem[Top - 2], mem[Top - 1])
<1>1. I!At(I!ADD)
  BY Fetched
<1>2. sum \in Word
  BY Operands, WordType DEF Executing, FunctionInv, Memory, Fits
<1>3. mem' = F!Stored(mem, Top - 2, sum) /\ out_words' = out_words
  BY DEF Goes, Effect, Writes
<1>4. /\ ~(Len(AbstractStack) < 2)
      /\ I!Last(AbstractStack) = mem[Top - 1]
      /\ I!Last(I!Front(AbstractStack)) = mem[Top - 2]
      /\ AbstractStack' = Append(I!Front(I!Front(AbstractStack)), sum)
  <2> HIDE DEF sum
  <2> QED  BY <1>2, <1>3, BinaryShape
<1>5. I!AddWords(I!Last(I!Front(AbstractStack)), I!Last(AbstractStack)) = sum
  BY <1>4 DEF I!AddWords, AddWords
<1>6. I!Retire(Append(I!Front(I!Front(AbstractStack)), sum), out_words, 1)
  <2> HIDE DEF sum
  <2> QED  BY <1>3, <1>4, Onward DEF I!Retire
<1> HIDE DEF sum
<1> QED  BY <1>1, <1>4, <1>5, <1>6 DEF I!InterpretAdd

LEMMA SubRefines ==
  ASSUME Executing, Goes, UNCHANGED parserVars, Op.name = "sub"
  PROVE  I!InterpretSub
<1> DEFINE difference == SubWords(mem[Top - 1], mem[Top - 2])
<1>1. I!At(I!SUB)
  BY Fetched
<1>2. difference \in Word
  BY Operands, WordType DEF Executing, FunctionInv, Memory, Fits
<1>3. mem' = F!Stored(mem, Top - 2, difference) /\ out_words' = out_words
  BY DEF Goes, Effect, Writes
<1>4. /\ ~(Len(AbstractStack) < 2)
      /\ I!Last(AbstractStack) = mem[Top - 1]
      /\ I!Last(I!Front(AbstractStack)) = mem[Top - 2]
      /\ AbstractStack' = Append(I!Front(I!Front(AbstractStack)), difference)
  <2> HIDE DEF difference
  <2> QED  BY <1>2, <1>3, BinaryShape
<1>5. I!SubWords(I!Last(AbstractStack), I!Last(I!Front(AbstractStack))) = difference
  BY <1>4 DEF I!SubWords, SubWords
<1>6. I!Retire(Append(I!Front(I!Front(AbstractStack)), difference), out_words, 1)
  <2> HIDE DEF difference
  <2> QED  BY <1>3, <1>4, Onward DEF I!Retire
<1> HIDE DEF difference
<1> QED  BY <1>1, <1>4, <1>5, <1>6 DEF I!InterpretSub

LEMMA StopRefines ==
  ASSUME Executing, Stops, UNCHANGED parserVars
  PROVE  I!InterpretStop
<1>1. I!At(I!STOP) /\ AbstractVerdict' = "returned"
  BY Fetched DEF Stops, F!Return, AbstractVerdict
<1>2. UNCHANGED <<code, words, AbstractPc, AbstractStack, out_words>>
  BY DEF Executing, Stops, F!Return, parserVars, AbstractPc, AbstractStack
<1> QED  BY <1>1, <1>2 DEF I!InterpretStop

-----------------------------------------------------------------------------
(***************************************************************************)
(* Refinement: as long as the stack is shallow and the input long enough,  *)
(* the run of what the compiler makes of a program is a run of the         *)
(* interpreter.                                                            *)
(***************************************************************************)
THEOREM CompilerIsCorrect ==
  Spec /\ [](Shallow /\ InputSuffices) => ImplementsInterpreter
<1>1. Init => I!Init
  BY DEF Init, P!Init, I!Init, AbstractPc, AbstractStack, AbstractVerdict, I!ZeroOutput,
     ZeroOutput, I!OutputIndex, OutputIndex
<1>2. ASSUME Sound, FunctionInv, Shallow, InputSuffices, [Next]_vars
      PROVE  [I!Next]_(I!vars)
  <2>1. CASE Parse
    <3>1. run = "idle" /\ UNCHANGED functionVars /\ code' = code
      <4>1. status = "parsing" /\ code' = code
        BY <2>1 DEF Parse, P!Step, P!ParseStop, P!ParseLoad, P!ParseStore, P!ParsePop,
           P!ParseAdd, P!ParseSub, P!ParseDup, P!ParseArithmetic, P!UnknownOpcode,
           P!NoStop, P!Fetch, P!Throw, P!Create
      <4> QED  BY <1>2, <2>1, <4>1 DEF FunctionInv, Parse
    <3> QED  BY <3>1 DEF functionVars, I!vars, AbstractPc, AbstractStack, AbstractVerdict
  <2>2. CASE LowerAndStart
    <3>1. /\ run = "idle" /\ run' = "running" /\ ip' = 1 /\ ops' = ops /\ status = "parsed"
          /\ UNCHANGED <<code, words, out_words>>
      BY <2>2 DEF LowerAndStart, F!Call, parserVars
    <3>2. AbstractPc' = 0 /\ AbstractPc = 0
      BY <1>2, <3>1 DEF Sound, AbstractPc
    <3>3. AbstractStack' = <<>> /\ AbstractStack = <<>>
      <4>1. Height(ops, 1) = 0
        BY HeightAtStart
      <4>2. AbstractStack' = StackOf(0, mem')
        BY <3>1, <4>1 DEF AbstractStack, StackOf
      <4>3. StackOf(0, mem') = <<>>
        <5>1. Holds(0, mem')
          BY DEF Holds
        <5> QED  BY <5>1, StackShape, EmptySeq
      <4> QED  BY <3>1, <4>2, <4>3 DEF AbstractStack
    <3> QED  BY <3>1, <3>2, <3>3 DEF I!vars, AbstractVerdict
  <2>3. CASE Execute
    <3>1. run = "running" /\ F!Next /\ UNCHANGED parserVars
      BY <2>3 DEF Execute, F!Next, F!Compute, F!Misbehave, F!Pass, F!Return, F!Executing
    <3>2. Executing
      BY <1>2, <3>1 DEF Executing
    <3>3. Op \in StackOp /\ Linked /\ Fits
      BY <3>2, Operands
    <3>4. Goes \/ Stops
      BY <1>2, <3>1, <3>3, StepShape DEF Strays
    <3>5. CASE Goes
      BY <3>1, <3>2, <3>3, <3>5, Names, LoadRefines, StoreRefines, PopRefines, AddRefines,
         SubRefines, DupRefines
      DEF Goes, I!Next, I!Step
    <3>6. CASE Stops
      BY <3>1, <3>2, <3>6, StopRefines DEF I!Next, I!Step
    <3> QED  BY <3>4, <3>5, <3>6
  <2>4. CASE UNCHANGED vars
    BY <2>4 DEF vars, parserVars, functionVars, I!vars, AbstractPc, AbstractStack,
       AbstractVerdict
  <2> QED  BY <1>2, <2>1, <2>2, <2>3, <2>4 DEF Next, Ended
<1> QED  BY <1>1, <1>2, SoundInvariant, FunctionInvariant, PTL
         DEF Spec, ImplementsInterpreter, I!Spec
=============================================================================
