------------------------------- MODULE Parser -------------------------------
(***************************************************************************)
(* parser::parse of src/src/parser/parser.cpp: one pass over the byte code *)
(* that creates a StackIR operation per instruction, decorated with the    *)
(* height of the stack before it, and rejects code that would underflow.   *)
(* One action is one turn of the for loop, including what follows the      *)
(* switch: the update of stack_size, the break after STOP and, then, the   *)
(* stack_size attribute of the module (its value is stack_size once the    *)
(* status is "parsed").  A throw leaves the kind of error in the status    *)
(* and the offset that the message names in error_at.                      *)
(***************************************************************************)
EXTENDS StackIR

VARIABLES
  code,        \* the byte string; never changes
  i,           \* offset of the next instruction
  stack_ptr,   \* height of the stack before it
  stack_size,  \* greatest height so far
  ops,         \* the operations created so far
  status,      \* "parsing", "parsed" or the kind of the error thrown
  error_at     \* the offset reported with the error

vars == <<code, i, stack_ptr, stack_size, ops, status, error_at>>

Errors == {"underflow", "missing argument", "store index", "unknown opcode",
           "no STOP"}

NoOffset == -1

Init ==
  /\ code \in Programs
  /\ i = 0
  /\ stack_ptr = 0
  /\ stack_size = 0
  /\ ops = <<>>
  /\ status = "parsing"
  /\ error_at = NoOffset

Fetch(op) == status = "parsing" /\ i < Len(code) /\ code[i + 1] = op

ArgumentMissing == i + 1 >= Len(code)
Argument        == code[i + 2]

Throw(kind, at) ==
  /\ status' = kind
  /\ error_at' = at
  /\ UNCHANGED <<code, i, stack_ptr, stack_size, ops>>

Greater(m, n) == IF n > m THEN n ELSE m

CreateLate(op, width, ptr) ==  \* mutant: stack_size updated before the push
  /\ ops' = Append(ops, op)
  /\ i' = i + width
  /\ stack_ptr' = ptr
  /\ stack_size' = Greater(stack_size, stack_ptr)
  /\ UNCHANGED <<code, error_at>>

(***************************************************************************)
(* An operation is appended, the loop moves on by width bytes with the     *)
(* given stack pointer, and stack_size follows it.                         *)
(***************************************************************************)
Create(op, width, ptr) ==
  /\ ops' = Append(ops, op)
  /\ i' = i + width
  /\ stack_ptr' = ptr
  /\ stack_size' = Greater(stack_size, ptr)
  /\ UNCHANGED <<code, error_at>>

ParseStopAndGoOn ==  \* mutant: no break after STOP
  /\ Fetch(STOP)
  /\ Create(Plain("stop", stack_ptr, i), 1, stack_ptr)
  /\ UNCHANGED status

ParseStop ==
  /\ Fetch(STOP)
  /\ Create(Plain("stop", stack_ptr, i), 1, stack_ptr)
  /\ status' = "parsed"

ParseLoadDecoratedAfter ==  \* mutant: the attribute is read after the push
  /\ Fetch(LOAD)
  /\ IF ArgumentMissing
     THEN Throw("missing argument", i)
     ELSE /\ Create(Indexed("load", Argument, stack_ptr + 1, i), 2, stack_ptr + 1)
          /\ UNCHANGED status

ParseLoad ==
  /\ Fetch(LOAD)
  /\ IF ArgumentMissing
     THEN Throw("missing argument", i)
     ELSE /\ Create(Indexed("load", Argument, stack_ptr, i), 2, stack_ptr + 1)
          /\ UNCHANGED status

(***************************************************************************)
(* The case of STORE, with what its mutants change: the instruction's      *)
(* width, the height after it, the greatest index accepted and the offset  *)
(* that an error reports.                                                  *)
(***************************************************************************)
StoreCase(width, ptr, limit, at) ==
  /\ Fetch(STORE)
  /\ IF stack_ptr <= 0
     THEN Throw("underflow", at)
     ELSE IF ArgumentMissing
          THEN Throw("missing argument", at)
          ELSE IF Argument > limit
               THEN Throw("store index", at)
               ELSE /\ Create(Indexed("store", Argument, stack_ptr, i), width, ptr)
                    /\ UNCHANGED status

ParseStoreOneByte    == StoreCase(1, stack_ptr, OutputWords - 1, i)
ParseStorePops       == StoreCase(2, stack_ptr - 1, OutputWords - 1, i)
ParseStoreOffByOne   == StoreCase(2, stack_ptr, OutputWords, i)
ParseStoreAtArgument == StoreCase(2, stack_ptr, OutputWords - 1, i + 1)

ParseStore ==
  /\ Fetch(STORE)
  /\ IF stack_ptr <= 0
     THEN Throw("underflow", i)
     ELSE IF ArgumentMissing
          THEN Throw("missing argument", i)
          ELSE IF Argument >= OutputWords
               THEN Throw("store index", i)
               ELSE /\ Create(Indexed("store", Argument, stack_ptr, i), 2, stack_ptr)
                    /\ UNCHANGED status

ParsePopUnguarded ==  \* mutant: no underflow check
  /\ Fetch(POP)
  /\ Create(Plain("pop", stack_ptr, i), 1, stack_ptr - 1)
  /\ UNCHANGED status

ParsePop ==
  /\ Fetch(POP)
  /\ IF stack_ptr <= 0
     THEN Throw("underflow", i)
     ELSE /\ Create(Plain("pop", stack_ptr, i), 1, stack_ptr - 1)
          /\ UNCHANGED status

ParseArithmeticOnOne(opcode, name) ==  \* mutant: one operand is enough
  /\ Fetch(opcode)
  /\ IF stack_ptr <= 0
     THEN Throw("underflow", i)
     ELSE /\ Create(Plain(name, stack_ptr, i), 1, stack_ptr - 1)
          /\ UNCHANGED status

(***************************************************************************)
(* ADD and SUB have the same case, with another name.                      *)
(***************************************************************************)
ParseArithmetic(opcode, name) ==
  /\ Fetch(opcode)
  /\ IF stack_ptr <= 1
     THEN Throw("underflow", i)
     ELSE /\ Create(Plain(name, stack_ptr, i), 1, stack_ptr - 1)
          /\ UNCHANGED status

ParseAdd == ParseArithmetic(ADD, "add")
ParseSub == ParseArithmetic(SUB, "sub")

ParseDup ==
  /\ Fetch(DUP)
  /\ IF stack_ptr <= 0
     THEN Throw("underflow", i)
     ELSE /\ Create(Plain("dup", stack_ptr, i), 1, stack_ptr + 1)
          /\ UNCHANGED status

UnknownOpcode ==
  /\ status = "parsing" /\ i < Len(code)
  /\ code[i + 1] \notin STOP..DUP
  /\ Throw("unknown opcode", i)

NoStop ==
  /\ status = "parsing" /\ i >= Len(code)
  /\ Throw("no STOP", NoOffset)

Step ==
  \/ ParseStop \/ ParseLoad \/ ParseStore \/ ParsePop
  \/ ParseAdd \/ ParseSub \/ ParseDup
  \/ UnknownOpcode \/ NoStop

Ended == status # "parsing" /\ UNCHANGED vars

Next == Step \/ Ended

Spec == Init /\ [][Next]_vars

-----------------------------------------------------------------------------
TypeOK ==
  /\ code \in Seq(Byte)
  /\ i \in 0..Len(code)
  /\ stack_ptr \in Nat
  /\ stack_size \in Nat
  /\ ops \in Seq(StackOp)
  /\ status \in {"parsing", "parsed"} \cup Errors
  /\ error_at \in Nat \cup {NoOffset}

(***************************************************************************)
(* The decoration is the height: every operation carries the height that   *)
(* the operations before it leave, cut to the width of the attribute, and  *)
(* the counter the parser goes on with is the height after all of them.    *)
(***************************************************************************)
DecorationIsHeight ==
  /\ stack_ptr = Height(ops, Len(ops) + 1)
  /\ \A k \in DOMAIN ops : ops[k].stack_ptr = Height(ops, k) % PtrMod

(***************************************************************************)
(* "All mal-formed bytecode that causes stack underflow are caught at      *)
(* compile time": no operation the parser lets through finds fewer words   *)
(* on the stack than it takes or looks at.                                 *)
(***************************************************************************)
NeverUnderflows ==
  \A k \in DOMAIN ops : Height(ops, k) >= Needs(ops[k].name)

(***************************************************************************)
(* stack_size, from which the lowering sizes the stack array, is the       *)
(* greatest height the code reaches: no slot too few and none too many.    *)
(***************************************************************************)
StackSizeIsPeak ==
  LET heights == {Height(ops, k) : k \in 1..(Len(ops) + 1)}
  IN  stack_size \in heights /\ \A h \in heights : h <= stack_size

(***************************************************************************)
(* A module that parse returns ends with its only stop, whatever follows   *)
(* STOP in the byte code: the function lowered from it ends with its only  *)
(* return.                                                                 *)
(***************************************************************************)
EndsWithOnlyStop ==
  \A k \in DOMAIN ops :
    ops[k].name = "stop" <=> (status = "parsed" /\ k = Len(ops))

(***************************************************************************)
(* The operations stand for the byte code one to one and in order: each is *)
(* located at its opcode, carries its operand byte, and the next one       *)
(* begins where it ends; the parser goes on where the last one ends.       *)
(***************************************************************************)
NameOf(opcode) ==
  <<"stop", "load", "store", "pop", "add", "sub", "dup">>[opcode + 1]

Width(opcode) == IF opcode \in WithOperand THEN 2 ELSE 1

MirrorsCode ==
  /\ ops = <<>> => i = 0
  /\ ops # <<>> => ops[1].loc = 0
  /\ \A k \in DOMAIN ops :
       LET at     == ops[k].loc
           opcode == code[at + 1]
       IN  /\ ops[k].name = NameOf(opcode)
           /\ opcode \in WithOperand => ops[k].index = code[at + 2]
           /\ at + Width(opcode) = IF k < Len(ops) THEN ops[k + 1].loc ELSE i
=============================================================================
