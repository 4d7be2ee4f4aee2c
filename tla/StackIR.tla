------------------------------- MODULE StackIR ------------------------------
(***************************************************************************)
(* The operations of the StackIR dialect (src/src/ir/StackIR.td) as the    *)
(* parser creates them: a name, the stack_ptr attribute, the location (the *)
(* offset of the instruction in the byte code) and, for load and store,    *)
(* the index attribute.  A StackIR module is a sequence of operations with *)
(* the stack_size attribute beside it.                                     *)
(*                                                                         *)
(* stack_ptr is declared I8Attr, and an IntegerAttr built from a wider     *)
(* integer keeps its low bits: PtrMod is 2^8 in the code.                  *)
(***************************************************************************)
EXTENDS Bytecode, FiniteSets

CONSTANT PtrMod  \* number of values of a stack_ptr attribute: 256

ASSUME StackIRAssumption == PtrMod \in Nat \ {0}

StackPtrAttr(n) == n % PtrMod

PlainName   == {"stop", "pop", "add", "sub", "dup"}
IndexedName == {"load", "store"}

PlainOp == [name : PlainName, stack_ptr : 0..(PtrMod - 1), loc : Nat]
IndexedOp ==
  [name : IndexedName, index : Byte, stack_ptr : 0..(PtrMod - 1), loc : Nat]
StackOp == PlainOp \cup IndexedOp

Plain(name, ptr, at) ==
  [name |-> name, stack_ptr |-> StackPtrAttr(ptr), loc |-> at]
Indexed(name, idx, ptr, at) ==
  [name |-> name, index |-> idx, stack_ptr |-> StackPtrAttr(ptr), loc |-> at]

-----------------------------------------------------------------------------
(***************************************************************************)
(* The reference for the static analysis, from the meaning of the          *)
(* operations and not from the parser's counter: load and dup leave one    *)
(* more word on the stack, pop, add and sub one less.  Height(ops, k) is   *)
(* the number of words on the stack when ops[k] is reached.                *)
(***************************************************************************)
Growing   == {"load", "dup"}
Shrinking == {"pop", "add", "sub"}

Count(ops, k, names) == Cardinality({j \in 1..(k - 1) : ops[j].name \in names})

Height(ops, k) == Count(ops, k, Growing) - Count(ops, k, Shrinking)

(***************************************************************************)
(* How many words an operation takes from the stack or looks at.           *)
(***************************************************************************)
Needs(name) ==
  CASE name \in {"stop", "load"}         -> 0
    [] name \in {"store", "pop", "dup"}  -> 1
    [] name \in {"add", "sub"}           -> 2
=============================================================================
