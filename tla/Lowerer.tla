------------------------------- MODULE Lowerer ------------------------------
(***************************************************************************)
(* Lowerer::lower of src/src/passes/lower.cpp: from a StackIR module to    *)
(* the LLVM function f.  The pass is one loop without state of its own, so *)
(* it is a function here: the body of f has one group of instructions per  *)
(* StackIR operation, emitted in order into the single block of f.         *)
(*                                                                         *)
(* What a group does is all it keeps of the SSA code: the addresses it     *)
(* loads from, in order, what it computes from the values, and the address *)
(* it stores to.  pop emits nothing and stop emits ret.                    *)
(*                                                                         *)
(* An address is a base pointer and an index counted in words, which is    *)
(* what getelementptr i256 computes.  The index is an i64 constant made    *)
(* from a uint64_t; for p = 0 the C++ expression p - 1 is 2^64 - 1, which  *)
(* getelementptr, whose indices are signed, takes as -1, as here.          *)
(***************************************************************************)
EXTENDS StackIR

InWord(n)  == [base |-> "in",    index |-> n]
OutWord(n) == [base |-> "out",   index |-> n]
Slot(n)    == [base |-> "stack", index |-> n]

Nowhere == [base |-> "none", index |-> 0]

Group(kind, loads, target) ==
  [kind |-> kind, loads |-> loads, target |-> target]

LowerStop == Group("ret", <<>>, Nowhere)

LowerLoad(idx, p) == Group("move", <<InWord(idx)>>, Slot(p))

LowerStore(idx, p) == Group("move", <<Slot(p - 1)>>, OutWord(idx))

LowerPop == Group("nothing", <<>>, Nowhere)

LowerAdd(p) == Group("add", <<Slot(p - 2), Slot(p - 1)>>, Slot(p - 2))

LowerSubSwapped(p) ==  \* mutant: the operands in the order of add
  Group("sub", <<Slot(p - 2), Slot(p - 1)>>, Slot(p - 2))

(***************************************************************************)
(* The minuend is the top of the stack.                                    *)
(***************************************************************************)
LowerSub(p) == Group("sub", <<Slot(p - 1), Slot(p - 2)>>, Slot(p - 2))

LowerDup(p) == Group("move", <<Slot(p - 1)>>, Slot(p))

Lowered(op) ==
  CASE op.name = "stop"  -> LowerStop
    [] op.name = "load"  -> LowerLoad(op.index, op.stack_ptr)
    [] op.name = "store" -> LowerStore(op.index, op.stack_ptr)
    [] op.name = "pop"   -> LowerPop
    [] op.name = "add"   -> LowerAdd(op.stack_ptr)
    [] op.name = "sub"   -> LowerSub(op.stack_ptr)
    [] op.name = "dup"   -> LowerDup(op.stack_ptr)

LowerOneSlotMore(ops, stack_size) ==   \* mutant
  [slots |-> stack_size + 1, body |-> [k \in DOMAIN ops |-> Lowered(ops[k])]]
LowerOneSlotLess(ops, stack_size) ==   \* mutant
  [slots |-> stack_size - 1, body |-> [k \in DOMAIN ops |-> Lowered(ops[k])]]

(***************************************************************************)
(* The function f: how many words its alloca reserves for the stack, and   *)
(* the groups of its body.                                                 *)
(***************************************************************************)
Lower(ops, stack_size) ==
  [slots |-> stack_size, body |-> [k \in DOMAIN ops |-> Lowered(ops[k])]]
=============================================================================
