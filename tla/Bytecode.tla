------------------------------ MODULE Bytecode ------------------------------
(***************************************************************************)
(* The language that every other module is about: byte code for a stack    *)
(* machine whose words are unsigned integers of a fixed width.  A program  *)
(* is a sequence of bytes; LOAD and STORE are followed by one operand      *)
(* byte.  The opcodes are those of src/test/fuzz/fuzzer.py and of the      *)
(* switch in src/src/parser/parser.cpp.                                    *)
(*                                                                         *)
(* The widths and limits that the C++ code writes as literals are          *)
(* constants here, so that a small instance can reach them.                *)
(***************************************************************************)
EXTENDS Integers, Sequences

CONSTANTS
  ByteMod,      \* number of byte values: 256
  WordMod,      \* number of word values: 2^256
  OutputWords,  \* words in the output buffer: 64
  Programs      \* the byte strings handed to the compiler

Byte == 0..(ByteMod - 1)
Word == 0..(WordMod - 1)

ASSUME BytecodeAssumption ==
  /\ ByteMod \in Nat /\ ByteMod > 6
  /\ WordMod \in Nat \ {0}
  /\ OutputWords \in Nat \ {0}
  /\ Programs \subseteq Seq(Byte)

STOP  == 0
LOAD  == 1
STORE == 2
POP   == 3
ADD   == 4
SUB   == 5
DUP   == 6

(***************************************************************************)
(* The opcodes that are followed by an operand byte.                       *)
(***************************************************************************)
WithOperand == {LOAD, STORE}

OutputIndex == 0..(OutputWords - 1)
ZeroOutput  == [w \in OutputIndex |-> 0]

(***************************************************************************)
(* Addition and subtraction of words wrap around, in the interpreter       *)
(* (mask_word) and in the compiled code (add and sub on i256) alike.       *)
(***************************************************************************)
AddWordsUnmasked(a, b) == a + b  \* mutant: mask_word forgotten
AddWords(a, b) == (a + b) % WordMod
SubWords(a, b) == (a - b) % WordMod
=============================================================================
