------------------------------ MODULE Arguments ------------------------------
(***************************************************************************)
(* The command line arguments of stackc.  An argument is a sequence of     *)
(* symbols: characters, and the names of the long options, each of which   *)
(* is one symbol and stands behind two dashes only.                        *)
(***************************************************************************)
EXTENDS Integers, SequencesExt

CONSTANTS
  Symbol,        \* what arguments are made of
  HexValue,      \* the symbols that are hexadecimal digits, with their values
  Space,         \* those that are white space
  CommandLines   \* the argument vectors, without the program's name

Text == Seq(Symbol)
Hex  == DOMAIN HexValue

ASSUME ArgumentsAssumption ==
  /\ CommandLines \subseteq Seq(Text)
  /\ HexValue \in [Hex -> 0..15]
  /\ Hex \subseteq Symbol /\ Space \subseteq Symbol
  /\ {"+", "-", "x", "["} \cap (Space \cup Hex) = {} /\ Space \cap Hex = {}
  /\ {"i", "c", "o", "h", "input", "cmdline", "output", "help"} \cap Space = {}
=============================================================================
