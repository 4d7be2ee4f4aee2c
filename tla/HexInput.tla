------------------------------ MODULE HexInput ------------------------------
(***************************************************************************)
(* parse_cmdline of src/src/main.cpp: the argument of stackc -c, two       *)
(* characters a byte, each pair through std::stoul with base 16.           *)
(***************************************************************************)
EXTENDS Arguments

VARIABLES
  hex_str,  \* the argument
  pos,      \* where the loop is, from 0
  result,   \* the bytes read
  state     \* "idle", "check", "loop", "returned" or "thrown"

vars == <<hex_str, pos, result, state>>

-----------------------------------------------------------------------------
(***************************************************************************)
(* std::stoul of two characters: white space and a sign are skipped, what  *)
(* follows the digits is ignored, "0x" is 0 for want of digits after it,   *)
(* and no digit at all is an error.  A minus negates modulo 2^64, and the  *)
(* conversion to a byte keeps that modulo 256.                             *)
(***************************************************************************)
Stoul(a, b) ==
  CASE a \in Hex /\ b \in Hex                  -> 16 * HexValue[a] + HexValue[b]
    [] a \in Hex /\ b \notin Hex               -> HexValue[a]
    [] a \in Space \cup {"+"} /\ b \in Hex     -> HexValue[b]
    [] a = "-" /\ b \in Hex                    -> (0 - HexValue[b]) % 256

Convertible(a, b) == a \in Hex \/ (a \in Space \cup {"+", "-"} /\ b \in Hex)

First  == hex_str[pos + 1]
Second == hex_str[pos + 2]

-----------------------------------------------------------------------------
Init ==
  /\ hex_str = <<>>
  /\ pos = 0
  /\ result = <<>>
  /\ state = "idle"

Call(string) ==
  /\ state = "idle"
  /\ hex_str' = string
  /\ state' = "check"
  /\ UNCHANGED <<pos, result>>

CheckLength ==
  /\ state = "check"
  /\ state' = IF Len(hex_str) % 2 # 0 THEN "thrown" ELSE "loop"
  /\ UNCHANGED <<hex_str, pos, result>>

PushByteInFront ==  \* mutant: the bytes come in reverse order
  /\ state = "loop" /\ pos < Len(hex_str)
  /\ Convertible(First, Second)
  /\ result' = <<Stoul(First, Second)>> \o result
  /\ pos' = pos + 2
  /\ UNCHANGED <<hex_str, state>>

PushByteWide ==  \* mutant: the number is not converted to a byte
  /\ state = "loop" /\ pos < Len(hex_str)
  /\ Convertible(First, Second)
  /\ result' = Append(result, IF First = "-" THEN 2^16 - HexValue[Second]
                              ELSE Stoul(First, Second))
  /\ pos' = pos + 2
  /\ UNCHANGED <<hex_str, state>>

PushByte ==
  /\ state = "loop" /\ pos < Len(hex_str)
  /\ Convertible(First, Second)
  /\ result' = Append(result, Stoul(First, Second))
  /\ pos' = pos + 2
  /\ UNCHANGED <<hex_str, state>>

InvalidArgumentAsZero ==  \* mutant: what is not a number counts as 0
  /\ state = "loop" /\ pos < Len(hex_str)
  /\ ~Convertible(First, Second)
  /\ result' = Append(result, 0)
  /\ pos' = pos + 2
  /\ UNCHANGED <<hex_str, state>>

InvalidArgument ==
  /\ state = "loop" /\ pos < Len(hex_str)
  /\ ~Convertible(First, Second)
  /\ state' = "thrown"
  /\ UNCHANGED <<hex_str, pos, result>>

Return ==
  /\ state = "loop" /\ pos >= Len(hex_str)
  /\ state' = "returned"
  /\ UNCHANGED <<hex_str, pos, result>>

Step == CheckLength \/ PushByte \/ InvalidArgument \/ Return

Ended == state \in {"returned", "thrown"}

-----------------------------------------------------------------------------
TypeOK ==
  /\ hex_str \in Text
  /\ pos \in 0..Len(hex_str)
  /\ result \in Seq(0..255)
  /\ state \in {"idle", "check", "loop", "returned", "thrown"}

(***************************************************************************)
(* A string of hexadecimal digits, the form that the help text of -c shows *)
(* ("0001cc00"), is read if and only if its length is even, and as the     *)
(* bytes that it spells.                                                   *)
(***************************************************************************)
Spelled(string) ==
  [k \in 1..(Len(string) \div 2) |->
     16 * HexValue[string[2 * k - 1]] + HexValue[string[2 * k]]]

OnlyHex == \A k \in 1..Len(hex_str) : hex_str[k] \in Hex

HexIsRead ==
  OnlyHex =>
    /\ state = "returned" => Len(hex_str) % 2 = 0 /\ result = Spelled(hex_str)
    /\ state = "thrown" => Len(hex_str) % 2 = 1

(***************************************************************************)
(* Of any other string, too, each byte rests on two characters of its own  *)
(* at least one of which is a digit: std::stoul lets a blank, a sign and   *)
(* rubbish behind the digit pass, but never makes a byte of nothing.       *)
(***************************************************************************)
EveryByteHasDigit ==
  state = "returned" =>
    /\ 2 * Len(result) = Len(hex_str)
    /\ \A k \in 1..Len(result) : \E j \in {2 * k - 1, 2 * k} : hex_str[j] \in Hex

(***************************************************************************)
(* main.cpp: "a string of the form 0x010xcc0x00..." is parsed into bytes.  *)
(***************************************************************************)
InCommentedForm ==
  /\ Len(hex_str) % 4 = 0
  /\ \A k \in 1..Len(hex_str) :
       CASE k % 4 = 1 -> hex_str[k] = "0"
         [] k % 4 = 2 -> hex_str[k] = "x"
         [] OTHER     -> hex_str[k] \in Hex

CommentedFormIsRead ==
  InCommentedForm /\ state = "returned" =>
    result = [k \in 1..(Len(hex_str) \div 4) |->
                16 * HexValue[hex_str[4 * k - 1]] + HexValue[hex_str[4 * k]]]
=============================================================================
