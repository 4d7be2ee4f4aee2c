----------------------------- MODULE Invocation -----------------------------
(***************************************************************************)
(* One invocation of stackc up to the byte code it compiles: CLI11 parses  *)
(* the command line, and main of src/src/main.cpp reads the source file,   *)
(* if -i gave one, or else hands the string of -c to parse_cmdline.  An    *)
(* option that was not given leaves its string empty.                      *)
(***************************************************************************)
EXTENDS Arguments

VARIABLES
  argv, args, positional_only, results, missing, outcome,  \* CommandLine
  hex_str, pos, result, state                              \* HexInput

C == INSTANCE CommandLine
H == INSTANCE HexInput

commandLineVars == <<argv, args, positional_only, results, missing, outcome>>
hexInputVars    == <<hex_str, pos, result, state>>
vars            == <<commandLineVars, hexInputVars>>

ValueOf(o)       == IF results[o] = <<>> THEN <<>> ELSE Last(results[o])
source_file_name == ValueOf("i")
cmdline_hex      == ValueOf("c")

Init == C!Init /\ H!Init

ParseArgs == C!Step /\ UNCHANGED hexInputVars

ReadHexAlways ==  \* mutant: the source file is not looked at
  /\ outcome = "accepted"
  /\ H!Call(cmdline_hex)
  /\ UNCHANGED commandLineVars

ReadHex ==
  /\ outcome = "accepted" /\ source_file_name = <<>>
  /\ H!Call(cmdline_hex)
  /\ UNCHANGED commandLineVars

Convert == H!Step /\ UNCHANGED commandLineVars

ReadsFile == outcome = "accepted" /\ source_file_name # <<>>
Ended     == outcome \in C!Errors \cup {"help"} \/ ReadsFile \/ H!Ended

Stay == Ended /\ UNCHANGED vars

Next == ParseArgs \/ ReadHex \/ Convert \/ Stay

Spec == Init /\ [][Next]_vars /\ WF_vars(Next)

-----------------------------------------------------------------------------
TypeOK == C!TypeOK /\ H!TypeOK

ReadAsSpelled     == C!ReadAsSpelled
HexIsRead         == H!HexIsRead
EveryByteHasDigit == H!EveryByteHasDigit

(***************************************************************************)
(* From one end to the other: bytes come from a string only if no source   *)
(* file was named, and a command line that spells nothing but a string of  *)
(* digit pairs after -c, in any of the ways that it can, is neither        *)
(* refused nor read as other bytes.                                        *)
(***************************************************************************)
DigitPairs(text) ==
  Len(text) % 2 = 0 /\ \A k \in DOMAIN text : text[k] \in Hex

StringsArriveWhole ==
  /\ state = "returned" =>
       \A given \in C!Readings(argv) : "i" \in DOMAIN given => given["i"] = <<>>
  /\ \A given \in C!Readings(argv) :
       "c" \in DOMAIN given /\ DigitPairs(given["c"]) =>
         /\ outcome \in {"parsing", "accepted"} /\ state # "thrown"
         /\ state = "returned" => result = H!Spelled(given["c"])

(***************************************************************************)
(* However the arguments are cut up and put back, parsing them ends.       *)
(***************************************************************************)
InvocationEnds == <>Ended

(***************************************************************************)
(* main.cpp: "at least one of -i/-c must be given".                        *)
(***************************************************************************)
InputGiven == C!InputGiven

(***************************************************************************)
(* main.cpp: "a string of the form 0x010xcc0x00..." is parsed into bytes.  *)
(***************************************************************************)
CommentedFormIsRead == H!CommentedFormIsRead
=============================================================================
