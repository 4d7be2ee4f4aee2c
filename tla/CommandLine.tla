----------------------------- MODULE CommandLine -----------------------------
(***************************************************************************)
(* How stackc reads its command line: CLI::App::parse of CLI11.hpp, for    *)
(* the app that main of src/src/main.cpp sets up.  It has three options,   *)
(* each of which takes one string, and the help flag that every app has;   *)
(* no subcommands, positionals, validators, delimiters, configuration      *)
(* files or environment, for which CLI11 has code that never runs here.    *)
(*                                                                         *)
(* An option goes by its letter.  The values {} and %%, by which CLI11     *)
(* marks an empty container, are left out, and so are control characters   *)
(* other than white space.                                                 *)
(***************************************************************************)
EXTENDS Arguments

ValueOptions == {"i", "c", "o"}
Options      == ValueOptions \cup {"h"}
LongName     == [i |-> "input", c |-> "cmdline", o |-> "output", h |-> "help"]

VARIABLES
  argv,             \* the command line
  args,             \* the arguments not yet parsed
  positional_only,  \* "--" was seen
  results,          \* the values that each option has been given
  missing,          \* the arguments that nothing took
  outcome           \* "parsing", how parse ended, or the error it threw

vars == <<argv, args, positional_only, results, missing, outcome>>

Errors == {"excludes", "required", "mismatch", "extras"}

Count(o) == Len(results[o])

-----------------------------------------------------------------------------
(***************************************************************************)
(* _recognize with split_short and split_long: the option that an argument *)
(* names, if any, and the value attached to it.                            *)
(***************************************************************************)
PositionalMark == <<"-", "-">>

ValidFirst(symbol) == symbol \notin {"-", "!"} \cup Space

IsShort(a) == Len(a) > 1 /\ a[1] = "-" /\ ValidFirst(a[2])
IsLong(a)  == Len(a) > 2 /\ IsPrefix(PositionalMark, a) /\ ValidFirst(a[3])

NameEnd(a) ==
  IF Contains(a, "=") THEN SelectInSeq(a, LAMBDA s : s = "=") ELSE Len(a) + 1

Named(a) ==
  {o \in Options : \/ IsShort(a) /\ a[2] = o
                   \/ IsLong(a) /\ SubSeq(a, 3, NameEnd(a) - 1) = <<LongName[o]>>}

Attached(a) == SubSeq(a, IF IsShort(a) THEN 3 ELSE NameEnd(a) + 1, Len(a))

(***************************************************************************)
(* _add_result: a value in double brackets with every character between    *)
(* them doubled stands for the one with single ones.                       *)
(***************************************************************************)
Doubled(v) ==
  /\ Len(v) >= 4
  /\ IsPrefix(<<"[", "[">>, v) /\ IsSuffix(<<"]", "]">>, v)
  /\ \A k \in 3..(Len(v) - 2) : k % 2 = 1 => v[k] = v[k + 1]

Unescape(v) ==
  IF Doubled(v)
  THEN <<"[">> \o [k \in 1..((Len(v) - 3) \div 2) |-> v[2 * k + 1]] \o <<"]">>
  ELSE v

-----------------------------------------------------------------------------
Init ==
  /\ argv \in CommandLines
  /\ args = argv
  /\ positional_only = FALSE
  /\ results = [o \in Options |-> <<>>]
  /\ missing = <<>>
  /\ outcome = "parsing"

Parsing == outcome = "parsing" /\ args # <<>>
Current == Head(args)

Give(o, v) == results' = [results EXCEPT ![o] = Append(@, Unescape(v))]

(***************************************************************************)
(* _parse_single: "--", and what is no option or comes after "--".         *)
(***************************************************************************)
ParseMark ==
  /\ Parsing /\ ~positional_only /\ Current = PositionalMark
  /\ positional_only' = TRUE
  /\ args' = Tail(args)
  /\ UNCHANGED <<argv, results, missing, outcome>>

ParseLeftover ==
  /\ Parsing
  /\ positional_only \/ (Current # PositionalMark /\ Named(Current) = {})
  /\ missing' = Append(missing, Current)
  /\ args' = Tail(args)
  /\ UNCHANGED <<argv, positional_only, results, outcome>>

(***************************************************************************)
(* _parse_arg for the flag: the symbols behind its letter are letters      *)
(* again.  Of its value only that there is one is looked at.               *)
(***************************************************************************)
PutBackWhole(a) ==  \* mutant: the flag's own letter is put back, too
  IF IsShort(a) /\ Attached(a) # <<>> THEN <<a>> ELSE <<>>

PutBack(a) ==
  IF IsShort(a) /\ Attached(a) # <<>> THEN <<<<"-">> \o Attached(a)>> ELSE <<>>

ParseFlag ==
  /\ Parsing /\ ~positional_only /\ Named(Current) = {"h"}
  /\ results' = [results EXCEPT !["h"] = <<<<>>>>]
  /\ args' = PutBack(Current) \o Tail(args)
  /\ UNCHANGED <<argv, positional_only, missing, outcome>>

(***************************************************************************)
(* _parse_arg for an option with a value: the attached one or else the     *)
(* next argument, whatever that looks like.                                *)
(***************************************************************************)
ParseValue ==
  /\ Parsing /\ ~positional_only
  /\ \E o \in Named(Current) \cap ValueOptions :
       \/ /\ Attached(Current) # <<>>
          /\ Give(o, Attached(Current))
          /\ args' = Tail(args)
          /\ UNCHANGED outcome
       \/ /\ Attached(Current) = <<>> /\ Len(args) > 1
          /\ Give(o, args[2])
          /\ args' = Tail(Tail(args))
          /\ UNCHANGED outcome
       \/ /\ Attached(Current) = <<>> /\ Len(args) = 1
          /\ outcome' = "mismatch"
          /\ args' = <<>>
          /\ UNCHANGED results
  /\ UNCHANGED <<argv, positional_only, missing>>

(***************************************************************************)
(* _process and _process_extras, in their order: help, the options that    *)
(* exclude each other, their number, their values (each is given once),    *)
(* and what was left over.                                                 *)
(***************************************************************************)
HelpAsked  == Count("h") > 0
Excluded   == Count("i") > 0 /\ Count("c") > 0
Used       == Cardinality({o \in Options : Count(o) > 0})
GivenTwice == \E o \in Options : Count(o) > 1
LeftOver   == missing # <<>>

VerdictWithExtras ==  \* mutant: what is left over is no error
  CASE HelpAsked         -> "help"
    [] Excluded          -> "excludes"
    [] Used \notin 1..2  -> "required"
    [] GivenTwice        -> "mismatch"
    [] OTHER             -> "accepted"

Verdict ==
  CASE HelpAsked         -> "help"
    [] Excluded          -> "excludes"
    [] Used \notin 1..2  -> "required"
    [] GivenTwice        -> "mismatch"
    [] LeftOver          -> "extras"
    [] OTHER             -> "accepted"

Process ==
  /\ outcome = "parsing" /\ args = <<>>
  /\ outcome' = Verdict
  /\ UNCHANGED <<argv, args, positional_only, results, missing>>

Step == ParseMark \/ ParseLeftover \/ ParseFlag \/ ParseValue \/ Process

-----------------------------------------------------------------------------
TypeOK ==
  /\ argv \in CommandLines
  /\ args \in Seq(Text)
  /\ positional_only \in BOOLEAN
  /\ results \in [Options -> Seq(Text)]
  /\ missing \in Seq(Text)
  /\ outcome \in {"parsing", "accepted", "help"} \cup Errors

(***************************************************************************)
(* The command lines that stackc documents, without reference to how they  *)
(* are parsed: an option is spelled with one letter or a name, and its     *)
(* text is attached or the next argument; a command line is one option or  *)
(* two different ones in either order, but not -i with -c; and "--" may    *)
(* end it.                                                                 *)
(***************************************************************************)
Spellings(o, text) ==
  LET short  == <<"-", o>>
      long   == <<"-", "-", LongName[o]>>
      equals == long \o <<"=">>
  IN  {<<short, text>>, <<long, text>>, <<equals, text>>}
        \cup (IF text = <<>> THEN {} ELSE {<<short \o text>>, <<equals \o text>>})

TextsIn(line) == UNION {Suffixes(a) : a \in Range(line)}

OneOption(line) ==
  {given \in UNION {[{o} -> TextsIn(line)] : o \in ValueOptions} :
     \A o \in DOMAIN given : line \in Spellings(o, given[o])}

Together(one, other) ==
  [o \in DOMAIN one \cup DOMAIN other |-> IF o \in DOMAIN one THEN one[o] ELSE other[o]]

TwoOptions(line) ==
  {given \in UNION {{Together(one, other) : one \in OneOption(SubSeq(line, 1, k)),
                                            other \in OneOption(SubSeq(line, k + 1, Len(line)))} :
                     k \in 1..Len(line)} :
     DOMAIN given \in {{"i", "o"}, {"c", "o"}}}

Documented(line) == OneOption(line) \cup TwoOptions(line)

Readings(line) ==
  Documented(line) \cup
  (IF IsSuffix(<<PositionalMark>>, line) THEN Documented(Front(line)) ELSE {})

(***************************************************************************)
(* What is accepted is a documented command line, and main is given what   *)
(* it says, no argument dropped, divided or taken for something else; what *)
(* is rejected is not.                                                     *)
(***************************************************************************)
ReadAsSpelled ==
  /\ outcome = "accepted" =>
       \E given \in Readings(argv) : \A o \in ValueOptions :
         results[o] = IF o \in DOMAIN given THEN <<Unescape(given[o])>> ELSE <<>>
  /\ outcome \in Errors => Readings(argv) = {}

(***************************************************************************)
(* main.cpp: "at least one of -i/-c must be given".                        *)
(***************************************************************************)
InputGiven == outcome = "accepted" => Count("i") + Count("c") > 0
=============================================================================
