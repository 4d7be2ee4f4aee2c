---------------------------- MODULE MCInvocation ----------------------------
(***************************************************************************)
(* Small instance of Invocation: short command lines of every kind of      *)
(* argument, and every short string behind -c.                             *)
(***************************************************************************)
EXTENDS Invocation

CONSTANTS MaxArguments, MaxLength

Chars  == {"0", "c", "x", "-", " "}
Digits == "0" :> 0 @@ "c" :> 12
Blanks == {" "}

Symbols == Chars \cup {"i", "o", "h", "p", "=", "!", "[", "]"}
                 \cup {"input", "cmdline", "output", "help"}

Dash(symbols)     == <<"-">> \o symbols
DashDash(symbols) == <<"-", "-">> \o symbols

(***************************************************************************)
(* The empty argument, names and what only looks like an option; each      *)
(* option by its letter and by its name, with and without a value; flags   *)
(* in front of other letters.                                              *)
(***************************************************************************)
Names == {<<>>, <<"p">>, <<"-">>, Dash(<<"x">>), Dash(<<"!">>), Dash(<<" ">>), DashDash(<<"x">>)}
Flags == {Dash(<<"h">>), DashDash(<<"help">>), DashDash(<<"help", "=", "p">>),
          Dash(<<"h", "i">>), Dash(<<"h", "h", "c", "0">>), Dash(<<"h", "-">>)}
Marks == {DashDash(<<>>)}

Letters == {Dash(<<o>>) : o \in {"i", "c", "o"}}
Attacheds == {Dash(<<"i", "p">>), Dash(<<"c", "0", "c">>), Dash(<<"o", "=", "p">>),
              DashDash(<<"input", "=">>), DashDash(<<"output", "=", "p">>),
              DashDash(<<"cmdline">>), DashDash(<<"input", "=", "p", "=">>),
              Dash(<<"i", "[", "[", "p", "p", "]", "]">>)}

Arguments == Names \cup Flags \cup Marks \cup Letters \cup Attacheds
Few       == Letters \cup Marks \cup {<<"p">>, Dash(<<"h">>), DashDash(<<"output", "=", "p">>)}

(***************************************************************************)
(* Up to MaxArguments arguments of any kind, one more of a few kinds.      *)
(***************************************************************************)
ShortLines   == SeqOf(Arguments, MaxArguments) \cup [1..(MaxArguments + 1) -> Few]
StringLines  == {<<Dash(<<"c">>), s>> : s \in SeqOf(Chars, MaxLength)}
ManyLines    == ShortLines \cup StringLines
=============================================================================
