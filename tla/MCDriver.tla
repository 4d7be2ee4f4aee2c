------------------------------ MODULE MCDriver ------------------------------
(***************************************************************************)
(* Small instance of Driver: two invocations with every pair of output     *)
(* names, or without one.                                                  *)
(***************************************************************************)
EXTENDS Driver

Command(program, target) == [program |-> program, target |-> target]

(***************************************************************************)
(* p, p.out and p.o have the base p; p.o.out has the base p.o.             *)
(***************************************************************************)
Names == {<<"p">>, <<"p", ".out">>, <<"p", ".o">>, <<"p", ".o", ".out">>, NoTarget}

Programs == {"add", "sub", "underflow"}
GoodPrograms == {"add", "sub"}

PairsOfCommands ==
  {(1 :> Command("add", t) @@ 2 :> Command(program, u)) :
     t, u \in Names, program \in (Programs \ {"add"}) \cup {Unreadable, NoBytes}}
=============================================================================
