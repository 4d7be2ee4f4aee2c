------------------------------- MODULE Driver -------------------------------
(***************************************************************************)
(* main of src/src/main.cpp as the file system sees it: invocations of     *)
(* stackc that read byte code, compile it, write an object file and link   *)
(* an executable beside it, any stage of which can fail or be killed.      *)
(* Invocation says which command lines are accepted, and Parser, Lowerer   *)
(* and CompiledFunction what the compilation does; here a program either   *)
(* compiles or is rejected.                                                *)
(*                                                                         *)
(* A path is the sequence of its pieces: <<"p", ".out">> is p.out, and its *)
(* extension is its last piece if there are two.                           *)
(***************************************************************************)
EXTENDS Integers, SequencesExt

CONSTANTS
  Invocations,  \* the runs of stackc
  Assignments,  \* the command lines they may have together
  Compilable    \* the programs that parse and lower without error

(***************************************************************************)
(* A command line that was accepted: the program that the file or the      *)
(* hexadecimal string denotes, and the path after -o, which is empty       *)
(* without one.                                                            *)
(***************************************************************************)
Unreadable == "unreadable"  \* no such file, or not a hexadecimal string
NoBytes    == "no bytes"    \* the empty byte string
NoTarget   == <<>>

ASSUME DriverAssumption ==
  /\ \A a \in Assignments : \A p \in Invocations : a[p].target \in Seq(STRING)
  /\ NoBytes \notin Compilable /\ Unreadable \notin Compilable

VARIABLES
  cmd,     \* the command line of each invocation
  stage,   \* what each is about to do
  code,    \* the program each has read
  linked,  \* the program in the object file that its linker read
  exit,    \* how each ended
  files,   \* what is at each path
  shared,  \* those that have had their object file open together with another
  alone    \* those that no other with their base has overlapped or followed

vars == <<cmd, stage, code, linked, exit, files, shared, alone>>

Stages == {"start", "read", "compile", "optimize", "open", "emit", "link", "linking", "ended"}
Exits  == {"none", "success", "failure", "aborted", "killed"}

-----------------------------------------------------------------------------
(***************************************************************************)
(* outputBaseFor, objectPathFor and executablePathFor.                     *)
(***************************************************************************)
Extensions == {".o", ".out", ".exe"}

OutputBaseFor(path) ==
  IF Len(path) > 1 /\ Last(path) \in Extensions THEN Front(path) ELSE path

ObjectPathFixed(base)   == <<"out", ".o">>  \* mutant: one name for all
ObjectPathFor(base)     == Append(base, ".o")
ExecutablePathFor(base) == Append(base, ".out")

Base(p)           == OutputBaseFor(cmd[p].target)
ObjectPath(p)     == ObjectPathFor(Base(p))
ExecutablePath(p) == ExecutablePathFor(Base(p))

Targets == {a[p].target : a \in Assignments, p \in Invocations} \ {NoTarget}
Paths   == UNION {{ObjectPathFor(OutputBaseFor(t)), ExecutablePathFor(OutputBaseFor(t))} :
                    t \in Targets}

Absent        == [kind |-> "absent", of |-> NoBytes]
Partial       == [kind |-> "partial", of |-> NoBytes]
Object(b)     == [kind |-> "object", of |-> b]
Executable(b) == [kind |-> "executable", of |-> b]

Contents ==
  {Absent, Partial} \cup {Object(b) : b \in Compilable}
                    \cup {Executable(b) : b \in Compilable}

-----------------------------------------------------------------------------
Init ==
  /\ cmd \in Assignments
  /\ stage = [p \in Invocations |-> "start"]
  /\ code = [p \in Invocations |-> NoBytes]
  /\ linked = [p \in Invocations |-> NoBytes]
  /\ exit = [p \in Invocations |-> "none"]
  /\ files = [path \in Paths |-> Absent]
  /\ shared = {}
  /\ alone = {}

HasTarget(p) == cmd[p].target # NoTarget

Rivals(p) == {q \in Invocations \ {p} : Base(q) = Base(p)}
AtRest(p) == stage[p] \in {"start", "ended"}

Go(p, next) == stage' = [stage EXCEPT ![p] = next]

End(p, how) ==
  /\ Go(p, "ended")
  /\ exit' = [exit EXCEPT ![p] = how]

(***************************************************************************)
(* An exception reaches the handler in main: exit code 1.                  *)
(***************************************************************************)
Fail(p) == End(p, "failure") /\ UNCHANGED <<cmd, code, linked, files, shared, alone>>

(***************************************************************************)
(* The output paths are made.                                              *)
(***************************************************************************)
Start(p) ==
  /\ stage[p] = "start"
  /\ Go(p, "read")
  /\ alone' = (alone \ Rivals(p)) \cup
              (IF \A q \in Rivals(p) : AtRest(q) THEN {p} ELSE {})
  /\ UNCHANGED <<cmd, code, linked, exit, files, shared>>

(***************************************************************************)
(* read_file or parse_cmdline.                                             *)
(***************************************************************************)
ReadInput(p) ==
  /\ stage[p] = "read"
  /\ IF cmd[p].program = Unreadable
     THEN Fail(p)
     ELSE /\ code' = [code EXCEPT ![p] = cmd[p].program]
          /\ Go(p, "compile")
          /\ UNCHANGED <<cmd, linked, exit, files, shared, alone>>

CompileUnchecked(p) ==  \* mutant: an error of the parser is swallowed
  /\ stage[p] = "compile"
  /\ Go(p, "optimize")
  /\ UNCHANGED <<cmd, code, linked, exit, files, shared, alone>>

(***************************************************************************)
(* parse and lower: a program that is rejected ends here.                  *)
(***************************************************************************)
Compile(p) ==
  /\ stage[p] = "compile"
  /\ \/ Fail(p)
     \/ /\ code[p] \in Compilable
        /\ Go(p, "optimize")
        /\ UNCHANGED <<cmd, code, linked, exit, files, shared, alone>>

(***************************************************************************)
(* emitObjectCode up to its output: the translation may fail, or there is  *)
(* no target; and a program that compiles ends here if there is nowhere to *)
(* write it.                                                               *)
(***************************************************************************)
Optimize(p) ==
  /\ stage[p] = "optimize"
  /\ \/ Fail(p)
     \/ /\ IF HasTarget(p) THEN Go(p, "open") /\ UNCHANGED exit ELSE End(p, "success")
        /\ UNCHANGED <<cmd, code, linked, files, shared, alone>>

(***************************************************************************)
(* Opening the object file empties it, though another invocation may have  *)
(* it open.                                                                *)
(***************************************************************************)
Writers(p) ==
  {q \in Invocations \ {p} : stage[q] = "emit" /\ ObjectPath(q) = ObjectPath(p)}

OpenObject(p) ==
  /\ stage[p] = "open"
  /\ \/ Fail(p)
     \/ /\ files' = [files EXCEPT ![ObjectPath(p)] = Partial]
        /\ shared' = IF Writers(p) = {} THEN shared ELSE shared \cup Writers(p) \cup {p}
        /\ Go(p, "emit")
        /\ UNCHANGED <<cmd, code, linked, exit, alone>>

(***************************************************************************)
(* The object code is written, and the file closed.  If another invocation *)
(* has had it open at the same time, whether it has written by now or was  *)
(* killed, the bytes of both may be mixed.                                 *)
(***************************************************************************)
EmitObject(p) ==
  /\ stage[p] = "emit"
  /\ \E content \in {Object(code[p]), Partial} :
       /\ content = Partial => p \in shared
       /\ files' = [files EXCEPT ![ObjectPath(p)] = content]
  /\ Go(p, "link")
  /\ UNCHANGED <<cmd, code, linked, exit, shared, alone>>

(***************************************************************************)
(* The target emits no object files: an exception, with the file already   *)
(* emptied.  A write that fails is noticed when the stream is destroyed,   *)
(* and ends the process without passing through the handler.               *)
(***************************************************************************)
EmitFails(p) ==
  /\ stage[p] = "emit"
  /\ \E how \in {"failure", "aborted"} : End(p, how)
  /\ UNCHANGED <<cmd, code, linked, files, shared, alone>>

(***************************************************************************)
(* linkExecutable: the wrapper or the compiler is missing, or the linker   *)
(* reads whatever the object file holds by now and begins its output.      *)
(***************************************************************************)
BeginLink(p) ==
  /\ stage[p] = "link"
  /\ \/ Fail(p)
     \/ /\ files[ObjectPath(p)].kind = "object"
        /\ linked' = [linked EXCEPT ![p] = files[ObjectPath(p)].of]
        /\ files' = [files EXCEPT ![ExecutablePath(p)] = Partial]
        /\ Go(p, "linking")
        /\ UNCHANGED <<cmd, code, exit, shared, alone>>

EndLinkUnchecked(p) ==  \* mutant: the linker's exit code is ignored
  /\ stage[p] = "linking"
  /\ End(p, "success")
  /\ \E content \in {Executable(linked[p]), Absent} :
       files' = [files EXCEPT ![ExecutablePath(p)] = content]
  /\ UNCHANGED <<cmd, code, linked, shared, alone>>

(***************************************************************************)
(* The linker ends, with an executable or, removing it, without.           *)
(***************************************************************************)
EndLink(p) ==
  /\ stage[p] = "linking"
  /\ \/ /\ files' = [files EXCEPT ![ExecutablePath(p)] = Executable(linked[p])]
        /\ End(p, "success")
     \/ /\ files' = [files EXCEPT ![ExecutablePath(p)] = Absent]
        /\ End(p, "failure")
  /\ UNCHANGED <<cmd, code, linked, shared, alone>>

(***************************************************************************)
(* A signal to the process group, which ends the linker too.               *)
(***************************************************************************)
Kill(p) ==
  /\ ~AtRest(p)
  /\ End(p, "killed")
  /\ UNCHANGED <<cmd, code, linked, files, shared, alone>>

AllEnded == (\A p \in Invocations : stage[p] = "ended") /\ UNCHANGED vars

Next ==
  \/ \E p \in Invocations :
       \/ Start(p) \/ ReadInput(p) \/ Compile(p) \/ Optimize(p)
       \/ OpenObject(p) \/ EmitObject(p) \/ EmitFails(p)
       \/ BeginLink(p) \/ EndLink(p) \/ Kill(p)
  \/ AllEnded

Spec == Init /\ [][Next]_vars

-----------------------------------------------------------------------------
TypeOK ==
  /\ cmd \in Assignments
  /\ stage \in [Invocations -> Stages]
  /\ \A p \in Invocations : code[p] \in Compilable \cup {NoBytes, cmd[p].program}
  /\ linked \in [Invocations -> Compilable \cup {NoBytes}]
  /\ exit \in [Invocations -> Exits]
  /\ files \in [Paths -> Contents]
  /\ shared \subseteq Invocations /\ alone \subseteq Invocations

Wrote(p) ==
  /\ files[ObjectPath(p)] = Object(cmd[p].program)
  /\ files[ExecutablePath(p)] = Executable(cmd[p].program)

Succeeded(p) == exit[p] = "success" /\ HasTarget(p)

(***************************************************************************)
(* Exit code 0 means that both files are there and are of the program      *)
(* given, as long as no invocation with the same base has overlapped or    *)
(* followed.  Whatever an earlier one left there, whole or half, when it   *)
(* failed or was killed, does not show; and invocations with other bases   *)
(* never touch the files, whatever their extensions are and however they   *)
(* overlap or die.                                                         *)
(***************************************************************************)
SuccessOwnsFiles == \A p \in alone : Succeeded(p) => Wrote(p)

(***************************************************************************)
(* What is at a path was made from the program of an invocation that was   *)
(* told to write there: of several that share a base the executable may be *)
(* another's, but it is never a stranger's or a rejected program's.        *)
(***************************************************************************)
MadeByOneAsked ==
  \A path \in Paths : files[path].kind \in {"object", "executable"} =>
    \E p \in Invocations :
      /\ path \in {ObjectPath(p), ExecutablePath(p)}
      /\ files[path].of = cmd[p].program
      /\ cmd[p].program \in Compilable
=============================================================================
