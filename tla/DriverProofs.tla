---------------------------- MODULE DriverProofs ----------------------------
(***************************************************************************)
(* Exit code 0 of stackc means that its files are there and its own,       *)
(* however many invocations overlap, fail and are killed, and whatever     *)
(* their paths and programs are.                                           *)
(***************************************************************************)
EXTENDS Driver, SequenceTheorems, TLAPS

(***************************************************************************)
(* What an invocation has established before it goes on to a stage.        *)
(***************************************************************************)
Progress ==
  \A p \in Invocations :
    /\ stage[p] # "ended" => exit[p] = "none"
    /\ stage[p] \notin {"start", "read", "ended"} => code[p] = cmd[p].program
    /\ stage[p] \in {"optimize", "open", "emit"} => code[p] \in Compilable
    /\ stage[p] \in {"open", "emit", "link", "linking"} => HasTarget(p)

(***************************************************************************)
(* What a linker has read was made from the program of an invocation with  *)
(* the same base: the object file can be another's, but not a stranger's.  *)
(***************************************************************************)
LinksOneAsked ==
  \A p \in Invocations : stage[p] = "linking" =>
    \E q \in Invocations :
      /\ Base(q) = Base(p)
      /\ linked[p] = cmd[q].program
      /\ cmd[q].program \in Compilable

(***************************************************************************)
(* No rival of an invocation that is alone is under way.                   *)
(***************************************************************************)
RivalsAtRest == \A p \in alone : \A q \in Rivals(p) : AtRest(q)

(***************************************************************************)
(* Nor has any had the object file open together with it.                  *)
(***************************************************************************)
SharedNotAlone == shared \cap alone = {} /\ \A p \in shared : stage[p] # "start"

(***************************************************************************)
(* Such an invocation finds in its files what it put there.                *)
(***************************************************************************)
FilesOwned ==
  \A p \in alone :
    /\ stage[p] \in {"link", "linking"} => files[ObjectPath(p)] = Object(cmd[p].program)
    /\ stage[p] = "linking" => linked[p] = cmd[p].program

IInv ==
  /\ TypeOK
  /\ code = [p \in Invocations |-> code[p]]
  /\ Progress
  /\ MadeByOneAsked
  /\ LinksOneAsked
  /\ RivalsAtRest
  /\ SharedNotAlone
  /\ FilesOwned
  /\ SuccessOwnsFiles

-----------------------------------------------------------------------------
(***************************************************************************)
(* The paths of invocations are sequences of strings, and different bases  *)
(* never make the same path.                                               *)
(***************************************************************************)
LEMMA BaseType ==
  ASSUME cmd \in Assignments, NEW p \in Invocations
  PROVE  Base(p) \in Seq(STRING)
<1> DEFINE t == cmd[p].target
<1>1. t \in Seq(STRING)
  BY DriverAssumption
<1>2. Len(t) > 1 => Front(t) \in Seq(STRING)
  <2> HIDE DEF t
  <2>1. Len(t) \in Nat /\ \A k \in 1..Len(t) : t[k] \in STRING
    BY <1>1, LenProperties, ElementOfSeq
  <2>2. \A k \in 1..(Len(t) - 1) : t[k] \in STRING
    BY <2>1
  <2> QED  BY <1>1, <2>1, <2>2, SubSeqProperties DEF Front
<1> QED  BY <1>1, <1>2 DEF Base, OutputBaseFor

LEMMA PathsApart ==
  ASSUME cmd \in Assignments, NEW p \in Invocations, NEW q \in Invocations
  PROVE  /\ ObjectPath(p) # ExecutablePath(q)
         /\ ObjectPath(p) = ObjectPath(q) <=> Base(p) = Base(q)
         /\ ExecutablePath(p) = ExecutablePath(q) <=> Base(p) = Base(q)
<1>1. Base(p) \in Seq(STRING) /\ Base(q) \in Seq(STRING)
  BY BaseType
<1>4. ".o" # ".out"
  OBVIOUS
<1> QED  BY <1>1, <1>4, AppendInjective
         DEF ObjectPath, ExecutablePath, ObjectPathFor, ExecutablePathFor

LEMMA PathsOf ==
  ASSUME cmd \in Assignments, NEW p \in Invocations, HasTarget(p)
  PROVE  ObjectPath(p) \in Paths /\ ExecutablePath(p) \in Paths
<1>1. cmd[p].target \in Targets
  BY DEF Targets, HasTarget
<1> QED  BY <1>1 DEF Paths, ObjectPath, ExecutablePath, Base

(***************************************************************************)
(* A command line never changes, nor does what is made of it.              *)
(***************************************************************************)
LEMMA CommandsStay ==
  ASSUME UNCHANGED cmd
  PROVE  \A p \in Invocations :
           /\ Base(p)' = Base(p) /\ Rivals(p)' = Rivals(p)
           /\ ObjectPath(p)' = ObjectPath(p) /\ ExecutablePath(p)' = ExecutablePath(p)
           /\ HasTarget(p)' <=> HasTarget(p)
BY DEF Base, Rivals, ObjectPath, ExecutablePath, HasTarget

LEMMA InitIInv == Init => IInv
<1> SUFFICES ASSUME Init PROVE IInv
  OBVIOUS
<1>1. TypeOK
  BY DEF Init, TypeOK, Stages, Exits, Contents
<1>2. \A path \in Paths : files[path].kind = "absent"
  BY DEF Init, Absent
<1> QED  BY <1>1, <1>2 DEF Init, IInv, Progress, MadeByOneAsked, LinksOneAsked,
             RivalsAtRest, SharedNotAlone, FilesOwned, SuccessOwnsFiles

(***************************************************************************)
(* A step of an invocation under way that touches no file.                 *)
(***************************************************************************)
Quiet(p, next, how) ==
  /\ ~AtRest(p)
  /\ Go(p, next)
  /\ exit' = [exit EXCEPT ![p] = how]
  /\ UNCHANGED <<cmd, linked, files, shared, alone>>
  /\ next \in {"compile", "optimize", "open", "ended"} /\ how \in Exits
  /\ next # "ended" => how = "none"
  /\ HasTarget(p) => how # "success"

LEMMA QuietStep ==
  ASSUME IInv, NEW p \in Invocations, NEW next, NEW how, Quiet(p, next, how),
         NEW read, code' = [code EXCEPT ![p] = read],
         read \in Compilable \cup {NoBytes, cmd[p].program},
         next # "ended" => read = cmd[p].program,
         next \in {"optimize", "open"} => read \in Compilable,
         next = "open" => HasTarget(p)
  PROVE  IInv'
<1>1. /\ stage' = [stage EXCEPT ![p] = next] /\ stage' \in [Invocations -> Stages]
      /\ exit' \in [Invocations -> Exits]
      /\ code' = [q \in Invocations |-> code'[q]]
      /\ \A q \in Invocations : q # p => /\ stage'[q] = stage[q] /\ exit'[q] = exit[q]
                                       /\ code'[q] = code[q]
      /\ stage'[p] = next /\ exit'[p] = how /\ code'[p] = read
      /\ stage[p] \notin {"start", "ended"}
  BY DEF Quiet, Go, IInv, TypeOK, Stages, AtRest
<1>2. UNCHANGED <<cmd, linked, files, shared, alone>>
  BY DEF Quiet
<1>3. TypeOK'
  BY <1>1, <1>2 DEF IInv, TypeOK
<1>4. Progress'
  BY <1>1, <1>2, CommandsStay DEF IInv, Progress, Quiet
<1>5. MadeByOneAsked'
  BY <1>2, CommandsStay DEF IInv, MadeByOneAsked
<1>6. LinksOneAsked'
  BY <1>1, <1>2, CommandsStay DEF IInv, LinksOneAsked, Quiet
<1>7. RivalsAtRest'
  <2>1. ASSUME NEW r \in alone, NEW q \in Rivals(r)
        PROVE  AtRest(q)'
    BY <1>1, <2>1 DEF IInv, RivalsAtRest, AtRest, Rivals
  <2> QED  BY <1>2, <2>1, CommandsStay DEF RivalsAtRest, IInv, TypeOK
<1>8. FilesOwned'
  BY <1>1, <1>2, CommandsStay DEF IInv, TypeOK, FilesOwned, Quiet
<1>9. SuccessOwnsFiles'
  <2>1. ASSUME NEW r \in alone, Succeeded(r)'
        PROVE  Wrote(r)'
    <3>1. Succeeded(r)
      BY <1>1, <1>2, <2>1, CommandsStay DEF Succeeded, IInv, TypeOK, Quiet
    <3> QED  BY <1>2, <3>1, CommandsStay DEF IInv, TypeOK, SuccessOwnsFiles, Wrote
  <2> QED  BY <1>2, <2>1 DEF SuccessOwnsFiles
<1>10. SharedNotAlone'
  BY <1>1, <1>2 DEF IInv, TypeOK, SharedNotAlone, Quiet
<1> QED  BY <1>1, <1>3, <1>4, <1>5, <1>6, <1>7, <1>8, <1>9, <1>10 DEF IInv

LEMMA QuietKeeps ==
  ASSUME IInv, NEW p \in Invocations,
         ReadInput(p) \/ Compile(p) \/ Optimize(p) \/ EmitFails(p) \/ Kill(p)
         \/ (~AtRest(p) /\ Fail(p))
  PROVE  IInv'
<1>1. /\ code[p] \in Compilable \cup {NoBytes, cmd[p].program}
      /\ code = [code EXCEPT ![p] = code[p]]
      /\ exit = [exit EXCEPT ![p] = exit[p]]
  BY DEF IInv, TypeOK
<1>2. ASSUME NEW how \in {"failure", "aborted", "killed"}, ~AtRest(p), End(p, how),
             UNCHANGED <<cmd, code, linked, files, shared, alone>>
      PROVE  IInv'
  <2>1. Quiet(p, "ended", how)
    BY <1>2 DEF Quiet, End, Exits
  <2> QED  BY <1>1, <1>2, <2>1, QuietStep
<1>3. CASE ~AtRest(p) /\ Fail(p)
  BY <1>2, <1>3 DEF Fail
<1>4. CASE ReadInput(p)
  <2>1. ~AtRest(p) /\ exit[p] = "none"
    BY <1>4 DEF ReadInput, AtRest, IInv, Progress
  <2>2. CASE Fail(p)
    BY <1>3, <2>1, <2>2
  <2>3. CASE /\ code' = [code EXCEPT ![p] = cmd[p].program]
             /\ Go(p, "compile")
             /\ UNCHANGED <<cmd, linked, exit, files, shared, alone>>
    <3>1. Quiet(p, "compile", "none")
      BY <1>1, <2>1, <2>3 DEF Quiet, Exits
    <3> DEFINE read == cmd[p].program
    <3>2. /\ code' = [code EXCEPT ![p] = read]
          /\ read \in Compilable \cup {NoBytes, cmd[p].program}
          /\ read = cmd[p].program
      BY <2>3
    <3> HIDE DEF read
    <3>3. "compile" # "ended" /\ "compile" \notin {"optimize", "open"}
      OBVIOUS
    <3> QED  BY <3>1, <3>2, <3>3, QuietStep, Zenon
  <2> QED  BY <1>4, <2>2, <2>3 DEF ReadInput
<1>5. CASE Compile(p)
  <2>1. ~AtRest(p) /\ exit[p] = "none" /\ code[p] = cmd[p].program
    BY <1>5 DEF Compile, AtRest, IInv, Progress
  <2>2. CASE Fail(p)
    BY <1>3, <2>1, <2>2
  <2>3. CASE /\ code[p] \in Compilable
             /\ Go(p, "optimize")
             /\ UNCHANGED <<cmd, code, linked, exit, files, shared, alone>>
    <3>1. Quiet(p, "optimize", "none")
      BY <1>1, <2>1, <2>3 DEF Quiet, Exits
    <3> QED  BY <1>1, <2>1, <2>3, <3>1, QuietStep
  <2> QED  BY <1>5, <2>2, <2>3 DEF Compile
<1>6. CASE Optimize(p)
  <2>1. /\ ~AtRest(p) /\ exit[p] = "none"
        /\ code[p] = cmd[p].program /\ code[p] \in Compilable
    BY <1>6 DEF Optimize, AtRest, IInv, Progress
  <2>2. CASE Fail(p)
    BY <1>3, <2>1, <2>2
  <2>3. CASE /\ HasTarget(p) /\ Go(p, "open")
             /\ UNCHANGED <<cmd, code, linked, exit, files, shared, alone>>
    <3>1. Quiet(p, "open", "none")
      BY <1>1, <2>1, <2>3 DEF Quiet, Exits
    <3> QED  BY <1>1, <2>1, <2>3, <3>1, QuietStep
  <2>4. CASE /\ ~HasTarget(p) /\ End(p, "success")
             /\ UNCHANGED <<cmd, code, linked, files, shared, alone>>
    <3>1. Quiet(p, "ended", "success")
      BY <2>1, <2>4 DEF Quiet, End, Exits
    <3> QED  BY <1>1, <2>4, <3>1, QuietStep
  <2> QED  BY <1>6, <2>2, <2>3, <2>4 DEF Optimize
<1>7. CASE EmitFails(p)
  BY <1>2, <1>7 DEF EmitFails, AtRest
<1>8. CASE Kill(p)
  BY <1>2, <1>8 DEF Kill
<1> QED  BY <1>3, <1>4, <1>5, <1>6, <1>7, <1>8

(***************************************************************************)
(* An invocation that starts is alone if its rivals are at rest, and they  *)
(* no longer are.                                                          *)
(***************************************************************************)
LEMMA StartKeeps ==
  ASSUME IInv, NEW p \in Invocations, Start(p)
  PROVE  IInv'
<1>1. /\ stage[p] = "start" /\ stage' \in [Invocations -> Stages] /\ stage'[p] = "read"
      /\ \A q \in Invocations : q # p => stage'[q] = stage[q]
      /\ UNCHANGED <<cmd, code, linked, exit, files, shared>>
      /\ exit[p] = "none"
  BY DEF Start, Go, IInv, TypeOK, Stages, Progress
<1>2. /\ alone' \subseteq Invocations
      /\ \A r \in alone' : r # p => r \in alone /\ r \notin Rivals(p)
      /\ p \in alone' => p \in alone \/ \A q \in Rivals(p) : AtRest(q)
  BY DEF Start, IInv, TypeOK, Rivals
<1>3. TypeOK'
  BY <1>1, <1>2 DEF IInv, TypeOK
<1>4. Progress'
  BY <1>1, CommandsStay DEF IInv, Progress
<1>5. MadeByOneAsked'
  BY <1>1, CommandsStay DEF IInv, MadeByOneAsked
<1>6. LinksOneAsked'
  BY <1>1, CommandsStay DEF IInv, LinksOneAsked
<1>7. RivalsAtRest'
  <2>1. ASSUME NEW r \in alone', NEW q \in Rivals(r)
        PROVE  AtRest(q)'
    <3>1. q \in Invocations /\ q # r /\ Base(q) = Base(r)
      BY <2>1 DEF Rivals
    <3>2. AtRest(q) /\ q # p
      <4>1. CASE r = p
        BY <1>2, <2>1, <3>1, <4>1 DEF IInv, RivalsAtRest
      <4>2. CASE r # p
        <5>1. r \in alone /\ r \notin Rivals(p) /\ r \in Invocations
          BY <1>2, <4>2
        <5>2. q # p
          BY <3>1, <5>1 DEF Rivals
        <5> QED  BY <2>1, <5>1, <5>2 DEF IInv, RivalsAtRest
      <4> QED  BY <4>1, <4>2
    <3> QED  BY <1>1, <3>1, <3>2 DEF AtRest
  <2> QED  BY <1>1, <1>2, <2>1, CommandsStay DEF RivalsAtRest
<1>8. FilesOwned'
  BY <1>1, <1>2, CommandsStay DEF IInv, FilesOwned
<1>9. SuccessOwnsFiles'
  <2>1. ASSUME NEW r \in alone', Succeeded(r)'
        PROVE  Wrote(r)'
    <3>1. Succeeded(r) /\ r \in Invocations /\ r \in alone
      BY <1>1, <1>2, <2>1, CommandsStay DEF Succeeded
    <3> QED  BY <1>1, <3>1, CommandsStay DEF IInv, SuccessOwnsFiles, Wrote
  <2> QED  BY <2>1 DEF SuccessOwnsFiles
<1>10. SharedNotAlone'
  <2>1. p \notin shared
    BY <1>1 DEF IInv, SharedNotAlone
  <2>2. shared' = shared /\ shared \cap alone' = {}
    BY <1>1, <1>2, <2>1 DEF IInv, SharedNotAlone
  <2>3. \A q \in shared : q \in Invocations /\ q # p /\ stage[q] # "start"
    BY <2>1 DEF IInv, TypeOK, SharedNotAlone
  <2> QED  BY <1>1, <2>2, <2>3 DEF SharedNotAlone
<1> QED  BY <1>1, <1>3, <1>4, <1>5, <1>6, <1>7, <1>8, <1>9, <1>10 DEF IInv

(***************************************************************************)
(* A step of an invocation under way that writes one of its own files: it  *)
(* leaves those of any other that is alone as they are, because that other *)
(* is no rival.                                                            *)
(***************************************************************************)
Writes(p, path, content) ==
  /\ ~AtRest(p) /\ HasTarget(p)
  /\ path \in {ObjectPath(p), ExecutablePath(p)}
  /\ content \in Contents
  /\ files' = [files EXCEPT ![path] = content]
  /\ UNCHANGED <<cmd, code, alone>>
  /\ shared' \subseteq Invocations /\ shared' \cap alone = {}
  /\ \A q \in shared' : stage[q] # "start"

(***************************************************************************)
(* The rest of the state of the others, which such a step leaves alone.    *)
(***************************************************************************)
OthersStay(p) ==
  /\ stage' \in [Invocations -> Stages]
  /\ exit' \in [Invocations -> Exits]
  /\ linked' \in [Invocations -> Compilable \cup {NoBytes}]
  /\ \A q \in Invocations : q # p =>
       stage'[q] = stage[q] /\ exit'[q] = exit[q] /\ linked'[q] = linked[q]

LEMMA WriteStep ==
  ASSUME IInv, NEW p \in Invocations, NEW path, NEW content,
         Writes(p, path, content), OthersStay(p)
  PROVE  /\ TypeOK'
         /\ code' = [q \in Invocations |-> code'[q]]
         /\ RivalsAtRest'
         /\ \A r \in alone : r # p =>
              /\ files'[ObjectPath(r)] = files[ObjectPath(r)]
              /\ files'[ExecutablePath(r)] = files[ExecutablePath(r)]
<1>1. /\ cmd \in Assignments /\ path \in Paths
      /\ files \in [Paths -> Contents] /\ files' \in [Paths -> Contents]
  BY PathsOf DEF IInv, TypeOK, Writes
<1>2. TypeOK'
  BY <1>1 DEF IInv, TypeOK, Writes, OthersStay
<1>3. RivalsAtRest'
  <2>1. ASSUME NEW r \in alone, NEW q \in Rivals(r)
        PROVE  AtRest(q)'
    BY <2>1 DEF IInv, RivalsAtRest, AtRest, Rivals, Writes, OthersStay
  <2> QED  BY <2>1, CommandsStay DEF RivalsAtRest, IInv, TypeOK, Writes
<1>4. ASSUME NEW r \in alone, r # p
      PROVE  /\ files'[ObjectPath(r)] = files[ObjectPath(r)]
             /\ files'[ExecutablePath(r)] = files[ExecutablePath(r)]
  <2>1. r \in Invocations
    BY DEF IInv, TypeOK
  <2>2. Base(r) # Base(p)
    BY <1>4, <2>1 DEF IInv, RivalsAtRest, Rivals, Writes
  <2>3. path # ObjectPath(r) /\ path # ExecutablePath(r)
    BY <1>1, <2>1, <2>2, PathsApart DEF Writes
  <2> QED  BY <1>1, <2>3 DEF Writes
<1> QED  BY <1>2, <1>3, <1>4 DEF IInv, Writes

LEMMA WriteKeeps ==
  ASSUME IInv, NEW p \in Invocations, NEW path, NEW content,
         Writes(p, path, content), OthersStay(p),
         stage'[p] # "ended" => exit'[p] = "none",
         stage'[p] \in {"emit", "link", "linking", "ended"},
         stage'[p] # "ended" => code[p] = cmd[p].program,
         stage'[p] = "emit" => code[p] \in Compilable,
         content.kind \in {"object", "executable"} =>
           \E q \in Invocations : /\ path \in {ObjectPath(q), ExecutablePath(q)}
                                 /\ content.of = cmd[q].program
                                 /\ cmd[q].program \in Compilable,
         stage'[p] = "linking" =>
           \E q \in Invocations : /\ Base(q) = Base(p)
                                 /\ linked'[p] = cmd[q].program
                                 /\ cmd[q].program \in Compilable,
         p \in alone =>
           /\ stage'[p] \in {"link", "linking"} \/ exit'[p] = "success" =>
                files'[ObjectPath(p)] = Object(cmd[p].program)
           /\ stage'[p] = "linking" => linked'[p] = cmd[p].program
           /\ exit'[p] = "success" =>
                files'[ExecutablePath(p)] = Executable(cmd[p].program)
  PROVE  IInv'
<1>1. /\ TypeOK' /\ code' = [q \in Invocations |-> code'[q]] /\ RivalsAtRest'
      /\ \A r \in alone : r # p =>
           /\ files'[ObjectPath(r)] = files[ObjectPath(r)]
           /\ files'[ExecutablePath(r)] = files[ExecutablePath(r)]
  BY WriteStep
<1>2. UNCHANGED <<cmd, code, alone>> /\ alone \subseteq Invocations /\ HasTarget(p)
  BY DEF Writes, IInv, TypeOK
<1>3. \A q \in Invocations : q # p =>
        stage'[q] = stage[q] /\ exit'[q] = exit[q] /\ linked'[q] = linked[q]
  BY DEF OthersStay
<1>4. Progress'
  BY <1>2, <1>3, CommandsStay DEF IInv, Progress
<1>5. MadeByOneAsked'
  <2>1. ASSUME NEW other \in Paths, files'[other].kind \in {"object", "executable"}
        PROVE  \E q \in Invocations : /\ other \in {ObjectPath(q), ExecutablePath(q)}
                                      /\ files'[other].of = cmd[q].program
                                      /\ cmd[q].program \in Compilable
    <3>1. files'[other] = IF other = path THEN content ELSE files[other]
      BY DEF Writes, IInv, TypeOK
    <3>2. CASE other = path
      BY <2>1, <3>1, <3>2
    <3>3. CASE other # path
      BY <2>1, <3>1, <3>3 DEF IInv, MadeByOneAsked
    <3> QED  BY <3>2, <3>3
  <2> QED  BY <1>2, <2>1, CommandsStay DEF MadeByOneAsked
<1>6. LinksOneAsked'
  BY <1>2, <1>3, CommandsStay DEF IInv, LinksOneAsked
<1>7. FilesOwned'
  <2>1. ASSUME NEW r \in alone
        PROVE  /\ stage'[r] \in {"link", "linking"} =>
                    files'[ObjectPath(r)] = Object(cmd[r].program)
               /\ stage'[r] = "linking" => linked'[r] = cmd[r].program
    <3>1. CASE r = p
      BY <3>1
    <3>2. CASE r # p
      BY <1>1, <1>2, <1>3, <3>2 DEF IInv, FilesOwned
    <3> QED  BY <3>1, <3>2
  <2> QED  BY <1>2, <2>1, CommandsStay DEF FilesOwned
<1>8. SuccessOwnsFiles'
  <2>1. ASSUME NEW r \in alone, exit'[r] = "success", HasTarget(r)
        PROVE  /\ files'[ObjectPath(r)] = Object(cmd[r].program)
               /\ files'[ExecutablePath(r)] = Executable(cmd[r].program)
    <3>1. CASE r = p
      BY <2>1, <3>1
    <3>2. CASE r # p
      <4>1. Succeeded(r)
        BY <1>2, <1>3, <2>1, <3>2 DEF Succeeded
      <4> QED  BY <1>1, <3>2, <4>1 DEF IInv, SuccessOwnsFiles, Wrote
    <3> QED  BY <3>1, <3>2
  <2> QED  BY <1>2, <2>1, CommandsStay DEF SuccessOwnsFiles, Succeeded, Wrote
<1>9. SharedNotAlone'
  <2>1. stage'[p] # "start"
    OBVIOUS
  <2> QED  BY <1>2, <1>3, <2>1 DEF SharedNotAlone, Writes
<1> QED  BY <1>1, <1>4, <1>5, <1>6, <1>7, <1>8, <1>9 DEF IInv

(***************************************************************************)
(* Whoever has the same file open is a rival under way, so that neither    *)
(* is alone.                                                               *)
(***************************************************************************)
LEMMA OpenKeeps ==
  ASSUME IInv, NEW p \in Invocations, OpenObject(p)
  PROVE  IInv'
<1>1. ~AtRest(p) /\ HasTarget(p) /\ stage[p] = "open"
  BY DEF OpenObject, AtRest, IInv, Progress
<1>2. CASE Fail(p)
  BY <1>1, <1>2, QuietKeeps
<1>3. CASE /\ files' = [files EXCEPT ![ObjectPath(p)] = Partial]
           /\ shared' = IF Writers(p) = {} THEN shared ELSE shared \cup Writers(p) \cup {p}
           /\ Go(p, "emit")
           /\ UNCHANGED <<cmd, code, linked, exit, alone>>
  <2>1. ASSUME NEW q \in Writers(p)
        PROVE  q \in Invocations /\ q \notin alone /\ p \notin alone /\ stage[q] = "emit"
    <3>1. q \in Invocations /\ q # p /\ stage[q] = "emit" /\ ObjectPath(q) = ObjectPath(p)
      BY DEF Writers
    <3>2. Base(q) = Base(p)
      BY <3>1, PathsApart DEF IInv, TypeOK
    <3>3. q \in Rivals(p) /\ p \in Rivals(q) /\ ~AtRest(q)
      BY <3>1, <3>2 DEF Rivals, AtRest
    <3> QED  BY <1>1, <3>1, <3>3 DEF IInv, RivalsAtRest
  <2>2. /\ shared' \subseteq Invocations /\ shared' \cap alone = {}
        /\ \A q \in shared' : stage[q] # "start"
    <3>1. shared \subseteq Invocations /\ shared \cap alone = {} /\ \A q \in shared : stage[q] # "start"
      BY DEF IInv, TypeOK, SharedNotAlone
    <3> QED  BY <1>1, <1>3, <2>1, <3>1
  <2>3. Writes(p, ObjectPath(p), Partial)
    BY <1>1, <1>3, <2>2 DEF Writes, Contents
  <2>4. OthersStay(p) /\ stage'[p] = "emit"
    BY <1>3 DEF OthersStay, Go, IInv, TypeOK, Stages
  <2>5. exit'[p] = "none" /\ code[p] = cmd[p].program /\ code[p] \in Compilable
    BY <1>1, <1>3 DEF IInv, Progress
  <2>6. Partial.kind \notin {"object", "executable"}
    BY DEF Partial
  <2> QED  BY <2>3, <2>4, <2>5, <2>6, WriteKeeps
<1> QED  BY <1>2, <1>3 DEF OpenObject

(***************************************************************************)
(* The bytes are mixed only if a rival has had the file open, too.         *)
(***************************************************************************)
LEMMA EmitKeeps ==
  ASSUME IInv, NEW p \in Invocations, EmitObject(p)
  PROVE  IInv'
<1>1. /\ ~AtRest(p) /\ HasTarget(p) /\ cmd \in Assignments
      /\ exit[p] = "none" /\ code[p] = cmd[p].program /\ code[p] \in Compilable
  BY DEF EmitObject, AtRest, IInv, TypeOK, Progress
<1>2. PICK content \in {Object(code[p]), Partial} :
        /\ content = Partial => p \in shared
        /\ files' = [files EXCEPT ![ObjectPath(p)] = content]
  BY DEF EmitObject
<1>3. UNCHANGED <<cmd, code, linked, exit, shared, alone>> /\ Go(p, "link")
  BY DEF EmitObject
<1>4. Writes(p, ObjectPath(p), content)
  BY <1>1, <1>2, <1>3 DEF Writes, Contents, IInv, TypeOK, SharedNotAlone
<1>5. OthersStay(p) /\ stage'[p] = "link"
  BY <1>3 DEF OthersStay, Go, IInv, TypeOK, Stages
<1>6. content.kind \in {"object", "executable"} =>
        \E q \in Invocations : /\ ObjectPath(p) \in {ObjectPath(q), ExecutablePath(q)}
                              /\ content.of = cmd[q].program
                              /\ cmd[q].program \in Compilable
  <2>1. CASE content = Partial
    BY <2>1 DEF Partial
  <2>2. CASE content = Object(code[p])
    <3>1. content.of = code[p]
      BY <2>2 DEF Object
    <3> QED  BY <1>1, <3>1
  <2> QED  BY <1>2, <2>1, <2>2
<1>7. p \in alone => files'[ObjectPath(p)] = Object(cmd[p].program)
  <2>1. ASSUME p \in alone, content = Partial
        PROVE  FALSE
    BY <1>2, <2>1 DEF IInv, SharedNotAlone
  <2>2. files'[ObjectPath(p)] = content
    BY <1>1, <1>2, PathsOf DEF IInv, TypeOK
  <2> QED  BY <1>1, <1>2, <2>1, <2>2
<1> QED  BY <1>1, <1>3, <1>4, <1>5, <1>6, <1>7, WriteKeeps

(***************************************************************************)
(* The linker reads an object file that the invocation itself or a rival   *)
(* has written: no other path is the same.                                 *)
(***************************************************************************)
LEMMA BeginLinkKeeps ==
  ASSUME IInv, NEW p \in Invocations, BeginLink(p)
  PROVE  IInv'
<1>1. /\ ~AtRest(p) /\ HasTarget(p) /\ cmd \in Assignments /\ stage[p] = "link"
      /\ exit[p] = "none" /\ code[p] = cmd[p].program
  BY DEF BeginLink, AtRest, IInv, TypeOK, Progress
<1>2. CASE Fail(p)
  BY <1>1, <1>2, QuietKeeps
<1>3. CASE /\ files[ObjectPath(p)].kind = "object"
           /\ linked' = [linked EXCEPT ![p] = files[ObjectPath(p)].of]
           /\ files' = [files EXCEPT ![ExecutablePath(p)] = Partial]
           /\ Go(p, "linking")
           /\ UNCHANGED <<cmd, code, exit, shared, alone>>
  <2>1. /\ ObjectPath(p) \in Paths /\ ObjectPath(p) # ExecutablePath(p)
        /\ files[ObjectPath(p)] \in Contents
    BY <1>1, PathsOf, PathsApart DEF IInv, TypeOK
  <2>2. PICK q \in Invocations :
          /\ ObjectPath(p) \in {ObjectPath(q), ExecutablePath(q)}
          /\ files[ObjectPath(p)].of = cmd[q].program
          /\ cmd[q].program \in Compilable
    BY <1>3, <2>1 DEF IInv, MadeByOneAsked
  <2>3. Base(q) = Base(p)
    BY <1>1, <2>2, PathsApart
  <2>4. Writes(p, ExecutablePath(p), Partial)
    BY <1>1, <1>3 DEF Writes, Contents, IInv, TypeOK, SharedNotAlone
  <2>5. /\ OthersStay(p) /\ stage'[p] = "linking"
        /\ linked'[p] = cmd[q].program
    BY <1>3, <2>2 DEF OthersStay, Go, IInv, TypeOK, Stages
  <2>6. Partial.kind \notin {"object", "executable"}
    BY DEF Partial
  <2>7. p \in alone => /\ files'[ObjectPath(p)] = Object(cmd[p].program)
                       /\ linked'[p] = cmd[p].program
    <3>1. p \in alone => files[ObjectPath(p)] = Object(cmd[p].program)
      BY <1>1 DEF IInv, FilesOwned
    <3>2. Object(cmd[p].program).of = cmd[p].program
      BY DEF Object
    <3>3. files'[ObjectPath(p)] = files[ObjectPath(p)]
      BY <1>3, <2>1 DEF IInv, TypeOK
    <3> QED  BY <2>2, <2>5, <3>1, <3>2, <3>3
  <2>8. exit'[p] = "none" /\ linked'[p] = cmd[q].program
    BY <1>1, <1>3, <2>5
  <2> QED  BY <1>1, <2>2, <2>3, <2>4, <2>5, <2>6, <2>7, <2>8, WriteKeeps
<1> QED  BY <1>2, <1>3 DEF BeginLink

LEMMA EndLinkKeeps ==
  ASSUME IInv, NEW p \in Invocations, EndLink(p)
  PROVE  IInv'
<1>1. /\ ~AtRest(p) /\ HasTarget(p) /\ cmd \in Assignments /\ stage[p] = "linking"
      /\ ExecutablePath(p) \in Paths /\ ObjectPath(p) # ExecutablePath(p)
  BY PathsOf, PathsApart DEF EndLink, AtRest, IInv, TypeOK, Progress
<1>2. PICK q \in Invocations : /\ Base(q) = Base(p)
                              /\ linked[p] = cmd[q].program
                              /\ cmd[q].program \in Compilable
  BY <1>1 DEF IInv, LinksOneAsked
<1>3. UNCHANGED <<cmd, code, linked, shared, alone>>
  BY DEF EndLink
<1>4. PICK content \in {Executable(linked[p]), Absent}, how \in {"success", "failure"} :
        /\ files' = [files EXCEPT ![ExecutablePath(p)] = content]
        /\ End(p, how)
        /\ how = "success" => content = Executable(linked[p])
  BY DEF EndLink
<1>5. Writes(p, ExecutablePath(p), content)
  BY <1>1, <1>2, <1>3, <1>4 DEF Writes, Contents, IInv, TypeOK, SharedNotAlone
<1>6. OthersStay(p) /\ stage'[p] = "ended" /\ exit'[p] = how
  BY <1>3, <1>4 DEF OthersStay, End, Go, IInv, TypeOK, Stages, Exits
<1>7. content.kind \in {"object", "executable"} =>
        \E r \in Invocations : /\ ExecutablePath(p) \in {ObjectPath(r), ExecutablePath(r)}
                              /\ content.of = cmd[r].program
                              /\ cmd[r].program \in Compilable
  <2>1. CASE content = Absent
    BY <2>1 DEF Absent
  <2>2. CASE content = Executable(linked[p])
    <3>1. content.of = cmd[q].program
      BY <1>2, <2>2 DEF Executable
    <3>2. ExecutablePath(p) = ExecutablePath(q)
      BY <1>1, <1>2, PathsApart
    <3> QED  BY <1>2, <3>1, <3>2
  <2> QED  BY <1>4, <2>1, <2>2
<1>8. p \in alone /\ exit'[p] = "success" =>
        /\ files'[ObjectPath(p)] = Object(cmd[p].program)
        /\ files'[ExecutablePath(p)] = Executable(cmd[p].program)
  <2>1. p \in alone => /\ files[ObjectPath(p)] = Object(cmd[p].program)
                       /\ linked[p] = cmd[p].program
    BY <1>1 DEF IInv, FilesOwned
  <2>2. /\ files'[ExecutablePath(p)] = content
        /\ files'[ObjectPath(p)] = files[ObjectPath(p)]
    <3>1. ObjectPath(p) \in Paths
      BY <1>1, PathsOf
    <3> QED  BY <1>1, <1>4, <3>1 DEF IInv, TypeOK
  <2> QED  BY <1>4, <1>6, <2>1, <2>2
<1> QED  BY <1>5, <1>6, <1>7, <1>8, WriteKeeps

LEMMA NextIInv == IInv /\ [Next]_vars => IInv'
<1> SUFFICES ASSUME IInv, [Next]_vars PROVE IInv'
  OBVIOUS
<1>1. ASSUME UNCHANGED vars PROVE IInv'
  <2>1. UNCHANGED <<cmd, stage, code, linked, exit, files, shared, alone>>
    BY <1>1 DEF vars
  <2> USE <2>1, CommandsStay DEF IInv
  <2>2. TypeOK'
    BY DEF TypeOK
  <2>3. Progress' /\ MadeByOneAsked' /\ LinksOneAsked'
    BY DEF Progress, MadeByOneAsked, LinksOneAsked
  <2>4. RivalsAtRest' /\ FilesOwned' /\ SuccessOwnsFiles'
    BY DEF TypeOK, RivalsAtRest, AtRest, Rivals, FilesOwned, SuccessOwnsFiles, Succeeded, Wrote
  <2>5. SharedNotAlone'
    BY DEF SharedNotAlone
  <2> QED  BY <2>2, <2>3, <2>4, <2>5
<1>2. ASSUME NEW p \in Invocations,
             \/ Start(p) \/ ReadInput(p) \/ Compile(p) \/ Optimize(p)
             \/ OpenObject(p) \/ EmitObject(p) \/ EmitFails(p)
             \/ BeginLink(p) \/ EndLink(p) \/ Kill(p)
      PROVE  IInv'
  BY <1>2, StartKeeps, QuietKeeps, OpenKeeps, EmitKeeps, BeginLinkKeeps, EndLinkKeeps
<1> QED  BY <1>1, <1>2 DEF Next, AllEnded

LEMMA SpecIInv == Spec => []IInv
BY InitIInv, NextIInv, PTL DEF Spec

-----------------------------------------------------------------------------
(***************************************************************************)
(* The state stays well formed, for any invocations with any paths and     *)
(* programs: only programs that compile are ever in a file.                *)
(***************************************************************************)
THEOREM TypeCorrect == Spec => []TypeOK
<1>1. IInv => TypeOK
  BY DEF IInv
<1> QED  BY SpecIInv, <1>1, PTL

(***************************************************************************)
(* What is at a path was made from the program of an invocation told to    *)
(* write there, for any number of invocations that overlap in any way.     *)
(***************************************************************************)
THEOREM NothingStrange == Spec => []MadeByOneAsked
<1>1. IInv => MadeByOneAsked
  BY DEF IInv
<1> QED  BY SpecIInv, <1>1, PTL

(***************************************************************************)
(* An invocation that ends with exit code 0 and was alone with its base    *)
(* finds both its files, made from its own program.                        *)
(***************************************************************************)
THEOREM SuccessIsOwn == Spec => []SuccessOwnsFiles
<1>1. IInv => SuccessOwnsFiles
  BY DEF IInv
<1> QED  BY SpecIInv, <1>1, PTL
=============================================================================
