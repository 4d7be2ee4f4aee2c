-------------------------- MODULE FuzzHarnessProofs --------------------------
(***************************************************************************)
(* The fuzzing script can be believed, for any number of cases: its exit   *)
(* code and its summary say what the interpreter, stackc and the           *)
(* executables did in this run.                                            *)
(***************************************************************************)
EXTENDS FuzzHarness, TLAPS

Fresh   == {"interpret", "compile", "execute"}
Running == Fresh \cup {"compare", "summary"}

Judged(c) == c < case_index \/ step = "summary"

(***************************************************************************)
(* While the script runs, the verdicts it has gathered are right about the *)
(* cases it has judged, and it has told nobody yet.                        *)
(***************************************************************************)
Verdicts ==
  step \notin Final =>
    /\ exit = -1
    /\ summary_file.of # "this"
    /\ all_passed <=> summaries = {}
    /\ summaries = {c \in Cases : Judged(c) /\ ~Agree(c)}
    /\ step = "summary" => case_index = NumTestCases
    /\ step \in {"start", "prepare"} => case_index = 1

(***************************************************************************)
(* The output files of the cases to come are absent, since those of an     *)
(* earlier run were removed: what is read back is what the executable of   *)
(* this run wrote.                                                         *)
(***************************************************************************)
NothingStale ==
  /\ step \in Running =>
       \A c \in Cases :
         (c > case_index \/ (c = case_index /\ step \in Fresh)) => out[c] = "absent"
  /\ step = "compare" => out[case_index] = This.wrote

(***************************************************************************)
(* What the earlier steps of a turn have found out about its case.         *)
(***************************************************************************)
TurnSoFar ==
  /\ step = "compile" => This.interpreted \in {"words", "error"}
  /\ step \in {"execute", "compare"} =>
       This.interpreted = "words" /\ This.compiled = "zero"
  /\ step = "compare" => This.executed = "zero"

IInv ==
  /\ TypeOK
  /\ Verdicts
  /\ NothingStale
  /\ TurnSoFar
  /\ ZeroMeansAgreement
  /\ SummaryIsWhole

-----------------------------------------------------------------------------
(***************************************************************************)
(* Agree of the record of a case.                                          *)
(***************************************************************************)
Agreement(r) ==
  \/ r.interpreted = "error" /\ r.compiled = "nonzero"
  \/ /\ r.interpreted = "words" /\ r.compiled = "zero"
     /\ r.executed = "zero" /\ r.wrote = "expected"

LEMMA InitIInv == Init => IInv
<1> SUFFICES ASSUME Init PROVE IInv
  OBVIOUS
<1> USE FuzzHarnessAssumption
<1>1. TypeOK
  BY DEF Init, TypeOK, Steps, Final, Cases, Untouched, Record, Contents, Whole
<1> QED  BY <1>1 DEF Init, IInv, Verdicts, NothingStale, TurnSoFar, ZeroMeansAgreement,
             SummaryIsWhole, Judged, Running, Fresh, Final, Cases

(***************************************************************************)
(* At the end of a turn the verdicts are right about one case more, if the *)
(* verdict of the turn is right.                                           *)
(***************************************************************************)
LEMMA EndCaseKeepsVerdicts ==
  ASSUME IInv, NEW accepted \in BOOLEAN, EndCase(accepted),
         step \in {"compile", "execute", "compare"},
         \A c \in Cases : c # case_index => case'[c] = case[c],
         accepted <=> Agreement(case'[case_index]),
         case' \in [Cases -> Record], out' \in [Cases -> Contents],
         \A c \in Cases : c > case_index => out'[c] = out[c]
  PROVE  IInv'
<1> USE FuzzHarnessAssumption
<1> DEFINE verdict(c) == Agreement(case'[c])
<1>1. accepted <=> verdict(case_index)
  OBVIOUS
<1>2. \A c \in Cases : c # case_index => (verdict(c) <=> Agree(c))
  BY DEF Agree, Agreement
<1>0. \A c \in Cases : verdict(c) <=> Agree(c)'
  BY DEF Agree, Agreement
<1> HIDE DEF verdict
<1>3. /\ step \notin Final /\ step # "summary"
      /\ exit = -1 /\ summary_file.of # "this"
      /\ all_passed <=> summaries = {}
      /\ summaries = {c \in Cases : c < case_index /\ ~Agree(c)}
      /\ case_index \in Cases
  BY DEF IInv, TypeOK, Verdicts, Judged, Final
<1>4. /\ summaries' = {c \in Cases : c <= case_index /\ ~verdict(c)}
      /\ all_passed' <=> summaries' = {}
  <2>1. CASE accepted
    <3>1. summaries' = summaries /\ all_passed' = all_passed
      BY <2>1, <1>3 DEF EndCase, IInv, TypeOK
    <3> QED  BY <2>1, <3>1, <1>1, <1>2, <1>3 DEF Cases
  <2>2. CASE ~accepted
    <3>1. summaries' = summaries \cup {case_index} /\ ~all_passed'
      BY <2>2 DEF EndCase
    <3> QED  BY <2>2, <3>1, <1>1, <1>2, <1>3 DEF Cases
  <2> QED  BY <2>1, <2>2
<1>5. exit' = -1 /\ summary_file' = summary_file
  BY <1>3 DEF EndCase
<1>6. TypeOK'
  BY <1>3, <1>4, <1>5 DEF EndCase, IInv, TypeOK, Steps, Final, Cases, AtLast
<1>7. CASE AtLast
  <2>1. step' = "summary" /\ case_index' = case_index /\ case_index = NumTestCases
    BY <1>7 DEF EndCase, AtLast
  <2>2. summaries' = {c \in Cases : ~verdict(c)}
    BY <1>4, <2>1 DEF Cases
  <2>3. Verdicts'
    BY <1>3, <1>4, <1>5, <2>1, <2>2, <1>0 DEF Verdicts, Judged
  <2>4. NothingStale' /\ TurnSoFar'
    BY <2>1 DEF NothingStale, TurnSoFar, Fresh, Cases
  <2> QED  BY <1>3, <1>5, <1>6, <2>1, <2>3, <2>4
           DEF IInv, ZeroMeansAgreement, SummaryIsWhole
<1>8. CASE ~AtLast
  <2>1. step' = "interpret" /\ case_index' = case_index + 1
    BY <1>8 DEF EndCase
  <2>2. summaries' = {c \in Cases : c < case_index' /\ ~verdict(c)}
    BY <1>3, <1>4, <2>1 DEF Cases
  <2>3. Verdicts'
    BY <1>3, <1>4, <1>5, <2>1, <2>2, <1>0 DEF Verdicts, Judged
  <2>4. NothingStale'
    BY <1>3, <2>1 DEF IInv, NothingStale, Running, Fresh, Cases
  <2>5. TurnSoFar'
    BY <2>1 DEF TurnSoFar
  <2> QED  BY <1>3, <1>5, <1>6, <2>1, <2>3, <2>4, <2>5
           DEF IInv, ZeroMeansAgreement, SummaryIsWhole
<1> QED  BY <1>7, <1>8

(***************************************************************************)
(* Every step preserves it.                                                *)
(***************************************************************************)
LEMMA BeginKeeps ==
  ASSUME IInv, FindStackc \/ Prepare
  PROVE  IInv'
<1> USE FuzzHarnessAssumption
<1>1. CASE FindStackc
  <2>1. TypeOK'
    BY <1>1 DEF FindStackc, IInv, TypeOK, Steps, Final
  <2> QED  BY <1>1, <2>1 DEF FindStackc, IInv, TypeOK, Verdicts, NothingStale, TurnSoFar,
               ZeroMeansAgreement, SummaryIsWhole, Judged, Agree, Running, Fresh, Final
<1>2. CASE Prepare
  <2>1. TypeOK'
    BY <1>2 DEF Prepare, Emptied, IInv, TypeOK, Steps, Final, Contents
  <2> QED  BY <1>2, <2>1 DEF Prepare, Emptied, IInv, TypeOK, Verdicts, NothingStale, TurnSoFar,
               ZeroMeansAgreement, SummaryIsWhole, Judged, Agree, Running, Fresh, Final
<1> QED  BY <1>1, <1>2

LEMMA InterpretKeeps ==
  ASSUME IInv, Interpret
  PROVE  IInv'
<1> USE FuzzHarnessAssumption
<1>1. PICK verdict \in {"words", "error"} : Note("interpreted", verdict)
  BY DEF Interpret
<1>2. /\ step = "interpret" /\ step' = "compile"
      /\ UNCHANGED <<case_index, out, summaries, all_passed, summary_file, exit>>
  BY DEF Interpret
<1>3. TypeOK'
  BY <1>1, <1>2 DEF Note, IInv, TypeOK, Steps, Final, Record
<1>4. case'[case_index].interpreted = verdict
  BY <1>1 DEF Note, IInv, TypeOK, Record
<1>5. \A c \in Cases : c # case_index => (Agree(c)' <=> Agree(c))
  <2>1. \A c \in Cases : c # case_index => case'[c] = case[c]
    BY <1>1 DEF Note, IInv, TypeOK
  <2> QED  BY <2>1 DEF Agree
<1>6. summaries = {c \in Cases : c < case_index /\ ~Agree(c)}
  BY <1>2 DEF IInv, Verdicts, Judged, Final
<1>7. \A c \in Cases : c < case_index => c # case_index
  BY DEF IInv, TypeOK, Cases
<1>8. Verdicts'
  <2>1. summaries' = {c \in Cases : Judged(c)' /\ ~Agree(c)'}
    BY <1>2, <1>5, <1>6, <1>7 DEF Judged
  <2> QED  BY <1>2, <2>1 DEF IInv, Verdicts, Final
<1>9. NothingStale'
  BY <1>2 DEF IInv, NothingStale, Running, Fresh
<1>10. TurnSoFar'
  BY <1>1, <1>2, <1>4 DEF TurnSoFar, This
<1> QED  BY <1>10, <1>2, <1>3, <1>8, <1>9
         DEF IInv, Verdicts, Final, ZeroMeansAgreement, SummaryIsWhole

(***************************************************************************)
(* A step within a turn, which records something of its case.              *)
(***************************************************************************)
LEMMA TurnGoesOn ==
  ASSUME IInv, step \in {"interpret", "compile", "execute"},
         step' \in {"execute", "compare"},
         UNCHANGED <<case_index, summaries, all_passed, summary_file, exit>>,
         \A c \in Cases : c # case_index => case'[c] = case[c]
  PROVE  Verdicts' /\ ZeroMeansAgreement' /\ SummaryIsWhole'
<1> USE FuzzHarnessAssumption
<1>1. \A c \in Cases : c # case_index => (Agree(c)' <=> Agree(c))
  BY DEF Agree
<1>2. /\ summaries = {c \in Cases : c < case_index /\ ~Agree(c)}
      /\ \A c \in Cases : c < case_index => c # case_index
  BY DEF IInv, TypeOK, Verdicts, Judged, Final, Cases
<1>3. summaries' = {c \in Cases : Judged(c)' /\ ~Agree(c)'}
  BY <1>1, <1>2 DEF Judged
<1> QED  BY <1>3 DEF IInv, Verdicts, Final, ZeroMeansAgreement, SummaryIsWhole

LEMMA CompileKeeps ==
  ASSUME IInv, Compile
  PROVE  IInv'
<1> USE FuzzHarnessAssumption
<1>1. /\ step = "compile" /\ UNCHANGED out
      /\ TypeOK /\ This.interpreted \in {"words", "error"}
  BY DEF Compile, IInv, TurnSoFar
<1>2. ASSUME NEW code \in {"zero", "nonzero"}, Note("compiled", code)
      PROVE  /\ case' \in [Cases -> Record]
             /\ \A c \in Cases : c # case_index => case'[c] = case[c]
             /\ case'[case_index].compiled = code
             /\ case'[case_index].interpreted = This.interpreted
  <2>1. case' \in [Cases -> Record]
    BY <1>1, <1>2 DEF Note, TypeOK, Record
  <2> QED  BY <1>1, <1>2, <2>1 DEF Note, TypeOK, Record, This
<1>3. CASE Note("compiled", "nonzero") /\ EndCase(This.interpreted = "error")
  <2>1. (This.interpreted = "error") <=> Agreement(case'[case_index])
    BY <1>1, <1>2, <1>3 DEF Agreement
  <2>2. out' \in [Cases -> Contents] /\ \A c \in Cases : out'[c] = out[c]
    BY <1>1 DEF TypeOK
  <2> QED  BY <1>1, <1>2, <1>3, <2>1, <2>2, EndCaseKeepsVerdicts
<1>4. CASE Note("compiled", "zero") /\ This.interpreted = "error" /\ EndCase(FALSE)
  <2>1. FALSE <=> Agreement(case'[case_index])
    BY <1>2, <1>4 DEF Agreement
  <2>2. out' \in [Cases -> Contents] /\ \A c \in Cases : out'[c] = out[c]
    BY <1>1 DEF TypeOK
  <2> QED  BY <1>1, <1>2, <1>4, <2>1, <2>2, EndCaseKeepsVerdicts
<1>5. CASE /\ Note("compiled", "zero") /\ This.interpreted # "error"
           /\ step' = "execute"
           /\ UNCHANGED <<case_index, summaries, all_passed, summary_file, exit>>
  <2>1. TypeOK'
    BY <1>1, <1>2, <1>5 DEF TypeOK, Steps
  <2>2. Verdicts' /\ ZeroMeansAgreement' /\ SummaryIsWhole'
    BY <1>1, <1>2, <1>5, TurnGoesOn
  <2>3. NothingStale'
    BY <1>1, <1>5 DEF IInv, NothingStale, Running, Fresh
  <2>4. TurnSoFar'
    BY <1>1, <1>2, <1>5 DEF TurnSoFar, This
  <2> QED  BY <2>1, <2>2, <2>3, <2>4 DEF IInv
<1> QED  BY <1>3, <1>4, <1>5 DEF Compile

LEMMA ExecuteKeeps ==
  ASSUME IInv, Execute
  PROVE  IInv'
<1> USE FuzzHarnessAssumption
<1>1. /\ step = "execute" /\ TypeOK
      /\ This.interpreted = "words" /\ This.compiled = "zero"
  BY DEF Execute, IInv, TurnSoFar
<1>2. PICK code \in {"zero", "nonzero"}, content \in Contents :
        /\ case' = [case EXCEPT ![case_index].executed = code,
                                ![case_index].wrote = content]
        /\ out' = IF content = "absent" THEN out ELSE [out EXCEPT ![case_index] = content]
        /\ IF Failed(code)
           THEN EndCase(FALSE)
           ELSE /\ step' = "compare"
                /\ UNCHANGED <<case_index, summaries, all_passed, summary_file, exit>>
  BY DEF Execute
<1>3. /\ case' \in [Cases -> Record] /\ out' \in [Cases -> Contents]
      /\ \A c \in Cases : c # case_index => case'[c] = case[c] /\ out'[c] = out[c]
      /\ case'[case_index].executed = code
      /\ case'[case_index].wrote = content
      /\ case'[case_index].interpreted = "words"
      /\ case'[case_index].compiled = "zero"
  <2>1. case' \in [Cases -> Record]
    BY <1>1, <1>2 DEF TypeOK, Record
  <2>2. out' \in [Cases -> Contents]
    BY <1>1, <1>2 DEF TypeOK
  <2>3. \A c \in Cases : c # case_index => case'[c] = case[c] /\ out'[c] = out[c]
    BY <1>1, <1>2 DEF TypeOK
  <2>4. case'[case_index] = [[case[case_index] EXCEPT !.executed = code]
                               EXCEPT !.wrote = content]
    BY <1>1, <1>2 DEF TypeOK
  <2>5. case[case_index] \in Record
    BY <1>1 DEF TypeOK
  <2> QED  BY <1>1, <2>1, <2>2, <2>3, <2>4, <2>5 DEF Record, This
<1>4. CASE Failed(code)
  <2>1. FALSE <=> Agreement(case'[case_index])
    BY <1>3, <1>4 DEF Agreement, Failed
  <2>2. \A c \in Cases : c > case_index => c # case_index
    BY <1>1 DEF TypeOK, Cases
  <2> QED  BY <1>1, <1>2, <1>3, <1>4, <2>1, <2>2, EndCaseKeepsVerdicts
<1>5. CASE ~Failed(code)
  <2>1. TypeOK'
    BY <1>1, <1>2, <1>3, <1>5 DEF TypeOK, Steps
  <2>2. Verdicts' /\ ZeroMeansAgreement' /\ SummaryIsWhole'
    BY <1>1, <1>2, <1>3, <1>5, TurnGoesOn
  <2>3. NothingStale'
    <3>1. \A c \in Cases : c > case_index => out'[c] = "absent"
      BY <1>1, <1>3 DEF IInv, NothingStale, Running, Fresh, TypeOK, Cases
    <3>2. out'[case_index] = content
      BY <1>1, <1>2 DEF IInv, NothingStale, Running, Fresh, TypeOK
    <3> QED  BY <1>2, <1>3, <1>5, <3>1, <3>2 DEF NothingStale, This, Fresh
  <2>4. TurnSoFar'
    BY <1>2, <1>3, <1>5 DEF TurnSoFar, This, Failed
  <2> QED  BY <2>1, <2>2, <2>3, <2>4 DEF IInv
<1> QED  BY <1>4, <1>5

LEMMA CompareKeeps ==
  ASSUME IInv, Compare
  PROVE  IInv'
<1> USE FuzzHarnessAssumption
<1>1. /\ step = "compare" /\ TypeOK /\ UNCHANGED <<case, out>>
      /\ This.interpreted = "words" /\ This.compiled = "zero" /\ This.executed = "zero"
      /\ out[case_index] = This.wrote
  BY DEF Compare, IInv, TurnSoFar, NothingStale
<1>2. CASE out[case_index] \in Whole
  <2>1. EndCase(out[case_index] = "expected")
    BY <1>2 DEF Compare
  <2>2. (out[case_index] = "expected") <=> Agreement(case'[case_index])
    BY <1>1 DEF Agreement, This
  <2>3. /\ case' \in [Cases -> Record] /\ out' \in [Cases -> Contents]
        /\ \A c \in Cases : case'[c] = case[c] /\ out'[c] = out[c]
    BY <1>1 DEF TypeOK
  <2> QED  BY <1>1, <2>1, <2>2, <2>3, EndCaseKeepsVerdicts
<1>3. CASE out[case_index] \notin Whole
  <2>1. Die
    BY <1>3 DEF Compare
  <2>2. TypeOK'
    BY <1>1, <2>1 DEF Die, TypeOK, Steps, Final
  <2> QED  BY <1>1, <2>1, <2>2 DEF Die, IInv, Verdicts, NothingStale, TurnSoFar,
               ZeroMeansAgreement, SummaryIsWhole, Final, Running, Fresh
<1> QED  BY <1>2, <1>3

LEMMA EndKeeps ==
  ASSUME IInv, WriteSummary \/ Interrupted \/ UNCHANGED vars
  PROVE  IInv'
<1> USE FuzzHarnessAssumption
<1>1. CASE WriteSummary
  <2>1. TypeOK'
    BY <1>1 DEF WriteSummary, IInv, TypeOK, Steps, Final
  <2>2. summaries = {c \in Cases : ~Agree(c)} /\ (all_passed <=> summaries = {})
    BY <1>1 DEF WriteSummary, IInv, Verdicts, Judged, Final
  <2>3. ZeroMeansAgreement'
    BY <1>1, <2>2 DEF WriteSummary, ZeroMeansAgreement, Agree
  <2>4. SummaryIsWhole'
    BY <1>1, <2>2 DEF WriteSummary, SummaryIsWhole, Agree
  <2> QED  BY <1>1, <2>1, <2>3, <2>4 DEF WriteSummary, IInv, Verdicts, NothingStale,
               TurnSoFar, Final, Running, Fresh
<1>2. CASE Interrupted
  <2>1. TypeOK'
    BY <1>2 DEF Interrupted, IInv, TypeOK, Steps, Final
  <2>2. exit = -1 /\ summary_file.of # "this"
    BY <1>2 DEF Interrupted, IInv, Verdicts
  <2>3. exit' \in {-1, 1} /\ summary_file'.of # "this" /\ step' \in {"died", "killed"}
    BY <1>2, <2>2 DEF Interrupted
  <2> QED  BY <2>1, <2>3 DEF IInv, Verdicts, NothingStale, TurnSoFar,
               ZeroMeansAgreement, SummaryIsWhole, Final, Running, Fresh
<1>3. CASE UNCHANGED vars
  BY <1>3 DEF vars, IInv, TypeOK, Verdicts, NothingStale, TurnSoFar, This,
       ZeroMeansAgreement, SummaryIsWhole, Judged, Agree
<1> QED  BY <1>1, <1>2, <1>3

LEMMA NextIInv == IInv /\ [Next]_vars => IInv'
BY BeginKeeps, InterpretKeeps, CompileKeeps, ExecuteKeeps, CompareKeeps, EndKeeps
   DEF Next, Ended

LEMMA SpecIInv == Spec => []IInv
BY InitIInv, NextIInv, PTL DEF Spec

-----------------------------------------------------------------------------
(***************************************************************************)
(* The state of the script stays well formed, for any number of cases.     *)
(***************************************************************************)
THEOREM TypeCorrect == Spec => []TypeOK
<1>1. IInv => TypeOK
  BY DEF IInv
<1> QED  BY SpecIInv, <1>1, PTL

(***************************************************************************)
(* Exit code 0 means that in every case both sides failed or the           *)
(* executable of this run wrote what the interpreter says, and exit code 1 *)
(* of a script that got to its end that in some case they did not.         *)
(***************************************************************************)
THEOREM ExitCodeIsRight == Spec => []ZeroMeansAgreement
<1>1. IInv => ZeroMeansAgreement
  BY DEF IInv
<1> QED  BY SpecIInv, <1>1, PTL

(***************************************************************************)
(* The summary of this run lists the cases where they disagree, all of     *)
(* them and no other.                                                      *)
(***************************************************************************)
THEOREM SummaryIsRight == Spec => []SummaryIsWhole
<1>1. IInv => SummaryIsWhole
  BY DEF IInv
<1> QED  BY SpecIInv, <1>1, PTL
=============================================================================
