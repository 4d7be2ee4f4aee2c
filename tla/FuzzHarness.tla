----------------------------- MODULE FuzzHarness -----------------------------
(***************************************************************************)
(* The main program of test/fuzz/fuzzer.py: for each of a number of random *)
(* cases it interprets the program, has stackc compile it, runs the        *)
(* executable and compares, and at the end writes a summary.  stackc and   *)
(* the executable are processes that may do anything, right or wrong; the  *)
(* reference interpreter is the module Interpreter, of which only whether  *)
(* it fails matters here.                                                  *)
(***************************************************************************)
EXTENDS Integers, FiniteSets

CONSTANT NumTestCases

ASSUME FuzzHarnessAssumption == NumTestCases \in Nat \ {0}

Cases == 1..NumTestCases

(***************************************************************************)
(* What an output file may hold, against the words expected of the program *)
(* of this run: those, as many others, another number of bytes.            *)
(***************************************************************************)
Whole    == {"expected", "different"}
Contents == Whole \cup {"absent", "ragged"}

VARIABLES
  step,          \* what the script is about to do
  case_index,    \* the case it is at
  case,          \* what has happened in each case of this run
  out,           \* the output file of each case
  summaries,     \* the cases found to fail
  all_passed,    \* no case was found to fail
  summary_file,  \* summary.txt: of which run it is, and the cases it lists
  exit           \* the exit code; -1 while there is none

vars == <<step, case_index, case, out, summaries, all_passed, summary_file, exit>>

Final == {"ended", "died", "killed"}
Steps == {"start", "prepare", "interpret", "compile", "execute", "compare", "summary"} \cup Final

(***************************************************************************)
(* interpreted: "words" or "error"; compiled, executed: the exit code is   *)
(* 0, or not; wrote: what the executable of this run left in the file.     *)
(***************************************************************************)
Untouched == [interpreted |-> "not", compiled |-> "not", executed |-> "not", wrote |-> "absent"]

Record == [interpreted : {"not", "words", "error"}, compiled : {"not", "zero", "nonzero"},
           executed : {"not", "zero", "nonzero"}, wrote : Contents]

-----------------------------------------------------------------------------
(***************************************************************************)
(* An earlier run may have left its directories and its summary.           *)
(***************************************************************************)
Init ==
  /\ step = "start"
  /\ case_index = 1
  /\ case = [c \in Cases |-> Untouched]
  /\ out \in [Cases -> Contents]
  /\ summaries = {}
  /\ all_passed = TRUE
  /\ summary_file \in [of : {"none", "earlier"}, lists : {{}}]
  /\ exit = -1

This == case[case_index]

Note(field, value) == case' = [case EXCEPT ![case_index][field] = value]

(***************************************************************************)
(* An exception that nothing catches: exit code 1, and no summary.         *)
(***************************************************************************)
Die ==
  /\ step' = "died"
  /\ exit' = 1
  /\ UNCHANGED <<case_index, summaries, all_passed, summary_file>>

AtLastLate == case_index > NumTestCases  \* mutant: one turn too many
AtLast     == case_index = NumTestCases

(***************************************************************************)
(* The end of a turn of the main loop, with what evaluate_case returned.   *)
(***************************************************************************)
EndCase(accepted) ==
  /\ summaries' = IF accepted THEN summaries ELSE summaries \cup {case_index}
  /\ all_passed' = (all_passed /\ accepted)
  /\ IF AtLast
     THEN step' = "summary" /\ UNCHANGED case_index
     ELSE step' = "interpret" /\ case_index' = case_index + 1
  /\ UNCHANGED <<summary_file, exit>>

-----------------------------------------------------------------------------
(***************************************************************************)
(* Without stackc the script ends at once, with exit code 2.               *)
(***************************************************************************)
FindStackc ==
  /\ step = "start"
  /\ \/ step' = "prepare" /\ UNCHANGED exit
     \/ step' = "ended" /\ exit' = 2
  /\ UNCHANGED <<case_index, case, out, summaries, all_passed, summary_file>>

(***************************************************************************)
(* prepare_corpus_dir removes the directories of an earlier run.           *)
(***************************************************************************)
Kept    == out                         \* mutant: it keeps them
Emptied == [c \in Cases |-> "absent"]

Prepare ==
  /\ step = "prepare"
  /\ out' = Emptied
  /\ step' = "interpret"
  /\ UNCHANGED <<case_index, case, summaries, all_passed, summary_file, exit>>

Interpret ==
  /\ step = "interpret"
  /\ \E verdict \in {"words", "error"} : Note("interpreted", verdict)
  /\ step' = "compile"
  /\ UNCHANGED <<case_index, out, summaries, all_passed, summary_file, exit>>

(***************************************************************************)
(* That stackc fails is right if the interpreter does, whatever the reason *)
(* that stackc has.                                                        *)
(***************************************************************************)
Compile ==
  /\ step = "compile"
  /\ \/ /\ Note("compiled", "nonzero")
        /\ EndCase(This.interpreted = "error")
     \/ /\ Note("compiled", "zero")
        /\ IF This.interpreted = "error"
           THEN EndCase(FALSE)
           ELSE /\ step' = "execute"
                /\ UNCHANGED <<case_index, summaries, all_passed, summary_file, exit>>
  /\ UNCHANGED out

(***************************************************************************)
(* The executable writes its output, a part of it or none at all: its exit *)
(* code does not tell (see Write of Wrapper).                              *)
(***************************************************************************)
FailedNever(code) == FALSE  \* mutant: the exit code is ignored
Failed(code)      == code = "nonzero"

Execute ==
  /\ step = "execute"
  /\ \E code \in {"zero", "nonzero"}, content \in Contents :
       /\ case' = [case EXCEPT ![case_index].executed = code,
                               ![case_index].wrote = content]
       /\ out' = IF content = "absent" THEN out ELSE [out EXCEPT ![case_index] = content]
       /\ IF Failed(code)
          THEN EndCase(FALSE)
          ELSE /\ step' = "compare"
               /\ UNCHANGED <<case_index, summaries, all_passed, summary_file, exit>>

(***************************************************************************)
(* decode_words raises an exception for a file that is absent or has the   *)
(* wrong size, and nothing catches it; otherwise the words are compared.   *)
(***************************************************************************)
Compare ==
  /\ step = "compare"
  /\ IF out[case_index] \in Whole THEN EndCase(out[case_index] = "expected") ELSE Die
  /\ UNCHANGED <<case, out>>

WriteSummary ==
  /\ step = "summary"
  /\ summary_file' = [of |-> "this", lists |-> summaries]
  /\ exit' = IF all_passed THEN 0 ELSE 1
  /\ step' = "ended"
  /\ UNCHANGED <<case_index, case, out, summaries, all_passed>>

(***************************************************************************)
(* Anywhere an operation on a file or a process can raise an exception,    *)
(* and a signal can end the script; while it writes the summary, this cuts *)
(* it short.                                                               *)
(***************************************************************************)
Interrupted ==
  /\ step \notin Final
  /\ \/ step' = "died" /\ exit' = 1
     \/ step' = "killed" /\ UNCHANGED exit
  /\ summary_file' \in {summary_file} \cup
       (IF step = "summary" THEN {[of |-> "cut", lists |-> {}]} ELSE {})
  /\ UNCHANGED <<case_index, case, out, summaries, all_passed>>

Ended == step \in Final /\ UNCHANGED vars

Next ==
  \/ FindStackc \/ Prepare \/ Interpret \/ Compile \/ Execute \/ Compare
  \/ WriteSummary \/ Interrupted \/ Ended

Spec == Init /\ [][Next]_vars

-----------------------------------------------------------------------------
TypeOK ==
  /\ step \in Steps
  /\ case_index \in Cases
  /\ case \in [Cases -> Record]
  /\ out \in [Cases -> Contents]
  /\ summaries \subseteq Cases
  /\ all_passed \in BOOLEAN
  /\ summary_file \in [of : {"none", "earlier", "cut", "this"}, lists : SUBSET Cases]
  /\ exit \in {-1, 0, 1, 2}

(***************************************************************************)
(* README.md: the results are compared, and programs that raise an         *)
(* exception in the interpreter are expected to fail compilation.          *)
(***************************************************************************)
Agree(c) ==
  \/ case[c].interpreted = "error" /\ case[c].compiled = "nonzero"
  \/ /\ case[c].interpreted = "words" /\ case[c].compiled = "zero"
     /\ case[c].executed = "zero" /\ case[c].wrote = "expected"

(***************************************************************************)
(* Exit code 0 means that every case was run, and that in each both sides  *)
(* failed or the executable itself, in this run, wrote what the            *)
(* interpreter says.  A script that gets to its end has another exit code  *)
(* only if there is a case where they disagree.                            *)
(***************************************************************************)
ZeroMeansAgreement ==
  /\ exit = 0 => \A c \in Cases : Agree(c)
  /\ step = "ended" /\ exit = 1 => \E c \in Cases : ~Agree(c)

(***************************************************************************)
(* A summary, unless it is an earlier run's, lists all the cases where     *)
(* they disagree, and no other: a run that is killed or dies of an         *)
(* exception leaves none.                                                  *)
(***************************************************************************)
SummaryIsWhole ==
  summary_file.of = "this" => summary_file.lists = {c \in Cases : ~Agree(c)}
=============================================================================
