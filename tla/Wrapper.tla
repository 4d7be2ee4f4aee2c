------------------------------ MODULE Wrapper -------------------------------
(***************************************************************************)
(* main of src/wrapper/wrapper.cpp, which is linked with the compiled      *)
(* function f: it reads the input file, turns its big-endian words into    *)
(* the byte order of the machine, calls f, turns the output back and       *)
(* writes it.  The assertions are compiled in (the driver links without    *)
(* -DNDEBUG), so a failed one aborts the process.                          *)
(*                                                                         *)
(* A buffer is a sequence of bytes.  f, which Pipeline models, is here any *)
(* function from the words of its input to those words of the output that  *)
(* it stores, which need not be all.  Another process may rewrite the      *)
(* input file between the call of tellg and the call of read.              *)
(***************************************************************************)
EXTENDS Integers, SequencesExt

CONSTANTS
  ByteMod,      \* number of byte values: 256
  WordBytes,    \* word_size: 32
  OutputWords,  \* out_size / word_size: 64
  InputFiles,   \* contents that the input file may have, or NoFile
  OldOutput,    \* what the output file held before
  F(_)          \* the compiled function, from words to the words it stores, by index

NoFile == <<-1>>  \* not the contents of any file

Byte    == 0..(ByteMod - 1)
OutSize == WordBytes * OutputWords

ASSUME WrapperAssumption ==
  /\ ByteMod \in Nat \ {0}
  /\ WordBytes \in Nat \ {0}
  /\ OutputWords \in Nat \ {0}
  /\ InputFiles \subseteq Seq(Byte) \cup {NoFile}

VARIABLES
  machine,   \* the byte order of the machine: "little" or "big"
  file,      \* the input file
  in_size,   \* its size when it was opened
  in,        \* the input buffer
  out,       \* the output buffer
  out_file,  \* the output file
  read,      \* the bytes that were read, as they were in the file
  step,      \* what main does next
  exit       \* "none", "zero" or "aborted"

vars == <<machine, file, in_size, in, out, out_file, read, step, exit>>

-----------------------------------------------------------------------------
(***************************************************************************)
(* Words in buffers, and the number that a word denotes in each order.     *)
(***************************************************************************)
WordCount(buffer) == Len(buffer) \div WordBytes
WordAt(buffer, k) == SubSeq(buffer, (k - 1) * WordBytes + 1, k * WordBytes)
Joined(words)     ==
  [j \in 1..(Len(words) * WordBytes) |->
     words[((j - 1) \div WordBytes) + 1][((j - 1) % WordBytes) + 1]]

FromBig(bytes)    == FoldLeft(LAMBDA n, b : n * ByteMod + b, 0, bytes)
ToBig(n)          ==
  [j \in 1..WordBytes |-> (n \div ByteMod^(WordBytes - j)) % ByteMod]

WordsOf(buffer) == [k \in 1..WordCount(buffer) |-> FromBig(WordAt(buffer, k))]

FromMachine(bytes) == FromBig(IF machine = "big" THEN bytes ELSE Reverse(bytes))
ToMachine(n)       == IF machine = "big" THEN ToBig(n) ELSE Reverse(ToBig(n))

(***************************************************************************)
(* normalize_word_bytes: on a little-endian machine, every word is         *)
(* reversed in its place.                                                  *)
(***************************************************************************)
NormalizeBuffer(buffer) ==  \* mutant: the buffer is reversed, not its words
  IF machine = "big" THEN buffer ELSE Reverse(buffer)

Normalize(buffer) ==
  IF machine = "big" THEN buffer
  ELSE Joined([k \in 1..WordCount(buffer) |-> Reverse(WordAt(buffer, k))])

(***************************************************************************)
(* Whatever part of an input file f is given, what it stores are numbers,  *)
(* in words of the output.                                                 *)
(***************************************************************************)
ASSUME FunctionAssumption ==
  \A contents \in InputFiles \ {NoFile} : \A size \in 1..Len(contents) :
    size % WordBytes = 0 =>
      LET stored == F(WordsOf(SubSeq(contents, 1, size)))
      IN  DOMAIN stored \subseteq 1..OutputWords /\ \A k \in DOMAIN stored : stored[k] \in Nat

-----------------------------------------------------------------------------
Init ==
  /\ machine \in {"little", "big"}
  /\ file \in InputFiles
  /\ in_size = 0
  /\ in = <<>>
  /\ out = <<>>
  /\ out_file = OldOutput
  /\ read = <<>>
  /\ step = "open"
  /\ exit = "none"

Then(here, next) == step = here /\ step' = next

Abort ==
  /\ step' = "ended"
  /\ exit' = "aborted"

OpenUnaligned ==  \* mutant: no check that the size is a multiple of 32
  LET size == IF file = NoFile THEN -1 ELSE Len(file)
  IN  /\ step = "open"
      /\ in_size' = size
      /\ IF size > 0
         THEN step' = "read" /\ UNCHANGED exit
         ELSE Abort
      /\ UNCHANGED <<machine, file, in, out, out_file, read>>

OpenBoth ==  \* mutant: the output file is opened, and emptied, first
  LET size == IF file = NoFile THEN -1 ELSE Len(file)
  IN  /\ step = "open"
      /\ in_size' = size
      /\ IF size > 0 /\ size % WordBytes = 0
         THEN step' = "read" /\ UNCHANGED exit
         ELSE Abort
      /\ out_file' = <<>>
      /\ UNCHANGED <<machine, file, in, out, read>>

(***************************************************************************)
(* tellg gives -1 if the file could not be opened.                         *)
(***************************************************************************)
Open ==
  LET size == IF file = NoFile THEN -1 ELSE Len(file)
  IN  /\ step = "open"
      /\ in_size' = size
      /\ IF size > 0 /\ size % WordBytes = 0
         THEN step' = "read" /\ UNCHANGED exit
         ELSE Abort
      /\ UNCHANGED <<machine, file, in, out, out_file, read>>

(***************************************************************************)
(* in_size bytes are asked for; it is asserted that so many came.          *)
(***************************************************************************)
ReadUnchecked ==  \* mutant: a short read goes unnoticed
  /\ Then("read", "normalize input")
  /\ read' = SubSeq(file, 1, IF Len(file) < in_size THEN Len(file) ELSE in_size)
  /\ in' = [k \in 1..in_size |-> IF k <= Len(file) THEN file[k] ELSE 0]
  /\ UNCHANGED <<machine, file, in_size, out, out_file, exit>>

Read ==
  /\ step = "read"
  /\ IF Len(file) < in_size
     THEN Abort /\ UNCHANGED <<in, read>>
     ELSE /\ read' = SubSeq(file, 1, in_size)
          /\ in' = read'
          /\ step' = "normalize input"
          /\ UNCHANGED exit
  /\ UNCHANGED <<machine, file, in_size, out, out_file>>

Rewrite ==
  /\ step = "read"
  /\ file' \in InputFiles \ {NoFile}
  /\ UNCHANGED <<machine, in_size, in, out, out_file, read, step, exit>>

NormalizeInput ==
  /\ Then("normalize input", "clear output")
  /\ in' = Normalize(in)
  /\ UNCHANGED <<machine, file, in_size, out, out_file, read, exit>>

ClearOutputByWords ==  \* mutant: the buffer has a byte for every word
  /\ Then("clear output", "call")
  /\ out' = [k \in 1..OutputWords |-> 0]
  /\ UNCHANGED <<machine, file, in_size, in, out_file, read, exit>>

ClearOutputNot ==  \* mutant: new[] without memset leaves any bytes
  /\ Then("clear output", "call")
  /\ out' \in [1..OutSize -> Byte]
  /\ UNCHANGED <<machine, file, in_size, in, out_file, read, exit>>

(***************************************************************************)
(* The buffer is made and filled with zeros.                               *)
(***************************************************************************)
ClearOutput ==
  /\ Then("clear output", "call")
  /\ out' = [k \in 1..OutSize |-> 0]
  /\ UNCHANGED <<machine, file, in_size, in, out_file, read, exit>>

(***************************************************************************)
(* f stores whole words in the order of the machine; the others keep what  *)
(* the buffer held.                                                        *)
(***************************************************************************)
CallF ==
  /\ Then("call", "normalize output")
  /\ LET words == [k \in 1..WordCount(in) |-> FromMachine(WordAt(in, k))]
         stored == F(words)
     IN  out' = Joined([k \in 1..OutputWords |->
                  IF k \in DOMAIN stored THEN ToMachine(stored[k]) ELSE WordAt(out, k)])
  /\ UNCHANGED <<machine, file, in_size, in, out_file, read, exit>>

NormalizeOutput ==
  /\ Then("normalize output", "write")
  /\ out' = Normalize(out)
  /\ UNCHANGED <<machine, file, in_size, in, out_file, read, exit>>

(***************************************************************************)
(* Nobody looks at the state of the stream: the exit code is 0 if the file *)
(* could not be opened and if not all of it could be written, too.         *)
(***************************************************************************)
Write ==
  /\ Then("write", "ended")
  /\ exit' = "zero"
  /\ \/ UNCHANGED out_file
     \/ \E n \in 0..OutSize : out_file' = SubSeq(out, 1, n)
  /\ UNCHANGED <<machine, file, in_size, in, out, read>>

Ended == step = "ended" /\ UNCHANGED vars

Next ==
  \/ Open \/ Read \/ Rewrite \/ NormalizeInput \/ ClearOutput
  \/ CallF \/ NormalizeOutput \/ Write \/ Ended

Spec == Init /\ [][Next]_vars

-----------------------------------------------------------------------------
TypeOK ==
  /\ machine \in {"little", "big"}
  /\ file \in InputFiles
  /\ in_size \in Int
  /\ in \in Seq(Byte) /\ read \in Seq(Byte)
  /\ out \in Seq(Byte) /\ Len(out) \in {0, OutSize}
  /\ Len(out_file) <= OutSize \/ out_file = OldOutput
  /\ step \in {"open", "read", "normalize input", "clear output", "call",
               "normalize output", "write", "ended"}
  /\ exit \in {"none", "zero", "aborted"}

(***************************************************************************)
(* README.md: "the wrapper preprocess and post process the input and       *)
(* output", to be big endian on every machine.  What is written is the     *)
(* big-endian encoding of what f makes of the big-endian words read, with  *)
(* zeros for the words that f does not store, or the beginning of it, or   *)
(* nothing; the byte order of the machine does not show, nor does a        *)
(* rewrite of the input file while it is read, nor what the memory of the  *)
(* output held before.                                                     *)
(***************************************************************************)
ZeroWord == [j \in 1..WordBytes |-> 0]

Expected ==
  LET stored == F(WordsOf(read))
  IN  Joined([k \in 1..OutputWords |->
        IF k \in DOMAIN stored THEN ToBig(stored[k]) ELSE ZeroWord])

OutputIsBigEndian ==
  exit = "zero" =>
    out_file = OldOutput \/ out_file = SubSeq(Expected, 1, Len(out_file))

(***************************************************************************)
(* f is called with words that were read from the file: a whole number, at *)
(* least one, as many as the file had when its size was taken, and none    *)
(* that was made up to fill the buffer.  Of a file that grew before it was *)
(* read the words behind that size are not among them.                     *)
(***************************************************************************)
CalledWithWholeInput ==
  step = "call" =>
    /\ WordCount(in) > 0
    /\ WordCount(in) * WordBytes = Len(in)
    /\ Len(in) = in_size /\ Len(read) = in_size

(***************************************************************************)
(* A run that aborts leaves the output of an earlier run as it was.        *)
(***************************************************************************)
AbortKeepsOutput == exit = "aborted" => out_file = OldOutput
=============================================================================
