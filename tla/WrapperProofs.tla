---------------------------- MODULE WrapperProofs ----------------------------
(***************************************************************************)
(* Whatever the byte order of the machine, the words that the compiled     *)
(* function sees are the big-endian ones of the file, and so are those     *)
(* that are written: for words of any size, files of any length and any    *)
(* function.                                                               *)
(***************************************************************************)
EXTENDS Wrapper, SequenceTheorems, TLAPS

AfterRead == {"normalize input", "clear output", "call", "normalize output", "write"}

(***************************************************************************)
(* The numbers that the words read denote, and the output after f has      *)
(* stored what it makes of them, in the byte order of the machine.         *)
(***************************************************************************)
WordsRead   == WordsOf(read)
Stored      == F(WordsRead)
StoredWords ==
  [k \in 1..OutputWords |-> IF k \in DOMAIN Stored THEN ToMachine(Stored[k]) ELSE ZeroWord]

MachineWords == Joined(StoredWords)

(***************************************************************************)
(* Until it ends, a run has written nothing and not failed.                *)
(***************************************************************************)
NothingWritten ==
  /\ step \in AfterRead \cup {"open", "read", "ended"}
  /\ step # "ended" => exit = "none" /\ out_file = OldOutput

(***************************************************************************)
(* The input is a whole number of words, and the same bytes in the order   *)
(* of the machine.                                                         *)
(***************************************************************************)
InputWhole ==
  /\ machine \in {"little", "big"}
  /\ file \in InputFiles
  /\ step = "read" => file # NoFile /\ in_size \in Nat /\ in_size > 0 /\ in_size % WordBytes = 0
  /\ step \in AfterRead =>
       /\ read \in Seq(Byte) /\ Len(read) > 0 /\ Len(read) % WordBytes = 0
       /\ Len(read) = in_size
  /\ step = "normalize input" => in = read
  /\ step \in {"clear output", "call"} => in = Normalize(read)

(***************************************************************************)
(* The output is clear, then that of the function in the order of the      *)
(* machine, and then the same in big-endian order.                         *)
(***************************************************************************)
Zeros == [k \in 1..OutSize |-> 0]

OutputWhole ==
  /\ step = "call" => out = Zeros
  /\ step = "normalize output" => out = MachineWords
  /\ step = "write" => out = Expected

IInv ==
  /\ NothingWritten
  /\ InputWhole
  /\ OutputWhole
  /\ OutputIsBigEndian
  /\ CalledWithWholeInput
  /\ AbortKeepsOutput

-----------------------------------------------------------------------------
(***************************************************************************)
(* The place of a byte in a buffer of n words: which word, and where in it.*)
(***************************************************************************)
Word == 1..WordBytes

LEMMA PlaceOf ==
  ASSUME NEW n \in Nat, NEW j \in 1..(n * WordBytes)
  PROVE  ((j - 1) \div WordBytes) + 1 \in 1..n /\ ((j - 1) % WordBytes) + 1 \in Word
<1> DEFINE W == WordBytes
           q == (j - 1) \div W
           r == (j - 1) % W
<1>1. W \in Nat \ {0}
  BY WrapperAssumption
<1>2. j \in Nat /\ j - 1 \in Nat /\ j - 1 < n * W
  BY <1>1
<1>3. q \in Nat /\ r \in 0..(W - 1) /\ j - 1 = q * W + r
  BY <1>1, <1>2
<1> HIDE DEF q, r, W
<1>4. q < n
  <2>1. SUFFICES ASSUME q >= n PROVE FALSE
    BY <1>3
  <2>2. q * W >= n * W
    BY <1>1, <1>3, <2>1
  <2> QED  BY <1>1, <1>2, <1>3, <2>2
<1> QED  BY <1>1, <1>3, <1>4 DEF q, r, W, Word

LEMMA PlaceAt ==
  ASSUME NEW k \in Nat \ {0}, NEW j \in Word
  PROVE  LET i == (k - 1) * WordBytes + j IN
           ((i - 1) \div WordBytes) + 1 = k /\ ((i - 1) % WordBytes) + 1 = j
<1> DEFINE W == WordBytes
           q == k - 1
           r == j - 1
<1>1. W \in Nat \ {0} /\ q \in Nat /\ r \in 0..(W - 1)
  BY WrapperAssumption DEF Word
<1>2. (k - 1) * W + j - 1 = q * W + r
  BY <1>1 DEF Word
<1> HIDE DEF q, r, W
<1>3. (q * W + r) \div W = q /\ (q * W + r) % W = r
  BY <1>1
<1>4. k = q + 1 /\ j = r + 1
  BY DEF q, r, Word
<1> DEFINE i == (k - 1) * WordBytes + j
<1>5. i - 1 = q * W + r
  BY <1>1, <1>2 DEF W, Word
<1> HIDE DEF i
<1>6. ((i - 1) \div W) + 1 = k /\ ((i - 1) % W) + 1 = j
  BY <1>3, <1>4, <1>5
<1> QED  BY <1>6 DEF W, i

(***************************************************************************)
(* The words of a buffer that is a whole number of them.                   *)
(***************************************************************************)
LEMMA BufferWords ==
  ASSUME NEW S, NEW buffer \in Seq(S), Len(buffer) % WordBytes = 0
  PROVE  /\ WordCount(buffer) \in Nat
         /\ Len(buffer) = WordCount(buffer) * WordBytes
         /\ \A k \in 1..WordCount(buffer) :
              /\ WordAt(buffer, k) \in [Word -> S]
              /\ \A j \in Word : WordAt(buffer, k)[j] = buffer[(k - 1) * WordBytes + j]
<1> DEFINE W == WordBytes
           n == WordCount(buffer)
           len == Len(buffer)
<1>1. W \in Nat \ {0} /\ len \in Nat
  BY WrapperAssumption, LenProperties
<1>2. n \in Nat /\ len = n * W
  BY <1>1 DEF WordCount
<1>3. ASSUME NEW k \in 1..n
      PROVE  /\ WordAt(buffer, k) \in [Word -> S]
             /\ \A j \in Word : WordAt(buffer, k)[j] = buffer[(k - 1) * W + j]
  <2> DEFINE from == (k - 1) * W + 1
             to   == k * W
  <2> HIDE DEF W, n, len
  <2>1. from \in Int /\ to \in Int /\ from >= 1 /\ to <= len /\ to - from + 1 = W
    <3>1. k \in Nat /\ k >= 1 /\ k <= n
      BY <1>2
    <3>2. (k - 1) * W = k * W - W /\ k * W \in Nat /\ (k - 1) * W >= 0
      BY <1>1, <3>1
    <3>3. k * W <= n * W
      BY <1>1, <1>2, <3>1
    <3> QED  BY <1>1, <1>2, <3>1, <3>2, <3>3
  <2> HIDE DEF from, to
  <2>2. \A i \in from..to : buffer[i] \in S
    BY <1>1, <2>1, ElementOfSeq DEF len
  <2> DEFINE word == SubSeq(buffer, from, to)
  <2>3. /\ word \in Seq(S) /\ Len(word) = IF from <= to THEN to - from + 1 ELSE 0
        /\ \A i \in 1..(to - from + 1) : word[i] = buffer[from + i - 1]
    BY <2>1, <2>2, SubSeqProperties
  <2> HIDE DEF word
  <2>4. Len(word) = W
    BY <1>1, <2>1, <2>3
  <2>5. word \in [1..W -> S]
    BY <2>3, <2>4, LenProperties
  <2>6. \A j \in 1..W : word[j] = buffer[(k - 1) * W + j]
    <3>1. \A j \in 1..W : from + j - 1 = (k - 1) * W + j
      BY <1>1, <1>2 DEF from
    <3> QED  BY <2>1, <2>3, <3>1
  <2>7. word = WordAt(buffer, k)
    BY DEF word, from, to, WordAt, W
  <2> QED  BY <2>5, <2>6, <2>7 DEF Word, W
<1> QED  BY <1>2, <1>3

(***************************************************************************)
(* Words that are joined are the words of the buffer.                      *)
(***************************************************************************)
LEMMA JoinedType ==
  ASSUME NEW S, NEW n \in Nat, NEW words \in [1..n -> [Word -> S]]
  PROVE  /\ Joined(words) \in Seq(S)
         /\ Len(Joined(words)) = n * WordBytes
         /\ WordCount(Joined(words)) = n
         /\ Len(Joined(words)) % WordBytes = 0
<1> DEFINE W == WordBytes
           m == n * W
<1>1. W \in Nat \ {0} /\ m \in Nat
  BY WrapperAssumption
<1>2. Len(words) = n
  OBVIOUS
<1>3. \A j \in 1..m : words[((j - 1) \div W) + 1][((j - 1) % W) + 1] \in S
  BY PlaceOf
<1>4. Joined(words) = [j \in 1..m |-> words[((j - 1) \div W) + 1][((j - 1) % W) + 1]]
  BY <1>2 DEF Joined
<1> HIDE DEF m
<1>5. Joined(words) \in [1..m -> S]
  BY <1>3, <1>4
<1> DEFINE buffer == Joined(words)
<1> HIDE DEF buffer
<1>6. buffer \in Seq(S) /\ Len(buffer) = m
  BY <1>1, <1>5 DEF buffer
<1>7. m \div W = n /\ m % W = 0
  <2>1. m = n * W + 0 /\ 0 \in 0..(W - 1)
    BY <1>1 DEF m
  <2> HIDE DEF W
  <2> QED  BY <1>1, <2>1
<1> QED  BY <1>6, <1>7 DEF buffer, m, WordCount

LEMMA JoinedWords ==
  ASSUME NEW S, NEW n \in Nat, NEW words \in [1..n -> [Word -> S]], NEW k \in 1..n
  PROVE  WordAt(Joined(words), k) = words[k]
<1> DEFINE buffer == Joined(words)
<1>1. /\ buffer \in Seq(S) /\ WordCount(buffer) = n /\ Len(buffer) % WordBytes = 0
      /\ Len(buffer) = n * WordBytes
  BY JoinedType
<1>2. WordBytes \in Nat \ {0} /\ Len(words) = n
  BY WrapperAssumption
<1>3. /\ WordAt(buffer, k) \in [Word -> S]
      /\ \A j \in Word : WordAt(buffer, k)[j] = buffer[(k - 1) * WordBytes + j]
  <2> HIDE DEF buffer
  <2> QED  BY <1>1, BufferWords
<1>4. ASSUME NEW j \in Word
      PROVE  buffer[(k - 1) * WordBytes + j] = words[k][j]
  <2> DEFINE i == (k - 1) * WordBytes + j
  <2>1. i \in 1..(n * WordBytes)
    <3>1. k \in Nat /\ k >= 1 /\ k <= n /\ j >= 1 /\ j <= WordBytes /\ j \in Nat
      BY <1>2 DEF Word
    <3>2. (k - 1) * WordBytes + WordBytes = k * WordBytes /\ (k - 1) * WordBytes >= 0
      BY <1>2, <3>1
    <3>3. k * WordBytes <= n * WordBytes
      BY <1>2, <3>1
    <3> QED  BY <1>2, <3>1, <3>2, <3>3
  <2>2. ((i - 1) \div WordBytes) + 1 = k /\ ((i - 1) % WordBytes) + 1 = j
    BY PlaceAt
  <2> HIDE DEF i
  <2>3. buffer[i] = words[((i - 1) \div WordBytes) + 1][((i - 1) % WordBytes) + 1]
    BY <1>2, <2>1 DEF Joined
  <2> QED  BY <2>2, <2>3 DEF i
<1> HIDE DEF buffer
<1>5. words[k] \in [Word -> S]
  OBVIOUS
<1>6. WordAt(buffer, k) = words[k]
  BY <1>3, <1>4, <1>5
<1> QED  BY <1>6 DEF buffer

(***************************************************************************)
(* A word that is reversed twice is the same again.                        *)
(***************************************************************************)
LEMMA ReverseTwice ==
  ASSUME NEW S, NEW w \in [Word -> S]
  PROVE  Reverse(w) \in [Word -> S] /\ Reverse(Reverse(w)) = w
<1>1. WordBytes \in Nat \ {0}
  BY WrapperAssumption
<1>2. Len(w) = WordBytes
  BY <1>1 DEF Word
<1>3. Reverse(w) = [i \in Word |-> w[(WordBytes - i) + 1]]
  BY <1>2 DEF Reverse, Word
<1>4. \A i \in Word : (WordBytes - i) + 1 \in Word /\ (WordBytes - ((WordBytes - i) + 1)) + 1 = i
  BY <1>1 DEF Word
<1> DEFINE v == Reverse(w)
<1>5. v \in [Word -> S] /\ \A i \in Word : v[i] = w[(WordBytes - i) + 1]
  BY <1>3, <1>4
<1> HIDE DEF v
<1>6. Len(v) = WordBytes
  BY <1>1, <1>5 DEF Word
<1>7. Reverse(v) = [i \in Word |-> v[(WordBytes - i) + 1]]
  BY <1>6 DEF Reverse, Word
<1>8. Reverse(v) = w
  BY <1>4, <1>5, <1>7
<1> QED  BY <1>5, <1>8 DEF v

-----------------------------------------------------------------------------
(***************************************************************************)
(* In the buffer that f is given every word denotes, in the order of the   *)
(* machine, what it denotes in the file in big-endian order.               *)
(***************************************************************************)
LEMMA InputInMachineOrder ==
  ASSUME machine \in {"little", "big"}, read \in Seq(Byte), Len(read) % WordBytes = 0
  PROVE  LET buffer == Normalize(read) IN
         /\ Len(buffer) = Len(read) /\ WordCount(buffer) = WordCount(read)
         /\ \A k \in 1..WordCount(read) :
              FromMachine(WordAt(buffer, k)) = FromBig(WordAt(read, k))
<1> DEFINE n == WordCount(read)
           words == [k \in 1..n |-> Reverse(WordAt(read, k))]
<1>1. /\ n \in Nat /\ Len(read) = n * WordBytes
      /\ \A k \in 1..n : WordAt(read, k) \in [Word -> Byte]
  BY BufferWords
<1> HIDE DEF n
<1>2. CASE machine = "big"
  BY <1>2 DEF Normalize, FromMachine, n
<1>3. CASE machine = "little"
  <2>1. /\ words \in [1..n -> [Word -> Byte]]
        /\ \A k \in 1..n : Reverse(words[k]) = WordAt(read, k)
    BY <1>1, ReverseTwice
  <2>2. Normalize(read) = Joined(words)
    BY <1>3 DEF Normalize, n
  <2> HIDE DEF words
  <2>3. /\ Len(Joined(words)) = n * WordBytes /\ WordCount(Joined(words)) = n
        /\ \A k \in 1..n : WordAt(Joined(words), k) = words[k]
    BY <1>1, <2>1, JoinedType, JoinedWords
  <2>4. \A k \in 1..n : FromMachine(words[k]) = FromBig(WordAt(read, k))
    BY <1>3, <2>1 DEF FromMachine
  <2> QED  BY <1>1, <2>2, <2>3, <2>4 DEF n
<1> QED  BY <1>2, <1>3

(***************************************************************************)
(* The words of a buffer that is clear, which are the same in either order.*)
(***************************************************************************)
LEMMA ZeroWordType == ZeroWord \in [Word -> {0}] /\ Reverse(ZeroWord) = ZeroWord
<1>1. ZeroWord \in [Word -> {0}]
  BY DEF ZeroWord, Word
<1>2. Reverse(ZeroWord) \in [Word -> {0}]
  BY <1>1, ReverseTwice
<1>3. \A v, w \in [Word -> {0}] : v = w
  OBVIOUS
<1> QED  BY <1>1, <1>2, <1>3

LEMMA WordsOfZeros == \A k \in 1..OutputWords : WordAt(Zeros, k) = ZeroWord
<1>1. OutputWords \in Nat /\ OutSize = OutputWords * WordBytes
  BY WrapperAssumption DEF OutSize
<1> DEFINE words == [k \in 1..OutputWords |-> ZeroWord]
<1>2. words \in [1..OutputWords -> [Word -> {0}]]
  BY ZeroWordType
<1>3. Joined(words) = Zeros
  <2>1. Len(words) = OutputWords
    BY <1>1
  <2>2. ASSUME NEW j \in 1..(OutputWords * WordBytes)
        PROVE  words[((j - 1) \div WordBytes) + 1][((j - 1) % WordBytes) + 1] = 0
    <3>1. ((j - 1) \div WordBytes) + 1 \in 1..OutputWords /\ ((j - 1) % WordBytes) + 1 \in Word
      BY <1>1, PlaceOf
    <3> QED  BY <3>1 DEF ZeroWord, Word
  <2> HIDE DEF words
  <2>3. Joined(words) = [j \in 1..(OutputWords * WordBytes) |->
          words[((j - 1) \div WordBytes) + 1][((j - 1) % WordBytes) + 1]]
    BY <2>1 DEF Joined
  <2>4. Joined(words) = [j \in 1..(OutputWords * WordBytes) |-> 0]
    BY <2>2, <2>3
  <2> QED  BY <1>1, <2>4 DEF Zeros
<1>4. ASSUME NEW k \in 1..OutputWords
      PROVE  WordAt(Joined(words), k) = ZeroWord
  <2>1. words[k] = ZeroWord
    OBVIOUS
  <2> HIDE DEF words
  <2>2. WordAt(Joined(words), k) = words[k]
    BY <1>1, <1>2, JoinedWords
  <2> QED  BY <2>1, <2>2
<1> QED  BY <1>3, <1>4

(***************************************************************************)
(* The results as big-endian words, which the output is expected to hold.  *)
(***************************************************************************)
ResultWords ==
  [k \in 1..OutputWords |-> IF k \in DOMAIN Stored THEN ToBig(Stored[k]) ELSE ZeroWord]

LEMMA ResultType == \E S : ResultWords \in [1..OutputWords -> [Word -> S]]
<1> DEFINE words == ResultWords
           S     == {words[k][j] : k \in 1..OutputWords, j \in Word}
<1>1. \A k \in 1..OutputWords : words[k] = [j \in Word |-> words[k][j]]
  BY DEF ResultWords, ToBig, ZeroWord, Word
<1>2. \A k \in 1..OutputWords : \A j \in Word : words[k][j] \in S
  OBVIOUS
<1>3. words = [k \in 1..OutputWords |-> words[k]]
  BY DEF ResultWords
<1> HIDE DEF words, S
<1>4. words \in [1..OutputWords -> [Word -> S]]
  BY <1>1, <1>2, <1>3
<1> QED  BY <1>4 DEF words

LEMMA ExpectedIsResult == Expected = Joined(ResultWords)
BY DEF Expected, ResultWords, Stored, WordsRead, WordsOf

LEMMA ExpectedType == \E S : Expected \in Seq(S) /\ Len(Expected) = OutSize
<1>1. OutputWords \in Nat /\ WordBytes \in Nat
  BY WrapperAssumption
<1>2. PICK S : ResultWords \in [1..OutputWords -> [Word -> S]]
  BY ResultType
<1>3. /\ Joined(ResultWords) \in Seq(S)
      /\ Len(Joined(ResultWords)) = OutputWords * WordBytes
  BY <1>1, <1>2, JoinedType
<1> QED  BY <1>1, <1>3, ExpectedIsResult DEF OutSize

(***************************************************************************)
(* The output that was stored in the order of the machine is big-endian    *)
(* after its words are put in order.                                       *)
(***************************************************************************)
LEMMA OutputInBigEndianOrder ==
  ASSUME machine \in {"little", "big"}
  PROVE  Normalize(MachineWords) = Expected
<1>1. OutputWords \in Nat
  BY WrapperAssumption
<1>2. CASE machine = "big"
  BY <1>2, ExpectedIsResult DEF MachineWords, StoredWords, Normalize, ToMachine, ResultWords
<1>3. CASE machine = "little"
  <2> DEFINE stored == [k \in 1..OutputWords |-> Reverse(ResultWords[k])]
  <2>1. MachineWords = Joined(stored)
    BY <1>3, ZeroWordType DEF MachineWords, StoredWords, ToMachine, ResultWords
  <2>2. PICK S : ResultWords \in [1..OutputWords -> [Word -> S]]
    BY ResultType
  <2>3. /\ stored \in [1..OutputWords -> [Word -> S]]
        /\ \A k \in 1..OutputWords : Reverse(stored[k]) = ResultWords[k]
    BY <2>2, ReverseTwice
  <2> HIDE DEF stored
  <2>4. /\ WordCount(Joined(stored)) = OutputWords
        /\ \A k \in 1..OutputWords : WordAt(Joined(stored), k) = stored[k]
    BY <1>1, <2>3, JoinedType, JoinedWords
  <2>5. [k \in 1..OutputWords |-> Reverse(WordAt(Joined(stored), k))] = ResultWords
    BY <2>2, <2>3, <2>4
  <2> QED  BY <1>3, <2>1, <2>4, <2>5, ExpectedIsResult DEF Normalize
<1> QED  BY <1>2, <1>3

-----------------------------------------------------------------------------
LEMMA InitIInv == Init => IInv
BY DEF Init, IInv, NothingWritten, InputWhole, OutputWhole, OutputIsBigEndian,
   CalledWithWholeInput, AbortKeepsOutput, AfterRead

(***************************************************************************)
(* The size is checked against the file as it was opened, and the number   *)
(* of bytes that come against that size: a rewrite between does not show.  *)
(***************************************************************************)
LEMMA OpenKeeps ==
  ASSUME IInv, Open
  PROVE  IInv'
<1> DEFINE size == IF file = NoFile THEN -1 ELSE Len(file)
<1>1. file # NoFile => size \in Nat
  BY WrapperAssumption, LenProperties DEF IInv, InputWhole
<1>2. CASE size > 0 /\ size % WordBytes = 0
  <2>1. step' = "read" /\ in_size' = size
    BY <1>2 DEF Open
  <2>2. file # NoFile
    BY <1>2
  <2> HIDE DEF size
  <2> QED  BY <1>1, <1>2, <2>1, <2>2 DEF Open, IInv, NothingWritten, InputWhole, OutputWhole,
               OutputIsBigEndian, CalledWithWholeInput, AbortKeepsOutput, AfterRead
<1>3. CASE ~(size > 0 /\ size % WordBytes = 0)
  BY <1>3 DEF Open, Abort, IInv, NothingWritten, InputWhole, OutputWhole,
     OutputIsBigEndian, CalledWithWholeInput, AbortKeepsOutput, AfterRead
<1> QED  BY <1>2, <1>3

LEMMA ReadKeeps ==
  ASSUME IInv, Read
  PROVE  IInv'
<1>1. /\ step = "read" /\ file \in Seq(Byte) /\ Len(file) \in Nat
      /\ in_size \in Nat /\ in_size > 0 /\ in_size % WordBytes = 0
  BY WrapperAssumption, LenProperties DEF Read, IInv, InputWhole
<1>2. CASE Len(file) < in_size
  BY <1>1, <1>2 DEF Read, Abort, IInv, NothingWritten, InputWhole, OutputWhole,
     OutputIsBigEndian, CalledWithWholeInput, AbortKeepsOutput, AfterRead
<1>3. CASE ~(Len(file) < in_size)
  <2>1. /\ read' = SubSeq(file, 1, in_size) /\ in' = read'
        /\ step' = "normalize input"
        /\ UNCHANGED <<machine, file, in_size, out, out_file, exit>>
    BY <1>3 DEF Read
  <2>2. SubSeq(file, 1, in_size) \in Seq(Byte) /\ Len(SubSeq(file, 1, in_size)) = in_size
    <3>1. \A k \in 1..in_size : file[k] \in Byte
      BY <1>1, <1>3, ElementOfSeq
    <3> QED  BY <1>1, <3>1, SubSeqProperties
  <2> QED  BY <1>1, <2>1, <2>2 DEF IInv, NothingWritten, InputWhole, OutputWhole,
               OutputIsBigEndian, CalledWithWholeInput, AbortKeepsOutput, AfterRead
<1> QED  BY <1>2, <1>3

LEMMA RewriteKeeps ==
  ASSUME IInv, Rewrite
  PROVE  IInv'
BY DEF Rewrite, IInv, NothingWritten, InputWhole, OutputWhole,
   OutputIsBigEndian, CalledWithWholeInput, AbortKeepsOutput, AfterRead

LEMMA NormalizeInputKeeps ==
  ASSUME IInv, NormalizeInput
  PROVE  IInv'
<1>1. /\ step = "normalize input" /\ step' = "clear output"
      /\ in' = Normalize(read)
      /\ UNCHANGED <<machine, file, in_size, out, out_file, read, exit>>
  BY DEF NormalizeInput, Then, IInv, InputWhole
<1>2. Normalize(read)' = Normalize(read)
  BY <1>1 DEF Normalize
<1> QED  BY <1>1, <1>2 DEF IInv, NothingWritten, InputWhole, OutputWhole,
             OutputIsBigEndian, CalledWithWholeInput, AbortKeepsOutput, AfterRead

LEMMA ClearOutputKeeps ==
  ASSUME IInv, ClearOutput
  PROVE  IInv'
<1>1. /\ step = "clear output" /\ step' = "call"
      /\ in = Normalize(read)
      /\ UNCHANGED <<machine, file, in_size, in, out_file, read, exit>>
      /\ machine \in {"little", "big"} /\ file \in InputFiles
      /\ read \in Seq(Byte) /\ Len(read) > 0 /\ Len(read) % WordBytes = 0
  BY DEF ClearOutput, Then, IInv, InputWhole, AfterRead
<1>2. Normalize(read)' = Normalize(read)
  BY <1>1 DEF Normalize
<1>3. /\ Len(in) = Len(read) /\ WordCount(in) = WordCount(read)
      /\ WordCount(read) \in Nat /\ Len(read) = WordCount(read) * WordBytes
  BY <1>1, InputInMachineOrder, BufferWords
<1>4. WordCount(in) > 0
  <2> DEFINE n == WordCount(read)
  <2>1. n \in Nat /\ WordBytes \in Nat /\ n * WordBytes > 0
    BY <1>1, <1>3, WrapperAssumption
  <2> HIDE DEF n
  <2>2. n # 0
    BY <2>1
  <2>3. n > 0
    BY <2>1, <2>2
  <2> QED  BY <1>3, <2>3 DEF n
<1>5. CalledWithWholeInput'
  <2>1. in' = in /\ read' = read /\ in_size' = in_size /\ Len(read) = in_size
    BY <1>1 DEF IInv, InputWhole, AfterRead
  <2>2. WordCount(in) * WordBytes = Len(in)
    BY <1>3
  <2> QED  BY <1>3, <1>4, <2>1, <2>2 DEF CalledWithWholeInput
<1>6. out' = Zeros
  BY DEF ClearOutput, Zeros
<1> QED  BY <1>1, <1>2, <1>5, <1>6 DEF IInv, NothingWritten, InputWhole, OutputWhole,
             OutputIsBigEndian, AbortKeepsOutput, AfterRead

LEMMA CallKeeps ==
  ASSUME IInv, CallF
  PROVE  IInv'
<1>1. /\ step = "call" /\ step' = "normalize output"
      /\ in = Normalize(read)
      /\ UNCHANGED <<machine, file, in_size, in, out_file, read, exit>>
      /\ machine \in {"little", "big"} /\ file \in InputFiles
      /\ read \in Seq(Byte) /\ Len(read) > 0 /\ Len(read) % WordBytes = 0
  BY DEF CallF, Then, IInv, InputWhole, AfterRead
<1> DEFINE words == [k \in 1..WordCount(in) |-> FromMachine(WordAt(in, k))]
<1>2. words = WordsRead
  BY <1>1, InputInMachineOrder DEF WordsRead, WordsOf
<1> HIDE DEF words
<1>3. out' = Joined([k \in 1..OutputWords |->
               IF k \in DOMAIN F(words) THEN ToMachine(F(words)[k]) ELSE WordAt(out, k)])
  BY DEF CallF, words
<1>4. out' = MachineWords
  <2>1. \A k \in 1..OutputWords : WordAt(out, k) = ZeroWord
    BY <1>1, WordsOfZeros DEF IInv, OutputWhole
  <2> QED  BY <1>2, <1>3, <2>1 DEF MachineWords, StoredWords, Stored
<1>5. MachineWords' = MachineWords
  BY <1>1 DEF MachineWords, StoredWords, Stored, ToMachine, WordsRead, WordsOf
<1> QED  BY <1>1, <1>4, <1>5 DEF IInv, NothingWritten, InputWhole, OutputWhole,
             OutputIsBigEndian, CalledWithWholeInput, AbortKeepsOutput, AfterRead

LEMMA NormalizeOutputKeeps ==
  ASSUME IInv, NormalizeOutput
  PROVE  IInv'
<1>1. /\ step = "normalize output" /\ step' = "write"
      /\ out' = Normalize(out) /\ out = MachineWords
      /\ UNCHANGED <<machine, file, in_size, in, out_file, read, exit>>
      /\ machine \in {"little", "big"}
  BY DEF NormalizeOutput, Then, IInv, InputWhole, OutputWhole
<1>2. out' = Expected
  BY <1>1, OutputInBigEndianOrder
<1>3. Expected' = Expected
  BY <1>1 DEF Expected
<1> QED  BY <1>1, <1>2, <1>3 DEF IInv, NothingWritten, InputWhole, OutputWhole,
             OutputIsBigEndian, CalledWithWholeInput, AbortKeepsOutput, AfterRead

(***************************************************************************)
(* Whatever part of the buffer is written, it is the beginning.            *)
(***************************************************************************)
LEMMA WriteKeeps ==
  ASSUME IInv, Write
  PROVE  IInv'
<1>1. /\ step = "write" /\ step' = "ended" /\ exit' = "zero"
      /\ out = Expected /\ out_file = OldOutput
      /\ UNCHANGED <<machine, file, in_size, in, out, read>>
  BY DEF Write, Then, IInv, OutputWhole, NothingWritten
<1>2. Expected' = Expected
  BY <1>1 DEF Expected
<1>3. out_file' = OldOutput \/ out_file' = SubSeq(Expected, 1, Len(out_file'))
  <2>1. CASE UNCHANGED out_file
    BY <1>1, <2>1
  <2>2. ASSUME NEW n \in 0..OutSize, out_file' = SubSeq(out, 1, n)
        PROVE  out_file' = SubSeq(Expected, 1, Len(out_file'))
    <3>1. PICK S : Expected \in Seq(S) /\ Len(Expected) = OutSize
      BY ExpectedType
    <3>2. OutSize \in Nat
      BY WrapperAssumption DEF OutSize
    <3>3. \A k \in 1..n : Expected[k] \in S
      BY <3>1, <3>2, ElementOfSeq
    <3>4. Len(SubSeq(Expected, 1, n)) = n
      BY <3>2, <3>3, SubSeqProperties
    <3> QED  BY <1>1, <2>2, <3>4
  <2> QED  BY <2>1, <2>2 DEF Write
<1> QED  BY <1>1, <1>2, <1>3 DEF IInv, NothingWritten, InputWhole, OutputWhole,
             OutputIsBigEndian, CalledWithWholeInput, AbortKeepsOutput, AfterRead

LEMMA StutterKeeps ==
  ASSUME IInv, UNCHANGED vars
  PROVE  IInv'
BY DEF vars, IInv, NothingWritten, InputWhole, OutputWhole, OutputIsBigEndian, Expected,
   MachineWords, StoredWords, Stored, ToMachine, WordsRead, CalledWithWholeInput,
   AbortKeepsOutput, Normalize

LEMMA SpecIInv == Spec => []IInv
<1>1. IInv /\ [Next]_vars => IInv'
  BY OpenKeeps, ReadKeeps, RewriteKeeps, NormalizeInputKeeps, ClearOutputKeeps, CallKeeps,
     NormalizeOutputKeeps, WriteKeeps, StutterKeeps DEF Next, Ended
<1> QED  BY InitIInv, <1>1, PTL DEF Spec

-----------------------------------------------------------------------------
(***************************************************************************)
(* What is written is the beginning of the big-endian encoding of what the *)
(* function makes of the big-endian words read, on either kind of machine, *)
(* for words of any size and any function.                                 *)
(***************************************************************************)
THEOREM WrittenIsBigEndian == Spec => []OutputIsBigEndian
<1>1. IInv => OutputIsBigEndian
  BY DEF IInv
<1> QED  BY SpecIInv, <1>1, PTL

(***************************************************************************)
(* The function is called with a whole number of words, at least one, as   *)
(* many as the file had when its size was taken, all read from the file.   *)
(***************************************************************************)
THEOREM InputIsWhole == Spec => []CalledWithWholeInput
<1>1. IInv => CalledWithWholeInput
  BY DEF IInv
<1> QED  BY SpecIInv, <1>1, PTL

(***************************************************************************)
(* A run that an assertion ends leaves an earlier output as it was.        *)
(***************************************************************************)
THEOREM AbortIsHarmless == Spec => []AbortKeepsOutput
<1>1. IInv => AbortKeepsOutput
  BY DEF IInv
<1> QED  BY SpecIInv, <1>1, PTL

-----------------------------------------------------------------------------
(***************************************************************************)
(* Buffers hold bytes.  That those of the output do rests on f: its        *)
(* results are numbers, for the words of whatever part of an input file    *)
(* was read.                                                               *)
(***************************************************************************)
PartRead ==
  step \in AfterRead =>
    \E contents \in InputFiles \ {NoFile} : \E size \in 1..Len(contents) :
      read = SubSeq(contents, 1, size)

Typed == TypeOK /\ PartRead

LEMMA NormalizeType ==
  ASSUME machine \in {"little", "big"}, NEW S,
         NEW buffer \in Seq(S), Len(buffer) % WordBytes = 0
  PROVE  Normalize(buffer) \in Seq(S) /\ Len(Normalize(buffer)) = Len(buffer)
<1> DEFINE n == WordCount(buffer)
           words == [k \in 1..n |-> Reverse(WordAt(buffer, k))]
<1>1. /\ n \in Nat /\ Len(buffer) = n * WordBytes
      /\ \A k \in 1..n : WordAt(buffer, k) \in [Word -> S]
  BY BufferWords
<1> HIDE DEF n
<1>2. words \in [1..n -> [Word -> S]]
  BY <1>1, ReverseTwice
<1> HIDE DEF words
<1>3. Joined(words) \in Seq(S) /\ Len(Joined(words)) = Len(buffer)
  BY <1>1, <1>2, JoinedType
<1> QED  BY <1>3 DEF Normalize, words, n

(***************************************************************************)
(* A number in big-endian order is a word of bytes.                        *)
(***************************************************************************)
LEMMA ToBigType == \A n \in Nat : ToBig(n) \in [Word -> Byte]
<1> SUFFICES ASSUME NEW n \in Nat, NEW j \in Word
             PROVE  (n \div ByteMod^(WordBytes - j)) % ByteMod \in Byte
  BY DEF ToBig, Word
<1> DEFINE p == ByteMod^(WordBytes - j)
           b == ByteMod
<1>1. b \in Nat \ {0} /\ p \in Int
  BY WrapperAssumption DEF Word
<1> HIDE DEF p, b
<1>2. (n \div p) % b \in 0..(b - 1)
  BY <1>1
<1> QED  BY <1>2 DEF p, b, Byte

LEMMA OutputType ==
  ASSUME Typed, IInv, step \in AfterRead
  PROVE  /\ Expected \in Seq(Byte) /\ Len(Expected) = OutSize
         /\ MachineWords \in Seq(Byte) /\ Len(MachineWords) = OutSize
<1>0. PICK contents \in InputFiles \ {NoFile} :
        \E size \in 1..Len(contents) : read = SubSeq(contents, 1, size)
  BY DEF Typed, PartRead
<1>1. PICK size \in 1..Len(contents) : read = SubSeq(contents, 1, size)
  BY <1>0
<1>2. Len(read) = size /\ Len(read) % WordBytes = 0
  <2>1. contents \in Seq(Byte)
    BY WrapperAssumption
  <2>2. \A k \in 1..size : contents[k] \in Byte
    BY <2>1, ElementOfSeq, LenProperties
  <2>3. size \in Int /\ 1 \in Int /\ 1 <= size
    BY <2>1, LenProperties
  <2>4. Len(SubSeq(contents, 1, size)) = IF 1 <= size THEN size - 1 + 1 ELSE 0
    BY <2>2, <2>3, SubSeqProperties
  <2>5. Len(read) % WordBytes = 0
    BY DEF IInv, InputWhole
  <2> QED  BY <1>1, <2>3, <2>4, <2>5
<1>3. \A k \in DOMAIN Stored : Stored[k] \in Nat
  BY <1>1, <1>2, FunctionAssumption DEF Stored, WordsRead
<1>3a. ZeroWord \in [Word -> Byte]
  <2>1. 0 \in Byte
    BY WrapperAssumption DEF Byte
  <2> QED  BY <2>1 DEF ZeroWord, Word
<1>4. ResultWords \in [1..OutputWords -> [Word -> Byte]]
  BY <1>3, <1>3a, ToBigType DEF ResultWords
<1>5. StoredWords \in [1..OutputWords -> [Word -> Byte]]
  <2>1. ASSUME NEW k \in DOMAIN Stored
        PROVE  ToMachine(Stored[k]) \in [Word -> Byte]
    <3> DEFINE w == ToBig(Stored[k])
    <3>1. w \in [Word -> Byte]
      BY <1>3, ToBigType
    <3> HIDE DEF w
    <3>2. Reverse(w) \in [Word -> Byte]
      BY <3>1, ReverseTwice
    <3> QED  BY <3>1, <3>2 DEF ToMachine, w
  <2> QED  BY <1>3a, <2>1 DEF StoredWords
<1>6. OutputWords \in Nat /\ WordBytes \in Nat /\ OutSize = OutputWords * WordBytes
  BY WrapperAssumption DEF OutSize
<1>7. Joined(ResultWords) \in Seq(Byte) /\ Len(Joined(ResultWords)) = OutSize
  BY <1>4, <1>6, JoinedType
<1>8. MachineWords \in Seq(Byte) /\ Len(MachineWords) = OutSize
  BY <1>5, <1>6, JoinedType DEF MachineWords
<1> QED  BY <1>7, <1>8, ExpectedIsResult

LEMMA InitTyped == Init => Typed
<1> SUFFICES ASSUME Init PROVE Typed
  OBVIOUS
<1>1. <<>> \in Seq(Byte) /\ Len(<<>>) = 0
  OBVIOUS
<1> QED  BY <1>1 DEF Init, Typed, TypeOK, PartRead, AfterRead

LEMMA NextTyped == Typed /\ IInv /\ IInv' /\ [Next]_vars => Typed'
<1> SUFFICES ASSUME Typed, IInv, IInv', [Next]_vars PROVE Typed'
  OBVIOUS
<1> USE DEF AfterRead
<1>0. /\ TypeOK /\ PartRead
      /\ OutSize \in Nat
      /\ file # NoFile => file \in Seq(Byte) /\ Len(file) \in Nat
  <2>1. TypeOK /\ PartRead /\ file \in InputFiles
    BY DEF Typed, TypeOK
  <2>2. OutSize \in Nat
    <3> DEFINE a == WordBytes
               b == OutputWords
    <3>1. a \in Nat /\ b \in Nat
      BY WrapperAssumption
    <3> HIDE DEF a, b
    <3>2. a * b \in Nat
      BY <3>1
    <3> QED  BY <3>2 DEF OutSize, a, b
  <2>3. file # NoFile => file \in Seq(Byte)
    BY <2>1, WrapperAssumption
  <2> QED  BY <2>1, <2>2, <2>3, LenProperties
<1>1. CASE Open
  <2>1. (IF file = NoFile THEN -1 ELSE Len(file)) \in Int
    BY <1>0
  <2> QED  BY <1>0, <1>1, <2>1 DEF Open, Abort, Typed, TypeOK, PartRead
<1>2. CASE Read
  <2>1. CASE Len(file) < in_size
    BY <1>0, <1>2, <2>1 DEF Read, Abort, Typed, TypeOK, PartRead
  <2>2. CASE ~(Len(file) < in_size)
    <3>1. /\ read' = SubSeq(file, 1, in_size) /\ in' = read' /\ step' = "normalize input"
          /\ UNCHANGED <<machine, file, in_size, out, out_file, exit>>
          /\ step = "read"
      BY <1>2, <2>2 DEF Read
    <3>2. file # NoFile /\ file \in InputFiles /\ in_size \in 1..Len(file)
      <4>1. file # NoFile /\ file \in InputFiles /\ in_size \in Nat /\ in_size > 0
        BY <3>1 DEF IInv, InputWhole
      <4> QED  BY <1>0, <2>2, <4>1
    <3>3. read' \in Seq(Byte)
      BY <3>1 DEF IInv, InputWhole
    <3> QED  BY <1>0, <3>1, <3>2, <3>3 DEF Typed, TypeOK, PartRead
  <2> QED  BY <2>1, <2>2
<1>3. CASE Rewrite
  BY <1>0, <1>3 DEF Rewrite, Typed, TypeOK, PartRead
<1>4. CASE NormalizeInput
  <2>1. in' = Normalize(read) /\ step' = "clear output" /\ step = "normalize input"
    BY <1>4 DEF NormalizeInput, Then, IInv, InputWhole
  <2>2. Normalize(read) \in Seq(Byte)
    BY <2>1, NormalizeType DEF IInv, InputWhole
  <2> QED  BY <1>0, <1>4, <2>1, <2>2 DEF NormalizeInput, Then, Typed, TypeOK, PartRead
<1>5. CASE ClearOutput
  <2>1. 0 \in Byte
    BY WrapperAssumption DEF Byte
  <2>2. out' \in Seq(Byte) /\ Len(out') = OutSize
    <3> DEFINE n == OutSize
    <3>1. n \in Nat /\ out' = [k \in 1..n |-> 0]
      BY <1>0, <1>5 DEF ClearOutput
    <3> HIDE DEF n
    <3>2. out' \in Seq(Byte) /\ Len(out') = n
      BY <2>1, <3>1
    <3> QED  BY <3>2 DEF n
  <2> QED  BY <1>0, <1>5, <2>2 DEF ClearOutput, Then, Typed, TypeOK, PartRead
<1>6. CASE CallF
  <2>1. step = "call" /\ step' = "normalize output" /\ out' = MachineWords'
        /\ UNCHANGED <<machine, file, in_size, in, out_file, read, exit>>
    BY <1>6 DEF CallF, Then, IInv, OutputWhole
  <2>2. MachineWords' = MachineWords
    BY <2>1 DEF MachineWords, StoredWords, Stored, ToMachine, WordsRead
  <2>3. out' \in Seq(Byte) /\ Len(out') = OutSize
    BY <2>1, <2>2, OutputType
  <2> QED  BY <1>0, <2>1, <2>3 DEF Typed, TypeOK, PartRead
<1>7. CASE NormalizeOutput
  <2>1. step = "normalize output" /\ step' = "write" /\ out' = Expected'
        /\ UNCHANGED <<machine, file, in_size, in, out_file, read, exit>>
    BY <1>7 DEF NormalizeOutput, Then, IInv, OutputWhole
  <2>2. Expected' = Expected
    BY <2>1 DEF Expected
  <2>3. out' \in Seq(Byte) /\ Len(out') = OutSize
    BY <2>1, <2>2, OutputType
  <2> QED  BY <1>0, <2>1, <2>3 DEF Typed, TypeOK, PartRead
<1>8. CASE Write
  <2>1. /\ step = "write" /\ step' = "ended" /\ exit' = "zero" /\ out = Expected
        /\ UNCHANGED <<machine, file, in_size, in, out, read>>
    BY <1>8 DEF Write, Then, IInv, OutputWhole
  <2>2. out \in Seq(Byte) /\ Len(out) = OutSize
    BY <2>1, OutputType
  <2>3. ASSUME NEW n \in 0..OutSize PROVE Len(SubSeq(out, 1, n)) <= OutSize
    <3>1. \A k \in 1..n : out[k] \in Byte
      BY <1>0, <2>2, ElementOfSeq
    <3>2. Len(SubSeq(out, 1, n)) = IF 1 <= n THEN n - 1 + 1 ELSE 0
      BY <1>0, <3>1, SubSeqProperties
    <3> QED  BY <1>0, <3>2
  <2>4. Len(out_file') <= OutSize \/ out_file' = OldOutput
    BY <1>0, <1>8, <2>3 DEF Write, TypeOK
  <2> QED  BY <1>0, <2>1, <2>4 DEF Typed, TypeOK, PartRead
<1>9. CASE UNCHANGED vars
  BY <1>0, <1>9 DEF vars, Typed, TypeOK, PartRead
<1> QED  BY <1>1, <1>2, <1>3, <1>4, <1>5, <1>6, <1>7, <1>8, <1>9 DEF Next, Ended

(***************************************************************************)
(* The buffers hold bytes and have the sizes that main gives them, and     *)
(* what is written is not more than the output.                            *)
(***************************************************************************)
THEOREM TypeCorrect == Spec => []TypeOK
<1>1. Typed => TypeOK
  BY DEF Typed
<1> QED  BY SpecIInv, InitTyped, NextTyped, <1>1, PTL DEF Spec
=============================================================================
