-------------------------- MODULE InvocationProofs ---------------------------
(***************************************************************************)
(* What stackc makes of its arguments, for command lines of any length:    *)
(* the state of the two parsers stays well formed, a command line is       *)
(* accepted if and only if it is spelled as documented, and a hexadecimal  *)
(* string is read as the bytes it spells.                                  *)
(***************************************************************************)
EXTENDS Invocation, SequenceTheorems, FiniteSetTheorems, WellFoundedInduction, TLAPS

(***************************************************************************)
(* The loop of parse_cmdline: the bytes so far stand for the pairs of      *)
(* characters in front of the position.                                    *)
(***************************************************************************)
PairAt(k) == hex_str[2 * k - 1] \in Hex \/ hex_str[2 * k] \in Hex

Spells(k) ==
  result[k] = 16 * HexValue[hex_str[2 * k - 1]] + HexValue[hex_str[2 * k]]

HexLoop ==
  /\ H!TypeOK
  /\ state \in {"idle", "check"} => pos = 0 /\ result = <<>>
  /\ state \in {"loop", "returned"} => Len(hex_str) % 2 = 0
  /\ state = "returned" => pos = Len(hex_str)
  /\ state = "thrown" => ~H!OnlyHex \/ Len(hex_str) % 2 = 1
  /\ 2 * Len(result) = pos
  /\ \A k \in 1..Len(result) : PairAt(k)
  /\ H!OnlyHex => \A k \in 1..Len(result) : Spells(k)

(***************************************************************************)
(* CLI11 hands on only parts of the arguments that it was given.           *)
(***************************************************************************)
CommandLineType ==
  /\ argv \in CommandLines
  /\ args \in Seq(Text)
  /\ positional_only \in BOOLEAN
  /\ results \in [C!Options -> Seq(Text)]
  /\ missing \in Seq(Text)
  /\ outcome \in {"parsing", "accepted", "help"} \cup C!Errors

IInv == CommandLineType /\ HexLoop

-----------------------------------------------------------------------------
(***************************************************************************)
(* What std::stoul makes of two characters it can convert: a byte, and the *)
(* one that is spelled if both are digits.                                 *)
(***************************************************************************)
LEMMA DigitType == \A a \in Hex : HexValue[a] \in 0..15
BY ArgumentsAssumption DEF Hex

LEMMA StoulByte ==
  ASSUME NEW a \in Symbol, NEW b \in Symbol, H!Convertible(a, b)
  PROVE  /\ H!Stoul(a, b) \in 0..255
         /\ a \in Hex \/ b \in Hex
         /\ a \in Hex /\ b \in Hex => H!Stoul(a, b) = 16 * HexValue[a] + HexValue[b]
<1> USE DEF Hex, H!Hex, Text, H!Text
<1>1. CASE a \in Hex /\ b \in Hex
  <2>1. H!Stoul(a, b) = 16 * HexValue[a] + HexValue[b]
    BY <1>1, ArgumentsAssumption DEF H!Stoul
  <2> QED  BY <1>1, <2>1, DigitType
<1>2. CASE a \in Hex /\ b \notin Hex
  <2>1. H!Stoul(a, b) = HexValue[a]
    BY <1>2, ArgumentsAssumption DEF H!Stoul
  <2> QED  BY <1>2, <2>1, DigitType
<1>3. CASE a \in Space \cup {"+"} /\ b \in Hex
  <2>1. a \notin Hex /\ a # "-"
    BY <1>3, ArgumentsAssumption
  <2>2. H!Stoul(a, b) = HexValue[b]
    BY <1>3, <2>1 DEF H!Stoul
  <2> QED  BY <1>3, <2>1, <2>2, DigitType
<1>4. CASE a = "-" /\ b \in Hex
  <2>1. a \notin Hex /\ a \notin Space \cup {"+"}
    BY <1>4, ArgumentsAssumption
  <2>2. H!Stoul(a, b) = (0 - HexValue[b]) % 256
    BY <1>4, <2>1 DEF H!Stoul
  <2> QED  BY <1>4, <2>1, <2>2, DigitType
<1> QED  BY <1>1, <1>2, <1>3, <1>4 DEF H!Convertible

(***************************************************************************)
(* Characters come in pairs.                                               *)
(***************************************************************************)
LEMMA TextShape ==
  ASSUME NEW s \in Text
  PROVE  /\ Len(s) \in Nat
         /\ \A k \in 1..Len(s) : s[k] \in Symbol
BY ElementOfSeq, LenProperties DEF Text

LEMMA EvenBound ==
  ASSUME NEW n \in Nat, NEW len \in Nat, len % 2 = 0, 2 * n < len
  PROVE  2 * n + 2 <= len
<1>1. len # 2 * n + 1
  <2>1. (2 * n + 1) % 2 = 1
    OBVIOUS
  <2> QED  BY <2>1
<1> QED  BY <1>1

LEMMA CallKeeps ==
  ASSUME HexLoop, NEW string \in Text, H!Call(string)
  PROVE  HexLoop'
<1> USE DEF Hex, H!Hex, Text, H!Text
<1>1. /\ hex_str' = string /\ state' = "check" /\ pos' = 0 /\ result' = <<>>
      /\ Len(string) \in Nat
  BY TextShape DEF H!Call, HexLoop
<1> QED  BY <1>1 DEF HexLoop, H!TypeOK

LEMMA PushKeeps ==
  ASSUME HexLoop, H!PushByte
  PROVE  HexLoop'
<1> USE DEF Hex, H!Hex, Text, H!Text
<1> DEFINE n == Len(result)
           byte == H!Stoul(H!First, H!Second)
<1>1. /\ state = "loop" /\ pos < Len(hex_str) /\ H!Convertible(H!First, H!Second)
      /\ result' = Append(result, byte)
      /\ pos' = pos + 2
      /\ UNCHANGED <<hex_str, state>>
  BY DEF H!PushByte
<1>2. /\ hex_str \in Text /\ result \in Seq(0..255) /\ n \in Nat
      /\ 2 * n = pos /\ pos \in Nat
      /\ Len(hex_str) \in Nat /\ Len(hex_str) % 2 = 0
  BY <1>1, TextShape, LenProperties DEF HexLoop, H!TypeOK
<1>3. pos + 2 <= Len(hex_str)
  <2>1. 2 * n < Len(hex_str)
    BY <1>1, <1>2
  <2>2. 2 * n + 2 <= Len(hex_str)
    BY <1>2, <2>1, EvenBound
  <2> QED  BY <1>2, <2>2
<1>4. H!First = hex_str[2 * (n + 1) - 1] /\ H!Second = hex_str[2 * (n + 1)]
  <2>1. 2 * (n + 1) - 1 = pos + 1 /\ 2 * (n + 1) = pos + 2
    BY <1>2
  <2> QED  BY <2>1 DEF H!First, H!Second
<1>5. H!First \in Symbol /\ H!Second \in Symbol
  BY <1>2, <1>3, TextShape DEF H!First, H!Second
<1>6. /\ byte \in 0..255
      /\ H!First \in Hex \/ H!Second \in Hex
      /\ H!First \in Hex /\ H!Second \in Hex =>
           byte = 16 * HexValue[H!First] + HexValue[H!Second]
  BY <1>1, <1>5, StoulByte
<1> HIDE DEF byte
<1>7. /\ result' \in Seq(0..255) /\ Len(result') = n + 1
      /\ result'[n + 1] = byte
      /\ \A k \in 1..n : result'[k] = result[k]
  BY <1>1, <1>2, <1>6, AppendProperties
<1> HIDE DEF n
<1>8. \A k \in 1..(n + 1) : k \in 1..n \/ k = n + 1
  BY <1>2
<1>9. H!TypeOK'
  BY <1>1, <1>2, <1>3, <1>7 DEF HexLoop, H!TypeOK
<1>10. \A k \in 1..Len(result') : PairAt(k)'
  <2>1. \A k \in 1..n : PairAt(k)'
    BY <1>1 DEF HexLoop, PairAt, n
  <2>2. hex_str'[2 * (n + 1) - 1] \in Hex \/ hex_str'[2 * (n + 1)] \in Hex
    BY <1>1, <1>4, <1>6
  <2> QED  BY <1>7, <1>8, <2>1, <2>2 DEF PairAt
<1>11. H!OnlyHex' => \A k \in 1..Len(result') : Spells(k)'
  <2> SUFFICES ASSUME H!OnlyHex' PROVE \A k \in 1..Len(result') : Spells(k)'
    OBVIOUS
  <2>1. H!OnlyHex
    BY <1>1 DEF H!OnlyHex
  <2>2. \A k \in 1..n : Spells(k)'
    BY <1>1, <1>7, <2>1 DEF HexLoop, Spells, n
  <2>3. H!First \in Hex /\ H!Second \in Hex
    <3>1. pos + 1 \in 1..Len(hex_str) /\ pos + 2 \in 1..Len(hex_str)
      <4> DEFINE len == Len(hex_str)
      <4>1. pos \in Nat /\ len \in Nat /\ pos + 2 <= len
        BY <1>2, <1>3
      <4> HIDE DEF len
      <4>2. pos + 1 \in 1..len /\ pos + 2 \in 1..len
        BY <4>1
      <4> QED  BY <4>2 DEF len
    <3>2. \A k \in 1..Len(hex_str) : hex_str[k] \in Hex
      BY <2>1 DEF H!OnlyHex
    <3>3. hex_str[pos + 1] \in Hex /\ hex_str[pos + 2] \in Hex
      BY <3>1, <3>2
    <3> QED  BY <3>3 DEF H!First, H!Second
  <2>4. result'[n + 1] = 16 * HexValue[hex_str'[2 * (n + 1) - 1]]
                           + HexValue[hex_str'[2 * (n + 1)]]
    BY <1>1, <1>4, <1>6, <1>7, <2>3
  <2> QED  BY <1>7, <1>8, <2>2, <2>4 DEF Spells
<1> QED  BY <1>1, <1>2, <1>7, <1>9, <1>10, <1>11 DEF HexLoop

LEMMA RestKeeps ==
  ASSUME HexLoop, H!CheckLength \/ H!InvalidArgument \/ H!Return
  PROVE  HexLoop'
<1> USE DEF Hex, H!Hex, Text, H!Text
<1>1. Len(hex_str) \in Nat /\ hex_str \in Text
  BY TextShape DEF HexLoop, H!TypeOK
<1>2. CASE H!CheckLength
  BY <1>1, <1>2 DEF H!CheckLength, HexLoop, H!TypeOK, PairAt, Spells, H!OnlyHex
<1>3. CASE H!InvalidArgument
  <2>1. /\ state = "loop" /\ pos < Len(hex_str) /\ ~H!Convertible(H!First, H!Second)
        /\ pos \in Nat
    BY <1>1, <1>3 DEF H!InvalidArgument, HexLoop, H!TypeOK
  <2>2. ~H!OnlyHex
    <3>1. H!First \notin Hex
      BY <2>1 DEF H!Convertible
    <3> QED  BY <1>1, <2>1, <3>1 DEF H!OnlyHex, H!First
  <2> QED  BY <1>3, <2>1, <2>2 DEF H!InvalidArgument, HexLoop, H!TypeOK, PairAt, Spells, H!OnlyHex
<1>4. CASE H!Return
  BY <1>1, <1>4 DEF H!Return, HexLoop, H!TypeOK, PairAt, Spells, H!OnlyHex
<1> QED  BY <1>2, <1>3, <1>4

-----------------------------------------------------------------------------
(***************************************************************************)
(* Some lemmas about natural numbers and texts.                            *)
(***************************************************************************)
LEMMA SmallestOf ==
  ASSUME NEW T, T \subseteq Nat, T # {}
  PROVE  \E x \in T : \A y \in T : x <= y
<1> DEFINE R == OpToRel(<, Nat)
<1>1. IsWellFoundedOn(R, Nat)
  BY NatLessThanWellFounded
<1>2. \A x, y \in Nat : <<x, y>> \in R <=> x < y
  BY DEF OpToRel
<1> HIDE DEF R
<1>3. PICK x \in T : \A y \in T : ~ (<<y, x>> \in R)
  BY <1>1, WFMin
<1>4. \A y \in T : x \in Nat /\ y \in Nat /\ ~(y < x)
  BY <1>2, <1>3
<1>5. \A y \in T : x <= y
  BY <1>4
<1> QED  BY <1>5

LEMMA PartOfText ==
  ASSUME NEW s \in Text, NEW m \in Nat \ {0}, NEW n \in Nat, n <= Len(s)
  PROVE  SubSeq(s, m, n) \in Text
<1>1. \A k \in m..n : s[k] \in Symbol
  BY TextShape
<1> QED  BY <1>1, SubSeqProperties DEF Text

LEMMA NameEndType ==
  ASSUME NEW a \in Text
  PROVE  C!NameEnd(a) \in Nat
<1> DEFINE I == {k \in 1..Len(a) : a[k] = "="}
<1>1. Len(a) \in Nat /\ I \subseteq Nat
  BY TextShape
<1>2. CASE I # {}
  <2>1. \E x \in I : \A y \in I : x <= y
    BY <1>1, <1>2, SmallestOf
  <2>2. C!Min(I) \in I
    <3> HIDE DEF I
    <3> QED  BY <2>1 DEF C!Min
  <2>3. C!SelectInSeq(a, LAMBDA s : s = "=") = C!Min(I)
    BY <1>2 DEF C!SelectInSeq
  <2> QED  BY <1>1, <2>2, <2>3 DEF C!NameEnd
<1>3. CASE I = {}
  BY <1>1, <1>3 DEF C!NameEnd, C!Contains, C!SelectInSeq
<1> QED  BY <1>2, <1>3

LEMMA AttachedType ==
  ASSUME NEW a \in Text
  PROVE  C!Attached(a) \in Text
<1>1. Len(a) \in Nat
  BY TextShape
<1>2. 3 \in Nat \ {0} /\ C!NameEnd(a) + 1 \in Nat \ {0}
  BY NameEndType
<1> QED  BY <1>1, <1>2, PartOfText DEF C!Attached

LEMMA UnescapeType ==
  ASSUME NEW v \in Text
  PROVE  C!Unescape(v) \in Text
<1>1. CASE C!Doubled(v)
  <2> DEFINE n      == (Len(v) - 3) \div 2
             middle == [k \in 1..n |-> v[2 * k + 1]]
  <2>1. Len(v) \in Nat /\ Len(v) >= 4 /\ n \in Nat /\ 2 * n + 1 <= Len(v)
    BY <1>1, TextShape DEF C!Doubled
  <2>2. v[1] = "[" /\ v[Len(v)] = "]"
    BY <1>1, <2>1, TextShape DEF C!Doubled, C!IsPrefix, C!IsSuffix, C!Reverse
  <2>3. "[" \in Symbol /\ "]" \in Symbol
    BY <2>1, <2>2, TextShape
  <2>4. middle \in Seq(Symbol)
    <3>1. \A k \in 1..n : 2 * k + 1 \in 1..Len(v)
      BY <2>1
    <3> HIDE DEF n
    <3> QED  BY <2>1, <3>1, TextShape
  <2> HIDE DEF middle
  <2>5. <<"[">> \in Seq(Symbol) /\ <<"]">> \in Seq(Symbol)
    BY <2>3
  <2>6. <<"[">> \o middle \o <<"]">> \in Seq(Symbol)
    BY <2>4, <2>5, ConcatProperties
  <2> QED  BY <1>1, <2>6 DEF C!Unescape, middle, Text
<1>2. CASE ~C!Doubled(v)
  BY <1>2 DEF C!Unescape
<1> QED  BY <1>1, <1>2

LEMMA PutBackType ==
  ASSUME NEW a \in Text
  PROVE  C!PutBack(a) \in Seq(Text)
<1>1. CASE C!IsShort(a) /\ C!Attached(a) # <<>>
  <2>1. "-" \in Symbol
    BY <1>1, TextShape DEF C!IsShort
  <2>2. <<"-">> \in Text
    BY <2>1 DEF Text
  <2>3. <<"-">> \o C!Attached(a) \in Text
    BY <2>2, AttachedType, ConcatProperties DEF Text
  <2> HIDE DEF Text
  <2> QED  BY <1>1, <2>3 DEF C!PutBack
<1>2. CASE ~(C!IsShort(a) /\ C!Attached(a) # <<>>)
  BY <1>2 DEF C!PutBack
<1> QED  BY <1>1, <1>2

LEMMA CommandLineTypeOK == C!TypeOK <=> CommandLineType
BY DEF C!TypeOK, CommandLineType, C!Text, Text

LEMMA GiveType ==
  ASSUME CommandLineType, NEW o \in C!Options, NEW v \in Text, C!Give(o, v)
  PROVE  results' \in [C!Options -> Seq(Text)]
<1>1. C!Unescape(v) \in Text
  BY UnescapeType
<1>2. Append(results[o], C!Unescape(v)) \in Seq(Text)
  BY <1>1, AppendProperties DEF CommandLineType
<1> QED  BY <1>2 DEF C!Give, CommandLineType

LEMMA CommandLineStep ==
  ASSUME CommandLineType, C!Step
  PROVE  CommandLineType'
<1> DEFINE a == Head(args)
<1>1. ASSUME C!Parsing
      PROVE  /\ args \in Seq(Text) /\ args # <<>> /\ Len(args) \in Nat
             /\ a \in Text /\ Tail(args) \in Seq(Text) /\ C!Current = a
  BY <1>1, HeadTailProperties, LenProperties DEF C!Parsing, CommandLineType, C!Current
<1> HIDE DEF a
<1>2. CASE C!ParseMark
  BY <1>1, <1>2 DEF C!ParseMark, CommandLineType
<1>3. CASE C!ParseLeftover
  <2>1. a \in Text /\ Tail(args) \in Seq(Text) /\ missing' = Append(missing, a)
    BY <1>1, <1>3 DEF C!ParseLeftover
  <2>2. missing' \in Seq(Text)
    BY <2>1, AppendProperties DEF CommandLineType
  <2> QED  BY <1>3, <2>1, <2>2 DEF C!ParseLeftover, CommandLineType
<1>4. CASE C!ParseFlag
  <2>1. a \in Text /\ Tail(args) \in Seq(Text) /\ args' = C!PutBack(a) \o Tail(args)
    BY <1>1, <1>4 DEF C!ParseFlag
  <2>2. args' \in Seq(Text)
    BY <2>1, PutBackType, ConcatProperties
  <2>3. results' \in [C!Options -> Seq(Text)]
    <3>1. <<>> \in Text
      BY DEF Text
    <3>2. << <<>> >> \in Seq(Text)
      BY <3>1
    <3> QED  BY <1>4, <3>2 DEF C!ParseFlag, CommandLineType
  <2> QED  BY <1>4, <2>2, <2>3 DEF C!ParseFlag, CommandLineType
<1>5. CASE C!ParseValue
  <2>1. /\ args \in Seq(Text) /\ args # <<>> /\ a \in Text
        /\ Tail(args) \in Seq(Text) /\ C!Current = a /\ Len(args) \in Nat
        /\ UNCHANGED <<argv, positional_only, missing>>
    BY <1>1, <1>5 DEF C!ParseValue
  <2>2. PICK o \in C!Named(a) \cap C!ValueOptions :
          \/ /\ C!Attached(a) # <<>>
             /\ C!Give(o, C!Attached(a))
             /\ args' = Tail(args)
             /\ UNCHANGED outcome
          \/ /\ C!Attached(a) = <<>> /\ Len(args) > 1
             /\ C!Give(o, args[2])
             /\ args' = Tail(Tail(args))
             /\ UNCHANGED outcome
          \/ /\ C!Attached(a) = <<>> /\ Len(args) = 1
             /\ outcome' = "mismatch"
             /\ args' = <<>>
             /\ UNCHANGED results
    BY <1>5, <2>1 DEF C!ParseValue
  <2>3. o \in C!Options
    BY DEF C!Options
  <2>4. CASE C!Attached(a) # <<>>
    <3>1. results' \in [C!Options -> Seq(Text)]
      BY <2>1, <2>2, <2>3, <2>4, AttachedType, GiveType
    <3> QED  BY <2>1, <2>2, <2>4, <3>1 DEF CommandLineType
  <2>5. CASE Len(args) > 1 /\ C!Give(o, args[2]) /\ args' = Tail(Tail(args)) /\ UNCHANGED outcome
    <3>1. args[2] \in Text
      BY <2>1, <2>5, ElementOfSeq
    <3>2. results' \in [C!Options -> Seq(Text)]
      BY <2>3, <2>5, <3>1, GiveType
    <3>3. Tail(args) # <<>>
      <4>1. Len(Tail(args)) = Len(args) - 1
        BY <2>1, HeadTailProperties
      <4>2. Len(Tail(args)) # 0
        BY <2>1, <2>5, <4>1
      <4> QED  BY <2>1, <4>2, EmptySeq
    <3>4. Tail(Tail(args)) \in Seq(Text)
      BY <2>1, <3>3, HeadTailProperties
    <3> QED  BY <2>1, <2>5, <3>2, <3>4 DEF CommandLineType
  <2>6. CASE outcome' = "mismatch" /\ args' = <<>> /\ UNCHANGED results
    BY <2>1, <2>6 DEF CommandLineType, C!Errors
  <2> QED  BY <2>2, <2>4, <2>5, <2>6
<1>6. CASE C!Process
  <2>1. C!Verdict \in {"parsing", "accepted", "help"} \cup C!Errors
    BY DEF C!Verdict, C!Errors
  <2> QED  BY <1>6, <2>1 DEF C!Process, CommandLineType
<1> QED  BY <1>2, <1>3, <1>4, <1>5, <1>6 DEF C!Step

-----------------------------------------------------------------------------
(***************************************************************************)
(* The ways to spell an option, with the sequences written out: an         *)
(* argument that names it by its letter or by its name, and a text that is *)
(* attached or the next argument.                                          *)
(***************************************************************************)
ShortFor(o, a) == Len(a) > 1 /\ a[1] = "-" /\ a[2] = o
LongFor(o, a)  == /\ Len(a) > 2 /\ a[1] = "-" /\ a[2] = "-" /\ a[3] = C!LongName[o]
                  /\ Len(a) = 3 \/ a[4] = "="
NameFor(o, a)  == ShortFor(o, a) \/ LongFor(o, a)

(***************************************************************************)
(* The letters and the names of the options are different from each other  *)
(* and from the marks around them.                                         *)
(***************************************************************************)
LEMMA OptionNames ==
  /\ C!ValueOptions = {"i", "c", "o"}
  /\ C!Options = {"i", "c", "o", "h"}
  /\ \A o \in C!Options :
       /\ o # "-" /\ o # "=" /\ C!ValidFirst(o)
       /\ C!LongName[o] # "-" /\ C!LongName[o] # "=" /\ C!ValidFirst(C!LongName[o])
  /\ \A o, p \in C!Options : C!LongName[o] = C!LongName[p] => o = p
<1>1. /\ C!LongName["i"] = "input" /\ C!LongName["c"] = "cmdline"
      /\ C!LongName["o"] = "output" /\ C!LongName["h"] = "help"
  BY DEF C!LongName
<1>2. C!ValueOptions = {"i", "c", "o"} /\ C!Options = {"i", "c", "o", "h"}
  BY DEF C!ValueOptions, C!Options
<1>3. {"i", "c", "o", "h", "input", "cmdline", "output", "help"} \cap Space = {}
  BY ArgumentsAssumption
<1> QED  BY <1>1, <1>2, <1>3 DEF C!ValidFirst

(***************************************************************************)
(* A name ends in front of the first equals sign.                          *)
(***************************************************************************)
LEMMA NameEndShape ==
  ASSUME NEW a \in Text
  PROVE  \/ /\ C!NameEnd(a) \in 1..Len(a) /\ a[C!NameEnd(a)] = "="
            /\ \A k \in 1..Len(a) : k < C!NameEnd(a) => a[k] # "="
         \/ C!NameEnd(a) = Len(a) + 1 /\ \A k \in 1..Len(a) : a[k] # "="
<1> DEFINE I == {k \in 1..Len(a) : a[k] = "="}
<1>1. Len(a) \in Nat /\ I \subseteq Nat
  BY TextShape
<1>2. CASE I # {}
  <2>1. \E x \in I : \A y \in I : x <= y
    BY <1>1, <1>2, SmallestOf
  <2>2. C!Min(I) \in I /\ \A y \in I : C!Min(I) <= y
    <3> HIDE DEF I
    <3> QED  BY <2>1 DEF C!Min
  <2>3. C!NameEnd(a) = C!Min(I)
    BY <1>2 DEF C!SelectInSeq, C!NameEnd, C!Contains
  <2> DEFINE n == C!NameEnd(a)
  <2>4. n \in I /\ \A y \in I : n <= y
    BY <2>2, <2>3
  <2> HIDE DEF n
  <2>5. n \in 1..Len(a) /\ a[n] = "=" /\ \A k \in 1..Len(a) : k < n => a[k] # "="
    BY <1>1, <2>4
  <2> QED  BY <2>5 DEF n
<1>3. CASE I = {}
  BY <1>1, <1>3 DEF C!NameEnd, C!Contains, C!SelectInSeq
<1> QED  BY <1>2, <1>3

(***************************************************************************)
(* Which arguments name an option by its letter.                           *)
(***************************************************************************)
LEMMA ShortIs ==
  ASSUME NEW a \in Text, NEW o \in C!Options
  PROVE  C!IsShort(a) /\ a[2] = o <=> ShortFor(o, a)
BY OptionNames DEF C!IsShort, ShortFor

(***************************************************************************)
(* Two dashes in front of an argument are its first two symbols.           *)
(***************************************************************************)
LEMMA PrefixIs ==
  ASSUME NEW a \in Text
  PROVE  C!IsPrefix(C!PositionalMark, a) <=> Len(a) >= 2 /\ a[1] = "-" /\ a[2] = "-"
<1> DEFINE m == <<"-", "-">>
<1>1. m \in Seq({"-"}) /\ Len(m) = 2 /\ m[1] = "-" /\ m[2] = "-"
  OBVIOUS
<1>2. Len(a) \in Nat
  BY TextShape
<1>3. SubSeq(m, 1, 2) = m
  BY <1>1, SubSeqFull
<1> DEFINE b == SubSeq(a, 1, 2)
<1>4. ASSUME Len(a) >= 2
      PROVE  b \in Text /\ Len(b) = 2 /\ b[1] = a[1] /\ b[2] = a[2]
  <2>1. \A k \in 1..2 : a[k] \in Symbol
    BY <1>2, <1>4, TextShape
  <2>2. /\ b \in Text /\ Len(b) = 2
        /\ \A k \in 1..2 : b[k] = a[1 + k - 1]
    BY <2>1, SubSeqProperties DEF Text
  <2> QED  BY <2>2
<1> HIDE DEF b
<1>5. ASSUME Len(a) >= 2
      PROVE  b = m <=> a[1] = "-" /\ a[2] = "-"
  <2>1. CASE b = m
    BY <1>1, <1>4, <1>5, <2>1
  <2>2. CASE a[1] = "-" /\ a[2] = "-"
    <3>1. b \in Seq(Symbol \cup {"-"}) /\ m \in Seq(Symbol \cup {"-"})
      BY <1>1, <1>4, <1>5, SeqMonotonic DEF Text
    <3>2. \A k \in 1..2 : b[k] = m[k]
      BY <1>1, <1>4, <1>5, <2>2
    <3> HIDE DEF m
    <3> QED  BY <1>1, <1>4, <1>5, <2>2, <3>1, <3>2, SeqEqual
  <2> QED  BY <2>1, <2>2
<1>6. C!IsPrefix(m, a) <=> 2 <= Len(a) /\ b = m
  BY <1>1, <1>3 DEF C!IsPrefix, b
<1> HIDE DEF m
<1> QED  BY <1>2, <1>5, <1>6 DEF C!PositionalMark, m

(***************************************************************************)
(* A sequence of one element.                                              *)
(***************************************************************************)
LEMMA OneElement ==
  ASSUME NEW s, NEW x, s = <<x>>
  PROVE  Len(s) = 1 /\ s[1] = x
OBVIOUS

(***************************************************************************)
(* A part of one symbol.                                                   *)
(***************************************************************************)
LEMMA OneBetween ==
  ASSUME NEW n \in Nat, (IF 3 <= n - 1 THEN (n - 1) - 3 + 1 ELSE 0) = 1
  PROVE  n = 4
OBVIOUS

(***************************************************************************)
(* Which arguments name an option by its name.                             *)
(***************************************************************************)
LEMMA LongIs ==
  ASSUME NEW a \in Text, NEW o \in C!Options
  PROVE  C!IsLong(a) /\ SubSeq(a, 3, C!NameEnd(a) - 1) = <<C!LongName[o]>>
           <=> LongFor(o, a)
<1> DEFINE n == C!NameEnd(a)
           name == C!LongName[o]
           b == SubSeq(a, 3, n - 1)
<1>1. /\ Len(a) \in Nat
      /\ n \in Nat /\ n <= Len(a) + 1
      /\ \A k \in 1..Len(a) : k < n => a[k] # "="
      /\ n <= Len(a) => n >= 1 /\ a[n] = "="
  <2>1. Len(a) \in Nat
    BY TextShape
  <2> HIDE DEF n
  <2> QED  BY <2>1, NameEndShape DEF n
<1>2. name # "=" /\ name # "-" /\ C!ValidFirst(name)
  BY OptionNames
<1> HIDE DEF name
<1>3. /\ b \in Seq(Symbol)
      /\ Len(b) = IF 3 <= n - 1 THEN (n - 1) - 3 + 1 ELSE 0
      /\ 3 <= n - 1 => b[1] = a[3]
  <2> HIDE DEF n
  <2>1. \A k \in 3..(n - 1) : a[k] \in Symbol
    BY <1>1, TextShape
  <2>2. 3 \in Int /\ n - 1 \in Int
    BY <1>1
  <2>3. /\ b \in Seq(Symbol)
        /\ Len(b) = IF 3 <= n - 1 THEN (n - 1) - 3 + 1 ELSE 0
        /\ \A k \in 1..((n - 1) - 3 + 1) : b[k] = a[3 + k - 1]
    BY <2>1, <2>2, SubSeqProperties
  <2> HIDE DEF b
  <2>4. 3 <= n - 1 => b[1] = a[3]
    <3> SUFFICES ASSUME 3 <= n - 1 PROVE b[1] = a[3]
      OBVIOUS
    <3>1. 1 \in 1..((n - 1) - 3 + 1)
      BY <1>1
    <3>2. b[1] = a[3 + 1 - 1]
      BY <2>3, <3>1
    <3> QED  BY <3>2
  <2> QED  BY <1>1, <2>3, <2>4
<1> HIDE DEF b
<1>4. b = <<name>> <=> n = 4 /\ a[3] = name
  <2>1. ASSUME b = <<name>> PROVE n = 4 /\ a[3] = name
    <3>1. Len(b) = 1 /\ b[1] = name
      BY <2>1
    <3> HIDE DEF n
    <3>2. n \in Nat
      BY <1>1
    <3>3. Len(b) = IF 3 <= n - 1 THEN (n - 1) - 3 + 1 ELSE 0
      BY <1>3
    <3>4. n = 4
      BY <3>1, <3>2, <3>3, OneBetween
    <3>5. 3 <= n - 1
      BY <3>4
    <3> QED  BY <1>3, <3>1, <3>4, <3>5
  <2>2. ASSUME n = 4, a[3] = name PROVE b = <<name>>
    <3>1. Len(b) = 1 /\ b[1] = name
      BY <1>3, <2>2
    <3>2. Seq(Symbol) \subseteq Seq(Symbol \cup {name})
      BY SeqMonotonic
    <3>3. b \in Seq(Symbol \cup {name}) /\ <<name>> \in Seq(Symbol \cup {name})
      BY <1>3, <3>2
    <3>4. \A k \in 1..1 : b[k] = <<name>>[k]
      BY <3>1
    <3>5. Len(<<name>>) = 1
      OBVIOUS
    <3> QED  BY <3>1, <3>3, <3>4, <3>5, SeqEqual
  <2> QED  BY <2>1, <2>2
<1>5. LongFor(o, a) <=> /\ Len(a) > 2 /\ a[1] = "-" /\ a[2] = "-" /\ a[3] = name
                        /\ n = 4
  <2> HIDE DEF n
  <2>1. ASSUME Len(a) > 2, a[1] = "-", a[2] = "-", a[3] = name, Len(a) = 3 \/ a[4] = "="
        PROVE  n = 4
    <3>1. "-" # "="
      OBVIOUS
    <3>2. n # 1 /\ n # 2 /\ n # 3 /\ n # 0
      <4>1. n <= 3 => n >= 1 /\ a[n] = "="
        BY <1>1, <2>1
      <4>2. a[1] # "=" /\ a[2] # "=" /\ a[3] # "="
        BY <1>2, <2>1, <3>1
      <4>3. n # 1 /\ n # 2 /\ n # 3
        BY <4>1, <4>2
      <4> QED  BY <4>1, <4>3
    <3>3. CASE Len(a) = 3
      BY <1>1, <3>2, <3>3
    <3>4. CASE Len(a) > 3 /\ a[4] = "="
      <4>1. 4 \in 1..Len(a)
        BY <1>1, <3>4
      <4>2. ~(4 < n)
        BY <1>1, <3>4, <4>1
      <4> QED  BY <1>1, <3>2, <4>2
    <3> QED  BY <1>1, <2>1, <3>3, <3>4
  <2>2. ASSUME Len(a) > 2, n = 4
        PROVE  Len(a) = 3 \/ a[4] = "="
    <3>1. n <= Len(a) => a[n] = "="
      BY <1>1
    <3>2. 4 <= Len(a) => a[4] = "="
      BY <2>2, <3>1
    <3>3. Len(a) \in Nat /\ Len(a) > 2
      BY <1>1, <2>2
    <3>4. Len(a) = 3 \/ 4 <= Len(a)
      <4> DEFINE m == Len(a)
      <4>1. m \in Nat /\ m > 2
        BY <3>3
      <4> HIDE DEF m
      <4>2. m = 3 \/ 4 <= m
        BY <4>1
      <4> QED  BY <4>2 DEF m
    <3> QED  BY <3>2, <3>4
  <2> QED  BY <2>1, <2>2 DEF LongFor, name
<1>6. C!IsLong(a) <=> Len(a) > 2 /\ a[1] = "-" /\ a[2] = "-" /\ C!ValidFirst(a[3])
  BY <1>1, PrefixIs DEF C!IsLong
<1> HIDE DEF n
<1> QED  BY <1>1, <1>2, <1>4, <1>5, <1>6 DEF b, n, name

(***************************************************************************)
(* Named, of CommandLine, finds the option that an argument spells.        *)
(***************************************************************************)
LEMMA NamesFor ==
  ASSUME NEW a \in Text, NEW o \in C!Options
  PROVE  o \in C!Named(a) <=> NameFor(o, a)
BY ShortIs, LongIs DEF C!Named, NameFor

(***************************************************************************)
(* An argument names one option at most.                                   *)
(***************************************************************************)
LEMMA OneName ==
  ASSUME NEW a \in Text, NEW o \in C!Options, NEW p \in C!Options,
         NameFor(o, a), NameFor(p, a)
  PROVE  o = p
BY OptionNames DEF NameFor, ShortFor, LongFor

(***************************************************************************)
(* The value attached to an option begins behind its name.                 *)
(***************************************************************************)
LEMMA AttachedFor ==
  ASSUME NEW a \in Text, NEW o \in C!Options
  PROVE  /\ ShortFor(o, a) => C!Attached(a) = SubSeq(a, 3, Len(a))
         /\ LongFor(o, a) => C!Attached(a) = SubSeq(a, 5, Len(a))
<1>1. ASSUME ShortFor(o, a)
      PROVE  C!Attached(a) = SubSeq(a, 3, Len(a))
  BY <1>1, ShortIs DEF C!Attached
<1>2. ASSUME LongFor(o, a)
      PROVE  C!Attached(a) = SubSeq(a, 5, Len(a))
  <2>1. ~C!IsShort(a)
    BY <1>2 DEF C!IsShort, C!ValidFirst, LongFor
  <2> DEFINE n == C!NameEnd(a)
  <2>2. n = 4
    <3>1. SubSeq(a, 3, n - 1) = <<C!LongName[o]>>
      BY <1>2, LongIs
    <3>2. n \in Nat /\ n <= Len(a) + 1 /\ Len(a) \in Nat
      <4> HIDE DEF n
      <4> QED  BY NameEndShape, TextShape DEF n
    <3> HIDE DEF n
    <3>3. \A k \in 3..(n - 1) : a[k] \in Symbol
      BY <3>2, TextShape
    <3>4. 3 \in Int /\ n - 1 \in Int
      BY <3>2
    <3>5. Len(SubSeq(a, 3, n - 1)) = IF 3 <= n - 1 THEN (n - 1) - 3 + 1 ELSE 0
      BY <3>3, <3>4, SubSeqProperties
    <3>6. Len(SubSeq(a, 3, n - 1)) = 1
      BY <3>1, OneElement
    <3> QED  BY <3>2, <3>5, <3>6, OneBetween
  <2>3. C!Attached(a) = SubSeq(a, n + 1, Len(a))
    BY <2>1 DEF C!Attached
  <2> HIDE DEF n
  <2> QED  BY <2>2, <2>3
<1> QED  BY <1>1, <1>2

(***************************************************************************)
(* What follows a prefix.                                                  *)
(***************************************************************************)
LEMMA Behind ==
  ASSUME NEW S, NEW a \in Seq(S), NEW p \in Seq(S), NEW t \in Seq(S)
  PROVE  a = p \o t <=> /\ Len(a) >= Len(p)
                        /\ \A k \in 1..Len(p) : a[k] = p[k]
                        /\ t = SubSeq(a, Len(p) + 1, Len(a))
<1> DEFINE m == Len(p)
           n == Len(a)
           r == SubSeq(a, m + 1, n)
<1>1. m \in Nat /\ n \in Nat /\ Len(t) \in Nat
  BY LenProperties
<1>2. /\ r \in Seq(S)
      /\ Len(r) = IF m + 1 <= n THEN n - (m + 1) + 1 ELSE 0
      /\ \A k \in 1..(n - (m + 1) + 1) : r[k] = a[m + 1 + k - 1]
  <2>1. \A k \in (m + 1)..n : a[k] \in S
    BY <1>1, ElementOfSeq
  <2>2. m + 1 \in Int /\ n \in Int
    BY <1>1
  <2> HIDE DEF m, n
  <2> QED  BY <2>1, <2>2, SubSeqProperties
<1> HIDE DEF r
<1>3. ASSUME NEW q \in Seq(S)
      PROVE  /\ p \o q \in Seq(S)
             /\ Len(p \o q) = m + Len(q)
             /\ \A k \in 1..m : (p \o q)[k] = p[k]
             /\ \A k \in 1..Len(q) : (p \o q)[m + k] = q[k]
  <2>1. Len(q) \in Nat
    BY LenProperties
  <2>2. /\ p \o q \in Seq(S)
        /\ Len(p \o q) = m + Len(q)
        /\ \A k \in 1..(m + Len(q)) :
             (p \o q)[k] = IF k <= m THEN p[k] ELSE q[k - m]
    BY ConcatProperties
  <2> QED  BY <1>1, <2>1, <2>2
<1>4. ASSUME a = p \o t
      PROVE  n >= m /\ (\A k \in 1..m : a[k] = p[k]) /\ t = r
  <2>1. n = m + Len(t) /\ (\A k \in 1..m : a[k] = p[k])
    BY <1>3, <1>4
  <2>2. \A k \in 1..Len(t) : a[m + k] = t[k]
    BY <1>3, <1>4
  <2>3. Len(r) = Len(t)
    BY <1>1, <1>2, <2>1
  <2>4. \A k \in 1..Len(t) : r[k] = t[k]
    <3> SUFFICES ASSUME NEW k \in 1..Len(t) PROVE r[k] = t[k]
      OBVIOUS
    <3>1. k \in 1..(n - (m + 1) + 1) /\ m + 1 + k - 1 = m + k
      BY <1>1, <2>1
    <3> QED  BY <1>2, <2>2, <3>1
  <2>5. r = t
    BY <1>2, <2>3, <2>4, SeqEqual
  <2> QED  BY <1>1, <2>1, <2>5
<1>5. ASSUME n >= m, \A k \in 1..m : a[k] = p[k]
      PROVE  a = p \o r
  <2> DEFINE b == p \o r
  <2>1. Len(r) = n - m
    BY <1>1, <1>2, <1>5
  <2>2. b \in Seq(S) /\ Len(b) = n
    BY <1>1, <1>2, <1>3, <2>1
  <2>3. \A k \in 1..m : b[k] = a[k]
    BY <1>2, <1>3, <1>5
  <2>4. ASSUME NEW k \in (m + 1)..n
        PROVE  b[k] = a[k]
    <3> DEFINE j == k - m
    <3>1. j \in 1..Len(r) /\ j \in 1..(n - (m + 1) + 1) /\ m + j = k /\ m + 1 + j - 1 = k
      BY <1>1, <2>1
    <3> HIDE DEF j
    <3> QED  BY <1>2, <1>3, <3>1
  <2> HIDE DEF b
  <2>5. \A k \in 1..n : k \in 1..m \/ k \in (m + 1)..n
    BY <1>1
  <2>6. \A k \in 1..n : b[k] = a[k]
    BY <2>3, <2>4, <2>5
  <2> QED  BY <2>2, <2>6, SeqEqual DEF b
<1> QED  BY <1>4, <1>5 DEF r

(***************************************************************************)
(* The spellings of an option that stand in front of its text.             *)
(***************************************************************************)
ShortName(o) == <<"-", o>>
NameLong(o)  == <<"-", "-", C!LongName[o]>>
LongEquals(o) == NameLong(o) \o <<"=">>

(***************************************************************************)
(* Their symbols.                                                          *)
(***************************************************************************)
LEMMA NameShapes ==
  ASSUME NEW o \in C!Options
  PROVE  \E S : /\ Text \subseteq Seq(S)
                /\ ShortName(o) \in Seq(S) /\ Len(ShortName(o)) = 2
                /\ ShortName(o)[1] = "-" /\ ShortName(o)[2] = o
                /\ NameLong(o) \in Seq(S) /\ Len(NameLong(o)) = 3
                /\ NameLong(o)[1] = "-" /\ NameLong(o)[2] = "-"
                /\ NameLong(o)[3] = C!LongName[o]
                /\ LongEquals(o) \in Seq(S) /\ Len(LongEquals(o)) = 4
                /\ LongEquals(o)[1] = "-" /\ LongEquals(o)[2] = "-"
                /\ LongEquals(o)[3] = C!LongName[o] /\ LongEquals(o)[4] = "="
<1> DEFINE name == C!LongName[o]
           S == Symbol \cup {"-", "=", o, name}
<1> HIDE DEF name
<1>1. "-" \in S /\ "=" \in S /\ o \in S /\ name \in S
  OBVIOUS
<1>2. Text \subseteq Seq(S)
  BY SeqMonotonic DEF Text
<1> HIDE DEF S
<1> DEFINE short == <<"-", o>>
           long  == <<"-", "-", name>>
           eq    == <<"=">>
<1>3. short \in Seq(S) /\ Len(short) = 2 /\ short[1] = "-" /\ short[2] = o
  BY <1>1
<1>4. long \in Seq(S) /\ Len(long) = 3 /\ long[1] = "-" /\ long[2] = "-" /\ long[3] = name
  BY <1>1
<1>5. eq \in Seq(S) /\ Len(eq) = 1 /\ eq[1] = "="
  BY <1>1
<1> HIDE DEF short, long, eq
<1>6. /\ long \o eq \in Seq(S) /\ Len(long \o eq) = 4
      /\ (long \o eq)[1] = "-" /\ (long \o eq)[2] = "-"
      /\ (long \o eq)[3] = name /\ (long \o eq)[4] = "="
  <2>1. /\ long \o eq \in Seq(S) /\ Len(long \o eq) = Len(long) + Len(eq)
        /\ \A k \in 1..(Len(long) + Len(eq)) :
             (long \o eq)[k] = IF k <= Len(long) THEN long[k] ELSE eq[k - Len(long)]
    BY <1>4, <1>5, ConcatProperties
  <2>2. Len(long) + Len(eq) = 4 /\ Len(long) = 3 /\ 4 - 3 = 1
    BY <1>4, <1>5
  <2> QED  BY <1>4, <1>5, <2>1, <2>2
<1> QED  BY <1>2, <1>3, <1>4, <1>6 DEF ShortName, NameLong, LongEquals, short, long, eq, name

(***************************************************************************)
(* Which arguments name an option by its letter and attach a text to it.   *)
(***************************************************************************)
LEMMA ShortWith ==
  ASSUME NEW a \in Text, NEW o \in C!Options, NEW t \in Text
  PROVE  a = ShortName(o) \o t <=> ShortFor(o, a) /\ C!Attached(a) = t
<1> DEFINE p == ShortName(o)
<1>1. PICK S : /\ Text \subseteq Seq(S)
               /\ p \in Seq(S) /\ Len(p) = 2 /\ p[1] = "-" /\ p[2] = o
  BY NameShapes
<1> HIDE DEF p
<1>2. a = p \o t <=> /\ Len(a) >= Len(p)
                     /\ \A k \in 1..Len(p) : a[k] = p[k]
                     /\ t = SubSeq(a, Len(p) + 1, Len(a))
  BY <1>1, Behind
<1>3. (\A k \in 1..Len(p) : a[k] = p[k]) <=> a[1] = "-" /\ a[2] = o
  BY <1>1
<1>4. Len(a) >= 2 <=> Len(a) > 1
  BY TextShape
<1>5. a = p \o t <=> ShortFor(o, a) /\ t = SubSeq(a, 3, Len(a))
  BY <1>1, <1>2, <1>3, <1>4 DEF ShortFor
<1> QED  BY <1>5, AttachedFor DEF p

(***************************************************************************)
(* Which arguments name an option by its name and attach a text to it.     *)
(***************************************************************************)
LEMMA LongWith ==
  ASSUME NEW a \in Text, NEW o \in C!Options, NEW t \in Text
  PROVE  a = LongEquals(o) \o t \/ (a = NameLong(o) /\ t = <<>>)
           <=> LongFor(o, a) /\ C!Attached(a) = t
<1> DEFINE p == LongEquals(o)
           q == NameLong(o)
           name == C!LongName[o]
<1> HIDE DEF name
<1>1. PICK S : /\ Text \subseteq Seq(S)
               /\ p \in Seq(S) /\ Len(p) = 4 /\ p[1] = "-" /\ p[2] = "-"
               /\ p[3] = name /\ p[4] = "="
               /\ q \in Seq(S) /\ Len(q) = 3 /\ q[1] = "-" /\ q[2] = "-" /\ q[3] = name
  BY NameShapes DEF name
<1> HIDE DEF p, q
<1>2. a = p \o t <=> /\ Len(a) >= Len(p)
                     /\ \A k \in 1..Len(p) : a[k] = p[k]
                     /\ t = SubSeq(a, Len(p) + 1, Len(a))
  BY <1>1, Behind
<1>3. (\A k \in 1..Len(p) : a[k] = p[k])
         <=> a[1] = "-" /\ a[2] = "-" /\ a[3] = name /\ a[4] = "="
  BY <1>1
<1>4. a = p \o t <=> /\ Len(a) >= 4 /\ a[1] = "-" /\ a[2] = "-" /\ a[3] = name /\ a[4] = "="
                     /\ t = SubSeq(a, 5, Len(a))
  BY <1>1, <1>2, <1>3
<1>5. a = q <=> Len(a) = 3 /\ a[1] = "-" /\ a[2] = "-" /\ a[3] = name
  <2>1. ASSUME Len(a) = 3, a[1] = "-", a[2] = "-", a[3] = name
        PROVE  a = q
    <3>1. \A k \in 1..3 : a[k] = q[k]
      BY <1>1, <2>1
    <3>2. a \in Seq(S)
      BY <1>1
    <3> QED  BY <1>1, <2>1, <3>1, <3>2, SeqEqual
  <2> QED  BY <1>1, <2>1
<1>6. Len(a) = 3 => SubSeq(a, 5, Len(a)) = <<>>
  BY SubSeqEmpty
<1>7. LongFor(o, a) <=> \/ a = q
                        \/ /\ Len(a) >= 4 /\ a[1] = "-" /\ a[2] = "-" /\ a[3] = name
                           /\ a[4] = "="
  <2> DEFINE n == Len(a)
  <2>1. n \in Nat
    BY TextShape
  <2> HIDE DEF n
  <2>2. n > 2 <=> n = 3 \/ n >= 4
    BY <2>1
  <2> QED  BY <1>5, <2>2 DEF LongFor, n, name
<1> QED  BY <1>4, <1>5, <1>6, <1>7, AttachedFor DEF p, q

(***************************************************************************)
(* The arguments s spell the option o with the text t.                     *)
(***************************************************************************)
Spelt(o, t, s) ==
  /\ Len(s) \in {1, 2}
  /\ NameFor(o, s[1])
  /\ Len(s) = 1 => C!Attached(s[1]) = t /\ t # <<>>
  /\ Len(s) = 2 => C!Attached(s[1]) = <<>> /\ s[2] = t

(***************************************************************************)
(* An option with a value is an option.                                    *)
(***************************************************************************)
LEMMA ValueOptionTypes ==
  ASSUME NEW o \in C!ValueOptions
  PROVE  o \in C!Options
BY OptionNames

(***************************************************************************)
(* An argument that names an option, with what is attached to it.          *)
(***************************************************************************)
LEMMA NameWith ==
  ASSUME NEW a \in Text, NEW o \in C!Options, NEW t \in Text
  PROVE  NameFor(o, a) /\ C!Attached(a) = t
           <=> \/ a = ShortName(o) \o t
               \/ a = LongEquals(o) \o t
               \/ a = NameLong(o) /\ t = <<>>
<1>1. ShortFor(o, a) /\ C!Attached(a) = t <=> a = ShortName(o) \o t
  BY ShortWith
<1>2. LongFor(o, a) /\ C!Attached(a) = t
        <=> a = LongEquals(o) \o t \/ (a = NameLong(o) /\ t = <<>>)
  BY LongWith
<1> QED  BY <1>1, <1>2 DEF NameFor

(***************************************************************************)
(* Short sequences are made of their elements.                             *)
(***************************************************************************)
LEMMA OneOf ==
  ASSUME NEW S, NEW s \in Seq(S), Len(s) = 1
  PROVE  s = <<s[1]>> /\ s[1] \in S
<1>1. s[1] \in S
  BY ElementOfSeq
<1>2. <<s[1]>> \in Seq(S) /\ Len(<<s[1]>>) = 1 /\ \A k \in 1..1 : s[k] = <<s[1]>>[k]
  BY <1>1
<1> QED  BY <1>1, <1>2, SeqEqual

(***************************************************************************)
(* The same for two.                                                       *)
(***************************************************************************)
LEMMA TwoOf ==
  ASSUME NEW S, NEW s \in Seq(S), Len(s) = 2
  PROVE  s = <<s[1], s[2]>> /\ s[1] \in S /\ s[2] \in S
<1>1. s[1] \in S /\ s[2] \in S
  BY ElementOfSeq
<1>2. /\ <<s[1], s[2]>> \in Seq(S) /\ Len(<<s[1], s[2]>>) = 2
      /\ \A k \in 1..2 : s[k] = <<s[1], s[2]>>[k]
  BY <1>1
<1> QED  BY <1>1, <1>2, SeqEqual

(***************************************************************************)
(* The documented spellings of an option with a text are those that name   *)
(* the option and have the text attached or behind them.                   *)
(***************************************************************************)
LEMMA Spelling ==
  ASSUME NEW s \in Seq(Text), NEW o \in C!ValueOptions, NEW t \in Text
  PROVE  s \in C!Spellings(o, t) <=> Spelt(o, t, s)
<1> DEFINE short == ShortName(o)
           long == NameLong(o)
           equals == LongEquals(o)
<1>1. o \in C!Options /\ <<>> \in Text
  BY ValueOptionTypes DEF Text
<1>2. s \in C!Spellings(o, t)
        <=> \/ s = <<short, t>> \/ s = <<long, t>> \/ s = <<equals, t>>
            \/ t # <<>> /\ (s = <<short \o t>> \/ s = <<equals \o t>>)
  BY DEF C!Spellings, ShortName, NameLong, LongEquals
<1>0. short = short \o <<>> /\ equals = equals \o <<>>
  <2>1. PICK S : short \in Seq(S) /\ equals \in Seq(S)
    BY <1>1, NameShapes
  <2> QED  BY <2>1, ConcatEmptySeq
<1> HIDE DEF short, long, equals
<1>3. ASSUME NEW a \in Text
      PROVE  NameFor(o, a) /\ C!Attached(a) = <<>>
               <=> a = short \/ a = long \/ a = equals
  BY <1>0, <1>1, NameWith DEF short, long, equals
<1>4. ASSUME NEW a \in Text, t # <<>>
      PROVE  NameFor(o, a) /\ C!Attached(a) = t <=> a = short \o t \/ a = equals \o t
  BY <1>1, <1>4, NameWith DEF short, long, equals
<1>5. ASSUME Len(s) = 1
      PROVE  s \in C!Spellings(o, t) <=> Spelt(o, t, s)
  <2> DEFINE a == s[1]
  <2>1. s = <<a>> /\ a \in Text
    BY <1>5, OneOf
  <2>2. \A x, y : s # <<x, y>>
    BY <1>5
  <2>3. \A x : s = <<x>> <=> a = x
    BY <2>1
  <2> HIDE DEF a
  <2>4. s \in C!Spellings(o, t) <=> t # <<>> /\ (a = short \o t \/ a = equals \o t)
    BY <1>2, <2>2, <2>3
  <2>5. Spelt(o, t, s) <=> t # <<>> /\ NameFor(o, a) /\ C!Attached(a) = t
    BY <1>5 DEF Spelt, a
  <2> QED  BY <1>4, <2>1, <2>4, <2>5
<1>6. ASSUME Len(s) = 2
      PROVE  s \in C!Spellings(o, t) <=> Spelt(o, t, s)
  <2> DEFINE a == s[1]
             b == s[2]
  <2>1. s = <<a, b>> /\ a \in Text /\ b \in Text
    BY <1>6, TwoOf
  <2>2. \A x : s # <<x>>
    BY <1>6
  <2>3. \A x, y : s = <<x, y>> <=> a = x /\ b = y
    BY <2>1
  <2> HIDE DEF a, b
  <2>4. s \in C!Spellings(o, t) <=> b = t /\ (a = short \/ a = long \/ a = equals)
    BY <1>2, <2>2, <2>3
  <2>5. Spelt(o, t, s) <=> b = t /\ NameFor(o, a) /\ C!Attached(a) = <<>>
    BY <1>6 DEF Spelt, a, b
  <2> QED  BY <1>3, <2>1, <2>4, <2>5
<1>7. ASSUME s \in C!Spellings(o, t)
      PROVE  Len(s) = 1 \/ Len(s) = 2
  <2>1. (\E x : s = <<x>>) \/ (\E x, y : s = <<x, y>>)
    BY <1>2, <1>7
  <2> QED  BY <2>1
<1> QED  BY <1>5, <1>6, <1>7 DEF Spelt

(***************************************************************************)
(* The first arguments of a sequence of them.                              *)
(***************************************************************************)
LEMMA Leading ==
  ASSUME NEW S, NEW s \in Seq(S), NEW r \in Seq(S), s # <<>>
  PROVE  /\ s \o r \in Seq(S) /\ s \o r # <<>>
         /\ Head(s \o r) = s[1] /\ (s \o r)[1] = s[1] /\ s[1] \in S
         /\ Len(s \o r) = Len(s) + Len(r)
         /\ Len(s) = 1 => Tail(s \o r) = r
         /\ Len(s) = 2 => (s \o r)[2] = s[2] /\ Tail(Tail(s \o r)) = r
<1> DEFINE b == s \o r
           m == Len(s)
           n == Len(r)
<1>1. m \in Nat /\ n \in Nat /\ m >= 1
  BY LenProperties, EmptySeq
<1>2. /\ b \in Seq(S) /\ Len(b) = m + n
      /\ \A k \in 1..(m + n) : b[k] = IF k <= m THEN s[k] ELSE r[k - m]
  BY ConcatProperties
<1> HIDE DEF b
<1>3. b # <<>>
  BY <1>1, <1>2, EmptySeq
<1>4. b[1] = s[1]
  BY <1>1, <1>2
<1>5. Head(b) = b[1]
  BY <1>2, <1>3
<1>6. s[1] \in S
  BY <1>1, ElementOfSeq
<1>7. /\ Tail(b) \in Seq(S) /\ Len(Tail(b)) = m + n - 1
      /\ \A k \in 1..(m + n - 1) : Tail(b)[k] = b[k + 1]
  BY <1>2, <1>3, HeadTailProperties
<1>8. ASSUME m = 1
      PROVE  Tail(b) = r
  <2>1. Len(Tail(b)) = n
    BY <1>1, <1>7, <1>8
  <2>2. \A k \in 1..n : Tail(b)[k] = r[k]
    BY <1>1, <1>2, <1>7, <1>8
  <2> QED  BY <1>7, <2>1, <2>2, SeqEqual
<1>9. ASSUME m = 2
      PROVE  b[2] = s[2] /\ Tail(Tail(b)) = r
  <2>1. b[2] = s[2]
    BY <1>1, <1>2, <1>9
  <2> DEFINE c == Tail(b)
  <2>2. c \in Seq(S) /\ Len(c) = n + 1 /\ \A k \in 1..(n + 1) : c[k] = b[k + 1]
    BY <1>1, <1>7, <1>9
  <2> HIDE DEF c
  <2>3. c # <<>>
    BY <1>1, <2>2, EmptySeq
  <2>4. /\ Tail(c) \in Seq(S) /\ Len(Tail(c)) = n + 1 - 1
        /\ \A k \in 1..(n + 1 - 1) : Tail(c)[k] = c[k + 1]
    BY <2>2, <2>3, HeadTailProperties
  <2>5. Len(Tail(c)) = n
    BY <1>1, <2>4
  <2>6. \A k \in 1..n : Tail(c)[k] = r[k]
    BY <1>1, <1>2, <1>9, <2>2, <2>4
  <2>7. Tail(c) = r
    BY <2>4, <2>5, <2>6, SeqEqual
  <2> QED  BY <2>1, <2>7 DEF c
<1> QED  BY <1>2, <1>3, <1>4, <1>5, <1>6, <1>8, <1>9 DEF b

(***************************************************************************)
(* An argument that names an option is neither "--" nor a leftover.        *)
(***************************************************************************)
LEMMA NotMark ==
  ASSUME NEW a \in Text, NEW o \in C!Options, NameFor(o, a)
  PROVE  a # C!PositionalMark /\ C!Named(a) = {o}
<1>1. a # C!PositionalMark
  <2>1. ASSUME a = <<"-", "-">> PROVE FALSE
    <3>1. Len(a) = 2 /\ a[2] = "-"
      BY <2>1
    <3>2. o # "-"
      BY OptionNames
    <3>3. ~(Len(a) > 2)
      BY <3>1
    <3> QED  BY <3>1, <3>2, <3>3 DEF NameFor, ShortFor, LongFor
  <2> QED  BY <2>1 DEF C!PositionalMark
<1>2. C!Named(a) \subseteq C!Options
  BY DEF C!Named
<1> QED  BY <1>1, <1>2, NamesFor, OneName

(***************************************************************************)
(* If the arguments begin with a spelled option, every step takes that     *)
(* option with its text and leaves the others alone.                       *)
(***************************************************************************)
LEMMA Takes ==
  ASSUME CommandLineType, outcome = "parsing", positional_only = FALSE,
         NEW s \in Seq(Text), NEW r \in Seq(Text), args = s \o r,
         NEW o \in C!ValueOptions, NEW t \in Text, Spelt(o, t, s), C!Step
  PROVE  C!Give(o, t) /\ args' = r /\ UNCHANGED <<argv, positional_only, missing, outcome>>
<1> DEFINE a == s[1]
<1>1. s # <<>> /\ Len(r) \in Nat
  BY LenProperties DEF Spelt
<1>2. /\ args # <<>> /\ Head(args) = a /\ a \in Text
      /\ Len(args) = Len(s) + Len(r)
      /\ Len(s) = 1 => Tail(args) = r
      /\ Len(s) = 2 => args[2] = s[2] /\ Tail(Tail(args)) = r
  BY <1>1, Leading
<1>3. o \in C!Options /\ NameFor(o, a) /\ o # "h"
  BY ValueOptionTypes, OptionNames DEF Spelt
<1>4. a # C!PositionalMark /\ C!Named(a) = {o}
  BY <1>2, <1>3, NotMark
<1>5. /\ Len(s) = 1 \/ Len(s) = 2
      /\ Len(s) = 1 => C!Attached(a) = t /\ t # <<>>
      /\ Len(s) = 2 => C!Attached(a) = <<>> /\ s[2] = t
  BY DEF Spelt
<1> HIDE DEF a
<1>6. C!ParseValue
  BY <1>2, <1>3, <1>4 DEF C!Step, C!ParseMark, C!ParseLeftover, C!ParseFlag, C!Process,
     C!Current
<1>7. /\ UNCHANGED <<argv, positional_only, missing>>
      /\ \/ /\ C!Attached(a) # <<>>
            /\ C!Give(o, C!Attached(a))
            /\ args' = Tail(args)
            /\ UNCHANGED outcome
         \/ /\ C!Attached(a) = <<>> /\ Len(args) > 1
            /\ C!Give(o, args[2])
            /\ args' = Tail(Tail(args))
            /\ UNCHANGED outcome
         \/ /\ C!Attached(a) = <<>> /\ Len(args) = 1
            /\ outcome' = "mismatch"
            /\ args' = <<>>
            /\ UNCHANGED results
  BY <1>2, <1>4, <1>6 DEF C!ParseValue, C!Current
<1>8. CASE Len(s) = 1
  BY <1>2, <1>5, <1>7, <1>8
<1>9. CASE Len(s) = 2
  <2>1. Len(args) # 1
    BY <1>1, <1>2, <1>9
  <2> QED  BY <1>2, <1>5, <1>7, <1>9, <2>1
<1> QED  BY <1>5, <1>8, <1>9

(***************************************************************************)
(* ParseValue takes from the arguments one option, in one of its           *)
(* spellings, or finds that its text is missing.                           *)
(***************************************************************************)
LEMMA Taken ==
  ASSUME CommandLineType, C!ParseValue
  PROVE  /\ outcome = "parsing" /\ positional_only = FALSE
         /\ UNCHANGED <<argv, positional_only, missing>>
         /\ \/ outcome' = "mismatch"
            \/ \E o \in C!ValueOptions, t \in Text, s \in Seq(Text) :
                 /\ Spelt(o, t, s)
                 /\ args = s \o args'
                 /\ args' \in Seq(Text)
                 /\ C!Give(o, t)
                 /\ outcome' = "parsing"
<1> DEFINE a == Head(args)
           b == Tail(args)
<1>1. /\ args \in Seq(Text) /\ args # <<>> /\ outcome = "parsing" /\ positional_only = FALSE
      /\ UNCHANGED <<argv, positional_only, missing>>
  BY DEF CommandLineType, C!ParseValue, C!Parsing
<1>2. a \in Text /\ b \in Seq(Text) /\ Len(b) = Len(args) - 1 /\ a = args[1]
      /\ Len(args) \in Nat
      /\ \A k \in 1..Len(b) : b[k] = args[k + 1]
  BY <1>1, HeadTailProperties, LenProperties
<1>3. PICK o \in C!Named(a) \cap C!ValueOptions :
         \/ /\ C!Attached(a) # <<>>
            /\ C!Give(o, C!Attached(a))
            /\ args' = b
            /\ UNCHANGED outcome
         \/ /\ C!Attached(a) = <<>> /\ Len(args) > 1
            /\ C!Give(o, args[2])
            /\ args' = Tail(b)
            /\ UNCHANGED outcome
         \/ outcome' = "mismatch"
  BY DEF C!ParseValue, C!Current
<1>4. o \in C!ValueOptions /\ NameFor(o, a)
  BY <1>2, <1>3, ValueOptionTypes, NamesFor
<1> HIDE DEF a, b
<1>5. args = <<a>> \o b
  <2>1. <<a>> \in Seq(Text) /\ Len(<<a>>) = 1 /\ <<a>>[1] = a
    BY <1>2
  <2> DEFINE c == <<a>> \o b
  <2>2. /\ c \in Seq(Text) /\ Len(c) = 1 + Len(b)
        /\ \A k \in 1..(1 + Len(b)) : c[k] = IF k <= 1 THEN <<a>>[k] ELSE b[k - 1]
    BY <1>2, <2>1, ConcatProperties
  <2> HIDE DEF c
  <2>3. \A k \in 1..Len(args) : c[k] = args[k]
    <3> SUFFICES ASSUME NEW k \in 1..Len(args) PROVE c[k] = args[k]
      OBVIOUS
    <3>1. CASE k = 1
      BY <1>2, <2>1, <2>2, <3>1
    <3>2. CASE k > 1
      <4>1. k - 1 \in 1..Len(b) /\ (k - 1) + 1 = k /\ k \in 1..(1 + Len(b)) /\ ~(k <= 1)
        BY <1>2, <3>2
      <4>2. c[k] = b[k - 1] /\ b[k - 1] = args[k]
        BY <1>2, <2>2, <4>1
      <4> QED  BY <4>2
    <3> QED  BY <3>1, <3>2
  <2>4. Len(c) = Len(args)
    BY <1>2, <2>2
  <2> QED  BY <1>1, <2>2, <2>3, <2>4, SeqEqual DEF c
<1>6. ASSUME C!Attached(a) # <<>>, C!Give(o, C!Attached(a)), args' = b, UNCHANGED outcome
      PROVE  \E t \in Text, s \in Seq(Text) :
                 /\ Spelt(o, t, s)
                 /\ args = s \o args'
                 /\ args' \in Seq(Text)
                 /\ C!Give(o, t)
                 /\ outcome' = "parsing"
  <2> DEFINE s == <<a>>
  <2>1. s \in Seq(Text) /\ Len(s) = 1 /\ s[1] = a
    BY <1>2
  <2>2. C!Attached(a) \in Text
    BY <1>2, AttachedType
  <2> HIDE DEF s
  <2>3. Spelt(o, C!Attached(a), s)
    BY <1>4, <1>6, <2>1 DEF Spelt
  <2>4. args = s \o args'
    BY <1>5, <1>6 DEF s
  <2> QED  BY <1>1, <1>2, <1>6, <2>1, <2>2, <2>3, <2>4
<1>7. ASSUME C!Attached(a) = <<>>, Len(args) > 1, C!Give(o, args[2]), args' = Tail(b),
             UNCHANGED outcome
      PROVE  \E t \in Text, s \in Seq(Text) :
                 /\ Spelt(o, t, s)
                 /\ args = s \o args'
                 /\ args' \in Seq(Text)
                 /\ C!Give(o, t)
                 /\ outcome' = "parsing"
  <2> DEFINE t == args[2]
             c == Tail(b)
             s == <<a, t>>
  <2>1. b # <<>> /\ b[1] = t /\ t \in Text
    <3>1. Len(b) # 0 /\ 1 \in 1..Len(b) /\ 2 \in 1..Len(args)
      BY <1>2, <1>7
    <3>2. Len(<<>>) = 0
      OBVIOUS
    <3>3. b[1] = args[1 + 1]
      BY <1>2, <3>1
    <3> QED  BY <1>1, <3>1, <3>2, <3>3, ElementOfSeq
  <2> HIDE DEF t
  <2>2. s \in Seq(Text) /\ Len(s) = 2 /\ s[1] = a /\ s[2] = t
    BY <1>2, <2>1
  <2>3. /\ c \in Seq(Text) /\ Len(c) = Len(b) - 1
        /\ \A k \in 1..Len(c) : c[k] = b[k + 1]
    BY <1>2, <2>1, HeadTailProperties
  <2> HIDE DEF s, c
  <2>4. Spelt(o, t, s)
    BY <1>4, <1>7, <2>2 DEF Spelt
  <2>5. args = s \o c
    <3> DEFINE e == s \o c
    <3>1. /\ e \in Seq(Text) /\ Len(e) = 2 + Len(c)
          /\ \A k \in 1..(2 + Len(c)) : e[k] = IF k <= 2 THEN s[k] ELSE c[k - 2]
      <4>1. /\ e \in Seq(Text) /\ Len(e) = Len(s) + Len(c)
            /\ \A k \in 1..(Len(s) + Len(c)) :
                 e[k] = IF k <= Len(s) THEN s[k] ELSE c[k - Len(s)]
        BY <2>2, <2>3, ConcatProperties
      <4> HIDE DEF e
      <4> QED  BY <2>2, <4>1
    <3> HIDE DEF e
    <3>2. Len(e) = Len(args)
      BY <1>2, <2>3, <3>1
    <3>3. ASSUME NEW k \in 1..Len(args)
          PROVE  e[k] = args[k]
      <4>1. CASE k = 1
        BY <1>2, <1>7, <2>2, <3>1, <3>2, <4>1
      <4>2. CASE k = 2
        BY <1>2, <1>7, <2>2, <3>1, <3>2, <4>2 DEF t
      <4>3. CASE k > 2
        <5> DEFINE j == k - 2
        <5>1. /\ j \in 1..Len(c) /\ j + 1 \in 1..Len(b) /\ (j + 1) + 1 = k
              /\ k \in 1..(2 + Len(c)) /\ ~(k <= 2)
          BY <1>2, <2>3, <3>1, <3>2, <4>3
        <5>2. e[k] = c[j] /\ c[j] = b[j + 1] /\ b[j + 1] = args[(j + 1) + 1]
          BY <1>2, <2>3, <3>1, <5>1
        <5> QED  BY <5>1, <5>2
      <4> QED  BY <1>2, <4>1, <4>2, <4>3
    <3> QED  BY <1>1, <3>1, <3>2, <3>3, SeqEqual DEF e
  <2> QED  BY <1>1, <1>7, <2>1, <2>2, <2>3, <2>4, <2>5 DEF t, c
<1> QED  BY <1>1, <1>3, <1>4, <1>6, <1>7

-----------------------------------------------------------------------------
(***************************************************************************)
(* What a command line says: texts for some of the options, each of them   *)
(* given once, one option after the other.  Completes(f, g, w) says that   *)
(* the arguments w add to f what g has more, at most two options.          *)
(***************************************************************************)
Gives == UNION {[some -> Text] : some \in SUBSET C!ValueOptions}

Nothing   == [x \in {} |-> <<>>]
One(o, t) == [x \in {o} |-> t]
Adding(f, o, t) == C!Together(f, One(o, t))

Completes(f, g, w) ==
  \/ g = f /\ w = <<>>
  \/ \E o \in C!ValueOptions \ DOMAIN f, t \in Text :
       g = Adding(f, o, t) /\ Spelt(o, t, w)
  \/ \E o \in C!ValueOptions \ DOMAIN f, t \in Text, s \in Seq(Text) :
       \E p \in C!ValueOptions \ (DOMAIN f \cup {o}), u \in Text, r \in Seq(Text) :
         /\ g = Adding(Adding(f, o, t), p, u)
         /\ w = s \o r
         /\ Spelt(o, t, s) /\ Spelt(p, u, r)

(***************************************************************************)
(* What one option alone says.                                             *)
(***************************************************************************)
LEMMA OneShape ==
  ASSUME NEW o, NEW t
  PROVE  DOMAIN One(o, t) = {o} /\ One(o, t)[o] = t
BY DEF One

(***************************************************************************)
(* An option that was not there is added to those that were.               *)
(***************************************************************************)
LEMMA AddingShape ==
  ASSUME NEW f \in Gives, NEW o \in C!ValueOptions, NEW t \in Text, o \notin DOMAIN f
  PROVE  /\ Adding(f, o, t) \in Gives
         /\ DOMAIN Adding(f, o, t) = DOMAIN f \cup {o}
         /\ Adding(f, o, t)[o] = t
         /\ \A x \in DOMAIN f : Adding(f, o, t)[x] = f[x]
<1> DEFINE g == One(o, t)
           h == Adding(f, o, t)
<1>1. DOMAIN g = {o} /\ g[o] = t
  BY OneShape
<1> HIDE DEF g
<1>2. h = [x \in DOMAIN f \cup {o} |-> IF x \in DOMAIN f THEN f[x] ELSE g[x]]
  BY <1>1 DEF Adding, C!Together, g
<1>3. PICK some \in SUBSET C!ValueOptions : f \in [some -> Text]
  BY DEF Gives
<1> HIDE DEF h
<1>4. DOMAIN h = DOMAIN f \cup {o} /\ h[o] = t /\ \A x \in DOMAIN f : h[x] = f[x]
  BY <1>1, <1>2
<1>5. h \in [some \cup {o} -> Text]
  BY <1>1, <1>2, <1>3
<1>6. some \cup {o} \in SUBSET C!ValueOptions
  OBVIOUS
<1> QED  BY <1>4, <1>5, <1>6 DEF Gives, h

(***************************************************************************)
(* Nothing more is said than the texts of the options.                     *)
(***************************************************************************)
LEMMA FunctionsEqual ==
  ASSUME NEW f \in Gives, NEW g \in Gives, DOMAIN f = DOMAIN g,
         \A x \in DOMAIN f : f[x] = g[x]
  PROVE  f = g
<1>1. f = [x \in DOMAIN f |-> f[x]] /\ g = [x \in DOMAIN g |-> g[x]]
  BY DEF Gives
<1> QED  BY <1>1

(***************************************************************************)
(* Nothing has been said at first.                                         *)
(***************************************************************************)
LEMMA NothingShape == Nothing \in Gives /\ DOMAIN Nothing = {}
<1>1. Nothing \in [{} -> Text]
  BY DEF Nothing
<1> QED  BY <1>1 DEF Gives

(***************************************************************************)
(* One option alone is one that was added to nothing.                      *)
(***************************************************************************)
LEMMA OneGives ==
  ASSUME NEW o \in C!ValueOptions, NEW t \in Text
  PROVE  One(o, t) \in Gives /\ One(o, t) = Adding(Nothing, o, t)
<1>1. One(o, t) \in [{o} -> Text] /\ {o} \in SUBSET C!ValueOptions
  BY DEF One
<1>2. One(o, t) \in Gives
  BY <1>1 DEF Gives
<1>3. /\ Adding(Nothing, o, t) \in Gives
      /\ DOMAIN Adding(Nothing, o, t) = {} \cup {o}
      /\ Adding(Nothing, o, t)[o] = t
  BY NothingShape, AddingShape
<1>4. DOMAIN One(o, t) = {o} /\ One(o, t)[o] = t
  BY OneShape
<1>5. DOMAIN One(o, t) = DOMAIN Adding(Nothing, o, t)
  BY <1>3, <1>4
<1>6. \A x \in DOMAIN One(o, t) : One(o, t)[x] = Adding(Nothing, o, t)[x]
  BY <1>3, <1>4
<1> QED  BY <1>2, <1>3, <1>5, <1>6, FunctionsEqual

(***************************************************************************)
(* Parts of arguments are texts.                                           *)
(***************************************************************************)
LEMMA TextsType ==
  ASSUME NEW w \in Seq(Text)
  PROVE  C!TextsIn(w) \subseteq Text
<1> SUFFICES ASSUME NEW t \in C!TextsIn(w) PROVE t \in Text
  OBVIOUS
<1>1. PICK k \in DOMAIN w : t \in C!Suffixes(w[k])
  BY DEF C!TextsIn, C!Range
<1> DEFINE a == w[k]
<1>2. a \in Text
  BY LenProperties, ElementOfSeq
<1> HIDE DEF a
<1>3. t = <<>> \/ \E l \in 1..Len(a) : t = SubSeq(a, l, Len(a))
  BY <1>1 DEF C!Suffixes, a
<1>4. Len(a) \in Nat /\ <<>> \in Text
  BY <1>2, TextShape DEF Text
<1>5. ASSUME NEW l \in 1..Len(a), t = SubSeq(a, l, Len(a))
      PROVE  t \in Text
  <2>1. l \in Nat \ {0} /\ Len(a) <= Len(a)
    BY <1>4
  <2> QED  BY <1>2, <1>4, <1>5, <2>1, PartOfText
<1> QED  BY <1>3, <1>4, <1>5

(***************************************************************************)
(* The suffixes of an argument.                                            *)
(***************************************************************************)
LEMMA SuffixIn ==
  ASSUME NEW a
  PROVE  <<>> \in C!Suffixes(a) /\ \A l \in 1..Len(a) : SubSeq(a, l, Len(a)) \in C!Suffixes(a)
BY DEF C!Suffixes

(***************************************************************************)
(* What stands at the end of an argument is one of the texts of the line.  *)
(***************************************************************************)
LEMMA TextIn ==
  ASSUME NEW w \in Seq(Text), NEW k \in 1..Len(w), NEW l \in Nat \ {0}
  PROVE  SubSeq(w[k], l, Len(w[k])) \in C!TextsIn(w)
<1> DEFINE a == w[k]
           t == SubSeq(a, l, Len(a))
<1>1. a \in Text /\ k \in DOMAIN w
  BY LenProperties, ElementOfSeq
<1>2. C!Suffixes(a) \subseteq C!TextsIn(w)
  BY <1>1 DEF C!TextsIn, C!Range
<1> HIDE DEF a
<1>3. Len(a) \in Nat
  BY <1>1, TextShape
<1>4. ASSUME l \in 1..Len(a)
      PROVE  t \in C!Suffixes(a)
  BY <1>4, SuffixIn
<1>5. ASSUME l > Len(a)
      PROVE  t \in C!Suffixes(a)
  <2>1. l \in Int /\ Len(a) \in Int /\ Len(a) < l
    BY <1>3, <1>5
  <2>2. t = <<>>
    BY <2>1, SubSeqEmpty
  <2> QED  BY <2>2, SuffixIn
<1> HIDE DEF t
<1>6. t \in C!TextsIn(w)
  <2>1. l \in 1..Len(a) \/ l > Len(a)
    BY <1>3
  <2> QED  BY <1>2, <1>4, <1>5, <2>1
<1> QED  BY <1>6 DEF a, t

(***************************************************************************)
(* So the text of a spelled option is.                                     *)
(***************************************************************************)
LEMMA SpeltTexts ==
  ASSUME NEW w \in Seq(Text), NEW o \in C!ValueOptions, NEW t \in Text, Spelt(o, t, w)
  PROVE  t \in C!TextsIn(w)
<1>1. o \in C!Options
  BY ValueOptionTypes
<1>2. CASE Len(w) = 1
  <2> DEFINE a == w[1]
  <2>1. a \in Text /\ 1 \in 1..Len(w)
    BY <1>2, ElementOfSeq
  <2>2. NameFor(o, a) /\ C!Attached(a) = t
    BY <1>2 DEF Spelt
  <2>3. t = SubSeq(a, 3, Len(a)) \/ t = SubSeq(a, 5, Len(a))
    BY <1>1, <2>1, <2>2, AttachedFor DEF NameFor
  <2>4. SubSeq(a, 3, Len(a)) \in C!TextsIn(w) /\ SubSeq(a, 5, Len(a)) \in C!TextsIn(w)
    BY <2>1, TextIn
  <2> QED  BY <2>3, <2>4
<1>3. CASE Len(w) = 2
  <2> DEFINE a == w[2]
  <2>1. a \in Text /\ 2 \in 1..Len(w) /\ t = a
    BY <1>3, ElementOfSeq DEF Spelt
  <2>2. SubSeq(a, 1, Len(a)) \in C!TextsIn(w)
    BY <2>1, TextIn
  <2>3. SubSeq(a, 1, Len(a)) = a
    BY <2>1, SubSeqFull DEF Text
  <2> QED  BY <2>1, <2>2, <2>3
<1> QED  BY <1>2, <1>3 DEF Spelt

(***************************************************************************)
(* The command lines of one option, without enumerating their texts.       *)
(***************************************************************************)
LEMMA OneOptionShape ==
  ASSUME NEW w \in Seq(Text), NEW g
  PROVE  g \in C!OneOption(w)
           <=> \E o \in C!ValueOptions, t \in Text : g = One(o, t) /\ Spelt(o, t, w)
<1>1. ASSUME g \in C!OneOption(w)
      PROVE  \E o \in C!ValueOptions, t \in Text : g = One(o, t) /\ Spelt(o, t, w)
  <2>1. PICK o \in C!ValueOptions : g \in [{o} -> C!TextsIn(w)]
    BY <1>1 DEF C!OneOption
  <2> DEFINE t == g[o]
  <2>2. w \in C!Spellings(o, t) /\ t \in Text
    BY <1>1, <2>1, TextsType DEF C!OneOption
  <2>3. g = [x \in {o} |-> t]
    BY <2>1
  <2> HIDE DEF t
  <2>4. Spelt(o, t, w)
    BY <2>2, Spelling
  <2> QED  BY <2>2, <2>3, <2>4 DEF One
<1>2. ASSUME NEW o \in C!ValueOptions, NEW t \in Text, g = One(o, t), Spelt(o, t, w)
      PROVE  g \in C!OneOption(w)
  <2>1. w \in C!Spellings(o, t) /\ t \in C!TextsIn(w)
    BY <1>2, Spelling, SpeltTexts
  <2>2. g \in [{o} -> C!TextsIn(w)]
    BY <1>2, <2>1 DEF One
  <2>3. \A x \in DOMAIN g : w \in C!Spellings(x, g[x])
    <3>1. DOMAIN g = {o} /\ g[o] = t
      BY <1>2, OneShape
    <3> QED  BY <2>1, <3>1
  <2> QED  BY <2>2, <2>3 DEF C!OneOption
<1> QED  BY <1>1, <1>2

(***************************************************************************)
(* The two parts of a concatenation.                                       *)
(***************************************************************************)
LEMMA Split ==
  ASSUME NEW S, NEW s \in Seq(S), NEW r \in Seq(S)
  PROVE  /\ SubSeq(s \o r, 1, Len(s)) = s
         /\ SubSeq(s \o r, Len(s) + 1, Len(s \o r)) = r
<1> DEFINE b == s \o r
           c == SubSeq(b, 1, Len(s))
<1>1. b \in Seq(S) /\ Len(s) \in Nat /\ Len(r) \in Nat
  BY ConcatProperties, LenProperties
<1>2. /\ Len(b) >= Len(s)
      /\ \A k \in 1..Len(s) : b[k] = s[k]
      /\ r = SubSeq(b, Len(s) + 1, Len(b))
  BY <1>1, Behind
<1> HIDE DEF b
<1>3. /\ c \in Seq(S)
      /\ Len(c) = IF 1 <= Len(s) THEN Len(s) - 1 + 1 ELSE 0
      /\ \A k \in 1..(Len(s) - 1 + 1) : c[k] = b[1 + k - 1]
  <2>1. 1 \in Int /\ Len(s) \in Int /\ \A k \in 1..Len(s) : b[k] \in S
    BY <1>1, <1>2, ElementOfSeq
  <2> QED  BY <2>1, SubSeqProperties
<1> HIDE DEF c
<1>4. Len(c) = Len(s) /\ \A k \in 1..Len(c) : c[k] = s[k]
  BY <1>1, <1>2, <1>3
<1>5. c = s
  BY <1>3, <1>4, SeqEqual
<1> QED  BY <1>2, <1>5 DEF b, c

(***************************************************************************)
(* A sequence is the concatenation of its two parts.                       *)
(***************************************************************************)
LEMMA Halves ==
  ASSUME NEW S, NEW w \in Seq(S), NEW k \in 1..Len(w)
  PROVE  /\ SubSeq(w, 1, k) \in Seq(S) /\ SubSeq(w, k + 1, Len(w)) \in Seq(S)
         /\ w = SubSeq(w, 1, k) \o SubSeq(w, k + 1, Len(w))
<1> DEFINE n == Len(w)
<1>1. n \in Nat
  BY LenProperties
<1>2. (\A j \in 1..k : w[j] \in S) /\ \A j \in (k + 1)..n : w[j] \in S
  BY <1>1, ElementOfSeq
<1>3. 1 \in Int /\ k \in Int /\ k + 1 \in Int /\ n \in Int
  BY <1>1
<1>4. SubSeq(w, 1, k) \in Seq(S) /\ SubSeq(w, k + 1, n) \in Seq(S)
  <2> HIDE DEF n
  <2> QED  BY <1>2, <1>3, SubSeqProperties
<1>5. SubSeq(w, 1, k) \o SubSeq(w, k + 1, n) = SubSeq(w, 1, n)
  <2>1. 1 \in 1..(Len(w) + 1) /\ k \in (1 - 1)..Len(w) /\ Len(w) \in k..Len(w)
    BY <1>1
  <2> QED  BY <2>1, ConcatAdjacentSubSeq
<1> QED  BY <1>4, <1>5, SubSeqFull

(***************************************************************************)
(* The two options that may be given together.                             *)
(***************************************************************************)
Pairs == {{"i", "o"}, {"c", "o"}}

(***************************************************************************)
(* Those are any two but -i and -c.                                        *)
(***************************************************************************)
LEMMA PairsAre ==
  ASSUME NEW o \in C!ValueOptions, NEW p \in C!ValueOptions
  PROVE  {o, p} \in Pairs <=> o # p /\ {o, p} # {"i", "c"}
<1>1. C!ValueOptions = {"i", "c", "o"}
  BY OptionNames
<1>2. "i" # "c" /\ "i" # "o" /\ "c" # "o"
  OBVIOUS
<1> DEFINE i == "i"
           c == "c"
           f == "o"
<1> HIDE DEF i, c, f
<1>3. o \in {i, c, f} /\ p \in {i, c, f} /\ i # c /\ i # f /\ c # f
  BY <1>1, <1>2 DEF i, c, f
<1>4. {o, p} \in {{i, f}, {c, f}} <=> o # p /\ {o, p} # {i, c}
  BY <1>3
<1> QED  BY <1>4 DEF Pairs, i, c, f

(***************************************************************************)
(* Two options one after the other.                                        *)
(***************************************************************************)
TwoSpelt(g, w) ==
  \E o \in C!ValueOptions, t \in Text, s \in Seq(Text) :
  \E p \in C!ValueOptions \ {o}, u \in Text, r \in Seq(Text) :
    /\ g = Adding(One(o, t), p, u)
    /\ w = s \o r
    /\ Spelt(o, t, s) /\ Spelt(p, u, r)
    /\ {o, p} # {"i", "c"}

(***************************************************************************)
(* The command lines of two options are those that spell one and then the  *)
(* other.                                                                  *)
(***************************************************************************)
LEMMA TwoOptionsShape ==
  ASSUME NEW w \in Seq(Text), NEW g
  PROVE  g \in C!TwoOptions(w) <=> TwoSpelt(g, w)
<1>1. ASSUME g \in C!TwoOptions(w)
      PROVE  TwoSpelt(g, w)
  <2>1. PICK k \in 1..Len(w) :
          \E one \in C!OneOption(SubSeq(w, 1, k)),
             other \in C!OneOption(SubSeq(w, k + 1, Len(w))) :
               g = C!Together(one, other) /\ DOMAIN g \in Pairs
    BY <1>1 DEF C!TwoOptions, Pairs
  <2> DEFINE s == SubSeq(w, 1, k)
             r == SubSeq(w, k + 1, Len(w))
  <2>2. s \in Seq(Text) /\ r \in Seq(Text) /\ w = s \o r
    BY Halves
  <2>3. PICK one \in C!OneOption(s), other \in C!OneOption(r) :
          g = C!Together(one, other) /\ DOMAIN g \in Pairs
    BY <2>1
  <2> HIDE DEF s, r
  <2>4. PICK o \in C!ValueOptions, t \in Text : one = One(o, t) /\ Spelt(o, t, s)
    BY <2>2, <2>3, OneOptionShape
  <2>5. PICK p \in C!ValueOptions, u \in Text : other = One(p, u) /\ Spelt(p, u, r)
    BY <2>2, <2>3, OneOptionShape
  <2>6. g = Adding(One(o, t), p, u)
    BY <2>3, <2>4, <2>5 DEF Adding
  <2>7. DOMAIN g = {o, p}
    <3>1. DOMAIN One(o, t) = {o} /\ DOMAIN One(p, u) = {p}
      BY OneShape
    <3>2. DOMAIN C!Together(One(o, t), One(p, u)) = DOMAIN One(o, t) \cup DOMAIN One(p, u)
      BY DEF C!Together
    <3> QED  BY <2>3, <2>4, <2>5, <3>1, <3>2
  <2>8. o # p /\ {o, p} # {"i", "c"}
    BY <2>3, <2>7, PairsAre
  <2> QED  BY <2>2, <2>4, <2>5, <2>6, <2>8 DEF TwoSpelt
<1>2. ASSUME NEW o \in C!ValueOptions, NEW t \in Text, NEW s \in Seq(Text),
             NEW p \in C!ValueOptions \ {o}, NEW u \in Text, NEW r \in Seq(Text),
             g = Adding(One(o, t), p, u), w = s \o r,
             Spelt(o, t, s), Spelt(p, u, r), {o, p} # {"i", "c"}
      PROVE  g \in C!TwoOptions(w)
  <2> DEFINE k == Len(s)
  <2>1. SubSeq(w, 1, k) = s /\ SubSeq(w, k + 1, Len(w)) = r
    BY <1>2, Split
  <2>2. k \in 1..Len(w)
    <3>1. k \in {1, 2} /\ Len(r) \in Nat /\ Len(w) = k + Len(r)
      BY <1>2, ConcatProperties, LenProperties DEF Spelt
    <3> QED  BY <3>1
  <2>3. One(o, t) \in C!OneOption(s) /\ One(p, u) \in C!OneOption(r)
    BY <1>2, OneOptionShape
  <2>4. g = C!Together(One(o, t), One(p, u))
    BY <1>2 DEF Adding
  <2>5. DOMAIN g \in Pairs
    <3>1. DOMAIN One(o, t) = {o} /\ DOMAIN One(p, u) = {p}
      BY OneShape
    <3>2. DOMAIN C!Together(One(o, t), One(p, u)) = DOMAIN One(o, t) \cup DOMAIN One(p, u)
      BY DEF C!Together
    <3>3. DOMAIN g = {o, p}
      BY <2>4, <3>1, <3>2
    <3> QED  BY <1>2, <3>3, PairsAre
  <2> HIDE DEF k
  <2>6. \E one \in C!OneOption(SubSeq(w, 1, k)),
           other \in C!OneOption(SubSeq(w, k + 1, Len(w))) : g = C!Together(one, other)
    BY <2>1, <2>3, <2>4
  <2> QED  BY <2>2, <2>5, <2>6 DEF C!TwoOptions, Pairs
<1> QED  BY <1>1, <1>2 DEF TwoSpelt

(***************************************************************************)
(* A documented command line adds to nothing one option or two, but not -i *)
(* and -c.                                                                 *)
(***************************************************************************)
LEMMA DocumentedShape ==
  ASSUME NEW w \in Seq(Text), NEW g
  PROVE  g \in C!Documented(w)
           <=> /\ g \in Gives /\ Completes(Nothing, g, w)
               /\ DOMAIN g # {} /\ DOMAIN g # {"i", "c"}
<1>1. DOMAIN Nothing = {} /\ Nothing \in Gives
  BY NothingShape
<1>2. \A o \in C!ValueOptions, t \in Text :
        One(o, t) \in Gives /\ One(o, t) = Adding(Nothing, o, t) /\ DOMAIN One(o, t) = {o}
  BY OneGives, OneShape
<1>3. ASSUME NEW o \in C!ValueOptions, NEW t \in Text, NEW p \in C!ValueOptions \ {o},
             NEW u \in Text
      PROVE  Adding(One(o, t), p, u) \in Gives /\ DOMAIN Adding(One(o, t), p, u) = {o, p}
  <2>1. p \notin DOMAIN One(o, t)
    BY <1>2
  <2>2. DOMAIN Adding(One(o, t), p, u) = DOMAIN One(o, t) \cup {p}
    BY <1>2, <2>1, AddingShape
  <2>3. Adding(One(o, t), p, u) \in Gives
    BY <1>2, <2>1, AddingShape
  <2>4. {o} \cup {p} = {o, p}
    OBVIOUS
  <2> QED  BY <1>2, <2>2, <2>3, <2>4
<1>4. \A o : {o} # {} /\ {o} # {"i", "c"}
  <2>1. "i" # "c"
    OBVIOUS
  <2> DEFINE i == "i"
             c == "c"
  <2> HIDE DEF i, c
  <2>2. i # c
    BY <2>1 DEF i, c
  <2>3. \A o : {o} # {} /\ {o} # {i, c}
    BY <2>2
  <2> QED  BY <2>3 DEF i, c
<1>5. ASSUME g \in C!Documented(w)
      PROVE  /\ g \in Gives /\ Completes(Nothing, g, w)
             /\ DOMAIN g # {} /\ DOMAIN g # {"i", "c"}
  <2>1. CASE g \in C!OneOption(w)
    <3>1. PICK o \in C!ValueOptions, t \in Text : g = One(o, t) /\ Spelt(o, t, w)
      BY <2>1, OneOptionShape
    <3>2. g \in Gives /\ g = Adding(Nothing, o, t) /\ DOMAIN g = {o}
      BY <1>2, <3>1
    <3>3. Completes(Nothing, g, w)
      BY <1>1, <3>1, <3>2 DEF Completes
    <3> QED  BY <1>4, <3>2, <3>3
  <2>2. CASE g \in C!TwoOptions(w)
    <3>1. PICK o \in C!ValueOptions, t \in Text, s \in Seq(Text) :
            \E p \in C!ValueOptions \ {o}, u \in Text, r \in Seq(Text) :
                 /\ g = Adding(One(o, t), p, u)
                 /\ w = s \o r
                 /\ Spelt(o, t, s) /\ Spelt(p, u, r)
                 /\ {o, p} # {"i", "c"}
      <4>1. TwoSpelt(g, w)
        BY <2>2, TwoOptionsShape
      <4> QED  BY <4>1 DEF TwoSpelt
    <3>2. PICK p \in C!ValueOptions \ {o}, u \in Text, r \in Seq(Text) :
                 /\ g = Adding(One(o, t), p, u)
                 /\ w = s \o r
                 /\ Spelt(o, t, s) /\ Spelt(p, u, r)
                 /\ {o, p} # {"i", "c"}
      BY <3>1
    <3>3. g \in Gives /\ DOMAIN g = {o, p}
      <4>1. Adding(One(o, t), p, u) \in Gives /\ DOMAIN Adding(One(o, t), p, u) = {o, p}
        BY <1>3
      <4> QED  BY <3>2, <4>1
    <3>4. g = Adding(Adding(Nothing, o, t), p, u)
      BY <1>2, <3>2
    <3>5. o \in C!ValueOptions \ DOMAIN Nothing
          /\ p \in C!ValueOptions \ (DOMAIN Nothing \cup {o})
      BY <1>1
    <3>6. Completes(Nothing, g, w)
      BY <3>2, <3>4, <3>5 DEF Completes
    <3> QED  BY <3>2, <3>3, <3>6
  <2> QED  BY <1>5, <2>1, <2>2 DEF C!Documented
<1>6. ASSUME g \in Gives, Completes(Nothing, g, w), DOMAIN g # {}, DOMAIN g # {"i", "c"}
      PROVE  g \in C!Documented(w)
  <2>1. CASE g = Nothing
    BY <1>1, <1>6, <2>1
  <2>2. ASSUME NEW o \in C!ValueOptions \ DOMAIN Nothing, NEW t \in Text,
               g = Adding(Nothing, o, t), Spelt(o, t, w)
        PROVE  g \in C!OneOption(w)
    BY <1>2, <2>2, OneOptionShape
  <2>3. ASSUME NEW o \in C!ValueOptions \ DOMAIN Nothing, NEW t \in Text, NEW s \in Seq(Text),
               NEW p \in C!ValueOptions \ (DOMAIN Nothing \cup {o}), NEW u \in Text,
               NEW r \in Seq(Text),
               g = Adding(Adding(Nothing, o, t), p, u), w = s \o r,
               Spelt(o, t, s), Spelt(p, u, r)
        PROVE  g \in C!TwoOptions(w)
    <3>1. p \in C!ValueOptions \ {o} /\ g = Adding(One(o, t), p, u)
      BY <1>2, <2>3
    <3>2. DOMAIN g = {o, p}
      BY <1>3, <3>1
    <3>3. {o, p} # {"i", "c"}
      BY <1>6, <3>2
    <3>4. TwoSpelt(g, w)
      BY <2>3, <3>1, <3>3 DEF TwoSpelt
    <3> QED  BY <3>4, TwoOptionsShape
  <2> QED  BY <1>6, <2>1, <2>2, <2>3 DEF Completes, C!Documented
<1> QED  BY <1>5, <1>6

(***************************************************************************)
(* The mark that may end a command line.                                   *)
(***************************************************************************)
Mark  == C!PositionalMark
Tails == {<<>>, <<Mark>>}

(***************************************************************************)
(* The first element of a reversed sequence is the last.                   *)
(***************************************************************************)
LEMMA ReverseShape ==
  ASSUME NEW S, NEW v \in Seq(S), v # <<>>
  PROVE  C!Reverse(v) \in Seq(S) /\ Len(C!Reverse(v)) = Len(v) /\ C!Reverse(v)[1] = v[Len(v)]
<1> DEFINE n == Len(v)
<1>1. n \in Nat \ {0} /\ \A k \in 1..n : v[k] \in S
  BY EmptySeq, ElementOfSeq
<1> HIDE DEF n
<1>2. \A k \in 1..n : (n - k) + 1 \in 1..n
  BY <1>1
<1> DEFINE r == [k \in 1..n |-> v[(n - k) + 1]]
<1>3. r \in Seq(S) /\ Len(r) = n
  BY <1>1, <1>2
<1>4. r[1] = v[(n - 1) + 1] /\ (n - 1) + 1 = n
  BY <1>1
<1> QED  BY <1>3, <1>4 DEF C!Reverse, n

(***************************************************************************)
(* The first part of one element.                                          *)
(***************************************************************************)
LEMMA FirstPart ==
  ASSUME NEW S, NEW v \in Seq(S), Len(v) >= 1
  PROVE  SubSeq(v, 1, 1) = <<v[1]>>
<1> DEFINE b == SubSeq(v, 1, 1)
<1>1. Len(v) \in Nat /\ v[1] \in S
  BY LenProperties, ElementOfSeq
<1>2. /\ b \in Seq(S) /\ Len(b) = IF 1 <= 1 THEN 1 - 1 + 1 ELSE 0
      /\ \A k \in 1..(1 - 1 + 1) : b[k] = v[1 + k - 1]
  <2>1. \A k \in 1..1 : v[k] \in S
    BY <1>1
  <2> QED  BY <2>1, SubSeqProperties
<1> HIDE DEF b
<1>3. Len(b) = 1 /\ b[1] = v[1]
  BY <1>2
<1> QED  BY <1>2, <1>3, OneOf DEF b

(***************************************************************************)
(* A suffix of one element is the last element.                            *)
(***************************************************************************)
LEMMA LastIs ==
  ASSUME NEW S, NEW v \in Seq(S), NEW m
  PROVE  C!IsSuffix(<<m>>, v) <=> v # <<>> /\ v[Len(v)] = m
<1> DEFINE p == <<m>>
           q == C!Reverse(p)
           r == C!Reverse(v)
<1>1. p \in Seq({m}) /\ p # <<>> /\ Len(p) = 1 /\ p[1] = m
  OBVIOUS
<1>2. q \in Seq({m}) /\ Len(q) = 1 /\ q[1] = m
  <2>1. q \in Seq({m}) /\ Len(q) = Len(p) /\ q[1] = p[Len(p)]
    BY <1>1, ReverseShape
  <2> QED  BY <1>1, <2>1
<1> HIDE DEF p
<1>3. SubSeq(q, 1, 1) = <<m>>
  BY <1>2, FirstPart
<1>4. C!IsSuffix(p, v) <=> 1 <= Len(r) /\ <<m>> = SubSeq(r, 1, 1)
  BY <1>2, <1>3 DEF C!IsSuffix, C!IsPrefix
<1>5. ASSUME v # <<>>
      PROVE  1 <= Len(r) /\ SubSeq(r, 1, 1) = <<v[Len(v)]>>
  <2>1. r \in Seq(S) /\ Len(r) = Len(v) /\ r[1] = v[Len(v)]
    BY <1>5, ReverseShape
  <2>2. Len(v) \in Nat \ {0}
    BY <1>5, EmptySeq
  <2>3. Len(r) >= 1
    BY <2>1, <2>2
  <2> QED  BY <2>1, <2>3, FirstPart
<1>6. ASSUME v = <<>>
      PROVE  ~(1 <= Len(r))
  <2>1. r = [k \in 1..0 |-> v[(0 - k) + 1]]
    BY <1>6 DEF C!Reverse
  <2>2. r = <<>>
    BY <2>1
  <2> QED  BY <2>2
<1> HIDE DEF r
<1>7. \A x : <<m>> = <<x>> <=> x = m
  OBVIOUS
<1> QED  BY <1>4, <1>5, <1>6, <1>7 DEF p

(***************************************************************************)
(* A command line can be read as what its arguments in front of the mark   *)
(* say.                                                                    *)
(***************************************************************************)
LEMMA ReadingShape ==
  ASSUME NEW line \in Seq(Text), NEW g
  PROVE  g \in C!Readings(line)
           <=> \E w \in Seq(Text), tail \in Tails : line = w \o tail /\ g \in C!Documented(w)
<1> DEFINE S == Text \cup {Mark}
<1>1. Text \subseteq S /\ Mark \in S
  OBVIOUS
<1> HIDE DEF S
<1>2. Seq(Text) \subseteq Seq(S) /\ <<Mark>> \in Seq(S) /\ Len(<<Mark>>) = 1 /\ <<Mark>>[1] = Mark
  BY <1>1, SeqMonotonic
<1> DEFINE m == <<Mark>>
<1> HIDE DEF m
<1>3. ASSUME g \in C!Documented(line)
      PROVE  \E w \in Seq(Text), tail \in Tails : line = w \o tail /\ g \in C!Documented(w)
  <2>1. line = line \o <<>> /\ <<>> \in Tails
    BY ConcatEmptySeq DEF Tails
  <2> QED  BY <1>3, <2>1
<1>4. ASSUME C!IsSuffix(m, line)
      PROVE  C!Front(line) \in Seq(Text) /\ line = C!Front(line) \o m
  <2> DEFINE n == Len(line)
             w == C!Front(line)
  <2>1. line # <<>> /\ line[n] = Mark
    BY <1>4, LastIs DEF m
  <2>2. n \in Nat \ {0} /\ \A k \in 1..n : line[k] \in Text
    BY <2>1, EmptySeq, ElementOfSeq
  <2>3. w = SubSeq(line, 1, n - 1)
    BY DEF C!Front
  <2> HIDE DEF n
  <2>4. /\ w \in Seq(Text)
        /\ Len(w) = IF 1 <= n - 1 THEN (n - 1) - 1 + 1 ELSE 0
        /\ \A k \in 1..((n - 1) - 1 + 1) : w[k] = line[1 + k - 1]
    <3>1. 1 \in Int /\ n - 1 \in Int /\ \A k \in 1..(n - 1) : line[k] \in Text
      BY <2>2
    <3> QED  BY <2>3, <3>1, SubSeqProperties
  <2> HIDE DEF w
  <2>5. Len(w) = n - 1 /\ \A k \in 1..(n - 1) : w[k] = line[k]
    BY <2>2, <2>4
  <2> DEFINE b == w \o m
  <2>6. /\ b \in Seq(S) /\ Len(b) = Len(w) + Len(m)
        /\ \A k \in 1..(Len(w) + Len(m)) : b[k] = IF k <= Len(w) THEN w[k] ELSE m[k - Len(w)]
    <3>1. w \in Seq(S) /\ m \in Seq(S)
      BY <1>2, <2>4 DEF m
    <3> QED  BY <3>1, ConcatProperties
  <2> HIDE DEF b
  <2>7. Len(m) = 1 /\ m[1] = Mark
    BY <1>2 DEF m
  <2>8. Len(b) = n
    BY <2>2, <2>5, <2>6, <2>7
  <2>9. \A k \in 1..n : b[k] = line[k]
    <3> SUFFICES ASSUME NEW k \in 1..n PROVE b[k] = line[k]
      OBVIOUS
    <3>1. CASE k <= n - 1
      BY <2>2, <2>5, <2>6, <2>7, <3>1
    <3>2. CASE k = n
      <4>1. k - Len(w) = 1 /\ ~(k <= Len(w)) /\ k \in 1..(Len(w) + Len(m))
        BY <2>2, <2>5, <2>7, <3>2
      <4>2. b[k] = m[1]
        BY <2>6, <4>1
      <4> QED  BY <2>1, <2>7, <3>2, <4>2
    <3> QED  BY <2>2, <3>1, <3>2
  <2>10. b = line
    <3>1. line \in Seq(S)
      BY <1>2
    <3>2. Len(b) = Len(line) /\ \A k \in 1..Len(b) : b[k] = line[k]
      BY <2>8, <2>9 DEF n
    <3> QED  BY <2>6, <3>1, <3>2, SeqEqual
  <2> QED  BY <2>4, <2>10 DEF b, w
<1>5. ASSUME NEW w \in Seq(Text), line = w \o m
      PROVE  C!IsSuffix(m, line) /\ C!Front(line) = w
  <2>1. w \in Seq(S) /\ m \in Seq(S) /\ Len(m) = 1 /\ m[1] = Mark
    BY <1>2 DEF m
  <2>2. Len(line) = Len(w) + Len(m) /\ Len(w) \in Nat
        /\ \A k \in 1..(Len(w) + Len(m)) :
             line[k] = IF k <= Len(w) THEN w[k] ELSE m[k - Len(w)]
    BY <1>5, <2>1, ConcatProperties, LenProperties
  <2>3. SubSeq(line, 1, Len(w)) = w
    BY <1>5, <2>1, Split
  <2>4. Len(line) - 1 = Len(w) /\ line # <<>>
    <3>1. Len(line) = Len(w) + 1
      BY <2>1, <2>2
    <3> QED  BY <2>2, <3>1
  <2>5. line[Len(line)] = Mark
    <3>1. /\ Len(line) \in 1..(Len(w) + Len(m)) /\ ~(Len(line) <= Len(w))
          /\ Len(line) - Len(w) = 1
      BY <2>1, <2>2
    <3> QED  BY <2>1, <2>2, <3>1
  <2>6. C!IsSuffix(m, line)
    BY <2>4, <2>5, LastIs DEF m
  <2> QED  BY <2>3, <2>4, <2>6 DEF C!Front
<1>6. g \in C!Readings(line)
        <=> g \in C!Documented(line) \/ (C!IsSuffix(m, line) /\ g \in C!Documented(C!Front(line)))
  BY DEF C!Readings, m, Mark
<1>7. ASSUME NEW w \in Seq(Text), line = w \o <<>>, g \in C!Documented(w)
      PROVE  g \in C!Documented(line)
  BY <1>7, ConcatEmptySeq
<1> QED  BY <1>3, <1>4, <1>5, <1>6, <1>7 DEF Tails, m

-----------------------------------------------------------------------------
(***************************************************************************)
(* One step of parsing and what has been said before and after it.         *)
(***************************************************************************)
LEMMA CompletesStep ==
  ASSUME NEW f \in Gives, NEW g, NEW w \in Seq(Text), Completes(f, g, w)
  PROVE  \/ g = f /\ w = <<>>
         \/ \E o \in C!ValueOptions \ DOMAIN f, t \in Text, s \in Seq(Text), r \in Seq(Text) :
              w = s \o r /\ Spelt(o, t, s) /\ Completes(Adding(f, o, t), g, r)
<1>1. CASE g = f /\ w = <<>>
  BY <1>1
<1>2. ASSUME NEW o \in C!ValueOptions \ DOMAIN f, NEW t \in Text,
             g = Adding(f, o, t), Spelt(o, t, w)
      PROVE  w = w \o <<>> /\ <<>> \in Seq(Text) /\ Completes(Adding(f, o, t), g, <<>>)
  BY <1>2, ConcatEmptySeq DEF Completes
<1>3. ASSUME NEW o \in C!ValueOptions \ DOMAIN f, NEW t \in Text,
             NEW p \in C!ValueOptions \ (DOMAIN f \cup {o}), NEW u \in Text,
             NEW r \in Seq(Text),
             g = Adding(Adding(f, o, t), p, u), Spelt(p, u, r)
      PROVE  Completes(Adding(f, o, t), g, r)
  <2>1. DOMAIN Adding(f, o, t) = DOMAIN f \cup {o}
    BY AddingShape
  <2>2. p \in C!ValueOptions \ DOMAIN Adding(f, o, t)
    BY <2>1
  <2> QED  BY <1>3, <2>2 DEF Completes
<1>4. CASE \E o \in C!ValueOptions \ DOMAIN f, t \in Text :
             g = Adding(f, o, t) /\ Spelt(o, t, w)
  <2>1. PICK o \in C!ValueOptions \ DOMAIN f, t \in Text :
             g = Adding(f, o, t) /\ Spelt(o, t, w)
    BY <1>4
  <2> QED  BY <1>2, <2>1
<1>5. CASE \E o \in C!ValueOptions \ DOMAIN f, t \in Text, s \in Seq(Text) :
           \E p \in C!ValueOptions \ (DOMAIN f \cup {o}), u \in Text, r \in Seq(Text) :
             /\ g = Adding(Adding(f, o, t), p, u)
             /\ w = s \o r
             /\ Spelt(o, t, s) /\ Spelt(p, u, r)
  <2>1. PICK o \in C!ValueOptions \ DOMAIN f, t \in Text, s \in Seq(Text) :
           \E p \in C!ValueOptions \ (DOMAIN f \cup {o}), u \in Text, r \in Seq(Text) :
             /\ g = Adding(Adding(f, o, t), p, u)
             /\ w = s \o r
             /\ Spelt(o, t, s) /\ Spelt(p, u, r)
    BY <1>5
  <2>2. PICK p \in C!ValueOptions \ (DOMAIN f \cup {o}), u \in Text, r \in Seq(Text) :
             /\ g = Adding(Adding(f, o, t), p, u)
             /\ w = s \o r
             /\ Spelt(o, t, s) /\ Spelt(p, u, r)
    BY <2>1
  <2>3. Completes(Adding(f, o, t), g, r)
    BY <1>3, <2>2
  <2> QED  BY <2>2, <2>3
<1> QED  BY <1>1, <1>4, <1>5 DEF Completes

(***************************************************************************)
(* Three different options are all of them.                                *)
(***************************************************************************)
LEMMA ThreeOptions ==
  ASSUME NEW o \in C!ValueOptions, NEW p \in C!ValueOptions \ {o},
         NEW q \in C!ValueOptions \ {o, p}
  PROVE  "i" \in {o, p, q} /\ "c" \in {o, p, q}
<1> DEFINE i == "i"
           c == "c"
           f == "o"
<1>1. C!ValueOptions = {i, c, f} /\ i # c /\ i # f /\ c # f
  BY OptionNames
<1> HIDE DEF i, c, f
<1>2. i \in {o, p, q} /\ c \in {o, p, q}
  BY <1>1
<1> QED  BY <1>2 DEF i, c

(***************************************************************************)
(* An option more is one of two, or -i and -c are both there.              *)
(***************************************************************************)
LEMMA CompletesMore ==
  ASSUME NEW g, NEW w \in Seq(Text), Completes(Nothing, g, w),
         NEW q \in C!ValueOptions \ DOMAIN g, NEW v \in Text,
         NEW z \in Seq(Text), Spelt(q, v, z)
  PROVE  \/ Completes(Nothing, Adding(g, q, v), w \o z)
         \/ {"i", "c"} \subseteq DOMAIN g \cup {q}
<1>1. Nothing \in Gives /\ DOMAIN Nothing = {}
  BY NothingShape
<1>2. CASE g = Nothing /\ w = <<>>
  <2>1. w \o z = z
    BY <1>2, ConcatEmptySeq
  <2> QED  BY <1>1, <1>2, <2>1 DEF Completes
<1>3. ASSUME NEW o \in C!ValueOptions \ DOMAIN Nothing, NEW t \in Text,
             g = Adding(Nothing, o, t), Spelt(o, t, w)
      PROVE  Completes(Nothing, Adding(g, q, v), w \o z)
  <2>1. DOMAIN g = {o}
    <3>1. DOMAIN Adding(Nothing, o, t) = DOMAIN Nothing \cup {o}
      BY <1>1, AddingShape
    <3> QED  BY <1>1, <1>3, <3>1
  <2>2. q \in C!ValueOptions \ (DOMAIN Nothing \cup {o})
    BY <1>1, <2>1
  <2> QED  BY <1>3, <2>2 DEF Completes
<1>4. ASSUME NEW o \in C!ValueOptions \ DOMAIN Nothing, NEW t \in Text,
             NEW p \in C!ValueOptions \ (DOMAIN Nothing \cup {o}), NEW u \in Text,
             g = Adding(Adding(Nothing, o, t), p, u)
      PROVE  {"i", "c"} \subseteq DOMAIN g \cup {q}
  <2> DEFINE h == Adding(Nothing, o, t)
  <2>1. h \in Gives /\ DOMAIN h = DOMAIN Nothing \cup {o}
    BY <1>1, AddingShape
  <2>2. p \notin DOMAIN h
    BY <2>1
  <2> HIDE DEF h
  <2>3. DOMAIN Adding(h, p, u) = DOMAIN h \cup {p}
    BY <2>1, <2>2, AddingShape
  <2>4. DOMAIN g = {o, p}
    BY <1>1, <1>4, <2>1, <2>3 DEF h
  <2>5. "i" \in {o, p, q} /\ "c" \in {o, p, q}
    BY <1>1, <2>4, ThreeOptions
  <2> QED  BY <2>4, <2>5
<1>5. CASE \E o \in C!ValueOptions \ DOMAIN Nothing, t \in Text, s \in Seq(Text) :
           \E p \in C!ValueOptions \ (DOMAIN Nothing \cup {o}), u \in Text, r \in Seq(Text) :
             /\ g = Adding(Adding(Nothing, o, t), p, u)
             /\ w = s \o r
             /\ Spelt(o, t, s) /\ Spelt(p, u, r)
  <2>1. PICK o \in C!ValueOptions \ DOMAIN Nothing, t \in Text, s \in Seq(Text) :
           \E p \in C!ValueOptions \ (DOMAIN Nothing \cup {o}), u \in Text, r \in Seq(Text) :
             /\ g = Adding(Adding(Nothing, o, t), p, u)
             /\ w = s \o r
             /\ Spelt(o, t, s) /\ Spelt(p, u, r)
    BY <1>5
  <2>2. PICK p \in C!ValueOptions \ (DOMAIN Nothing \cup {o}), u \in Text :
             g = Adding(Adding(Nothing, o, t), p, u)
    BY <2>1
  <2> QED  BY <1>4, <2>2
<1> QED  BY <1>2, <1>3, <1>5 DEF Completes

(***************************************************************************)
(* The results of options that were each given once.                       *)
(***************************************************************************)
ResultsOf(g) ==
  [x \in C!Options |-> IF x \in DOMAIN g THEN <<C!Unescape(g[x])>> ELSE <<>>]

(***************************************************************************)
(* Giving an option its text adds it to what was said.                     *)
(***************************************************************************)
LEMMA GiveAdds ==
  ASSUME NEW f \in Gives, NEW o \in C!ValueOptions, o \notin DOMAIN f, NEW t \in Text,
         results = ResultsOf(f), C!Give(o, t)
  PROVE  results' = ResultsOf(Adding(f, o, t))
<1> DEFINE g == Adding(f, o, t)
           v == C!Unescape(t)
<1>1. /\ DOMAIN g = DOMAIN f \cup {o} /\ g[o] = t
      /\ \A x \in DOMAIN f : g[x] = f[x]
  BY AddingShape
<1>2. o \in C!Options
  BY ValueOptionTypes
<1> HIDE DEF g, v
<1>3. results' = [results EXCEPT ![o] = Append(results[o], v)]
  BY DEF C!Give, v
<1>4. Append(results[o], v) = <<v>>
  <2>1. results[o] = <<>>
    BY <1>2 DEF ResultsOf
  <2> QED  BY <2>1
<1>5. results' = [x \in C!Options |-> IF x = o THEN <<v>> ELSE results[x]]
  BY <1>3, <1>4 DEF ResultsOf
<1>6. ASSUME NEW x \in C!Options
      PROVE  (IF x = o THEN <<v>> ELSE results[x])
               = (IF x \in DOMAIN g THEN <<C!Unescape(g[x])>> ELSE <<>>)
  <2>1. CASE x = o
    BY <1>1, <2>1 DEF v
  <2>2. CASE x # o /\ x \in DOMAIN f
    <3>1. results[x] = <<C!Unescape(f[x])>> /\ g[x] = f[x]
      BY <1>1, <2>2 DEF ResultsOf
    <3> QED  BY <1>1, <2>2, <3>1
  <2>3. CASE x # o /\ x \notin DOMAIN f
    BY <1>1, <2>3 DEF ResultsOf
  <2> QED  BY <2>1, <2>2, <2>3
<1>7. results' = [x \in C!Options |-> IF x \in DOMAIN g THEN <<C!Unescape(g[x])>> ELSE <<>>]
  BY <1>5, <1>6
<1> QED  BY <1>7 DEF ResultsOf, g

(***************************************************************************)
(* The number of values of an option that was said at most once.           *)
(***************************************************************************)
LEMMA Counted ==
  ASSUME NEW g, NEW r, r = ResultsOf(g), NEW x \in C!Options
  PROVE  Len(r[x]) = IF x \in DOMAIN g THEN 1 ELSE 0
<1>1. CASE x \in DOMAIN g
  <2>1. r[x] = <<C!Unescape(g[x])>>
    BY <1>1 DEF ResultsOf
  <2> QED  BY <1>1, <2>1, OneElement
<1>2. CASE x \notin DOMAIN g
  <2>1. r[x] = <<>>
    BY <1>2 DEF ResultsOf
  <2> QED  BY <1>2, <2>1
<1> QED  BY <1>1, <1>2

(***************************************************************************)
(* Each option that was said counts once.                                  *)
(***************************************************************************)
LEMMA Counts ==
  ASSUME NEW g, results = ResultsOf(g), NEW x \in C!Options
  PROVE  C!Count(x) = IF x \in DOMAIN g THEN 1 ELSE 0
BY Counted DEF C!Count

(***************************************************************************)
(* The options in use are those that were said.                            *)
(***************************************************************************)
LEMMA UsedIs ==
  ASSUME NEW g \in Gives, results = ResultsOf(g)
  PROVE  C!Used = Cardinality(DOMAIN g)
<1>1. DOMAIN g \subseteq C!Options
  BY ValueOptionTypes DEF Gives
<1>2. {x \in C!Options : C!Count(x) > 0} = DOMAIN g
  BY <1>1, Counts
<1> QED  BY <1>2 DEF C!Used, C!Cardinality, Cardinality

(***************************************************************************)
(* The verdict on options that were each given once: there is one, and not *)
(* both -i and -c.                                                         *)
(***************************************************************************)
LEMMA VerdictIs ==
  ASSUME NEW g \in Gives, results = ResultsOf(g), missing = <<>>
  PROVE  C!Verdict = "accepted"
           <=> DOMAIN g # {} /\ ~({"i", "c"} \subseteq DOMAIN g)
<1>0. C!Options = {"i", "c", "o", "h"} /\ C!ValueOptions = {"i", "c", "o"}
      /\ DOMAIN g \subseteq C!ValueOptions
  <2>1. DOMAIN g \subseteq C!ValueOptions
    BY DEF Gives
  <2> QED  BY <2>1, OptionNames
<1>1. ~C!HelpAsked
  <2>1. "h" \notin DOMAIN g /\ "h" \in C!Options
    BY <1>0
  <2>2. C!Count("h") = 0
    BY <2>1, Counts
  <2> QED  BY <2>2 DEF C!HelpAsked
<1>2. C!Excluded <=> {"i", "c"} \subseteq DOMAIN g
  <2>1. /\ C!Count("i") = IF "i" \in DOMAIN g THEN 1 ELSE 0
        /\ C!Count("c") = IF "c" \in DOMAIN g THEN 1 ELSE 0
    BY <1>0, Counts
  <2> QED  BY <2>1 DEF C!Excluded
<1>3. ~C!GivenTwice
  <2>1. \A x \in C!Options : C!Count(x) = 0 \/ C!Count(x) = 1
    BY Counts
  <2> QED  BY <2>1 DEF C!GivenTwice
<1>4. C!Used = 0 <=> DOMAIN g = {}
  <2>1. IsFiniteSet({"i", "c", "o"})
    <3> DEFINE i == "i"
               c == "c"
               o == "o"
    <3> HIDE DEF i, c, o
    <3>1. IsFiniteSet({i, c, o})
      <4>1. IsFiniteSet({i}) /\ IsFiniteSet({c}) /\ IsFiniteSet({o})
        BY FS_Singleton
      <4>2. IsFiniteSet(({i} \cup {c}) \cup {o})
        BY <4>1, FS_Union
      <4>3. ({i} \cup {c}) \cup {o} = {i, c, o}
        OBVIOUS
      <4> QED  BY <4>2, <4>3
    <3> QED  BY <3>1 DEF i, c, o
  <2>2. IsFiniteSet(DOMAIN g)
    BY <1>0, <2>1, FS_Subset
  <2> QED  BY <2>2, FS_EmptySet, UsedIs
<1>5. ASSUME ~({"i", "c"} \subseteq DOMAIN g), DOMAIN g # {}
      PROVE  C!Used \in 1..2
  <2> DEFINE i == "i"
             c == "c"
             o == "o"
  <2>1. DOMAIN g \subseteq {i, c, o} /\ ~(i \in DOMAIN g /\ c \in DOMAIN g)
    BY <1>0, <1>5
  <2> HIDE DEF i, c, o
  <2> DEFINE D == DOMAIN g
  <2> HIDE DEF D
  <2>2. PICK a \in {i, c} : D \subseteq {a, o}
    BY <2>1 DEF D
  <2>3. D = {a} \/ D = {o} \/ D = {a} \cup {o}
    BY <1>5, <2>2 DEF D
  <2>4. Cardinality({a}) = 1 /\ Cardinality({o}) = 1 /\ IsFiniteSet({a})
    BY FS_Singleton
  <2>5. Cardinality({a} \cup {o}) \in {1, 2}
    BY <2>4, FS_AddElement
  <2>6. Cardinality(D) \in 1..2
    <3>1. CASE D = {a}
      BY <2>4, <3>1
    <3>2. CASE D = {o}
      BY <2>4, <3>2
    <3>3. CASE D = {a} \cup {o}
      <4>1. Cardinality(D) = 1 \/ Cardinality(D) = 2
        BY <2>5, <3>3
      <4> QED  BY <4>1
    <3> QED  BY <2>3, <3>1, <3>2, <3>3
  <2> QED  BY <2>6, UsedIs DEF D
<1>6. C!Verdict = "accepted" <=> ~C!Excluded /\ C!Used \in 1..2
  BY <1>1, <1>3 DEF C!Verdict, C!LeftOver
<1> QED  BY <1>2, <1>4, <1>5, <1>6

(***************************************************************************)
(* A documented command line that has -i and -c would have nothing else.   *)
(***************************************************************************)
LEMMA AtMostTwo ==
  ASSUME NEW g, NEW w, Completes(Nothing, g, w), {"i", "c"} \subseteq DOMAIN g
  PROVE  DOMAIN g = {"i", "c"}
<1>1. Nothing \in Gives /\ DOMAIN Nothing = {}
  BY NothingShape
<1>2. CASE g = Nothing
  BY <1>1, <1>2
<1>3. ASSUME NEW o \in C!ValueOptions \ DOMAIN Nothing, NEW t \in Text, g = Adding(Nothing, o, t)
      PROVE  FALSE
  <2>1. DOMAIN g = DOMAIN Nothing \cup {o}
    BY <1>1, <1>3, AddingShape
  <2>2. "i" # "c"
    OBVIOUS
  <2> QED  BY <1>1, <2>1, <2>2
<1>4. ASSUME NEW o \in C!ValueOptions \ DOMAIN Nothing, NEW t \in Text,
             NEW p \in C!ValueOptions \ (DOMAIN Nothing \cup {o}), NEW u \in Text,
             g = Adding(Adding(Nothing, o, t), p, u)
      PROVE  DOMAIN g = {"i", "c"}
  <2> DEFINE h == Adding(Nothing, o, t)
  <2>1. h \in Gives /\ DOMAIN h = DOMAIN Nothing \cup {o}
    BY <1>1, AddingShape
  <2>2. p \notin DOMAIN h
    BY <2>1
  <2> HIDE DEF h
  <2>3. DOMAIN Adding(h, p, u) = DOMAIN h \cup {p}
    BY <2>1, <2>2, AddingShape
  <2>4. DOMAIN g = {o, p}
    BY <1>1, <1>4, <2>1, <2>3 DEF h
  <2>5. "i" # "c"
    OBVIOUS
  <2> QED  BY <2>4, <2>5
<1>5. CASE \E o \in C!ValueOptions \ DOMAIN Nothing, t \in Text, s \in Seq(Text) :
           \E p \in C!ValueOptions \ (DOMAIN Nothing \cup {o}), u \in Text, r \in Seq(Text) :
             /\ g = Adding(Adding(Nothing, o, t), p, u)
             /\ w = s \o r
             /\ Spelt(o, t, s) /\ Spelt(p, u, r)
  <2>1. PICK o \in C!ValueOptions \ DOMAIN Nothing, t \in Text, s \in Seq(Text) :
           \E p \in C!ValueOptions \ (DOMAIN Nothing \cup {o}), u \in Text, r \in Seq(Text) :
             /\ g = Adding(Adding(Nothing, o, t), p, u)
             /\ w = s \o r
             /\ Spelt(o, t, s) /\ Spelt(p, u, r)
    BY <1>5
  <2>2. PICK p \in C!ValueOptions \ (DOMAIN Nothing \cup {o}), u \in Text :
             g = Adding(Adding(Nothing, o, t), p, u)
    BY <2>1
  <2> QED  BY <1>4, <2>2
<1> QED  BY <1>2, <1>3, <1>5 DEF Completes

(***************************************************************************)
(* What a reading says is documented.                                      *)
(***************************************************************************)
LEMMA ReadingIs ==
  ASSUME NEW line \in Seq(Text), NEW g \in C!Readings(line)
  PROVE  /\ g \in Gives /\ DOMAIN g # {} /\ ~({"i", "c"} \subseteq DOMAIN g)
         /\ \E w \in Seq(Text), tail \in Tails : line = w \o tail /\ Completes(Nothing, g, w)
<1>1. PICK w \in Seq(Text), tail \in Tails : line = w \o tail /\ g \in C!Documented(w)
  BY ReadingShape
<1>2. /\ g \in Gives /\ Completes(Nothing, g, w)
      /\ DOMAIN g # {} /\ DOMAIN g # {"i", "c"}
  BY <1>1, DocumentedShape
<1>3. ~({"i", "c"} \subseteq DOMAIN g)
  BY <1>2, AtMostTwo
<1> QED  BY <1>1, <1>2, <1>3

(***************************************************************************)
(* Giving an option never takes a value away.                              *)
(***************************************************************************)
LEMMA GrowingCount ==
  ASSUME CommandLineType, NEW o \in C!Options, NEW t \in Text, C!Give(o, t)
  PROVE  /\ \A x \in C!Options : C!Count(x) \in Nat /\ C!Count(x)' \in Nat
         /\ \A x \in C!Options : C!Count(x)' >= C!Count(x)
         /\ C!Count(o)' = C!Count(o) + 1
<1> DEFINE v == C!Unescape(t)
<1>1. v \in Text
  BY UnescapeType
<1>2. results \in [C!Options -> Seq(Text)]
  BY DEF CommandLineType
<1>3. results' = [results EXCEPT ![o] = Append(results[o], v)]
  BY DEF C!Give
<1> HIDE DEF v
<1>4. \A x \in C!Options : results[x] \in Seq(Text) /\ Len(results[x]) \in Nat
  BY <1>2, LenProperties
<1>5. \A x \in C!Options : x # o => results'[x] = results[x]
  BY <1>2, <1>3
<1>6. results'[o] = Append(results[o], v)
  BY <1>2, <1>3
<1>7. Len(results'[o]) = Len(results[o]) + 1
  BY <1>1, <1>4, <1>6, AppendProperties
<1>8. \A x \in C!Options : Len(results'[x]) = IF x = o THEN Len(results[x]) + 1 ELSE Len(results[x])
  BY <1>5, <1>7
<1> DEFINE m == [x \in C!Options |-> Len(results[x])]
           n == [x \in C!Options |-> Len(results'[x])]
<1>9. /\ \A x \in C!Options : m[x] \in Nat /\ n[x] = IF x = o THEN m[x] + 1 ELSE m[x]
      /\ \A x \in C!Options : m[x] = C!Count(x) /\ n[x] = C!Count(x)'
  BY <1>4, <1>8 DEF C!Count
<1> HIDE DEF m, n
<1>10. \A x \in C!Options : n[x] \in Nat /\ n[x] >= m[x]
  BY <1>9
<1> QED  BY <1>9, <1>10

-----------------------------------------------------------------------------
(***************************************************************************)
(* The two parsers one after the other.                                    *)
(***************************************************************************)
LEMMA InitIInv == Init => IInv
<1> SUFFICES ASSUME Init PROVE IInv
  OBVIOUS
<1>1. argv \in CommandLines /\ args = argv
  BY DEF Init, C!Init
<1>2. argv \in Seq(Text)
  BY <1>1, ArgumentsAssumption
<1>3. [o \in C!Options |-> <<>>] \in [C!Options -> Seq(Text)]
  OBVIOUS
<1>4. CommandLineType
  <2>1. args \in Seq(Text) /\ missing \in Seq(Text)
    BY <1>1, <1>2 DEF Init, C!Init
  <2>2. positional_only \in BOOLEAN /\ outcome = "parsing"
    BY DEF Init, C!Init
  <2>3. results \in [C!Options -> Seq(Text)]
    BY <1>3 DEF Init, C!Init
  <2> QED  BY <1>1, <2>1, <2>2, <2>3 DEF CommandLineType
<1>5. HexLoop
  BY DEF Init, H!Init, HexLoop, H!TypeOK, H!Text
<1> QED  BY <1>4, <1>5 DEF IInv

LEMMA CmdlineType ==
  ASSUME CommandLineType
  PROVE  cmdline_hex \in Text
<1>1. results["c"] \in Seq(Text)
  BY DEF CommandLineType, C!Options, C!ValueOptions
<1> DEFINE s == results["c"]
<1> HIDE DEF s
<1>2. s # <<>> => Last(s) \in Text
  BY <1>1, EmptySeq, LenProperties, ElementOfSeq DEF Last, s
<1>3. <<>> \in Text
  BY DEF Text
<1> QED  BY <1>2, <1>3 DEF cmdline_hex, ValueOf, s

LEMMA NextIInv == IInv /\ [Next]_vars => IInv'
<1> SUFFICES ASSUME IInv, [Next]_vars PROVE IInv'
  OBVIOUS
<1>1. CommandLineType /\ HexLoop
  BY DEF IInv
<1>2. UNCHANGED commandLineVars => CommandLineType'
  BY <1>1 DEF commandLineVars, CommandLineType
<1>3. UNCHANGED hexInputVars => HexLoop'
  BY <1>1 DEF hexInputVars, HexLoop, H!TypeOK, PairAt, Spells, H!OnlyHex
<1>4. CASE ParseArgs
  BY <1>1, <1>3, <1>4, CommandLineStep DEF ParseArgs, IInv
<1>5. CASE ReadHex
  BY <1>1, <1>2, <1>5, CmdlineType, CallKeeps DEF ReadHex, IInv
<1>6. CASE Convert
  BY <1>1, <1>2, <1>6, PushKeeps, RestKeeps DEF Convert, H!Step, IInv
<1>7. CASE UNCHANGED vars
  BY <1>2, <1>3, <1>7 DEF vars, IInv
<1> QED  BY <1>4, <1>5, <1>6, <1>7 DEF Next, Stay

LEMMA SpecIInv == Spec => []IInv
BY InitIInv, NextIInv, PTL DEF Spec

-----------------------------------------------------------------------------
(***************************************************************************)
(* No documented command line is refused: whatever g the command line can  *)
(* be read as, part of it, f, has been read, and the arguments that are    *)
(* left say the rest.                                                      *)
(***************************************************************************)
Ahead(g) ==
  \E f \in Gives, w \in Seq(Text), tail \in Tails \cap Seq(Text) :
    /\ results = ResultsOf(f)
    /\ Completes(f, g, w)
    /\ args = w \o tail
    /\ positional_only \/ outcome = "accepted" => w = <<>> /\ tail = <<>>

OnTrack ==
  \A g \in C!Readings(argv) :
    outcome \in {"parsing", "accepted"} /\ missing = <<>> /\ Ahead(g)

(***************************************************************************)
(* No option has a value at first.                                         *)
(***************************************************************************)
LEMMA ResultsOfNothing == ResultsOf(Nothing) = [o \in C!Options |-> <<>>]
BY NothingShape DEF ResultsOf

(***************************************************************************)
(* At first the rest is all of it.                                         *)
(***************************************************************************)
LEMMA InitOnTrack ==
  ASSUME C!Init
  PROVE  OnTrack
<1>1. argv \in Seq(Text)
  BY ArgumentsAssumption DEF C!Init
<1> SUFFICES ASSUME NEW g \in C!Readings(argv)
             PROVE  outcome \in {"parsing", "accepted"} /\ missing = <<>> /\ Ahead(g)
  BY DEF OnTrack
<1>2. PICK w \in Seq(Text), tail \in Tails : argv = w \o tail /\ Completes(Nothing, g, w)
  BY <1>1, ReadingIs
<1>3. tail \in Seq(Text)
  <2>1. CASE tail = <<>>
    BY <2>1
  <2>2. CASE tail = <<Mark>>
    <3> DEFINE S == Text \cup {Mark}
               b == w \o tail
               n == Len(w)
    <3>1. w \in Seq(S) /\ tail \in Seq(S) /\ Len(tail) = 1 /\ tail[1] = Mark /\ n \in Nat
      <4>1. Text \subseteq S
        OBVIOUS
      <4> QED  BY <2>2, <4>1, SeqMonotonic, LenProperties
    <3> HIDE DEF S
    <3>2. Len(b) = n + 1 /\ b[n + 1] = Mark
      <4>1. Len(b) = n + Len(tail)
        BY <3>1, ConcatProperties
      <4>2. ~(n + 1 <= n) /\ (n + 1) - n = 1
        BY <3>1
      <4>3. b[n + 1] = IF n + 1 <= n THEN w[n + 1] ELSE tail[(n + 1) - n]
        <5>1. n + 1 \in 1..(n + 1) /\ n + Len(tail) = n + 1
          BY <3>1
        <5> QED  BY <3>1, <5>1, ConcatProperties
      <4> QED  BY <3>1, <4>1, <4>2, <4>3
    <3>3. b \in Seq(Text)
      BY <1>1, <1>2
    <3> HIDE DEF b
    <3>4. b[n + 1] \in Text
      BY <3>1, <3>2, <3>3, ElementOfSeq
    <3> QED  BY <2>2, <3>2, <3>4
  <2> QED  BY <2>1, <2>2 DEF Tails
<1>4. Nothing \in Gives /\ results = ResultsOf(Nothing)
  BY NothingShape, ResultsOfNothing DEF C!Init
<1>5. args = w \o tail /\ positional_only = FALSE /\ outcome = "parsing" /\ missing = <<>>
  BY <1>2 DEF C!Init
<1> QED  BY <1>2, <1>3, <1>4, <1>5 DEF Ahead

(***************************************************************************)
(* A step takes the option that comes next, or the mark at the end, or     *)
(* finds that all is there and accepts it.                                 *)
(***************************************************************************)
LEMMA StepsOnTrack ==
  ASSUME CommandLineType, OnTrack, C!Step
  PROVE  OnTrack'
<1>0. argv' = argv /\ outcome = "parsing" /\ argv \in Seq(Text) /\ positional_only \in BOOLEAN
  BY ArgumentsAssumption
     DEF C!Step, C!ParseMark, C!ParseLeftover, C!ParseFlag, C!ParseValue, C!Process,
         C!Parsing, CommandLineType
<1> SUFFICES ASSUME NEW g \in C!Readings(argv)
             PROVE  outcome' \in {"parsing", "accepted"} /\ missing' = <<>> /\ Ahead(g)'
  BY <1>0 DEF OnTrack
<1>1. missing = <<>> /\ Ahead(g)
  BY DEF OnTrack
<1>2. PICK f \in Gives, w \in Seq(Text), tail \in Tails \cap Seq(Text) :
        /\ results = ResultsOf(f)
        /\ Completes(f, g, w)
        /\ args = w \o tail
        /\ positional_only \/ outcome = "accepted" => w = <<>> /\ tail = <<>>
  BY <1>1 DEF Ahead
<1>3. g \in Gives /\ DOMAIN g # {} /\ ~({"i", "c"} \subseteq DOMAIN g)
  BY <1>0, ReadingIs
<1>4. CASE g = f /\ w = <<>>
  <2>1. args = tail
    BY <1>2, <1>4, ConcatEmptySeq
  <2>2. CASE tail = <<>>
    <3>1. C!Process
      BY <2>1, <2>2
         DEF C!Step, C!ParseMark, C!ParseLeftover, C!ParseFlag, C!ParseValue, C!Parsing
    <3>2. /\ outcome' = C!Verdict
          /\ UNCHANGED <<argv, args, positional_only, results, missing>>
      BY <3>1 DEF C!Process
    <3>3. C!Verdict = "accepted"
      BY <1>1, <1>2, <1>3, <1>4, VerdictIs
    <3>4. Ahead(g)'
      BY <1>2, <1>4, <2>2, <3>2 DEF Ahead
    <3> QED  BY <1>1, <3>2, <3>3, <3>4
  <2>3. CASE tail = <<Mark>>
    <3>1. args # <<>> /\ Head(args) = Mark /\ Tail(args) = <<>> /\ positional_only = FALSE
      BY <1>0, <1>2, <2>1, <2>3
    <3>2. C!Named(Mark) = {}
      <4> DEFINE m == Mark
      <4>1. m \in Text
        <5>1. tail \in Seq(Text) /\ tail = <<m>> /\ Len(tail) = 1 /\ tail[1] = m
          BY <2>3
        <5> HIDE DEF m
        <5> QED  BY <5>1, ElementOfSeq
      <4>2. m = C!PositionalMark
        BY DEF Mark
      <4> HIDE DEF m
      <4>3. \A o \in C!Options : o \notin C!Named(m)
        BY <4>1, <4>2, NotMark, NamesFor
      <4>4. C!Named(m) \subseteq C!Options
        BY DEF C!Named
      <4>5. C!Named(m) = {}
        BY <4>3, <4>4
      <4> QED  BY <4>5 DEF m
    <3>3. C!ParseMark
      BY <3>1, <3>2
         DEF C!Step, C!ParseLeftover, C!ParseFlag, C!ParseValue, C!Process, C!Current, Mark
    <3>4. /\ args' = <<>> /\ positional_only' = TRUE
          /\ UNCHANGED <<argv, results, missing, outcome>>
      BY <3>1, <3>3 DEF C!ParseMark
    <3>5. /\ <<>> \in Seq(Text) /\ <<>> \in Tails \cap Seq(Text)
          /\ args' = w \o <<>>
      BY <1>4, <3>4, ConcatEmptySeq DEF Tails
    <3>6. Ahead(g)'
      BY <1>2, <1>4, <3>4, <3>5 DEF Ahead
    <3> QED  BY <1>0, <1>1, <3>4, <3>6
  <2> QED  BY <2>2, <2>3 DEF Tails
<1>5. ASSUME NEW o \in C!ValueOptions \ DOMAIN f, NEW t \in Text,
             NEW s \in Seq(Text), NEW r \in Seq(Text),
             w = s \o r, Spelt(o, t, s), Completes(Adding(f, o, t), g, r)
      PROVE  outcome' \in {"parsing", "accepted"} /\ missing' = <<>> /\ Ahead(g)'
  <2>1. args = s \o (r \o tail) /\ r \o tail \in Seq(Text)
    BY <1>2, <1>5, ConcatAssociative, ConcatProperties
  <2>2. w # <<>>
    <3>1. s # <<>>
      BY <1>5, LenProperties DEF Spelt
    <3> QED  BY <1>5, <3>1, Leading
  <2>3. positional_only = FALSE
    BY <1>0, <1>2, <2>2
  <2>4. C!Give(o, t) /\ args' = r \o tail /\ UNCHANGED <<argv, positional_only, missing, outcome>>
    BY <1>0, <1>5, <2>1, <2>3, Takes
  <2>5. results' = ResultsOf(Adding(f, o, t)) /\ Adding(f, o, t) \in Gives
    BY <1>2, <2>4, GiveAdds, AddingShape
  <2>6. Ahead(g)'
    <3> DEFINE h == Adding(f, o, t)
    <3>1. /\ h \in Gives /\ results' = ResultsOf(h) /\ Completes(h, g, r)
          /\ args' = r \o tail /\ ~(positional_only' \/ outcome' = "accepted")
      BY <1>0, <1>5, <2>3, <2>4, <2>5
    <3> HIDE DEF h
    <3> QED  BY <1>2, <3>1 DEF Ahead
  <2> QED  BY <1>0, <1>1, <2>4, <2>6
<1>6. \/ g = f /\ w = <<>>
      \/ \E o \in C!ValueOptions \ DOMAIN f, t \in Text, s \in Seq(Text), r \in Seq(Text) :
           w = s \o r /\ Spelt(o, t, s) /\ Completes(Adding(f, o, t), g, r)
  BY <1>2, CompletesStep
<1> QED  BY <1>4, <1>5, <1>6

-----------------------------------------------------------------------------
(***************************************************************************)
(* Nothing but documented command lines is accepted: unless it is already  *)
(* certain that this one will not be, the arguments that are gone say what *)
(* the results are.                                                        *)
(***************************************************************************)
Seen == IF positional_only THEN <<Mark>> ELSE <<>>

Covers(g) ==
  \E w \in Seq(Text) :
    /\ results = ResultsOf(g)
    /\ Completes(Nothing, g, w)
    /\ argv = w \o (Seen \o args)

Hopeless == missing # <<>> \/ C!HelpAsked \/ C!GivenTwice \/ C!Excluded

Accounted ==
  /\ outcome \in {"parsing", "accepted"} => Hopeless \/ \E g \in Gives : Covers(g)
  /\ outcome = "accepted" => args = <<>> /\ C!Verdict = "accepted"

(***************************************************************************)
(* At first none are gone.                                                 *)
(***************************************************************************)
LEMMA InitAccounted ==
  ASSUME C!Init
  PROVE  Accounted
<1>1. /\ argv \in Seq(Text) /\ args = argv /\ positional_only = FALSE
      /\ results = ResultsOf(Nothing) /\ outcome = "parsing"
  BY ArgumentsAssumption, ResultsOfNothing DEF C!Init
<1>2. <<>> \in Seq(Text) /\ Completes(Nothing, Nothing, <<>>) /\ Nothing \in Gives
  BY NothingShape DEF Completes
<1>3. argv = <<>> \o (<<>> \o args)
  BY <1>1, ConcatEmptySeq
<1>4. Covers(Nothing)
  BY <1>1, <1>2, <1>3 DEF Covers, Seen
<1> QED  BY <1>1, <1>2, <1>4 DEF Accounted

(***************************************************************************)
(* A sequence is its head and its tail.                                    *)
(***************************************************************************)
LEMMA HeadAndTail ==
  ASSUME NEW S, NEW s \in Seq(S), s # <<>>
  PROVE  s = <<Head(s)>> \o Tail(s)
<1> DEFINE h == Head(s)
           t == Tail(s)
           b == <<h>> \o t
<1>1. h \in S /\ t \in Seq(S) /\ Len(t) = Len(s) - 1 /\ Len(s) \in Nat \ {0} /\ h = s[1]
  BY HeadTailProperties, LenProperties, EmptySeq
<1>2. \A k \in 1..Len(t) : t[k] = s[k + 1]
  BY <1>1, HeadTailProperties
<1>3. <<h>> \in Seq(S) /\ Len(<<h>>) = 1 /\ <<h>>[1] = h
  BY <1>1
<1> DEFINE p == <<h>>
           n == Len(t)
<1> HIDE DEF p, h, t
<1>4. b \in Seq(S) /\ Len(b) = 1 + n
  BY <1>1, <1>3, ConcatProperties DEF p
<1>5. \A k \in 1..(1 + n) : b[k] = IF k <= 1 THEN p[k] ELSE t[k - 1]
  BY <1>1, <1>3, ConcatProperties DEF p
<1>6. n \in Nat /\ Len(s) = 1 + n
  BY <1>1
<1> HIDE DEF b, n
<1>7. ASSUME NEW k \in 1..(1 + n) PROVE b[k] = s[k]
  <2>1. CASE k = 1
    BY <1>1, <1>3, <1>5, <2>1 DEF p
  <2>2. CASE k # 1
    <3>1. k - 1 \in 1..n /\ (k - 1) + 1 = k /\ ~(k <= 1)
      BY <1>6, <2>2
    <3>2. t[k - 1] = s[(k - 1) + 1]
      BY <1>2, <3>1 DEF n
    <3> QED  BY <1>5, <3>1, <3>2
  <2> QED  BY <2>1, <2>2
<1>8. b = s
  BY <1>4, <1>6, <1>7, SeqEqual
<1> QED  BY <1>8 DEF b, p, h, t

(***************************************************************************)
(* What has gone wrong is never put right.                                 *)
(***************************************************************************)
LEMMA HopelessStays ==
  ASSUME CommandLineType, C!Step, Hopeless
  PROVE  Hopeless'
<1>1. ASSUME UNCHANGED results, missing # <<>> => missing' # <<>>
      PROVE  Hopeless'
  BY <1>1 DEF Hopeless, C!HelpAsked, C!GivenTwice, C!Excluded, C!Count
<1>2. CASE C!ParseMark
  BY <1>1, <1>2 DEF C!ParseMark
<1>3. CASE C!ParseLeftover
  <2>1. missing' = Append(missing, Head(args)) /\ missing \in Seq(Text) /\ Head(args) \in Text
    BY <1>3, HeadTailProperties DEF C!ParseLeftover, C!Parsing, C!Current, CommandLineType
  <2>2. missing' # <<>>
    <3>1. Len(missing') = Len(missing) + 1 /\ Len(missing) \in Nat
      BY <2>1, AppendProperties, LenProperties
    <3> QED  BY <3>1
  <2> QED  BY <2>2 DEF Hopeless
<1>4. CASE C!ParseFlag
  <2>1. results'["h"] = << <<>> >>
    BY <1>4 DEF C!ParseFlag, CommandLineType, C!Options
  <2>2. C!HelpAsked'
    BY <2>1, OneElement DEF C!HelpAsked, C!Count
  <2> QED  BY <2>2 DEF Hopeless
<1>5. CASE C!ParseValue
  <2>1. missing' = missing
    BY <1>5 DEF C!ParseValue
  <2>2. CASE UNCHANGED results
    BY <1>1, <2>1, <2>2
  <2>3. ASSUME NEW o \in C!Options, NEW t \in Text, C!Give(o, t)
        PROVE  Hopeless'
    <3>1. \A x \in C!Options : /\ C!Count(x) \in Nat /\ C!Count(x)' \in Nat
                               /\ C!Count(x)' >= C!Count(x)
      BY <2>3, GrowingCount
    <3> DEFINE m == [x \in C!Options |-> C!Count(x)]
               n == [x \in C!Options |-> C!Count(x)']
    <3>2. /\ \A x \in C!Options : m[x] \in Nat /\ n[x] \in Nat /\ n[x] >= m[x]
          /\ \A x \in C!Options : m[x] = C!Count(x) /\ n[x] = C!Count(x)'
      BY <3>1
    <3> HIDE DEF m, n
    <3>3. \A x \in C!Options : (m[x] > 0 => n[x] > 0) /\ (m[x] > 1 => n[x] > 1)
      BY <3>2
    <3>4. "h" \in C!Options /\ "i" \in C!Options /\ "c" \in C!Options
      BY OptionNames
    <3> QED  BY <2>1, <3>2, <3>3, <3>4 DEF Hopeless, C!HelpAsked, C!GivenTwice, C!Excluded
  <2>4. (\E o \in C!Options, t \in Text : C!Give(o, t)) \/ UNCHANGED results
    <3>1. outcome' = "mismatch" => UNCHANGED results \/ \E o \in C!Options, t \in Text : C!Give(o, t)
      <4>1. outcome # "mismatch" /\ args \in Seq(Text) /\ args # <<>> /\ Head(args) \in Text
        BY <1>5, HeadTailProperties DEF C!ParseValue, C!Parsing, CommandLineType
      <4> QED  BY <1>5, <4>1 DEF C!ParseValue, C!Parsing
    <3>2. outcome' = "mismatch"
          \/ \E o \in C!ValueOptions, t \in Text : C!Give(o, t)
      BY <1>5, Taken
    <3> QED  BY <3>1, <3>2, ValueOptionTypes
  <2> QED  BY <2>2, <2>3, <2>4
<1>6. CASE C!Process
  BY <1>1, <1>6 DEF C!Process
<1> QED  BY <1>2, <1>3, <1>4, <1>5, <1>6 DEF C!Step

(***************************************************************************)
(* A value is accounted for by the arguments it was taken from, or the     *)
(* option came twice, or -i came with -c.                                  *)
(***************************************************************************)
LEMMA ValueAccounted ==
  ASSUME CommandLineType, C!ParseValue, outcome' # "mismatch", NEW g \in Gives, Covers(g)
  PROVE  Hopeless' \/ \E h \in Gives : Covers(h)'
<1>1. PICK w \in Seq(Text) :
        results = ResultsOf(g) /\ Completes(Nothing, g, w) /\ argv = w \o (Seen \o args)
  BY DEF Covers
<1>2. positional_only = FALSE /\ UNCHANGED <<argv, positional_only, missing>>
  BY Taken
<1>3. PICK o \in C!ValueOptions, t \in Text, s \in Seq(Text) :
        Spelt(o, t, s) /\ args = s \o args' /\ args' \in Seq(Text) /\ C!Give(o, t)
  BY Taken
<1>4. o \in C!Options
  BY ValueOptionTypes
<1>5. CASE o \in DOMAIN g
  <2>1. C!Count(o) = 1
    BY <1>1, <1>4, <1>5, Counts
  <2>2. C!Count(o)' = 1 + 1
    BY <1>3, <1>4, <2>1, GrowingCount
  <2>3. C!GivenTwice'
    BY <1>4, <2>2 DEF C!GivenTwice
  <2> QED  BY <2>3 DEF Hopeless
<1>6. CASE o \notin DOMAIN g
  <2> DEFINE h == Adding(g, o, t)
             v == w \o s
  <2>1. results' = ResultsOf(h) /\ h \in Gives /\ DOMAIN h = DOMAIN g \cup {o}
    BY <1>1, <1>3, <1>6, GiveAdds, AddingShape
  <2>2. v \in Seq(Text) /\ argv' = v \o (<<>> \o args') /\ Seen' = <<>>
    <3>1. Seen = <<>> /\ Seen' = <<>>
      BY <1>2 DEF Seen
    <3>2. <<>> \o args = args /\ <<>> \o args' = args'
      BY <1>3, ConcatEmptySeq DEF CommandLineType
    <3>3. w \o (s \o args') = (w \o s) \o args'
      BY <1>3, ConcatAssociative
    <3>4. v \in Seq(Text)
      BY ConcatProperties
    <3> QED  BY <1>1, <1>2, <1>3, <3>1, <3>2, <3>3, <3>4
  <2>3. Completes(Nothing, h, v) \/ {"i", "c"} \subseteq DOMAIN g \cup {o}
    BY <1>1, <1>3, <1>6, CompletesMore
  <2> HIDE DEF h, v
  <2>4. CASE Completes(Nothing, h, v)
    <3>1. Covers(h)'
      BY <2>1, <2>2, <2>4 DEF Covers
    <3> QED  BY <2>1, <3>1
  <2>5. CASE {"i", "c"} \subseteq DOMAIN g \cup {o}
    <3>1. "i" \in DOMAIN h /\ "c" \in DOMAIN h /\ "i" \in C!Options /\ "c" \in C!Options
      BY <2>1, <2>5, OptionNames
    <3>2. Len(results'["i"]) = 1 /\ Len(results'["c"]) = 1
      BY <2>1, <3>1, Counted
    <3>3. C!Excluded'
      BY <3>2 DEF C!Excluded, C!Count
    <3> QED  BY <3>3 DEF Hopeless
  <2> QED  BY <2>3, <2>4, <2>5
<1> QED  BY <1>5, <1>6

(***************************************************************************)
(* Every step either takes what it accounts for or settles that the        *)
(* command line is not accepted.                                           *)
(***************************************************************************)
LEMMA StepsAccounted ==
  ASSUME CommandLineType, Accounted, C!Step
  PROVE  Accounted'
<1>0. outcome = "parsing"
  BY DEF C!Step, C!ParseMark, C!ParseLeftover, C!ParseFlag, C!ParseValue, C!Process, C!Parsing
<1>1. Hopeless \/ \E g \in Gives : Covers(g)
  BY <1>0 DEF Accounted
<1>2. CASE C!ParseMark
  <2>1. /\ outcome' = "parsing" /\ positional_only = FALSE /\ positional_only' = TRUE
        /\ args # <<>> /\ Head(args) = Mark /\ args' = Tail(args)
        /\ UNCHANGED <<argv, results>>
    BY <1>0, <1>2 DEF C!ParseMark, C!Parsing, C!Current, Mark
  <2>2. <<>> \o args = <<Mark>> \o args'
    <3>1. args = <<Head(args)>> \o Tail(args) /\ <<>> \o args = args
      BY <2>1, HeadAndTail, ConcatEmptySeq DEF CommandLineType
    <3> QED  BY <2>1, <3>1
  <2>3. \A g \in Gives : Covers(g) => Covers(g)'
    BY <2>1, <2>2 DEF Covers, Seen
  <2> QED  BY <1>1, <2>1, <2>3, HopelessStays DEF Accounted
<1>3. CASE C!ParseLeftover
  <2>1. missing' = Append(missing, Head(args)) /\ missing \in Seq(Text) /\ Head(args) \in Text
        /\ outcome' = "parsing"
    BY <1>0, <1>3, HeadTailProperties DEF C!ParseLeftover, C!Parsing, C!Current, CommandLineType
  <2>2. missing' # <<>>
    <3>1. Len(missing') = Len(missing) + 1 /\ Len(missing) \in Nat
      BY <2>1, AppendProperties, LenProperties
    <3> QED  BY <3>1
  <2> QED  BY <2>1, <2>2 DEF Hopeless, Accounted
<1>4. CASE C!ParseFlag
  <2>1. results'["h"] = << <<>> >> /\ outcome' = "parsing"
    BY <1>0, <1>4 DEF C!ParseFlag, CommandLineType, C!Options
  <2>2. C!HelpAsked'
    BY <2>1, OneElement DEF C!HelpAsked, C!Count
  <2> QED  BY <2>1, <2>2 DEF Hopeless, Accounted
<1>5. CASE C!ParseValue
  <2>1. outcome' = "mismatch" \/ outcome' = "parsing"
    BY <1>5, Taken
  <2>2. CASE outcome' = "mismatch"
    BY <2>2 DEF Accounted
  <2>3. CASE outcome' = "parsing"
    BY <1>1, <1>5, <2>3, HopelessStays, ValueAccounted DEF Accounted
  <2> QED  BY <2>1, <2>2, <2>3
<1>6. CASE C!Process
  <2>1. /\ args = <<>> /\ outcome' = C!Verdict
        /\ UNCHANGED <<argv, args, positional_only, results, missing>>
    BY <1>6 DEF C!Process
  <2>2. C!Verdict' = C!Verdict
    BY <2>1 DEF C!Verdict, C!HelpAsked, C!Excluded, C!Used, C!GivenTwice, C!LeftOver, C!Count
  <2>3. \A g \in Gives : Covers(g) => Covers(g)'
    BY <2>1 DEF Covers, Seen
  <2> QED  BY <1>1, <2>1, <2>2, <2>3, HopelessStays DEF Accounted
<1> QED  BY <1>2, <1>3, <1>4, <1>5, <1>6 DEF C!Step

(***************************************************************************)
(* At the end, an accepted command line can be read as what the results    *)
(* say.                                                                    *)
(***************************************************************************)
LEMMA AcceptedIsRead ==
  ASSUME CommandLineType, Accounted, outcome = "accepted"
  PROVE  \E g \in C!Readings(argv) : results = ResultsOf(g)
<1>1. args = <<>> /\ C!Verdict = "accepted" /\ argv \in Seq(Text)
  BY ArgumentsAssumption DEF Accounted, CommandLineType
<1>2. missing = <<>> /\ ~C!HelpAsked /\ ~C!GivenTwice /\ ~C!Excluded
  BY <1>1 DEF C!Verdict, C!LeftOver
<1>3. PICK g \in Gives, w \in Seq(Text) :
        results = ResultsOf(g) /\ Completes(Nothing, g, w) /\ argv = w \o (Seen \o args)
  BY <1>2 DEF Accounted, Hopeless, Covers
<1>4. DOMAIN g # {} /\ ~({"i", "c"} \subseteq DOMAIN g)
  BY <1>1, <1>2, <1>3, VerdictIs
<1>5. g \in C!Documented(w)
  BY <1>3, <1>4, DocumentedShape
<1>6. Seen \in Tails /\ argv = w \o Seen
  <2>1. Seen \in Tails
    BY DEF Seen, Tails
  <2>2. Seen \in Seq({Mark})
    <3>1. <<>> \in Seq({Mark}) /\ <<Mark>> \in Seq({Mark})
      OBVIOUS
    <3> QED  BY <3>1 DEF Seen
  <2>3. Seen \o <<>> = Seen
    BY <2>2, ConcatEmptySeq
  <2> QED  BY <1>1, <1>3, <2>1, <2>3
<1>7. g \in C!Readings(argv)
  BY <1>1, <1>5, <1>6, ReadingShape
<1> QED  BY <1>3, <1>7

-----------------------------------------------------------------------------
(***************************************************************************)
(* The invariant of the command line, and that of the string that is       *)
(* handed on: parse_cmdline runs on the text of an accepted -c, and only   *)
(* without a source file.                                                  *)
(***************************************************************************)
CmdInv == CommandLineType /\ Accounted /\ OnTrack

LEMMA NextCmdInv == CmdInv /\ [Next]_vars => CmdInv'
<1> SUFFICES ASSUME CmdInv, [Next]_vars PROVE CmdInv'
  OBVIOUS
<1>1. CASE ParseArgs
  BY <1>1, CommandLineStep, StepsAccounted, StepsOnTrack DEF ParseArgs, CmdInv
<1>2. CASE UNCHANGED commandLineVars
  BY <1>2 DEF CmdInv, commandLineVars, CommandLineType, Accounted, OnTrack, Ahead, Covers, Seen,
              Hopeless, C!Verdict, C!HelpAsked, C!Excluded, C!Used, C!GivenTwice, C!LeftOver, C!Count
<1> QED  BY <1>1, <1>2 DEF Next, ReadHex, Convert, Stay, vars, commandLineVars

LEMMA InitCmdInv == Init => CmdInv
BY InitIInv, InitAccounted, InitOnTrack DEF CmdInv, IInv, Init

LEMMA SpecCmdInv == Spec => []CmdInv
BY SpecIInv, InitCmdInv, NextCmdInv, PTL DEF Spec

Handed ==
  state # "idle" =>
    outcome = "accepted" /\ hex_str = cmdline_hex /\ source_file_name = <<>>

LEMMA InitHanded == Init => Handed
BY DEF Init, H!Init, Handed

LEMMA NextHanded == Handed /\ [Next]_vars => Handed'
<1> SUFFICES ASSUME Handed, [Next]_vars PROVE Handed'
  OBVIOUS
<1>1. CASE ParseArgs
  <2>1. outcome = "parsing" /\ UNCHANGED hexInputVars
    BY <1>1 DEF ParseArgs, C!Step, C!ParseMark, C!ParseLeftover, C!ParseFlag, C!ParseValue,
                C!Process, C!Parsing
  <2>2. state = "idle"
    BY <2>1 DEF Handed
  <2> QED  BY <2>1, <2>2 DEF Handed, hexInputVars
<1>2. CASE ReadHex
  BY <1>2 DEF ReadHex, H!Call, Handed, commandLineVars, cmdline_hex, source_file_name, ValueOf
<1>3. CASE Convert
  <2>1. state # "idle" /\ hex_str' = hex_str /\ UNCHANGED commandLineVars
    BY <1>3 DEF Convert, H!Step, H!CheckLength, H!PushByte, H!InvalidArgument, H!Return
  <2> QED  BY <2>1 DEF Handed, commandLineVars, cmdline_hex, source_file_name, ValueOf
<1>4. CASE UNCHANGED vars
  BY <1>4 DEF vars, commandLineVars, hexInputVars, Handed, cmdline_hex, source_file_name, ValueOf
<1> QED  BY <1>1, <1>2, <1>3, <1>4 DEF Next, Stay

LEMMA SpecHanded == Spec => []Handed
BY InitHanded, NextHanded, PTL DEF Spec

(***************************************************************************)
(* Doubled brackets never stand for an empty text.                         *)
(***************************************************************************)
LEMMA UnescapeKeepsEmpty ==
  ASSUME NEW v \in Text, C!Unescape(v) = <<>>
  PROVE  v = <<>>
<1>1. CASE C!Doubled(v)
  <2> DEFINE middle == [k \in 1..((Len(v) - 3) \div 2) |-> v[2 * k + 1]]
             u == <<"[">> \o middle \o <<"]">>
  <2>1. u = <<>>
    BY <1>1 DEF C!Unescape
  <2> QED
    <3>1. PICK S : v \in Seq(S) /\ "[" \in S /\ "]" \in S
      <4>1. v \in Seq(Symbol \cup {"[", "]"})
        BY SeqMonotonic DEF Text
      <4> QED  BY <4>1
    <3>2. Len(v) \in Nat /\ Len(v) >= 4
      BY <1>1, TextShape DEF C!Doubled
    <3> DEFINE n == (Len(v) - 3) \div 2
    <3>3. n \in Nat /\ \A k \in 1..n : 2 * k + 1 \in 1..Len(v)
      BY <3>2
    <3> HIDE DEF n
    <3>4. [k \in 1..n |-> v[2 * k + 1]] \in Seq(S)
      BY <3>1, <3>3, ElementOfSeq
    <3>5. middle \in Seq(S)
      BY <3>4 DEF n
    <3> HIDE DEF middle
    <3>6. /\ <<"[">> \in Seq(S) /\ <<"]">> \in Seq(S)
          /\ Len(<<"[">>) = 1 /\ Len(middle) \in Nat
      BY <3>1, <3>5, LenProperties
    <3>7. <<"[">> \o middle \in Seq(S) /\ Len(<<"[">> \o middle) = 1 + Len(middle)
      BY <3>5, <3>6, ConcatProperties
    <3>8. <<"[">> \o middle # <<>>
      BY <3>6, <3>7
    <3>9. u # <<>>
      BY <3>6, <3>7, <3>8, Leading
    <3> QED  BY <2>1, <3>9
<1>2. CASE ~C!Doubled(v)
  BY <1>2 DEF C!Unescape
<1> QED  BY <1>1, <1>2

(***************************************************************************)
(* Digits are not brackets.                                                *)
(***************************************************************************)
LEMMA DigitsUnescaped ==
  ASSUME NEW v \in Text, \A k \in DOMAIN v : v[k] \in Hex
  PROVE  C!Unescape(v) = v
<1>1. ASSUME C!Doubled(v) PROVE FALSE
  <2>1. Len(v) \in Nat /\ Len(v) >= 4 /\ 1 \in DOMAIN v
    BY <1>1, TextShape DEF C!Doubled, Text
  <2>2. v[1] = "["
    BY <1>1, <2>1 DEF C!Doubled, C!IsPrefix
  <2> QED  BY <2>1, <2>2, ArgumentsAssumption
<1> QED  BY <1>1 DEF C!Unescape

(***************************************************************************)
(* Once a command line has been accepted, the options have the values that *)
(* any reading of it says: there is only one.                              *)
(***************************************************************************)
LEMMA ReadingGiven ==
  ASSUME OnTrack, CommandLineType, outcome = "accepted", NEW g \in C!Readings(argv)
  PROVE  /\ g \in Gives
         /\ \A o \in DOMAIN g : g[o] \in Text /\ ValueOf(o) = C!Unescape(g[o])
<1>1. g \in Gives
  BY ReadingIs, ArgumentsAssumption DEF CommandLineType
<1>2. PICK f \in Gives : results = ResultsOf(f) /\ Completes(f, g, <<>>)
  BY DEF OnTrack, Ahead
<1>3. f = g
  <2>1. <<>> \in Seq(Text)
    OBVIOUS
  <2>2. CASE \E o \in C!ValueOptions \ DOMAIN f, t \in Text, s \in Seq(Text), r \in Seq(Text) :
               <<>> = s \o r /\ Spelt(o, t, s) /\ Completes(Adding(f, o, t), g, r)
    <3>1. PICK o \in C!ValueOptions, t \in Text, s \in Seq(Text), r \in Seq(Text) :
            <<>> = s \o r /\ Spelt(o, t, s)
      BY <2>2
    <3>2. s # <<>>
      BY <3>1, LenProperties DEF Spelt
    <3> QED  BY <3>1, <3>2, Leading
  <2> QED  BY <1>2, <2>1, <2>2, CompletesStep
<1>4. ASSUME NEW o \in DOMAIN g
      PROVE  g[o] \in Text /\ ValueOf(o) = C!Unescape(g[o])
  <2>1. o \in C!Options /\ g[o] \in Text
    BY <1>1, ValueOptionTypes DEF Gives
  <2> DEFINE u == C!Unescape(g[o])
  <2>2. results[o] = <<u>>
    BY <1>2, <1>3, <2>1 DEF ResultsOf
  <2> HIDE DEF u
  <2>3. <<u>> # <<>> /\ Last(<<u>>) = u
    BY OneElement DEF Last
  <2>4. ValueOf(o) = u
    BY <2>2, <2>3 DEF ValueOf
  <2> QED  BY <2>1, <2>4 DEF u
<1> QED  BY <1>1, <1>4

-----------------------------------------------------------------------------
(***************************************************************************)
(* At the end of the loop the bytes are all of those that the string       *)
(* spells.                                                                 *)
(***************************************************************************)
LEMMA DigitsRead == IInv => HexIsRead
<1> SUFFICES ASSUME IInv PROVE HexIsRead
  OBVIOUS
<1> USE DEF Hex, H!Hex, Text, H!Text
<1>1. hex_str \in Text /\ Len(hex_str) \in Nat /\ result \in Seq(0..255)
  BY TextShape DEF IInv, HexLoop, H!TypeOK
<1>2. ASSUME H!OnlyHex, state = "returned"
      PROVE  result = H!Spelled(hex_str)
  <2> DEFINE n == Len(hex_str) \div 2
             spelled == [k \in 1..n |-> 16 * HexValue[hex_str[2 * k - 1]]
                                           + HexValue[hex_str[2 * k]]]
  <2>1. Len(result) = n /\ n \in Nat /\ 2 * n = Len(hex_str)
    BY <1>1, <1>2, LenProperties DEF IInv, HexLoop
  <2>2. \A k \in 1..n : result[k] = 16 * HexValue[hex_str[2 * k - 1]]
                                       + HexValue[hex_str[2 * k]]
    BY <1>2, <2>1 DEF IInv, HexLoop, Spells
  <2> HIDE DEF n
  <2>3. result = [k \in 1..n |-> result[k]]
    BY <1>1, <2>1, LenProperties
  <2>4. result = spelled
    BY <2>2, <2>3
  <2> QED  BY <2>4 DEF H!Spelled, n
<1> QED  BY <1>1, <1>2 DEF IInv, HexLoop, HexIsRead, H!HexIsRead

-----------------------------------------------------------------------------
(***************************************************************************)
(* The state of both parsers stays well formed, for command lines of any   *)
(* length: what is put back and handed on is made of the arguments given,  *)
(* and the bytes are bytes.                                                *)
(***************************************************************************)
THEOREM TypeCorrect == Spec => []TypeOK
<1>1. IInv => TypeOK
  BY CommandLineTypeOK DEF IInv, TypeOK, HexLoop
<1> QED  BY SpecIInv, <1>1, PTL

(***************************************************************************)
(* A string of hexadecimal digits is read if its length is even, as the    *)
(* bytes it spells, and refused otherwise.                                 *)
(***************************************************************************)
THEOREM DigitsAreRead == Spec => []HexIsRead
BY SpecIInv, DigitsRead, PTL

(***************************************************************************)
(* Whatever the string, each byte rests on two characters of its own, one  *)
(* of which at least is a digit.                                           *)
(***************************************************************************)
THEOREM BytesRestOnDigits == Spec => []EveryByteHasDigit
<1>1. ASSUME IInv PROVE EveryByteHasDigit
  BY <1>1 DEF IInv, HexLoop, EveryByteHasDigit, H!EveryByteHasDigit, PairAt, Hex, H!Hex
<1> QED  BY SpecIInv, <1>1, PTL

(***************************************************************************)
(* Whether a command line is accepted, and what main then gets to see,     *)
(* depends on nothing but how its options are spelled: it is accepted only *)
(* if it can be read as a documented command line with just these texts,   *)
(* and refused only if there is no way to read it, for command lines of    *)
(* any length over any symbols.                                            *)
(***************************************************************************)
THEOREM SpellingDecides == Spec => []ReadAsSpelled
<1>1. ASSUME CmdInv PROVE ReadAsSpelled
  <2>1. ASSUME outcome = "accepted"
        PROVE  \E g \in C!Readings(argv) : \A o \in C!ValueOptions :
                 results[o] = IF o \in DOMAIN g THEN <<C!Unescape(g[o])>> ELSE <<>>
    <3>1. PICK g \in C!Readings(argv) : results = ResultsOf(g)
      BY <1>1, <2>1, AcceptedIsRead DEF CmdInv
    <3>2. \A o \in C!ValueOptions :
            results[o] = IF o \in DOMAIN g THEN <<C!Unescape(g[o])>> ELSE <<>>
      BY <3>1, ValueOptionTypes DEF ResultsOf
    <3> QED  BY <3>2
  <2>2. ASSUME outcome \in C!Errors
        PROVE  C!Readings(argv) = {}
    <3>1. outcome # "parsing" /\ outcome # "accepted"
      BY <2>2 DEF C!Errors
    <3> QED  BY <1>1, <3>1 DEF CmdInv, OnTrack
  <2> QED  BY <2>1, <2>2 DEF ReadAsSpelled, C!ReadAsSpelled
<1> QED  BY SpecCmdInv, <1>1, PTL

(***************************************************************************)
(* From the command line to the bytes: bytes come from a string only where *)
(* no reading of the command line names a source file, and a command line  *)
(* that spells an even number of digits behind -c, in any of the ways that *)
(* it can, is neither refused nor read as other bytes.                     *)
(***************************************************************************)
THEOREM StringsArrive == Spec => []StringsArriveWhole
<1>1. ASSUME IInv, CmdInv, Handed PROVE StringsArriveWhole
  <2> USE DEF Hex, H!Hex
  <2>1. ASSUME state = "returned", NEW g \in C!Readings(argv), "i" \in DOMAIN g
        PROVE  g["i"] = <<>>
    <3>1. outcome = "accepted" /\ ValueOf("i") = <<>>
      BY <1>1, <2>1 DEF Handed, source_file_name
    <3>2. g["i"] \in Text /\ C!Unescape(g["i"]) = <<>>
      BY <1>1, <2>1, <3>1, ReadingGiven DEF CmdInv
    <3> QED  BY <3>2, UnescapeKeepsEmpty
  <2>2. ASSUME NEW g \in C!Readings(argv), "c" \in DOMAIN g, DigitPairs(g["c"]),
               state \in {"returned", "thrown"}
        PROVE  hex_str = g["c"] /\ H!OnlyHex /\ Len(hex_str) % 2 = 0
    <3>1. outcome = "accepted" /\ hex_str = ValueOf("c")
      BY <1>1, <2>2 DEF Handed, cmdline_hex
    <3>2. g["c"] \in Text /\ hex_str = C!Unescape(g["c"])
      BY <1>1, <2>2, <3>1, ReadingGiven DEF CmdInv
    <3>3. hex_str = g["c"]
      BY <2>2, <3>2, DigitsUnescaped DEF DigitPairs
    <3>4. \A k \in 1..Len(hex_str) : hex_str[k] \in Hex
      BY <2>2, <3>2, <3>3, LenProperties DEF DigitPairs, Text
    <3> QED  BY <2>2, <3>3, <3>4 DEF DigitPairs, H!OnlyHex
  <2>3. ASSUME NEW g \in C!Readings(argv), "c" \in DOMAIN g, DigitPairs(g["c"])
        PROVE  /\ outcome \in {"parsing", "accepted"} /\ state # "thrown"
               /\ state = "returned" => result = H!Spelled(g["c"])
    <3>1. outcome \in {"parsing", "accepted"}
      BY <1>1 DEF CmdInv, OnTrack
    <3>2. state # "thrown"
      BY <1>1, <2>2, <2>3 DEF IInv, HexLoop
    <3>3. state = "returned" => result = H!Spelled(g["c"])
      BY <1>1, <2>2, <2>3, DigitsRead DEF HexIsRead, H!HexIsRead
    <3> QED  BY <3>1, <3>2, <3>3
  <2> QED  BY <2>1, <2>3 DEF StringsArriveWhole
<1> QED  BY SpecIInv, SpecCmdInv, SpecHanded, <1>1, PTL
=============================================================================
