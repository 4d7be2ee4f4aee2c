---------------------------- MODULE StackIRProofs ---------------------------
(***************************************************************************)
(* What the reference height of StackIR does when an operation is appended *)
(* to the module: the only way in which the parser grows it.               *)
(***************************************************************************)
EXTENDS StackIR, FiniteSetTheorems, SequenceTheorems, TLAPS

(***************************************************************************)
(* Passing one more operation counts it, if it is of the kind counted.     *)
(***************************************************************************)
LEMMA CountStep ==
  ASSUME NEW S, NEW ops \in Seq(S), NEW k \in 1..Len(ops), NEW names
  PROVE  /\ Count(ops, k, names) \in Nat
         /\ Count(ops, k + 1, names)
              = Count(ops, k, names) + (IF ops[k].name \in names THEN 1 ELSE 0)
<1> DEFINE Counted(n) == {j \in 1..(n - 1) : ops[j].name \in names}
<1>1. IsFiniteSet(Counted(k))
  <2>1. IsFiniteSet(1..(k - 1))
    BY FS_Interval
  <2> QED  BY <2>1, FS_Subset
<1>2. Cardinality(Counted(k)) \in Nat
  BY <1>1, FS_CardinalityType
<1>3. /\ Count(ops, k, names) = Cardinality(Counted(k))
      /\ Count(ops, k + 1, names) = Cardinality(Counted(k + 1))
  BY DEF Count
<1>4. CASE ops[k].name \in names
  <2>1. Counted(k + 1) = Counted(k) \cup {k}
    BY <1>4
  <2>2. k \notin Counted(k)
    OBVIOUS
  <2>3. Cardinality(Counted(k + 1)) = Cardinality(Counted(k)) + 1
    <3> HIDE DEF Counted
    <3> QED  BY <1>1, <2>1, <2>2, FS_AddElement
  <2> HIDE DEF Counted
  <2> QED  BY <1>3, <1>2, <1>4, <2>3
<1>5. CASE ops[k].name \notin names
  <2>1. Counted(k + 1) = Counted(k)
    BY <1>5
  <2> HIDE DEF Counted
  <2> QED  BY <1>3, <1>2, <1>5, <2>1
<1> QED  BY <1>4, <1>5

(***************************************************************************)
(* An operation appended to the module does not change what is counted     *)
(* before it.                                                              *)
(***************************************************************************)
LEMMA CountAppend ==
  ASSUME NEW S, NEW ops \in Seq(S), NEW op \in S,
         NEW k \in 1..(Len(ops) + 1), NEW names
  PROVE  Count(Append(ops, op), k, names) = Count(ops, k, names)
<1>1. \A j \in 1..(k - 1) : Append(ops, op)[j] = ops[j]
  BY AppendProperties
<1> QED  BY <1>1 DEF Count

(***************************************************************************)
(* The stack is empty where the module begins.                             *)
(***************************************************************************)
LEMMA CountAtStart ==
  ASSUME NEW ops, NEW names
  PROVE  Count(ops, 1, names) = 0
<1>1. {j \in 1..(1 - 1) : ops[j].name \in names} = {}
  OBVIOUS
<1> QED  BY <1>1, FS_EmptySet DEF Count

LEMMA HeightAtStart ==
  ASSUME NEW ops
  PROVE  Height(ops, 1) = 0
BY CountAtStart DEF Height

(***************************************************************************)
(* The heights are integers.                                               *)
(***************************************************************************)
LEMMA CountType ==
  ASSUME NEW S, NEW ops \in Seq(S), NEW k \in 1..(Len(ops) + 1), NEW names
  PROVE  Count(ops, k, names) \in Nat
<1>1. IsFiniteSet(1..(k - 1))
  BY FS_Interval
<1>2. IsFiniteSet({j \in 1..(k - 1) : ops[j].name \in names})
  BY <1>1, FS_Subset
<1> QED  BY <1>2, FS_CardinalityType DEF Count

LEMMA HeightType ==
  ASSUME NEW S, NEW ops \in Seq(S), NEW k \in 1..(Len(ops) + 1)
  PROVE  Height(ops, k) \in Int
BY CountType DEF Height

(***************************************************************************)
(* By how much an operation changes the height.                            *)
(***************************************************************************)
Delta(name) ==
  IF name \in Growing THEN 1 ELSE IF name \in Shrinking THEN -1 ELSE 0

LEMMA HeightStep ==
  ASSUME NEW S, NEW ops \in Seq(S), NEW k \in 1..Len(ops)
  PROVE  Height(ops, k + 1) = Height(ops, k) + Delta(ops[k].name)
<1>1. Growing \cap Shrinking = {}
  BY DEF Growing, Shrinking
<1>2. /\ Count(ops, k, Growing) \in Nat
      /\ Count(ops, k + 1, Growing)
           = Count(ops, k, Growing) + (IF ops[k].name \in Growing THEN 1 ELSE 0)
  BY CountStep
<1>4. /\ Count(ops, k, Shrinking) \in Nat
      /\ Count(ops, k + 1, Shrinking)
           = Count(ops, k, Shrinking) + (IF ops[k].name \in Shrinking THEN 1 ELSE 0)
  BY CountStep
<1> QED  BY <1>1, <1>2, <1>4 DEF Height, Delta

(***************************************************************************)
(* Appending an operation leaves every height before it as it was, and     *)
(* adds the height after it.                                               *)
(***************************************************************************)
LEMMA HeightAppend ==
  ASSUME NEW S, NEW ops \in Seq(S), NEW op \in S
  PROVE  /\ \A k \in 1..(Len(ops) + 1) : Height(Append(ops, op), k) = Height(ops, k)
         /\ Height(Append(ops, op), Len(ops) + 2)
              = Height(ops, Len(ops) + 1) + Delta(op.name)
<1>1. ASSUME NEW k \in 1..(Len(ops) + 1)
      PROVE  Height(Append(ops, op), k) = Height(ops, k)
  BY CountAppend DEF Height
<1>2. Height(Append(ops, op), Len(ops) + 2)
        = Height(ops, Len(ops) + 1) + Delta(op.name)
  <2>1. /\ Append(ops, op) \in Seq(S)
        /\ Len(Append(ops, op)) = Len(ops) + 1
        /\ Append(ops, op)[Len(ops) + 1] = op
        /\ Len(ops) \in Nat
    BY AppendProperties
  <2>2. Height(Append(ops, op), (Len(ops) + 1) + 1)
          = Height(Append(ops, op), Len(ops) + 1)
              + Delta(Append(ops, op)[Len(ops) + 1].name)
    <3> DEFINE longer == Append(ops, op)
               last == Len(ops) + 1
    <3>1. longer \in Seq(S) /\ last \in 1..Len(longer)
      BY <2>1
    <3> HIDE DEF longer, last
    <3>2. Height(longer, last + 1) = Height(longer, last) + Delta(longer[last].name)
      BY <3>1, HeightStep
    <3> QED  BY <3>2 DEF longer, last
  <2>3. (Len(ops) + 1) + 1 = Len(ops) + 2
    BY <2>1
  <2>4. Height(Append(ops, op), Len(ops) + 1) = Height(ops, Len(ops) + 1)
    BY <1>1, <2>1
  <2> QED  BY <2>1, <2>2, <2>3, <2>4
<1> QED  BY <1>1, <1>2
=============================================================================
