------------------------------ MODULE MCWrapper -----------------------------
(***************************************************************************)
(* Small instance of Wrapper: words of two bytes with two values each,     *)
(* input files of up to four bytes, and a function that adds the words,    *)
(* hands one on, and leaves a word between unstored.                       *)
(***************************************************************************)
EXTENDS Wrapper

CONSTANT MaxSize

SmallFiles == {NoFile} \cup SeqOf(Byte, MaxSize)

Old == <<0>>

WordMod == ByteMod^WordBytes

AddThem(words) ==
  (1 :> FoldLeft(LAMBDA n, w : (n + w) % WordMod, 0, words)) @@ (3 :> words[1])
=============================================================================
