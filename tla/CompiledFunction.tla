-------------------------- MODULE CompiledFunction --------------------------
(***************************************************************************)
(* A call of the function f that the lowering produced, under the          *)
(* semantics that LLVM gives to the instructions it uses.  One action      *)
(* executes one group of the body.                                         *)
(*                                                                         *)
(* A load or store outside the object its pointer is based on, and the use *)
(* of a stack slot that was never written, have no defined result: LLVM    *)
(* may make anything of them at -O2.  The outcome is then "undefined", and *)
(* the output any contents at all; nothing is said of such a run after.    *)
(***************************************************************************)
EXTENDS Lowerer

VARIABLES
  fn,         \* the function: slots and body
  words,      \* the words of the input buffer, by index
  mem,        \* the stack slots written so far, by index
  out_words,  \* the words of the output buffer, by index
  ip,         \* index in the body of the next group
  run         \* "idle", "running", "returned" or "undefined"

vars == <<fn, words, mem, out_words, ip, run>>

NoFunction == [slots |-> 0, body |-> <<>>]

(***************************************************************************)
(* The call: alloca reserves the slots and initialises none of them.       *)
(***************************************************************************)
Call(f) ==
  /\ run = "idle"
  /\ fn' = f
  /\ mem' = [s \in {} |-> 0]
  /\ ip' = 1
  /\ run' = "running"
  /\ UNCHANGED <<words, out_words>>

Current == fn.body[ip]
Executing(kinds) == run = "running" /\ ip <= Len(fn.body) /\ Current.kind \in kinds

Readable(a) ==
  \/ a.base = "in"    /\ a.index \in DOMAIN words
  \/ a.base = "stack" /\ a.index \in DOMAIN mem

Writable(a) ==
  \/ a.base = "out"   /\ a.index \in DOMAIN out_words
  \/ a.base = "stack" /\ a.index \in 0..(fn.slots - 1)

Accessible(group) ==
  /\ \A n \in DOMAIN group.loads : Readable(group.loads[n])
  /\ Writable(group.target)

Value(a) == IF a.base = "in" THEN words[a.index] ELSE mem[a.index]

Result(group) ==
  CASE group.kind = "move" -> Value(group.loads[1])
    [] group.kind = "add"  -> AddWords(Value(group.loads[1]), Value(group.loads[2]))
    [] group.kind = "sub"  -> SubWords(Value(group.loads[1]), Value(group.loads[2]))

Stored(store, n, v) ==
  [x \in DOMAIN store \cup {n} |-> IF x = n THEN v ELSE store[x]]

Computing == {"move", "add", "sub"}

Compute ==
  /\ Executing(Computing)
  /\ Accessible(Current)
  /\ LET a == Current.target
         v == Result(Current)
     IN  /\ mem' = IF a.base = "stack" THEN Stored(mem, a.index, v) ELSE mem
         /\ out_words' = IF a.base = "out" THEN Stored(out_words, a.index, v)
                         ELSE out_words
  /\ ip' = ip + 1
  /\ UNCHANGED <<fn, words, run>>

Misbehave ==
  /\ Executing(Computing)
  /\ ~Accessible(Current)
  /\ run' = "undefined"
  /\ out_words' \in [OutputIndex -> Word]
  /\ UNCHANGED <<fn, words, mem, ip>>

(***************************************************************************)
(* pop: control passes from the group before to the group after.           *)
(***************************************************************************)
Pass ==
  /\ Executing({"nothing"})
  /\ ip' = ip + 1
  /\ UNCHANGED <<fn, words, mem, out_words, run>>

Return ==
  /\ Executing({"ret"})
  /\ run' = "returned"
  /\ UNCHANGED <<fn, words, mem, out_words, ip>>

Next == Compute \/ Misbehave \/ Pass \/ Return
=============================================================================
