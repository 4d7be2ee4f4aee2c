# Verification of stackMachine

`stackc` compiles the byte code of a small stack machine to native code: a
parser checks it statically and builds a module of the MLIR dialect StackIR, a
pass lowers that to the LLVM dialect, LLVM makes an object file of it, and a C++
wrapper with `main` is linked to it. A fuzzing script holds a reference
interpreter against the compiled program. This directory specifies those parts
in TLA+, from the command line to the output file, checks them on small
instances with TLC, and proves with TLAPS, for instances of any size, what
matters most: that the parser's analysis is exact, that the compiled code does
what the interpreter does, and the safety of the programs around them.

Paths below are relative to the repository; in `PROJECT.json` they have the
prefix `src/`.

## 1. The system

| part | where | state it keeps | operations |
|---|---|---|---|
| byte code | `src/parser/parser.cpp`, `test/fuzz/fuzzer.py` | none | STOP, LOAD i, STORE i, POP, ADD, SUB, DUP |
| reference interpreter | `test/fuzz/fuzzer.py`, `interpret_bytecode` | pc, stack, output words | one turn of the loop per instruction, `RuntimeError` |
| StackIR dialect | `src/ir/StackIR.td`, `StackIRDialect.cpp` | none: operations with attributes `index`, `stack_ptr` (8 bits) and a location | created by the parser, read by the lowering |
| parser | `src/parser/parser.cpp` | `i`, `stack_ptr`, `stack_size`, the module | one case per opcode, `throw` |
| lowering | `src/passes/lower.cpp` | none beyond the loop | one group of LLVM instructions per operation |
| compiled function `f(in, out)` | what the lowering emits | stack array, output buffer | load, store, add, sub, ret |
| command line | `src/include/CLI11.hpp`, `App::parse`; set up in `src/main.cpp` | arguments left, results of each option, what nothing took | recognise, attach values, require and exclude, reject |
| `stackc` | `src/main.cpp` | the input bytes, the object file, the executable | reading, compiling, writing, linking, errors |
| hexadecimal input | `src/main.cpp`, `parse_cmdline` | position, bytes so far | two characters a byte |
| wrapper | `wrapper/wrapper.cpp` | input and output buffer, output file | open, read, reverse, call `f`, reverse, write |
| fuzzing script | `test/fuzz/fuzzer.py`, the rest | case directories, failed cases, summary, exit code | interpret, compile, execute, compare, summarise |
| parser tests | `test/parser/driver.cpp`, `run_cases.py` | none | print the module, compare texts |

**How they interact.** Everything is a chain of calls in one process, with two
exceptions. The parser hands a module to the lowering; the only things that
cross are the order of the operations, their `index` and `stack_ptr` attributes,
and `stack_size`. The lowering trusts these: it computes addresses from them and
checks nothing. `stackc` and the linker communicate through the object file;
`stackc` and another `stackc` through whatever files they share. The compiled
function and the wrapper share two buffers, whose sizes neither tells the other.
The fuzzing script sees of `stackc` and of the executable only exit codes and
files, and its directories outlive it: a run may find those of an earlier one.

**What is hard here.** There are no threads. What unit tests hardly reach is:
a static analysis that must be exact at every instruction of every program;
three separate copies of the same limits; attributes and indices at the edge of
their width; a stack array that is reused slot by slot and never cleared, so
that an error in one height is hidden until the slot is read; and, in the
driver, invocations that fail, are killed or overlap between two writes.
`PROJECT.json` lists these hazards with their lines, those too that no property
forbids because nothing in the repository does.

**What makes each part correct.**

- Interpreter: it is the definition; it must keep words in range and end.
- Parser: it rejects exactly what the interpreter would fail on, at the same
  instruction; every `stack_ptr` is the height of the stack there; `stack_size`
  is the peak; the module stands for the code one to one.
- Lowering and compiled function: running `f` has the effect of running the
  interpreter; no access is outside its object.
- Command line: what is accepted is what the options document; a value arrives
  unchanged, whatever it looks like; parsing ends although arguments are put back.
- `stackc`: exit code 0 means that both files are there and belong to the input.
- Hexadecimal input: a string is read as the bytes that it spells.
- Wrapper: words are big-endian on every machine; `f` is called with whole,
  complete input; a failed run does not damage an earlier output.
- Fuzzing script: exit code 0 means that both sides agreed in every case of this
  run, not in a leftover of another; a summary lists every disagreement or is
  not written.

## 2. Modules

```
Bytecode ──── Interpreter ──────────┐
   │                                ├── Lockstep ─── LockstepProofs
StackIR ───── Parser ───────────────┤                   │
   │             └── ParserProofs ──│───────────────────┤
   └── StackIRProofs ────┘          │                   │
Lowerer ───── CompiledFunction ─────┴── Pipeline ─── PipelineProofs

Arguments ─── CommandLine ──┐
   │                        ├── Invocation ···· Driver ···· Wrapper
   └───────── HexInput ─────┘       │              │           │
                            InvocationProofs  DriverProofs  WrapperProofs

                                FuzzHarness ─── FuzzHarnessProofs
```

Solid lines are EXTENDS and INSTANCE. The dotted ones say where one
specification starts from what the other ends with: `Driver` from a command line
that `Invocation` accepts, `Wrapper` with the executable that `Driver` links.

| module | models | actions and state |
|---|---|---|
| `Bytecode` | opcodes, operand bytes, arithmetic of words, limits | operators only; the widths are constants |
| `Interpreter` | `interpret_bytecode` | one action per branch of the loop; `verdict` is the exception raised, if any |
| `StackIR` | operations of the dialect; `Height`, the reference for the analysis | operators only |
| `Parser` | `parse` | one action per case of the switch, with the update of `stack_size` and the break after STOP that follow the switch; `status` and `error_at` are the exception |
| `Lockstep` | parser and interpreter on the same byte code | instances of both; a step is a step of each |
| `Lowerer` | `Lowerer::lower` | a function from a module to the slots and instruction groups of `f` |
| `CompiledFunction` | a call of `f` | one action per group; an access outside an object, or of a slot never written, leads to `run = "undefined"` and any output at all |
| `Pipeline` | `parse`, `lower` and the call of `f` in sequence | instances of `Parser` and `CompiledFunction`; `Interpreter` is the abstract specification |
| `Arguments` | arguments as sequences of symbols | constants only |
| `CommandLine` | `App::parse` for the app of `stackc`: `_parse_single`, `_parse_arg`, `_process`, `_process_extras` | one action per kind of argument and one for what follows the last; `results`, `missing` and the list of arguments are CLI11's |
| `HexInput` | `parse_cmdline` | the loop, with what `std::stoul` makes of two characters |
| `Invocation` | `main` up to the byte code | instances of `CommandLine` and `HexInput`; `ReadHex` is the call between them, made only without a source file |
| `Driver` | `main` from an accepted command line on, as the file system sees it | several invocations; one action per stage, each with its failures; `Kill`; an object file may end up mixed only if two had it open together (`shared`) |
| `Wrapper` | `main` of the wrapper | one action per step, on a machine of either byte order; `f` stores some words and leaves the others as `memset` made them; `Rewrite` is another process that writes the input file |
| `FuzzHarness` | `main` and `evaluate_case` of the script | one action per step of a case; `stackc` and the executable may do anything; `Interrupted` is an exception or a signal |

The `*Proofs` modules hold theorems, the `MC*` modules the small instances.
An operator or action marked `mutant` is a deliberately broken form of the one
beside it. No specification uses it; `PROJECT.json` names the property that
tells it from the right one.

**Abstractions.** Words are integers modulo `WordMod`, which is 2^256 in the
code. Nothing depends on the value except that arithmetic wraps. Messages are
reduced to the kind of error and the offset they report; SSA values to the
addresses loaded, the operation and the address stored. `pop` emits no code but
remains an empty group, so that operations and groups have the same numbers. In
`Lockstep` the interpreter and the parser move together although the script
runs them one after the other: they are deterministic and share only the code,
so each goes through the same states either way. A path is the sequence of its
name and extensions. Killing an invocation kills its linker too, as a signal to
the process group does. An argument is a sequence of symbols; the name of a long
option is one symbol, which the command lines checked have behind two dashes
only, so that nothing depends on where in a name a character stands. Of a flag's
value only that it is there is kept. `FuzzHarness` keeps of the interpreter
whether it raised, and of an output whether it is the expected one.

**External, by how the code uses it.** LLVM's loads, stores, arithmetic and
undefined behaviour; `std::stoul`; signals; the byte order in which an `i256` is
stored.

**CLI11** is vendored, so its parser is modelled from its source, as the app of
`stackc` is configured: `-i/--input`, `-c/--cmdline` and `-o/--output` with one
string each, `-i` and `-c` excluding each other, `require_option(1, 2)`, and the
`-h/--help` that every app has. The branches that this app cannot enter are left
out: subcommands, positionals, validators, delimiters, defaults, configuration
files, environment variables. So are the values `{}` and `%%`, by which CLI11
marks empty containers, and control characters other than white space, which cannot begin
the name of an option either.

## 3. Runs

| run | question | instance | distinct states |
|---|---|---|---|
| `parser` | Is the static analysis exact? `DecorationIsHeight`, `NeverUnderflows`, `StackSizeIsPeak`, `EndsWithOnlyStop`, `MirrorsCode` | every byte string of up to five bytes over eight values: the opcodes and one unknown | 82,266 |
| `lockstep` | Do parser and interpreter agree? `HeightIsStatic`, `SameVerdict`, `SameOffset`, and both end: `BothEnd` | every byte string of up to four bytes, alone and behind a LOAD | 27,074 |
| `pipeline` | Does the compiled code do what the interpreter does? `ImplementsInterpreter`, `SlotsFollowHeight` | programs of up to four whole instructions and STOP, one of them a STORE past the output, input complete | 22,358 |
| `pipeline_edges` | Is every undefined run one of a program that is too deep or of an input too short? `DefinedWhenShallow` | a `stack_ptr` attribute of two values, complete and short inputs | 15,650 |
| `deep_stack` | README, "does not exhibit undefined behavior" | the real widths, 256 LOADs and one instruction more | violated |
| `short_input` | the same | LOAD of a word that the input lacks | violated |
| `invocation` | Is the command line read as it is spelled, and the string as its digits say? `ReadAsSpelled`, `StringsArriveWhole`, `HexIsRead`, `EveryByteHasDigit`, and does it end? `InvocationEnds` | up to three arguments of 24 kinds, four of seven kinds, and `-c` with every string of up to five of two digits, `x`, `-`, blank | 111,739 |
| `invocation_options` | "at least one of -i/-c must be given" | the same | violated |
| `hex_input_commented` | the form that the comment gives | the same | violated |
| `driver` | Whose files are these? `SuccessOwnsFiles`, `MadeByOneAsked` | two invocations, every pair of `p`, `p.o`, `p.out`, `p.o.out` and no output, with programs that compile, one that does not, the empty and an unreadable one | 22,619 |
| `wrapper` | Is the output big-endian, and `f` called with whole input? `OutputIsBigEndian`, `CalledWithWholeInput`, `AbortKeepsOutput` | words of two bytes of two values, every file of up to four bytes, both byte orders, and an `f` that leaves the second of three words unstored | 1,348 |
| `fuzz` | What does the script's verdict mean? `ZeroMeansAgreement`, `SummaryIsWhole` | three cases, files of an earlier run, every outcome of every step | 11,241 |

Each module's `TypeOK` is an invariant of one of the passing runs. Deadlock is
checked in all of them: each specification has an action for the states where the
program really is over: `Ended`, or `AllEnded` in `Driver`, `Stay` in `Invocation`.

**Why the bounds are enough.** The parser and the interpreter look at one
instruction, its operand and a comparison of the height with 0 or 1. Five bytes
contain every opcode at every height up to two, with the operand present, cut
off, in range and out of range, in the middle of the code and at its end, and
code after STOP. `OutputWords = 2` makes both sides of the limit of STORE
reachable. `PtrMod = 2` makes the attribute wrap at a height that four
instructions reach; the real width is in `deep_stack`. In `pipeline`
`PtrMod = 8` exceeds every height, so that the refinement is of programs whose
decorations are exact. `WordMod = 5` and input words that all differ make
swapped operands of SUB visible. Two invocations suffice in `Driver` because a
path has at most two writers between which something can go wrong; the four
targets include three spellings of one base and one that nests. Two words of
two bytes are the fewest on which reversing words and reversing the buffer
differ; the third word of the output makes room for one that `f` does not store,
between two that it does. For the command line, what happens to an argument depends on itself, on the
one before it (a value may be taken from it) and on `--` anywhere earlier, and the
verdict on which options were seen and on how many times: three arguments of every
kind, and four of the kinds that interact, are two options with their values in either
order, the same option twice, and both with `--` before, between or behind. The
kinds include each way of spelling an option, values that look like options,
empty values, doubled brackets and clusters of flags. Three cases are a first,
a middle and a last one of the script's loop.

What the small instances leave open is closed by the proofs, which hold for all
constants, except for the properties listed at the end of section 4.

**Fairness.** `Lockstep` and `Invocation` have weak fairness of their next-state
relations, for the liveness properties `BothEnd` and `InvocationEnds`. The code
justifies it: these are loops of single-threaded programs which nothing makes
wait, and which their callers call to the end. `InvocationEnds` is not obvious,
since the rest of a cluster of flags is put back in front of the arguments: it is
the letter removed each time that makes it end. No other specification states
fairness, because nothing else promises that something happens: a stage of
`stackc` may fail, the linker or the script may be killed.

## 4. Proofs

TLAPS checks every theorem, for all values of the constants that satisfy these
assumptions, which TLC evaluates in the runs.

| assumption | what it says | why the code justifies it |
|---|---|---|
| `BytecodeAssumption` | byte values include the opcodes; there is a word value and an output word; programs are sequences of bytes | bytes have 8 bits, words 256; the output has 64 words |
| `StackIRAssumption` | the attribute has at least one value | it has 8 bits |
| `LockstepAssumption` | the input has a word for every operand byte | the script generates 256 words |
| `PipelineAssumption` | an input consists of words | `f` reads it as `i256` |
| `ArgumentsAssumption` | command lines are sequences of arguments; a digit has a value below 16; blanks and digits are different from each other, from the signs, from `x` and from `[`; the letters and names of the options are not blanks | ASCII; `src/main.cpp:193-198` |
| `DriverAssumption` | a path is a sequence of strings; neither the empty byte string nor what cannot be read compiles | how paths are modelled; `parse` throws for want of a STOP, `main` returns 1 before |
| `WrapperAssumption` | bytes, words and output are not empty; a file is a sequence of bytes or absent | the constants of `wrapper.cpp` |
| `FunctionAssumption` | whatever whole words of an input file `f` is given, it stores numbers, in words of the output; it need not store in all of them | `f` stores words of 256 bits; the parser rejects a STORE behind the output |
| `FuzzHarnessAssumption` | there is at least one case | the constant of the script |

No theorem has another hypothesis, except `CompilerIsCorrect`, whose condition is
discussed below.

| theorem | statement |
|---|---|
| `ParserProofs!TypeCorrect` | `Spec => []TypeOK` |
| `ParserProofs!DecorationCorrect` | every `stack_ptr` attribute is the height, modulo its width |
| `ParserProofs!UnderflowsCaught` | no operation let through finds fewer words than it needs |
| `ParserProofs!StackSizeCorrect` | `stack_size` is the greatest height |
| `ParserProofs!StopEndsModule` | a parsed module has one stop, its last operation |
| `ParserProofs!ModuleMirrorsCode` | operations and instructions correspond one to one, in order |
| `LockstepProofs!TypeCorrect` | `Spec => []TypeOK` |
| `LockstepProofs!AnalysisIsExact` | the parser's height is the length of the interpreter's stack at every instruction |
| `LockstepProofs!VerdictsAgree` | the parser accepts exactly what the interpreter runs to STOP |
| `LockstepProofs!OffsetsAgree` | the offset in the parser's error is the interpreter's pc |
| `PipelineProofs!TypeCorrect` | `Spec => []TypeOK`; with it, every store is within the output |
| `PipelineProofs!NoSurprises` | a run of a shallow program on a long enough input is never undefined |
| `PipelineProofs!SlotsAreUsed` | the slots below the height were written, and at the end every slot that the alloca reserves |
| `PipelineProofs!CompilerIsCorrect` | for such a program and input, `Pipeline` refines `Interpreter` |
| `InvocationProofs!TypeCorrect` | `Spec => []TypeOK` |
| `InvocationProofs!DigitsAreRead` | a string of digits is read as the bytes it spells, or refused if its length is odd |
| `InvocationProofs!BytesRestOnDigits` | each byte rests on two characters, one of them a digit |
| `InvocationProofs!SpellingDecides` | a command line is accepted only if it is spelled as documented, with what it says, and refused only if it is not |
| `InvocationProofs!StringsArrive` | a string of digit pairs behind `-c`, however spelled, arrives as the bytes it says; no string is read beside a source file |
| `DriverProofs!TypeCorrect` | `Spec => []TypeOK` |
| `DriverProofs!NothingStrange` | a file was made from the program of an invocation told to write there |
| `DriverProofs!SuccessIsOwn` | exit code 0 of an undisturbed invocation: both files are its own |
| `WrapperProofs!TypeCorrect` | `Spec => []TypeOK` |
| `WrapperProofs!WrittenIsBigEndian` | the output is big-endian on either kind of machine |
| `WrapperProofs!InputIsWhole` | `f` is called with whole words, as many as the file had when its size was taken |
| `WrapperProofs!AbortIsHarmless` | a failed assertion leaves an earlier output alone |
| `FuzzHarnessProofs!TypeCorrect` | `Spec => []TypeOK` |
| `FuzzHarnessProofs!ExitCodeIsRight` | the exit code says whether all cases agreed |
| `FuzzHarnessProofs!SummaryIsRight` | a summary lists the disagreements, all and only them |

*The parser.* `Height(ops, k)` counts the growing and the shrinking operations
before `k`; it says nothing of the parser's counter. `StackIRProofs` proves what the
argument needs of it: it is 0 at the start, changes by `Delta` of an operation, and
appending an operation leaves earlier heights alone (`HeightStep`, `HeightAppend`).
The seven cases of the switch are then reduced to two shapes, proved once as
`StepShape`: a step either appends an operation that fits the instruction at `i` and
the height, or throws. `DecorationIsHeight`, `NeverUnderflows` and `StackSizeIsPeak`
need each other (the decoration of the next operation comes from the counter, that
it does not underflow from the comparison of the counter with 0 or 1), so the
inductive invariant `Heights` is their conjunction, with `TypeOK`.

*Parser and interpreter.* `SameVerdict` alone is not inductive: that the verdicts
agree now follows from the heights having agreed until now. The inductive invariant
`Agreement` says that as long as both run, they are at the same offset and the
counter is the length of the stack, and when one has ended so has the other, with
the matching verdict and offset. Each step is one of nine cases, and `SameCase`
shows that both take the same; one lemma a case does the rest.

*The compiled code.* `ParserRuns` shows that `Pipeline` is a behaviour of the parser
until it lowers, so that the parser's theorems hold in it; `Guarantees` collects
from them, as `Sound`, all that the function relies on: where each operation comes
from, that its decoration is the height modulo the attribute's width, that it does
not underflow, and that the peak is `stack_size`. The inductive invariant of the
function, `FunctionInv`, says which slots hold words: those below a height at some
operation up to here (`Reached`). It is more than `SlotsFollowHeight` says, because
a slot stays written after the stack has shrunk, and it is what `NoSurprises` needs,
because an operation pops only what is below the height. `StepShape` reduces the
groups to three: `Goes`, `Stops` and `Strays`, and `NothingStrays` excludes the last
one under `Shallow` and `InputSuffices`.

For the refinement, the abstract stack is `StackOf(height, mem)`: the slots below
the height, and the abstract pc the `loc` of the operation that is next. While the
program is parsed and lowered the mapped state stays initial. Then there is one
lemma for each kind of group (`LoadRefines`, `DupRefines`, `StoreRefines`,
`PopRefines`, `AddRefines`, `SubRefines`, `StopRefines`): it is the interpreter's
step of the same name. The theorem reads `Spec /\ [](Shallow /\ InputSuffices) =>
ImplementsInterpreter`. The condition is not there for convenience: without it the
statement is false, as the runs `deep_stack` and `short_input` show. Both conjuncts
are about the program and the input alone (its heights fit into the attribute; the
input has the words that it loads): they speak of what was parsed so far, and once
the program runs of all of it. What the refinement does not say is that the
interpreter's failures are matched, because a rejected program is never run: that is
`VerdictsAgree`.

*An invocation.* The loop invariant `HexLoop` says that the bytes so far are half as
many as the characters passed, that each rests on its own pair, and that it is the
value of the pair if all characters are digits; the pairs are indexed by the number
of the byte, so that no recursion over the string is needed. `CommandLineType` shows
that all that CLI11 cuts off, unescapes and puts back is again text, which rests on
the least position of "=" in an argument (`NameEndType`) being within it.

`ReadAsSpelled` compares the parser with a set of documented command lines, which
says nothing of how they are parsed. The proof first restates that set in the
parser's terms: `Spelling` says which one or two arguments spell an option with a
text, and `DocumentedShape` and `ReadingShape` turn the set into "these arguments
add one option after another to nothing" (`Completes`), at most two because -i and
-c exclude each other. Then there is one invariant for each direction. `Accounted`
looks back: unless it is already certain that the command line is not accepted, the
arguments that are gone say what `results` holds. `Taken` shows that `ParseValue`
takes one spelled option, and a third option would be one of -i and -c beside the
other, or a repetition (`CompletesMore`). `OnTrack` looks ahead, for every way to
read the command line: part of it has been read and the arguments that are left say
the rest. `Takes` shows that the next step is then the one that takes the next
option, although the actions also allow leftovers, flags and errors. `VerdictIs`
closes both at the end. `StringsArriveWhole` follows with `Handed` (what
`parse_cmdline` gets is the text of an accepted `-c`, and no source file is named)
and `DigitsRead`; it needs that double brackets never stand for an empty text
(`UnescapeKeepsEmpty`) or for digits (`DigitsUnescaped`).

*The driver.* `SuccessOwnsFiles` has to hold at the end of an invocation, from what
happened at each stage before. `FilesOwned` says what an undisturbed one owns so
far: from `link` on the object file, while linking also the copy that the linker has
read. `RivalsAtRest` says that no other invocation with the same base is between its
start and its end while one is alone, and `Progress` which stages imply that the
program was read, compiles and has a target. `PathsApart` proves that invocations
with different bases have different paths, for any paths, which the four bases of
the run only sample. `MadeByOneAsked` needs `LinksOneAsked`: a linker may have read
the object file of another invocation, but only of one with its base. A write
that goes through leaves a mixed object file only where two had it open together (`shared`), and
`SharedNotAlone` says that neither of these counts as undisturbed.

*The wrapper.* The invariant follows the data: the input in file order until it is
normalised, then in the machine's order, the output in the machine's order
(`MachineWords`) and after the last step as `Expected`. That the two conversions
cancel is `ReverseTwice`, and where each byte of a buffer of words goes is
`PlaceOf`, the division of its index by the width of a word. `f` is any
function that gives some words of the output their values; the words that it does not store
keep the zeros of `memset`, which are a zero in either order of bytes (`ZeroWordType`,
`WordsOfZeros`). Only `TypeCorrect` asks that what it stores be numbers: of anything
else it could not be said that its big-endian bytes are bytes.

*The fuzzing script.* `Verdicts` says that the failed cases so far are exactly those
that disagree, `NothingStale` that the output of a case to come is absent, which is
what makes an output that is there one of this run, and `TurnSoFar` what the earlier
steps of a turn have found out.

**Model-checked only.** The liveness properties `BothEnd` and `InvocationEnds`,
which are out of the prover's reach. Every other property of a passing run is a
theorem; `ImplementsInterpreter` is proved under the condition above, and the run
checks it for programs and inputs that satisfy it. A run that expects a violation
shows one behaviour, and leaves nothing to prove.

## 5. Disagreements between the code and what is said of it

Each is a run that TLC ends with a counterexample.

1. **`deep_stack`.** `stack_ptr` is an 8-bit attribute. At a height of 256 the
   decoration is 0, the lowering computes slot `0 - 1`, and the compiled code
   leaves its stack array. README.md:112: "The compiled runtime does not exhibit
   undefined behavior and does not fail at runtime."
2. **`short_input`.** The operand of LOAD is not checked against the size of the
   input file, which `f` is not told: the same sentence.
3. **`invocation_options`.** `require_option(1, 2)` counts `-o`: `stackc -o p` passes
   and compiles the empty string. `src/main.cpp:200`: "at least one of -i/-c must
   be given".
4. **`hex_input_commented`.** `0x01` is read as the bytes 00 01, because
   `std::stoul` takes "0x" for 0: every byte is preceded by a STOP and the
   program compiles to nothing. `src/main.cpp:54`: "of the form
   \"0x010xcc0x00...\"". (The help text gives the form that works, `0001cc00`.)

`DefinedWhenShallow` shows that 1 and 2 are the only ways to undefined
behaviour in the modelled part: a program with `stack_size < 256` whose LOADs the
input covers has none.

Also visible in the models, without a sentence that says otherwise:

- The wrapper aborts on an empty, missing or ragged input (`Wrapper`, `Abort`),
  and exits with 0 when the output could not be written (`Write`).
- Of two overlapping invocations with one base either executable may be the
  other's program, which is why `SuccessOwnsFiles` speaks of undisturbed ones.
- `main` tests the strings and not whether an option was given: `-i ""` counts
  for `require_option` and then compiles the string of no `-c`, the empty
  one; `-o ""` succeeds and writes nothing.
- `-i=p` names the file `=p`, since `=` ends only a long name; `--input= -c` takes `-c`
  as the file; `-i [[pp]]` reads `[p]`. `-h -i` is a mismatch and not help, because
  the missing value is noticed while arguments are still read.
- The fuzzing script takes any failure of `stackc` for agreement when the
  interpreter raises (`Compile`), and dies, leaving an earlier summary in place,
  when an output has the wrong size (`Compare`).

## 6. Not modelled

- **MLIR and LLVM**: translation, verification, optimisation and code generation
  are taken to preserve the meaning of `f`. Alignment of the word accesses is left
  out with them.
- **Printing** of modules, messages and progress: no property is about it.
- **CLI11** (vendored) beyond the parsing of this command line. The header has
  12,216 lines, of which `stackc` runs a few hundred; the rest are other kinds
  of options, configuration files, validators, conversions and formatting, which
  no state of this program reaches. A model of it would not be one of this
  system, so that most of the repository's lines stay without one.
- **CMake** and `build.sh`: no behaviour of the running program.
- **Test drivers** for the parser: they print and compare texts, and keep nothing.
- **Generation of random programs** in the script: `FuzzHarness` takes any
  outcome for a case, so that nothing depends on which programs it draws.
- The wrapper's paths are taken to be given: without arguments it uses
  `argv[1]` unchecked.

## 7. Plan

Done: the language, the two readings of it, the compiled code and their
relations; an invocation from its command line to its files; the wrapper and
the fuzzing script; the proofs of section 4.

Nothing of the plan is left. What could be added lies outside this repository: the
passes of MLIR and LLVM between the lowered function and the object file.
