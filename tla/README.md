# LuaCSP in TLA+

LuaCSP adds the concurrency of CSP to Lua: processes are coroutines, `PAR`,
`PARWHILE` and `ALT` compose them, `SLEEP` makes them wait, and `IN`, `OUT` and
`RANGE` let them communicate over channels. The repository contains the Lua
interpreter it runs on. This directory holds models of the evaluator and its
operations and of the parts of the interpreter with logic of their own, the
configurations that check them with TLC, and proofs checked with TLAPS.

Line numbers refer to the sources under `src/`; `PROJECT.json` maps each
definition to the lines it stands for.

## 1. The system

### LuaCSP

Everything runs on one thread of the operating system. What makes the program
hard is not parallelism but reentrancy and order: the evaluator pops a process
from a stack and resumes it; Lua code it executes may begin operations, close
channels or end; each of these pushes other processes, and what runs next, and
what it finds, depends on the order of the pushes and pops of the whole tick.

| Component | State | Operations |
|---|---|---|
| `Host` (`luacsp/host.cpp`) | stack of evaluation steps (`CHANNEL_STACK_SIZE` = 256), clock, main process | `Main`, `Work` (one tick), `Evaluate`, `PushEvalStep`, `PopEvalStep`, `RemoveProcessFromStack`, `TerminateMain` |
| `Process` (`process.cpp`) | coroutine, current operation, parent, flag "is on stack" | `StartEvaluation`, `Evaluate`, `Resume`, `Work`, `Terminate`, `DeleteOperation` |
| `Operation`, `OpSleep` (`operation.cpp`) | finished, remaining seconds | `DoInit`, `Evaluate`, `Work`, `PushResults`, `Terminate` |
| `Channel` and `OpChannelIn`, `OpChannelOut`, `OpChannelRange` (`channel.cpp`) | raw pointers to one input and one output attachment, closed; arguments, moved | `Init`, `Evaluate`, `Communicate`, `CloseChannel`, `PushResults`, `Terminate`, `Channel::Close` |
| `OpPar`, `OpParWhile` (`op_par.cpp`) | closures, the next to run | `Init`, `Evaluate`, `Work`, `CheckFinished`, `Terminate` |
| `OpAlt` (`op_alt.cpp`) | cases (channel, time or nil), triggered case, its process, arguments | `Init`, `Evaluate`, `Work`, `MoveChannelArguments`, `CloseChannel`, `Terminate` |
| `Swarm` (`swarm.cpp`) | closures started and to start, the operation `MAIN` | `MAIN`, `go`, `Evaluate`, `Work` |
| `CppChannel` (`cppchannel.cpp`) | ends of channels implemented in C++ | `Evaluate`, `Work`, `Communicate`, `Terminate` |
| `OpLua` (`op_lua.cpp`) | an operation written in Lua | `Init`, `Evaluate`, `Work`, `Terminate` callbacks |
| `contract`, `helpers`, `csp` | none of the evaluator's | registration, argument checks, log |
| `luacpp`, `core` | registry references, assertions | wrappers of the Lua C API |

How they interact:

* The Lua code of a process calls an operation. `Operation::DoInit` makes it the
  operation of the process, the coroutine yields, and `Process::Evaluate`, back
  from `Resume`, pushes the process so that the operation is evaluated once.
* `Host::Evaluate` pops processes until the stack is empty. `Operation::Evaluate`
  answers whether it has finished; a finished operation pushes its results, is
  deleted, and the coroutine goes on.
* A coroutine that has ended pushes its parent, unless the parent is on the
  stack (process.cpp:115-119). `PAR`, `PARWHILE` and `ALT` look at their closures
  when they are evaluated, never when the closures end.
* `Host::Work` advances the clock and hands the delta time down the tree of
  processes; operations whose time has come push their processes; then
  `Host::Evaluate` runs.
* A channel reaches the operation at its other end through a raw pointer
  (`m_pAttachmentIn`, `m_pAttachmentOut`), moves the arguments and pushes both
  processes, the writer below the reader.
* `PARWHILE` and `TerminateMain` destroy subtrees of processes, whatever they
  are in the middle of; the destroyed processes leave the stack and the channels.

What makes each component correct:

* *Host and Process*: the stack and the flags agree; nothing is pushed twice;
  only suspended processes with an operation are on the stack; the evaluator
  comes to rest, and then every process is where something can still wake it.
* *PAR, PARWHILE*: the processes are always exactly the tree that the closures
  span; no barrier misses the end of its last closure; a tick wakes sleepers in
  the order of the closures.
* *Channels*: an unbuffered, synchronous rendezvous of one writer and one
  reader: no value is lost, duplicated or invented, the pointers of a channel
  never outlive the operations, and no channel keeps two partners waiting.
* *ALT*: one case is triggered, the topmost of those that are ready, from
  wherever it is triggered; a triggered ALT is attached to nothing.
* *Swarms*: `go` may be called by a closure of the very `MAIN` that runs it,
  between two steps of it: nothing handed to `go` is lost, and `MAIN` neither
  finishes nor keeps objects of closures that have ended.
* *Ends in C++ and operations in Lua*: they add calls at places where the
  evaluator makes none itself. A C++ output attaches, sends and detaches in
  `Work`; the methods of an operation written in Lua run in the midst of the
  delivery of time and of the termination of a subtree, and may close channels.

### The Lua interpreter

LuaCSP brings its own copy of Lua 5.2 (`src/lua`) and leans on it: its processes
are coroutines, its objects live as long as the garbage collector finds them.

| Component | State | Operations | What makes it correct |
|---|---|---|---|
| Collector (`lgc.c`) | color of every object, lists of objects, gray lists, phase, where the sweep stands | one step of a cycle, full and generational collections, barriers, finalizers, `lua_close` | nothing the program can reach is freed, though it stores and loads between any two steps; each finalizer runs once; a full collection leaves no garbage |
| Compiler (`lparser.c`, `lcode.c`) | instructions, jump lists, registers, active variables, labels, pending gotos | one function per production; expressions are discharged as late as possible | the code does what the program means; illegal gotos and labels are rejected |
| Machine (`lvm.c`, `lfunc.c`, `ldo.c`) | stack, frames, open upvalues | instructions, calls and returns | variables captured by several closures are shared as long as they live and no longer |
| Coroutines (`ldo.c`, `lcorolib.c`) | per thread: frames, status, C calls; and the C stack | resume, yield, pcall, errors, continuations | an error or a yield drops the C stack, and what it had left to do is done all the same |
| Tables (`ltable.c`) | array part, nodes in chains | get, set, next, length, rehash | a map, whatever collides; traversal meets everything once |
| Matching (`lstrlib.c`) | captures, depth | match with backtracking | finds what the pattern means, in the preferred way |
| List functions (`ltablib.c`) | - | insert, remove, pack, unpack, concat, sort | ends and keeps the elements for every order function |
| Chunks (`ldump.c`, `lundump.c`, `lzio.c`, `lauxlib.c`) | buffered stream | dump, undump, load, loadfile | what is loaded is what was dumped, however it is cut |
| Scanner (`llex.c`) | position, line, buffer, token ahead | next, lookahead | reads back what was written |

## 2. The modules

**LuaCSP**: `Process` <- `Channel` <- `Par` <- `Alt` <- `LuaCSP` <- `MCLuaCSP` (each
extends the one before); `Swarm` and `CppChannel` <- `OpLua` extend `LuaCSP` and
compose their actions with its own; `Rendezvous` is abstract. The proofs:
`LuaCSP_proofs` <- `LuaCSP_attachments` <- `LuaCSP_prompt` <- `LuaCSP_wakeup` <-
`LuaCSP_refinement` <- `LuaCSP_asserts`, and that <- `Swarm_proofs` (which extends
`Swarm` too) and <- `OpLua_proofs` (which extends `OpLua`).

| Module | Models | Actions |
|---|---|---|
| `Process` | Host, Process, SLEEP | `HostMain`, `HostWork`, `Return`, `LuaError`, `Sleep`, `EvalSleep`, `WorkSleep`, `WorkNothing`; the shared ends of handlers `Yield`, `End`, `Resume`, `KeepWaiting`, `StartEvaluation`, `PushEvalSteps` |
| `Channel` | Channel, IN, OUT, RANGE | `In`, `Out`, `Busy`, `EvalIn`, `EvalOut`, `Close` |
| `Par` | PAR, PARWHILE, termination | `ParInit`, `EvalPar`, `EvalParWhile`, `WorkPar`, `TerminateMain` |
| `Alt` | ALT | `AltInit`, `EvalAlt`, `WorkAlt` |
| `LuaCSP` | the whole; its properties | `LuaStep`, `EvaluateStep`, `WorkStep` |
| `Swarm` | MAIN and go | `MainInit`, `Go`, `EvalMain`, `EndEvalMain`, `WorkMain` |
| `CppChannel` | the C++ output of a channel, with the key press counter of the sample as its subclass | `CppCall`, `CppStepOf` |
| `OpLua` | operations written in Lua, programs that yield themselves, and the composition of the extensions | `LuaInit`, `EvalLua`, `WorkLua`, `TerminateLua`, `RawYield` |
| `Rendezvous` | what the manual promises of channels (doc/LuaCSP.qbk:70-106) | `Offer`, `Wait`, `Meet`, `Receive`, `GiveUp`, `Close`, `Terminate` |
| `MCLuaCSP`, `MCSwarm`, `MCOpLua` | finite values of the constants | |

**Lua**: `LuaCode` <- `LuaParser` <- `LuaExec` <- `LuaMeaning` <- `LuaPrograms` <-
`MCLua`; `LuaGC` <- `MCLuaGC`; `LuaMatch` <- `PatternMeaning`; `LuaDump` <-
`LuaLoad`; `MCLuaLib` runs `LuaTable`, `LuaCoroutine`, `PatternMeaning`,
`LuaTableLib`, `LuaLoad` and `LuaLex`.

| Module | Models | Form |
|---|---|---|
| `LuaGC` | the collector against any program | state machine: one action per phase of the collector and per operation of the program |
| `LuaTable` | tables | state machine: set, clear, next, collection of keys |
| `LuaCoroutine` | coroutines and protected calls, with the C stack | state machine: one action per call a program makes |
| `Coroutines` | what these promise: a chain of threads, each a stack of calls; no C stack | abstract specification, refined by `LuaCoroutine` |
| `LuaCode`, `LuaParser` | code generator and parser | functions from the state of a compilation to the next |
| `LuaExec` | the machine | function from a machine to the next, one definition per group of instructions |
| `LuaMeaning` | what a program means, by its tree alone | reference definition |
| `LuaMatch`, `PatternMeaning` | the matcher; what a pattern means: the sequence of ways to match | functions; reference definition |
| `LuaTableLib`, `LuaDump`, `LuaLoad`, `LuaLex` | list functions; chunks; loading; scanner and `%q` | functions |

**State of the evaluator.** A process object is an element of `Proc`; `thread` is
the status of its coroutine, with "free" for an object that does not exist and
"null" for ALT's process before it has a coroutine. `op` holds a record with the
members of all subclasses of `Operation`, told apart by `kind`; the members that
a subclass lacks keep their default. `stack` is the array of evaluation steps up
to its top; `isOnStack` the flag each process caches. `work` holds the calls of
`Process::Work` that the recursion over the tree still has to make: a tree of
calls on the C++ stack becomes a list. `attachIn` and `attachOut` name the
process whose operation a channel points to. `Swarm` adds `closureToRun` and the
pointer from a swarm to its `MAIN`, `CppChannel` the count of key presses and the
pointers that dangle.

**Steps.** Control is at one of four places: the Lua code of `running`, a
pending `work` call, a stack to be popped, or idle between two ticks. An action
is all that happens from one such place to the next: for instance `EvalIn` is
the pop, the evaluation of `IN`, the communication with the writer, and either
the two pushes or the resumption of the coroutine.

**Programs.** The Lua code is arbitrary: between two resumptions a process
makes any call in the constant `Calls`. Runs without `"reuse"` are about programs
that begin no operation on a closed channel; runs with `"busy"` about programs
that begin a second operation on one end of a channel.

**Assertions.** The debug build is modelled. A failing `CORE_ASSERT` sets
`failed` to the name of the assertion, and nothing more happens; `AssertsHold`
says that none fails. The release build goes on past the assertion into
undefined behaviour, which is not modelled.

**Abstractions of the evaluator.** Argument lists are elements of `Val`; the registry references
that keep closures, channels and arguments alive are left out, except for ALT's
closures, whose absence is observable (`closure` of a case). Time is an integer.
The log is left out. `Descendants(p)` is the set that
the mutual recursion of `Process::Terminate` and `Operation::Terminate` reaches.

**The interpreter.** An object of the collector has one outgoing reference, an
upvalue or a coroutine one slot, and how much one step of the collector does is
a free choice, because the program decides nothing from it. A coroutine has a
stack of `CallInfo` records, and the C stack is one sequence for all threads, as
in the code: `Throw` cuts it at the latest protected call. A function being
compiled is a record that each operation of `lcode.c` maps to the next one; a
list of jumps, threaded through the instructions in the code, is a set of
addresses. A character of the scanner is its code; what a numeral is worth is
its text. A byte of a chunk is a pair of the value it belongs to and its place
in it, so that a byte read in the wrong place is seen.

## 3. What is checked

Deadlock is not checked in any run: the evaluator stops when the main process
has returned or the programs wait for good, the Lua programs end.
`NoLostWakeup`, `NoLostGo`, `NoLostExtWakeup` and `Greedy` say what a stop must
look like instead.

| Run | Bounds | What it shows |
|---|---|---|
| `chan` | 4 processes, 2 channels, 2 values, ALTs of up to 2 of channel, time and nil; IN, OUT, RANGE, SLEEP, close, errors, PAR, PARWHILE, ALT, TerminateMain, "busy" | the channels implement `Rendezvous`; what is received is what is returned, also when the writer closes at once; no dangling attachment, no pair left waiting, no lost wake-up; an ALT takes its topmost ready case |
| `par` | 5 processes, up to 3 closures, 1 channel, stack of 5, 1 swarm; SLEEP, IN, OUT, errors, PAR, PARWHILE, MAIN, a second MAIN of a swarm that has one ("twice"), go, TerminateMain | stack and flags agree, the processes form the tree of their operations, sleepers wake in their order, nothing handed to `go` is lost or left behind, no assertion fails |
| `live` | 4 processes, ALTs of a channel and a time, 1 swarm with one MAIN, a clock that goes from 0 to 2 at once | the evaluator comes to rest, sleepers wake up, an ALT with a time does not wait beyond it, a swarm points to its `MAIN` |
| `ext` | 4 processes, 1 channel; C++ outputs with up to 1 key press, operations in Lua whose methods close and fail, programs that yield; "busy" and "reuse" | no dangling attachment but the one `v_cpp` shows, no key press waits while somebody reads, no lost wake-up |
| `gc` | 4 objects, up to 4 operations of the program, 9 kinds of programs, sweeps of 1 object | what the program can get at is not freed, black does not point to white while marking, full collections are full, finalizers run once |
| `lua` | 16 families of programs; 1 constant an instruction can name, 2 items per SETLIST | the compiled code does what the program means; labels and gotos are accepted exactly if legal |
| `lib`, tables | a string and another object, integers 1, 2 and 4, of which 7 is taken for the greatest, array and hash of sizes (0,0) and (3,1) | a map; traversal visits everything though fields are cleared and keys die; the length is a boundary |
| `lib`, coroutines | 2 coroutines, 6 calls, 5 levels of C calls and 2 for the error, 8 sets of calls | implements `Coroutines`; the count of C calls is right, no assertion fails |
| `lib`, matching | strings over two letters up to length 4; all patterns of up to 2 of 16 items, and 3 forms with nested captures and back references around all pairs of items | find, match, gmatch, gsub and plain search are what the pattern means |
| `lib`, lists | lists of up to 5 of 3 elements and 7 of 2; all weak orders of 3 elements, and relations that are none; positions and ranges in an `int` of 4 bits | sort sorts or fails cleanly, insert and remove are inverse, unpack handles overflow |
| `lib`, chunks | 4 functions, stripped or not, pieces of 1 to 4 bytes; files with marks, first lines, every mode and failure | loads what was saved |
| `lib`, scanner | 31 ways to write a token, twice, with 8 separators between; strings of up to 3 of 8 characters in all ways to write them; malformed tokens | reads the tokens that were written, counts the lines |
| `v_*` | | the findings below |

**Why the bounds are enough.** Interference in the evaluator needs a barrier, the
two ends of a channel and a third party that closes, sleeps, errs or is a
sibling in PARWHILE: main and three closures. `par` has a fifth process, so that
a PAR can be nested in a PARWHILE next to two siblings, which is the smallest
tree in which a destroyed subtree has several levels while other processes stay
on the stack. Two channels let ALT wait on more than one and let writers cross.
Two values tell a value that was passed from one that was not. A sleep of 0 ends
in the next tick, which is when the order of sleepers matters; several sleeps
that end in different ticks differ from it in the number of ticks only. In the
passing runs the stack has as many entries as there are processes, which
suffices because no process is on it twice. Processes and channels are
symmetric, except for main, and the runs of invariants use that; `live` does not.

The collector goes wrong with an object the program holds, one the collector has
finished with, and a reference between them that is moved during a step; a
fourth object gives it something to sweep past. Each of the nine programs has
the operations of one mechanism; together they would be too many for TLC. For
tables, keys collide in a hash part of at most four nodes, so that nodes
are moved, chains are redone and the table is rebuilt within a few steps. Two
coroutines give a chain of three threads, of which the middle one can err,
yield or be refused. The sort's pivot of three needs three elements, its inner
loops seven. `Fuel` and `Rounds` bound the machine and the loops of the
reference; the programs that end, end before, and an endless one is endless in
both.

**Fairness.** `SwarmFairSpec` assumes weak fairness of the steps of the C++ code
(`SwarmCpp`): a thread that executes C++ code goes on; and of the application's
calls of `Host::Work`. Nothing is assumed of the Lua code, which may loop for
ever between two calls, so `SleepersWake` and `AltsExpire` ask that ticks end
again and again, which is a condition on the Lua program, not on LuaCSP.
`Swarm` has the fairness of the program without swarms too (`FairSpec`,
`TickingSpec` of `LuaCSP`). The interpreter has no property that needs fairness:
that its functions end is part of their being evaluated at all.

**Mutants.** Beside some definitions stands an operator marked "Mutant": the
same operation with a plausible mistake. Put in place of the definition it
violates a property, which shows what the property says of the code.

### Findings

Each is the counterexample of a run, and quotes what it contradicts in
`PROJECT.json`.

1. `v_closure` - a case of an ALT whose channel was closed has the time -1 and is
   taken for a time that has come; its closure is gone: assertion at
   process.cpp:85.
2. `v_cpp` - a PARWHILE terminates a C++ output that is attached; unlike that of
   OUT its `Terminate` leaves the pointer in the channel (cppchannel.cpp:87).
3. `v_gc` - two objects are lost in one cycle, both with a finalizer, one the
   uservalue of the other: the second is linked in the gray list twice, the list
   becomes a loop, and the collector does not end (lgc.c:315).
4. `v_goto` - a goto to a label in front of `local x` leaves the old value in x,
   because the initialization is merged into one in front of the label
   (lparser.c:1215).
5. `v_resume` - a coroutine resumes one that waits for it; the call is refused but
   the count of C calls of the other is one too high from then on
   (ldo.c:540).

Further disagreements met while modelling, for which no run is kept:

* Siblings in PARWHILE do run after the first closure has returned, when they
  are above the PARWHILE on the stack (op_par.cpp:158).
* An ALT takes a nil or channel case although a time above it has come
  (op_alt.cpp:169); `AltTakesTopmost` is about the cases the code compares.
* Closing two channels of one ALT in a row pushes its process twice: assertion
  at host.cpp:145. This is why `AssertsHold` is checked without ALT.
* The second operation on one end of a channel stops the debug build in the
  destructor of the operation instead of raising the Lua error.
* The stack of evaluation steps has 256 entries and nothing bounds the processes
  that are awake at once: a PAR of more sleepers that end in one tick overflows it,
  which only the debug build notices (host.cpp:143). In the runs the processes fit.
* An ALT that names a channel twice communicates on it after the channel was
  closed, without being attached: assertion at channel.cpp:410.
* A second C++ output on one channel takes the place of the first without a
  check (cppchannel.cpp:40), and one that delivers to RANGE during `Work` may see
  the channel closed before RANGE looks at the value (cppchannel.cpp:66).
* A method written in Lua that calls an operation replaces the operation of the
  main process before the attempt to yield fails (op_lua.cpp:134); the manual
  forbids it.
* A wrong argument to PAR makes its destructor read closures that were never
  allocated (op_par.cpp:41).
* A file that begins with one or two bytes of the mark of UTF-8 and then `#` is
  taken for one that begins with a comment (lauxlib.c:613-623), and the line of the last token consumed is that of the
  token ahead after a lookahead over the end of a line (llex.c:515).

## 4. What is proved

`LuaCSP_proofs` begins with what the helpers return: `FirstOf` finds the least
index, `Earliest` an expired case; popping, pushing and removing processes keep
the stack and the flags together (`PopKeepsFlags`, `PushKeepsFlags`,
`WithoutRemoves`); the processes below a process are closed under "closure of"
and contain the parent of each. It proves, for every set of processes, channels and values, every
size of the stack, and every set of calls and ALT forms, from
`ProcessAssumption` alone (the processes are finitely many, the null pointers
are none of the objects, the bounds are numbers):

* `Inductive == Spec => []IInv`
* `TypeCorrect == Spec => []TypeOK`
* `StackIsConsistent == Spec => []StackConsistent`

**The invariant.** `StackConsistent` is not inductive. What an operation pushes
it finds through channels, parents and closures: `Communicate` pushes what a
channel points to, so `Attached` says that this waits on the channel; the end
of a coroutine pushes its parent, so `Parents` says that the parent is in the
operation the coroutine is a closure of; a started closure must not be on the
stack, so `Closures` says which closures have not started and `InOperation` that
these are in no operation; PARWHILE destroys what is below it, and `Tree`, by
which a process is a closure of one operation, makes that disjoint from the
rest of the tree. `IInv` is the conjunction.

**The argument.** Steps of one shape are treated once: calls that begin an
operation (`CallStep`), steps that change fields of operations and push
processes (`FieldStep`, `PushStep`), the end of a coroutine (`EndStep`), the end
of an operation with the destruction of what is below it (`DestroyStep`,
`ResumeStep`, `FinishStep`), and the start of a closure (`StartStep`). Then there
is one lemma per action, and `NextIInv` splits `Next` into them. The proof needs
no assumption that `failed` is "none": also the state in which an assertion has
stopped the program is consistent.

`LuaCSP_attachments` adds, for programs that close no channel, or make no call of
ALT, or keep to `NoChannelTwice` (no call of ALT names a channel in two of its
guards; what such an ALT does with a closed channel is among the disagreements
above):

* `AttachmentsAreLive == Spec => []AttachmentsLive`

One half is the part `Attached` of `IInv`: what a channel points to waits on it.
The other half, `PointedTo`, says that what waits for input on a channel is what
the channel points to, and, because closing a channel takes away just one case,
that an ALT has at most one case for a channel that may be closed (`OneCase`).
`PointedTo` is inductive with `IInv`: no step but a call begins to wait (`NoneBegins`), the calls attach, and
every step that detaches also serves or destroys the operation.

**Promptness.** `LuaCSP_prompt` proves

* `EvaluationIsGreedy == Spec => []Greedy`
* `AltTakesTopmostCase == Spec => AltTakesTopmost`, under the same condition
* `ReadersReturnWhatTheyReceived == Spec => ReceivedIsReturned`,
  under `"reuse" \notin Calls`: a program that begins to read from a closed channel
  is told that it is closed, whatever its last rendezvous was

What a partner sees depends on what the evaluator has still to do, so these need
the order in which it does things. `Turns` is that order: Lua code runs, or time
is delivered, only while nothing else has the turn. `Prompt` says of two
operations attached to one channel that one of them is on the stack: the first
thing that an operation does when it is evaluated is to look for its partner.
`ClosedIsEmpty` and `DeliveredFirst` follow what a channel has delivered until
the reader returns it: a closed channel points to nothing, and the reader that
has received is on the stack above whoever could overwrite it.

**Wake-ups.** `LuaCSP_wakeup` proves

* `ProcessesFormTree == Spec => []ProcessTree`
* `NobodyIsForgotten == Spec => []NoLostWakeup`, under the condition of `AttachmentsAreLive`

`ProcessTree` is about reachability, and an induction over paths is what the
provers cannot do. `Rooted` says it with sets: every set of processes that
contains main and is closed under "closure of" contains every process that
exists. That is preserved by each step by giving one set (`TreeFacts`): the old
set with the new closures, or with what has been destroyed. It also excludes
cycles. `Awake` says of an operation nobody would come back to (a PAR or ALT all
of whose closures have ended, a communication whose channel is closed or that
has moved its arguments) that it is on the stack; `OnlyRunning` and `Begun` say that
a process without an operation is the one that runs or is about to be resumed.
`RestingIsBlocked` reads `NoLostWakeup` off these when the stack is empty.

**Refinement.** `LuaCSP_refinement` proves

* `ImplementsAbstractRendezvous == Spec => ImplementsRendezvous`

for every program, with the refinement mapping that run `chan` checks. `Values`
joins the invariants: every operation is `Honest`, a writer that has been served
holds no value any more, and a reader or an ALT that waits has none yet. Then
there is one lemma per action of `Rendezvous`, and one that says which step of
`LuaCSP` is which of them or a stutter.

**Assertions.** `LuaCSP_asserts` proves

* `AssertionsHold == Spec => []AssertsHold`, for programs that keep the rules

No CORE_ASSERT of the evaluator fails if no program begins a second operation on
one end of a channel, none closes channels if some use ALT, and there are no more
processes than entries of the stack; each exclusion is a disagreement of section
3. `AInv` says what is needed beyond the invariants above. `WaitersRest`: who
waits for a partner is not on the stack, so the partner may push it, except that
a call pushes its own process, which is then evaluated before anything else.
`Intact`: an ALT that has not started its closure has all of them, so what it
starts is a function. `Apart`: the subtrees that `Host::Work` has still to visit are
disjoint, and nothing in them has been pushed in this tick; `SiblingsApart` proves
by contradiction with `Rooted` that subtrees of siblings are disjoint, and
`ApartNext` that each of the ways to hand the delta time on keeps this.
`PushesFit` reads off that the stack, without repetitions, has room.

**Swarms.** `Swarm_proofs` carries all of it over to programs that call `MAIN` and
`go`. The lemmas before it speak of the actions of `LuaCSP` and of the fields of
operations, not of `Spec`; `ParKinds` became a parameter of what they say of
operations with closures (`Spawning == ParKinds \cup {"MAIN"}`), and the swarm's
own actions are added. `SInv == IInv /\ Turns /\ Prompt /\ WInv /\ SwarmTypes /\
NoDanglingMain /\ TailIsMain /\ MainsRest` is inductive:

* `SwarmInductive == SwarmSpec => []SInv`
* `SwarmTypeCorrect == SwarmSpec => []SwarmTypeOK`
* `SwarmsKeepTree == SwarmSpec => []ProcessTree`
* `SwarmKnowsItsMain == SwarmSpec => []SwarmPointsToMain`, under `"twice" \notin Calls`
  (no swarm is given to two calls of `MAIN`; which one it points to is then a
  matter of order)
* `NothingGivenIsForgotten == SwarmSpec => []NoLostGo`, under the condition of
  `AttachmentsAreLive`
* `GivenIsStarted == SwarmSpec => LeftToRun`
* `SwarmAssertionsHold == SwarmSpec => []AssertsHold`, for programs that keep the
  rules of `LuaCSP_asserts`
* `ClosuresWakeInOrder == SwarmSpec => []WakeOrder`, for every program

`NoDanglingMain` says that a swarm points to an operation `MAIN` that exists and
points back, `TailIsMain` that the closures `go` adds are exactly those not started,
`MainsRest` that a `MAIN` off the stack has nothing to start. The hard action is
`Go`, called by a closure of the `MAIN` it appends to, or by another process while
that `MAIN` is on the stack or in the midst of its own step; `Gives` and `GoFacts`
treat it once for all parts of the invariant. `Collect` takes closures away
(`Collects`), which in all the other operations never happens. For the assertions,
`TailFirst` says that `Host::Work` does not begin before the end of `Evaluate`.

**The order of waking.** `WakeOrder` compares positions on the stack with positions
in the tree of closures, at any depth, and both change. `OInv` has it with the two
parts that make it inductive while the delta time is handed down:
`VisitedInOrder`, the subtrees `Host::Work` has still to visit wake one before the
other, the last of them first; `PushedFirst`, all of them wake before what has been
pushed already. So a sleep that ends may go on top of the stack (`TellOrder`), and an
operation may put its closures in place of itself (`PassOnOrder`, which asks of
`MainWork` and of the closures of a PAR that they are in the right direction; an ALT
hands on to one). Afterwards the order has to survive what is evaluated
(`QuietOrder`): `OrderStays` says that a step destroys whole subtrees and that the
closures which stay keep their order, which `BeforeStays` turns into an order that
stays, with the definition of `Descendants` as the least closed set and no induction
over paths; and that who is pushed has not slept is `OnlySleepsFinish`. That
nobody is woken before itself needs `SiblingsApart` again.

**C++ outputs and operations in Lua.** `OpLua_proofs` proves of `ExtSpec`, the
composition of `LuaCSP`, `CppChannel` and `OpLua`:

* `ExtInductive == ExtSpec => []IInv`: the invariant of the evaluator, the
  consistency of the stack and what channels point to among it, holds next to
  the extensions too
* `ExtTypeCorrect == ExtSpec => []ExtTypeOK`
* `KeyPressesAreRead == ExtSpec => []KeyPressRead`, for every program
* `ExtAttachmentsAreLive == ExtSpec => []AllAttachmentsLive`, under the condition of
  `AttachmentsAreLive`
* `NobodyIsForgottenOutside == ExtSpec => []NoLostExtWakeup`, under the same condition

`EInv == Core /\ Outputs /\ RawSuspended` is inductive. `Core` are the invariants of
the evaluator from above (`IInv`, `Turns`, `Prompt`, `WInv`), which leave room for
operations they do not know (`ForeignKinds`): what holds something out to a reader
is in them an OUT or a C++ output (`OffersOn`). `Outputs` is about the C++ outputs.
`CountHeld` is the reason for `KeyPressRead`: an output with key presses left is on
the stack or attached, so, by `Prompt`, no reader waits beside it when the evaluator
rests. It needs `OneOut`, the program's rule of one writer per channel that
`OneWriter` makes of every call: a second output would take the place of the first.
`Going` says that an output which is told the delta time has not ended, since
nobody is told it twice (`Disjoint`) and it ends only when told. `RawSuspended` says who
is suspended without an operation.

The extensions act where the evaluator makes no step itself. A C++ output attaches,
communicates and detaches when it is evaluated and also in the midst of the
delivery of the delta time: `CppShape` brings both calls of `CppEvaluate` into two
shapes, `Stays` and `Transmits`, which are treated once. A method in Lua closes a
channel while its own operation finishes (`EvalLua`), while it is told the time
(`WorkLua`) or while it is destroyed with the subtree it is in (`TerminateLua`):
`ClosedFacts`, `DetachedFrom` and `ClosedAttached` say what the close leaves, for any set of
processes that are being destroyed, and `EndsAndClosesStep` proves the end of an
operation with a close in the midst of it. For the steps of `LuaCSP` itself the
lemmas of the other modules are used as they are; what is new is that such a step
leaves a C++ output alone or pushes it (`Bystands`).

**The assumptions.** `ProcessAssumption` is the code's: objects are finitely many and
null is none of them. The others exclude programs about which the property is
false, not proofs that are hard: with an ALT that names a channel twice and a
`close`, `AttachmentsLive`, `AltTakesTopmost` and `NoLostWakeup` have the
counterexamples section 3 tells of, and so has `AssertsHold` without its rules. That
processes fit on the stack is sufficient; what the stack must hold is the most
processes that are awake at once. The runs `chan`, `par` and `live` satisfy those of the
theorems whose properties they check.

**Only model-checked.** Liveness under fairness, and `ENABLED`, are out of the
prover's reach: `SleepersWake`, `AltsExpire`, `EvaluatorRests`. Checked by TLC only
is also everything about the interpreter. Most modules of the interpreter are recursive functions over
trees, lists and strings; what they compute for every input would be proved by
induction over these, and tlapm has no SMT backend where an operator is
RECURSIVE (`LuaCoroutine` among them). `LuaGC` and `LuaTable` are state machines
whose invariants could be proved.

## 5. What is not modelled

* LuaCSP: negative time guards of ALT; the error path of `OpPar::Init`; two C++
  outputs on one channel; registry references of closures, channels and
  arguments; registration, argument checks and logging.
* Collector: how much one step does (debts and sizes); an emergency collection
  happens between two operations of the program, not in the midst of one.
* Compiler and machine: the limits of registers, upvalues, constants and C
  levels, debug information, metamethods, strings taken as numbers, division and
  negative powers; numbers are integers. Strings are in the order of their
  characters, not of a locale, and of a table with holes the machine takes one of
  the borders (`LuaTable` has which). The compiler reads a tree; the tokens of
  `LuaLex` are not parsed.
* Coroutines: hooks, tail calls, the growth of the stack; what a program calls is
  a Lua function or one of the C functions listed in `LuaCoroutine`.
* Matching: a pattern is a sequence of items, its text is not parsed; replacement
  strings and the other functions on strings.
* Loading: text chunks are not compiled, standard input.
* Scanner: the decimal point of the locale, the limits of buffers and lines, the
  wording of errors.
* The rest of Lua: the C API, which is a thin layer over what is modelled; the
  libraries for files, operating system, numbers and bits; memory; stand-alone
  programs. The wrapper `luacpp`, `core`, the test framework and the sample keep no
  state of the evaluator.

## 6. Plan

What is done: the evaluator with all its operations and extensions; the
collector, compiler, machine, coroutines, tables, matcher, list functions,
chunks and scanner of Lua; the theorems of section 4. What is left, the most
important first:

1. Theorems: `TableIsMap` for `LuaTable` and `TriColor` for `LuaGC` from their own
   inductive invariants.
2. `AssertsHold` with C++ outputs and operations in Lua, from `EInv` and rules for the
   methods that close channels, as `SwarmAssertionsHold` does for swarms.
3. The parser on the tokens of the scanner, so that a program is its text.
4. Metamethods in `LuaExec`, and the collector working on the objects of the
   machine.
5. The registry references: each released exactly once on every path through
   Init, Communicate, Close, Terminate and the destructors.

## 7. Running it

    tlc -workers 2 -config chan.cfg MCLuaCSP
    tlc -workers 2 -config par.cfg MCSwarm
    tlc -workers 2 -config lib.cfg MCLuaLib
    tlapm LuaCSP_proofs.tla
    tlapm LuaCSP_asserts.tla
    tlapm Swarm_proofs.tla
    tlapm OpLua_proofs.tla

`PROJECT.json` names the module and the configuration of every run.
