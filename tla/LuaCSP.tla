------------------------------- MODULE LuaCSP -------------------------------
(***************************************************************************)
(* The whole of LuaCSP: a host that evaluates a tree of processes, the     *)
(* operations PAR, PARWHILE, ALT, SLEEP, IN, OUT and RANGE, and a Lua      *)
(* program of which nothing is known but the calls it makes.               *)
(***************************************************************************)
EXTENDS Alt

vars == <<procVars, chanVars>>

Init == ProcessInit /\ ChannelInit

(* The Lua code of p goes on to its next call. *)
LuaStep(p) ==
  \/ ProcessCall(p) /\ UNCHANGED chanVars
  \/ ChannelCall(p) \/ ParCall(p) \/ AltInit(p)

(* One turn of the loop of Host::Evaluate. *)
EvaluateStep(p) ==
  \/ ProcessEvaluate(p) /\ UNCHANGED chanVars
  \/ ChannelEvaluate(p) \/ ParEvaluate(p) \/ EvalAlt(p)

(* One call of Process::Work. *)
WorkStep(p) ==
  \/ ProcessWork(p) /\ UNCHANGED chanVars
  \/ WorkPar(p) \/ WorkAlt(p)

Next ==
  \/ HostMain /\ UNCHANGED chanVars
  \/ HostWork /\ UNCHANGED chanVars
  \/ TerminateMain
  \/ \E p \in Proc : LuaStep(p) \/ EvaluateStep(p) \/ WorkStep(p)

Spec == Init /\ [][Next]_vars

(***************************************************************************)
(* The C++ code does not stop by itself; nothing is assumed of the Lua     *)
(* code, nor that the application goes on calling Host::Work.              *)
(***************************************************************************)
CppStep  == \E p \in Proc : EvaluateStep(p) \/ WorkStep(p)
FairSpec == Spec /\ WF_vars(CppStep)

(* The application calls Host::Work again and again. *)
TickingSpec == FairSpec /\ WF_vars(HostWork /\ UNCHANGED chanVars)

----------------------------------------------------------------------------
(* Every variable has its type. *)
TypeOK == ProcessTypeOK /\ ChannelTypeOK

(***************************************************************************)
(* The stack of evaluation steps (host.cpp:141-184): the flag a process    *)
(* caches agrees with the stack, no process is on it twice, and all that   *)
(* is on it is blocked in an operation, so Host::Evaluate never resumes a  *)
(* coroutine that has ended or that Lua code itself suspended.             *)
(***************************************************************************)
StackConsistent ==
  /\ \A p \in Proc : isOnStack[p] <=> p \in Range(stack)
  /\ Injective(stack)
  /\ \A p \in Range(stack) : op[p].kind # "none" /\ thread[p] = "yield"

(***************************************************************************)
(* The raw pointers from channels to operations (channel.cpp:376-396):     *)
(* what a channel points to lives, is an operation on that channel, has    *)
(* not been served yet, and every operation that waits is pointed to.      *)
(* An ALT that is triggered is attached to nothing any more.               *)
(***************************************************************************)
WaitsIn(p, c) ==
  \/ op[p].kind \in {"IN", "RANGE"} /\ op[p].channel = c /\ ~op[p].argumentsMoved
  \/ op[p].kind = "ALT" /\ op[p].caseTriggered = 0 /\ CasesFor(op[p], c) # {}

WaitsOut(p, c) == op[p].kind = "OUT" /\ op[p].channel = c /\ ~op[p].argumentsMoved

AttachmentsLive ==
  failed = "none" =>
    \A c \in Chan, p \in Proc : /\ attachIn[c] = p <=> WaitsIn(p, c)
                                /\ attachOut[c] = p <=> WaitsOut(p, c)

(***************************************************************************)
(* "The evaluation of tick only stops if there is no more communication    *)
(* possible" (LuaCSP.qbk:231): no channel is left with both ends waiting.  *)
(***************************************************************************)
Greedy == Idle => \A c \in Chan : ~(InAttached(c) /\ OutAttached(c))

(***************************************************************************)
(* When the evaluator comes to rest every process is where something can   *)
(* still wake it: a barrier waits for a closure that runs, a finished      *)
(* sleep has been served, a triggered ALT waits for its closure, and an    *)
(* ALT that waits has a case left.                                         *)
(***************************************************************************)
Blocked(p) ==
  LET o == op[p] IN
  CASE o.kind = "SLEEP"    -> ~o.finished
    [] o.kind \in {"IN", "RANGE"} -> attachIn[o.channel] = p
    [] o.kind = "OUT"      -> attachOut[o.channel] = p
    [] o.kind = "PAR"      -> AllStarted(p) /\ ~CheckFinished(p)
    [] o.kind = "PARWHILE" -> /\ o.closures # <<>> /\ AllStarted(p)
                              /\ ~FirstEnded(p)
    [] o.kind = "ALT"      -> IF o.caseTriggered = 0
                              THEN Ready(o) = {} /\ ~AllCasesClosed(o)
                              ELSE thread[Closure(p)] = "yield"
    [] o.kind = "none"     -> p = Main /\ "terminate" \in Calls

NoLostWakeup == Idle => \A p \in Proc : thread[p] = "yield" => Blocked(p)

(***************************************************************************)
(* The processes form a tree under the main process, which the closures    *)
(* of the operations span: PAR, PARWHILE and ALT leave no process behind   *)
(* when they end, and no process is a closure of two operations.           *)
(***************************************************************************)
ProcessTree ==
  /\ \A p \in Proc : thread[p] # "free" <=> p = Main \/ p \in Descendants(Main)
  /\ \A p, q \in Proc :
       \A i \in DOMAIN op[p].closures, j \in DOMAIN op[q].closures :
         op[p].closures[i] = op[q].closures[j] => p = q /\ i = j
  /\ \A p \in Proc : parent[p] # NoProc => p \in Children(parent[p])

(***************************************************************************)
(* What was received is what IN and RANGE return, and RANGE ends the loop  *)
(* of the program (nil) only if nothing was received: the reader of a      *)
(* writer that sends its last value and closes the channel at once         *)
(* (tests/lua/elementary.lua:117-133) gets that value.                     *)
(***************************************************************************)
ReceivedIsReturned ==
  [][\A p \in Proc :
       op[p].kind \in {"IN", "RANGE"} /\ running' = p /\ running = NoProc =>
         /\ result'.arguments = op[p].arguments
         /\ result'.flag = "nil" => op[p].arguments = NoArgs]_vars

(***************************************************************************)
(* An ALT takes the topmost of its cases that are ready, a channel with a  *)
(* writer or nil (LuaCSP.qbk:191-193), whoever triggers it: its own        *)
(* evaluation, a writer's, or the passing of time.                         *)
(***************************************************************************)
Triggered(p, i) == /\ op[p].kind = "ALT" /\ op[p].caseTriggered = 0
                   /\ op'[p].kind = "ALT" /\ op'[p].caseTriggered = i

AltTakesTopmost ==
  [][\A p \in Proc : \A i \in DOMAIN op[p].cases :
       Triggered(p, i) => \A j \in Ready(op[p]) : i <= j]_vars

(***************************************************************************)
(* No CORE_ASSERT of the debug build fails.                                *)
(***************************************************************************)
AssertsHold == failed = "none"

(* An assertion that some programs make fail. *)

(* What StartEvaluation finds on the coroutine is a function (process.cpp:85). *)
ClosureIsFunction == failed # "no_closure"

(***************************************************************************)
(* Host::Evaluate and Host::Work never spin: between two stretches of Lua  *)
(* code the C++ code makes finitely many steps.                            *)
(***************************************************************************)
EvaluatorRests ==
  []<>(running # NoProc \/ Idle \/ failed # "none" \/ thread[Main] = "ready")

(***************************************************************************)
(* A process that sleeps wakes up, as long as the application goes on      *)
(* calling Host::Work and the program lets every tick end.                 *)
(***************************************************************************)
Sleeping(p)  == op[p].kind = "SLEEP"
SleepersWake == []<>Idle => \A p \in Proc : Sleeping(p) ~> ~Sleeping(p)

(***************************************************************************)
(* An ALT with a time guard does not wait for ever for its channels        *)
(* (op_alt.cpp:206-236): its time comes although the clock jumps over it   *)
(* or has passed it when the ALT begins, although the operation is below   *)
(* others that hand the delta time on, and although Host::Work competes    *)
(* with writers and with closed channels for the choice of the case.       *)
(***************************************************************************)
Timed(p) ==
  /\ op[p].kind = "ALT" /\ op[p].caseTriggered = 0
  /\ \E i \in DOMAIN op[p].cases :
       i # op[p].nilCase /\ op[p].cases[i].channel = NoChan /\ op[p].cases[i].time >= 0
AltsExpire == []<>Idle => \A p \in Proc : Timed(p) ~> ~Timed(p)

----------------------------------------------------------------------------
(***************************************************************************)
(* The channels, the writers and the readers implement the abstract        *)
(* rendezvous.  A process whose coroutine is left suspended without an     *)
(* operation has been terminated.                                          *)
(***************************************************************************)
Living      == {p \in Proc : /\ thread[p] # "free"
                             /\ ~(thread[p] = "yield" /\ op[p].kind = "none")}
OfferOf(o)  == IF o.kind = "OUT" THEN o.arguments ELSE NoArgs
Received(o) == o.kind \in {"IN", "RANGE", "ALT"} /\ o.argumentsMoved
InboxOf(o)  == IF Received(o) THEN o.arguments ELSE NoArgs
Targets(p)  == {c \in Chan : attachOut[c] = p}
WaitsOn(p)  == {c \in Chan : attachIn[c] = p}

R == INSTANCE Rendezvous WITH
  None    <- NoArgs,
  alive   <- Living,
  offer   <- [p \in Proc |-> OfferOf(op[p])],
  target  <- [p \in Proc |-> Targets(p)],
  waiting <- [p \in Proc |-> WaitsOn(p)],
  inbox   <- [p \in Proc |-> InboxOf(op[p])],
  closed  <- {c \in Chan : isClosed[c]}

(* Each step of LuaCSP is a step of the abstract rendezvous or leaves it as it is. *)
ImplementsRendezvous == R!Spec
============================================================================
