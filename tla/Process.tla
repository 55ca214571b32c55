------------------------------ MODULE Process ------------------------------
(***************************************************************************)
(* The evaluator of LuaCSP: csp::Process (a Lua coroutine with the         *)
(* operation it is blocked in), csp::Host's stack of evaluation steps, and *)
(* the base class csp::Operation with its simplest subclass, SLEEP.        *)
(*                                                                         *)
(* Everything runs on one thread of the operating system.  At any moment   *)
(* the host is either executing the Lua code of one process (`running'),   *)
(* or delivering delta time down the tree of processes (`work'), or        *)
(* popping processes from `stack' and evaluating them, or idle between two *)
(* calls of Host::Work.  Each handler that runs between two of these       *)
(* points is one action.                                                   *)
(*                                                                         *)
(* The debug build is modelled: a CORE_ASSERT that does not hold stops the *)
(* program.  `failed' then names the assertion and no action is enabled;   *)
(* the other variables of such a state are not meaningful.                 *)
(***************************************************************************)
EXTENDS Integers, FiniteSets, SequencesExt

CONSTANTS
  Proc,         \* the process objects; the pool bounds how many exist at once
  Main,         \* Host::m_mainProcess
  NoProc,       \* the NULL process pointer
  Chan,         \* the channel objects
  NoChan,       \* the NULL channel pointer
  Val,          \* what the Lua programs send: argument lists of OUT
  NoArgs,       \* CSP_NO_ARGS, or the empty argument list of a closed channel
  StackSize,    \* CHANNEL_STACK_SIZE
  MaxClosures,  \* bound: closures of one PAR or PARWHILE
  Seconds,      \* the arguments programs give to SLEEP
  Ticks,        \* the delta times of Host::Work
  MaxTime,      \* bound: Host::m_time stays there once it is reached
  AltForms,     \* the argument lists programs give to ALT
  Calls         \* the calls programs make

(***************************************************************************)
(* A guard of ALT: a channel, an absolute time, or nil.                    *)
(***************************************************************************)
ChanGuard(c) == [channel |-> c, time |-> -1]
TimeGuard(t) == [channel |-> NoChan, time |-> t]
NilGuard     == [channel |-> NoChan, time |-> -1]
Guard        == [channel : Chan \cup {NoChan}, time : {-1} \cup Nat]

ASSUME ProcessAssumption ==
  /\ IsFiniteSet(Proc) /\ Main \in Proc /\ NoProc \notin Proc
  /\ NoChan \notin Chan
  /\ NoArgs \notin Val
  /\ StackSize \in Nat \ {0}
  /\ MaxClosures \in Nat /\ MaxTime \in Nat
  /\ Seconds \subseteq Int
  /\ Ticks \subseteq Nat \ {0}
  /\ AltForms \subseteq Seq(Guard)

VARIABLES
  thread,     \* Process::m_luaThread: the status of its coroutine
  parent,     \* Process::m_parentProcess
  op,         \* Process::m_operation
  stack,      \* Host::m_evalStepsStack up to m_evalStepsStackTop
  isOnStack,  \* Process::m_isOnStack
  running,    \* the process whose Lua code executes, NoProc in C++ code
  result,     \* what the Lua code of `running' was resumed with
  work,       \* the calls of Process::Work that are still to be made
  dt,         \* the delta time of the current Host::Work
  time,       \* Host::m_time
  failed      \* the CORE_ASSERT that stopped the program

hostVars == <<work, dt, time>>
procVars == <<thread, parent, op, stack, isOnStack, running, result,
              work, dt, time, failed>>

----------------------------------------------------------------------------
(***************************************************************************)
(* Types.  "free" is a process object that does not exist, "null" one that *)
(* has no coroutine yet (ALT's), "ready" one whose closure has not started.*)
(***************************************************************************)
ThreadStatus == {"free", "null", "ready", "running", "yield", "dead", "error"}
ChannelKinds == {"IN", "RANGE", "OUT"}
ParKinds     == {"PAR", "PARWHILE"}
OpKinds      == {"none", "SLEEP", "ALT", "MAIN", "CPPOUT", "LUA"} \cup ChannelKinds \cup ParKinds
Failures     == {"none", "stack_full", "on_stack", "channel_ref",
                 "arguments_set", "not_attached", "no_closure",
                 "closure_on_stack"}

AltCase == [channel : Chan \cup {NoChan}, time : {-1} \cup Nat,
            closure : BOOLEAN]

(***************************************************************************)
(* The members of the subclasses of Operation, those that a subclass does  *)
(* not have at their default.  ALT's single m_process is in `closures'.    *)
(***************************************************************************)
Operation ==
  [kind : OpKinds, finished : BOOLEAN, seconds : Int,
   channel : Chan \cup {NoChan}, arguments : Val \cup {NoArgs},
   argumentsMoved : BOOLEAN,
   closures : Seq(Proc), closureToRun : Nat,
   cases : Seq(AltCase), nilCase : Nat, caseTriggered : Nat]

NoOp ==
  [kind |-> "none", finished |-> FALSE, seconds |-> 0,
   channel |-> NoChan, arguments |-> NoArgs, argumentsMoved |-> FALSE,
   closures |-> <<>>, closureToRun |-> 0,
   cases |-> <<>>, nilCase |-> 0, caseTriggered |-> 0]

Result   == [flag : {"none", "true", "nil"}, arguments : Val \cup {NoArgs}]
NoResult == [flag |-> "none", arguments |-> NoArgs]

ProcessTypeOK ==
  /\ thread \in [Proc -> ThreadStatus]
  /\ parent \in [Proc -> Proc \cup {NoProc}]
  /\ op \in [Proc -> Operation]
  /\ stack \in Seq(Proc)
  /\ isOnStack \in [Proc -> BOOLEAN]
  /\ running \in Proc \cup {NoProc}
  /\ result \in Result
  /\ work \in Seq(Proc)
  /\ dt \in Nat
  /\ time \in Nat
  /\ failed \in Failures

ProcessInit ==
  /\ thread = [p \in Proc |-> IF p = Main THEN "ready" ELSE "free"]
  /\ parent = [p \in Proc |-> NoProc]
  /\ op = [p \in Proc |-> NoOp]
  /\ stack = <<>>
  /\ isOnStack = [p \in Proc |-> FALSE]
  /\ running = NoProc
  /\ result = NoResult
  /\ work = <<>>
  /\ dt = 0
  /\ time = 0
  /\ failed = "none"

----------------------------------------------------------------------------
(***************************************************************************)
(* Helpers.                                                                *)
(***************************************************************************)
Free        == {p \in Proc : thread[p] = "free"}
Children(p) == Range(op[p].closures)

IsRunning(p) == op[p].kind # "none" \/ thread[p] \in {"null", "yield"}

(* Lua code of p executes and may make the call named `call'. *)
InLua(p, call) == failed = "none" /\ running = p /\ call \in Calls

(* Host::Evaluate has the control, and p is what PopEvalStep returns. *)
Evaluating(p) ==
  /\ failed = "none" /\ running = NoProc /\ work = <<>>
  /\ stack # <<>> /\ p = Last(stack)

Popped == Front(stack)

(* Mutant: PopEvalStep forgets SetIsOnStack( false ). *)
FlagsKept   == isOnStack
PoppedFlags == [isOnStack EXCEPT ![Last(stack)] = FALSE]

(* Process::Work is called for p. *)
Working(p) == failed = "none" /\ work # <<>> /\ p = Head(work)

(* Between two calls of Host::Work. *)
Idle == failed = "none" /\ running = NoProc /\ work = <<>> /\ stack = <<>>

(***************************************************************************)
(* The assertion that the pushes of the processes in ps, in that order,    *)
(* on the stack stk run into.                                              *)
(***************************************************************************)
PushError(stk, flags, ps) ==
  IF \/ \E i \in DOMAIN ps : flags[ps[i]]
     \/ \E i, j \in DOMAIN ps : i # j /\ ps[i] = ps[j]
  THEN "on_stack"
  ELSE IF Len(stk) + Len(ps) > StackSize THEN "stack_full" ELSE "none"

(***************************************************************************)
(* PushEvalStep for each process of ps, unless the assertion `asserted'    *)
(* (or none) has stopped the handler before.                               *)
(***************************************************************************)
PushEvalSteps(asserted, stk, flags, ps) ==
  LET error == IF asserted = "none" THEN PushError(stk, flags, ps)
                                    ELSE asserted
  IN  /\ failed' = error
      /\ stack' = IF error = "none" THEN stk \o ps ELSE stk
      /\ isOnStack' = IF error = "none"
                      THEN [p \in Proc |-> flags[p] \/ p \in Range(ps)]
                      ELSE flags

(* Mutant of Without: the entries are cleared, not closed up. *)
Cleared(stk, S) == [i \in DOMAIN stk |-> IF stk[i] \in S THEN NoProc ELSE stk[i]]

(***************************************************************************)
(* Host::RemoveProcessFromStack for every process of S: the entries that   *)
(* stay keep their order; the entry at writePos j is the one before which  *)
(* (itself included) j entries stay.                                       *)
(***************************************************************************)
Kept(stk, S)         == {i \in DOMAIN stk : stk[i] \notin S}
WritePos(stk, S, i)  == Cardinality({k \in Kept(stk, S) : k <= i})
Without(stk, S) ==
  [j \in 1 .. Cardinality(Kept(stk, S)) |->
     stk[CHOOSE i \in Kept(stk, S) : WritePos(stk, S, i) = j]]

----------------------------------------------------------------------------
(* Mutant of Yield: a writer relies on being evaluated by its reader. *)
YieldUnlessOut(p, o) ==
  /\ op' = [op EXCEPT ![p] = o]
  /\ PushEvalSteps("none", stack, isOnStack, IF o.kind = "OUT" THEN <<>> ELSE <<p>>)
  /\ running' = NoProc
  /\ result' = NoResult
  /\ UNCHANGED hostVars

(***************************************************************************)
(* Process::Evaluate, its end when Resume returns: the Lua code of p has   *)
(* called an operation and yields with it ...                              *)
(***************************************************************************)
Yield(p, o) ==
  /\ op' = [op EXCEPT ![p] = o]
  /\ PushEvalSteps("none", stack, isOnStack, <<p>>)
  /\ running' = NoProc
  /\ result' = NoResult
  /\ UNCHANGED hostVars

(* Mutants: the parent is pushed whether it is on the stack or not; or never. *)
ParentAlways(p) == IF parent[p] # NoProc THEN <<parent[p]>> ELSE <<>>
ParentNever(p)  == <<>>

(***************************************************************************)
(* ... or has ended, by a return or by an error, and the parent is to look *)
(* at its closures, unless it will anyway.                                 *)
(***************************************************************************)
ParentToWake(p) ==
  IF parent[p] # NoProc /\ ~isOnStack[parent[p]] THEN <<parent[p]>> ELSE <<>>

End(p, status) ==
  /\ thread' = [thread EXCEPT ![p] = status]
  /\ PushEvalSteps("none", stack, isOnStack, ParentToWake(p))
  /\ running' = NoProc
  /\ result' = NoResult
  /\ UNCHANGED <<parent, op, hostVars>>

Return(p)   == InLua(p, "return") /\ End(p, "dead")
LuaError(p) == InLua(p, "error") /\ End(p, "error")

(***************************************************************************)
(* Process::Evaluate when the operation of p is finished: PushResults,     *)
(* DeleteOperation (its closures are destroyed with it) and Resume.  gone  *)
(* are the processes destroyed, stk and flags the stack they leave.        *)
(***************************************************************************)
Resume(p, results, gone, stk, flags) ==
  /\ failed' = IF Range(stk) \cap Children(p) # {} THEN "closure_on_stack"
                                                   ELSE "none"
  /\ stack' = stk
  /\ isOnStack' = [q \in Proc |-> flags[q] /\ q \notin gone]
  /\ thread' = [q \in Proc |-> IF q = p THEN "running"
                               ELSE IF q \in gone THEN "free" ELSE thread[q]]
  /\ parent' = [q \in Proc |-> IF q \in gone THEN NoProc ELSE parent[q]]
  /\ op' = [q \in Proc |-> IF q = p \/ q \in gone THEN NoOp ELSE op[q]]
  /\ running' = p
  /\ result' = results
  /\ UNCHANGED hostVars

(* Mutant: the closures outlive the operation. *)
LeaveClosures(p, results) == Resume(p, results, {}, Popped, PoppedFlags)

FinishOperation(p, results) ==
  Resume(p, results, Children(p), Popped, PoppedFlags)

(* Mutant: the process stays on the stack. *)
LookAgain ==
  UNCHANGED <<thread, parent, op, stack, isOnStack, running, result, hostVars,
              failed>>

(* Operation::Evaluate answers YIELD and has changed nothing. *)
KeepWaiting ==
  /\ stack' = Popped
  /\ isOnStack' = PoppedFlags
  /\ UNCHANGED <<thread, parent, op, running, result, hostVars, failed>>

(***************************************************************************)
(* Process::StartEvaluation of the closure k, whose operation record o     *)
(* belongs to p; ps is what p has pushed before, args what k is called     *)
(* with.  `asserted' is the state of the assertions of StartEvaluation.    *)
(***************************************************************************)
StartEvaluation(p, o, k, args, ps, asserted) ==
  /\ PushEvalSteps(asserted, Popped, PoppedFlags, ps)
  /\ op' = [op EXCEPT ![p] = o]
  /\ thread' = [thread EXCEPT ![k] = "running"]
  /\ parent' = [parent EXCEPT ![k] = p]
  /\ running' = k
  /\ result' = [NoResult EXCEPT !.arguments = args]
  /\ UNCHANGED hostVars

----------------------------------------------------------------------------
(***************************************************************************)
(* OpSleep, from the call to the end of the sleep.                         *)
(***************************************************************************)
Sleep(p) ==
  /\ InLua(p, "SLEEP")
  /\ \E seconds \in Seconds :
       Yield(p, [NoOp EXCEPT !.kind = "SLEEP", !.seconds = seconds])
  /\ thread' = [thread EXCEPT ![p] = "yield"]
  /\ UNCHANGED parent

EvalSleep(p) ==
  /\ Evaluating(p) /\ op[p].kind = "SLEEP"
  /\ IF op[p].finished THEN FinishOperation(p, NoResult) ELSE KeepWaiting

WorkSleep(p) ==
  LET left == op[p].seconds - dt IN
  /\ Working(p) /\ op[p].kind = "SLEEP"
  /\ op' = [op EXCEPT ![p].seconds = left, ![p].finished = (left <= 0)]
  /\ PushEvalSteps("none", stack, isOnStack,
                   IF left <= 0 THEN <<p>> ELSE <<>>)
  /\ work' = Tail(work)
  /\ UNCHANGED <<thread, parent, running, result, dt, time>>

(***************************************************************************)
(* Process::Work without an operation (a closure that has ended), and of   *)
(* an operation that does not depend on time.                              *)
(***************************************************************************)
WorkNothing(p) ==
  /\ Working(p) /\ op[p].kind \in {"none"} \cup ChannelKinds
  /\ work' = Tail(work)
  /\ UNCHANGED <<thread, parent, op, stack, isOnStack, running, result,
                 dt, time, failed>>

----------------------------------------------------------------------------
(***************************************************************************)
(* Host::Main starts the function main; Host::Work advances the clock and  *)
(* hands the delta time to the main process.                               *)
(***************************************************************************)
HostMain ==
  /\ failed = "none" /\ thread[Main] = "ready"
  /\ thread' = [thread EXCEPT ![Main] = "running"]
  /\ running' = Main
  /\ UNCHANGED <<parent, op, stack, isOnStack, result, hostVars, failed>>

HostWork ==
  /\ Idle /\ IsRunning(Main)
  /\ \E d \in Ticks :
       /\ dt' = d
       /\ time' = IF time + d > MaxTime THEN MaxTime ELSE time + d
  /\ work' = <<Main>>
  /\ UNCHANGED <<thread, parent, op, stack, isOnStack, running, result, failed>>

ProcessCall(p)     == Return(p) \/ LuaError(p) \/ Sleep(p)
ProcessEvaluate(p) == EvalSleep(p)
ProcessWork(p)     == WorkSleep(p) \/ WorkNothing(p)
============================================================================
