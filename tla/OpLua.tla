------------------------------- MODULE OpLua -------------------------------
(***************************************************************************)
(* Operations written in Lua (op_lua.cpp).  Their methods Work,            *)
(* PushResults and Terminate are called in the midst of the C++ code: of   *)
(* the delivery of delta time, of the end of an operation, of the          *)
(* termination of a subtree.  They cannot yield (LuaCSP.qbk:541-543) but   *)
(* they may close a channel, and they may fail.  This module also has the  *)
(* program that calls coroutine.yield itself, and composes the extensions  *)
(* with LuaCSP.                                                            *)
(***************************************************************************)
EXTENDS CppChannel

extVars == <<vars, cppVars>>
ExtInit == Init /\ CppInit

(***************************************************************************)
(* Channel::Close as a method calls it; NoChan stands for a method that    *)
(* closes nothing.  The operations of the processes in gone are being      *)
(* terminated with the caller: what Close pushes of them is removed from   *)
(* the stack again.                                                        *)
(***************************************************************************)
Unless(p, gone) == IF p = NoProc \/ p \in gone THEN <<>> ELSE <<p>>

AttachedTo(c, gone) ==
  IF c = NoChan THEN <<>> ELSE Unless(attachIn[c], gone) \o Unless(attachOut[c], gone)

ClosedOps(c) ==
  [p \in Proc |-> IF c = NoChan THEN op[p]
                  ELSE IF p = attachIn[c] THEN CloseInput(op[p], c)
                  ELSE IF p = attachOut[c] THEN CloseArguments(op[p])
                  ELSE op[p]]

MarkClosed(c) == isClosed' = [d \in Chan |-> isClosed[d] \/ d = c]

DetachFrom(c, gone) ==
  /\ attachIn' = [d \in Chan |-> IF d = c \/ attachIn[d] \in gone THEN NoProc
                                                                  ELSE attachIn[d]]
  /\ attachOut' = [d \in Chan |-> IF d = c \/ attachOut[d] \in gone THEN NoProc
                                                                    ELSE attachOut[d]]

MayClose == IF "close" \in Calls THEN Chan \cup {NoChan} ELSE {NoChan}

----------------------------------------------------------------------------
LuaInit(p) ==
  /\ InLua(p, "LUA")
  /\ Yield(p, [NoOp EXCEPT !.kind = "LUA"])
  /\ thread' = [thread EXCEPT ![p] = "yield"]
  /\ UNCHANGED <<parent, chanVars, cppVars>>

(***************************************************************************)
(* OpLua::Work.  It yields, or it finishes: because it says so, because it *)
(* fails, because it does not exist or answers nothing that is a number.   *)
(***************************************************************************)
WorkLua(p) ==
  /\ Working(p) /\ op[p].kind = "LUA"
  /\ \E c \in MayClose, finish \in BOOLEAN :
       /\ op' = [ClosedOps(c) EXCEPT ![p].finished = finish]
       /\ PushEvalSteps("none", stack, isOnStack, AttachedTo(c, {}) \o (IF finish THEN <<p>> ELSE <<>>))
       /\ MarkClosed(c) /\ DetachFrom(c, {})
  /\ work' = Tail(work)
  /\ UNCHANGED <<thread, parent, running, result, dt, time, cppVars>>

(* PushResults is called while the operation still is the process's. *)
EvalLua(p) ==
  /\ Evaluating(p) /\ op[p].kind = "LUA"
  /\ \/ ~op[p].finished /\ KeepWaiting /\ UNCHANGED chanVars
     \/ /\ op[p].finished
        /\ \E c \in MayClose :
             /\ op' = [ClosedOps(c) EXCEPT ![p] = NoOp]
             /\ PushEvalSteps("none", Popped, PoppedFlags, AttachedTo(c, {}))
             /\ MarkClosed(c) /\ DetachFrom(c, {})
        /\ thread' = [thread EXCEPT ![p] = "running"]
        /\ running' = p
        /\ result' = NoResult
        /\ UNCHANGED <<parent, hostVars>>
  /\ UNCHANGED cppVars

(* Mutant of Outside: what is closed is pushed though it is terminated too. *)
NobodyGone(gone) == {}
Outside(gone)    == gone

(***************************************************************************)
(* The end of a PARWHILE that terminates operations written in Lua, whose  *)
(* Terminate closes a channel: siblings that wait on it are terminated     *)
(* before or after, other processes are woken.                             *)
(***************************************************************************)
TerminateLua(p) ==
  LET gone == Descendants(p)
      kept == Without(Popped, {q \in gone : PoppedFlags[q]})
      end(q) == q = p \/ q \in gone
  IN
  /\ Evaluating(p) /\ op[p].kind = "PARWHILE"
  /\ op[p].closures # <<>> /\ FirstEnded(p)
  /\ \E q \in gone : op[q].kind = "LUA"
  /\ \E c \in MayClose \ {NoChan} :
       /\ PushEvalSteps("none", kept, [q \in Proc |-> PoppedFlags[q] /\ q \notin gone],
                        AttachedTo(c, Outside(gone)))
       /\ op' = [q \in Proc |-> IF end(q) THEN NoOp ELSE ClosedOps(c)[q]]
       /\ MarkClosed(c) /\ DetachFrom(c, gone)
  /\ thread' = [q \in Proc |-> IF q = p THEN "running"
                               ELSE IF q \in gone THEN "free" ELSE thread[q]]
  /\ parent' = [q \in Proc |-> IF q \in gone THEN NoProc ELSE parent[q]]
  /\ running' = p
  /\ result' = NoResult
  /\ UNCHANGED <<hostVars, count>>

----------------------------------------------------------------------------
(***************************************************************************)
(* The program calls coroutine.yield itself: Resume answers YIELD, and     *)
(* without an operation nothing is pushed (process.cpp:113).               *)
(***************************************************************************)
RawYield(p) ==
  /\ InLua(p, "yield")
  /\ thread' = [thread EXCEPT ![p] = "yield"]
  /\ running' = NoProc
  /\ result' = NoResult
  /\ UNCHANGED <<parent, op, stack, isOnStack, hostVars, failed, chanVars, cppVars>>

ExtNext ==
  /\ dangling = {}
  /\ \/ Next /\ OneWriter /\ dangling' = LeftBehind /\ UNCHANGED count
     \/ \E p \in Proc :
          \/ CppCall(p) /\ OneWriter
          \/ CppStepOf(p) \/ LuaInit(p) \/ WorkLua(p) \/ EvalLua(p) \/ RawYield(p)
          \/ TerminateLua(p) /\ dangling' = LeftBehind

ExtSpec == ExtInit /\ [][ExtNext]_extVars

----------------------------------------------------------------------------
(* Every variable has its type. *)
ExtTypeOK == TypeOK /\ count \in [Proc -> 0 .. MaxCount] /\ dangling \subseteq Chan

(***************************************************************************)
(* No wake-up is lost with the extensions: when the evaluator rests a C++  *)
(* output is attached if it has anything to send, an operation in Lua has  *)
(* not finished, and only a coroutine that its own program has suspended   *)
(* waits without an operation, or a main process that was terminated.      *)
(***************************************************************************)
ExtBlocked(p) ==
  CASE op[p].kind = "CPPOUT" -> ~op[p].finished /\ (count[p] > 0 => attachOut[op[p].channel] = p)
    [] op[p].kind = "LUA"    -> ~op[p].finished
    [] op[p].kind = "none"   -> "yield" \in Calls \/ Blocked(p)
    [] OTHER                 -> Blocked(p)

NoLostExtWakeup ==
  Idle /\ dangling = {} => \A p \in Proc : thread[p] = "yield" => ExtBlocked(p)
============================================================================
