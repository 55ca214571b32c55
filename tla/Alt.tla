-------------------------------- MODULE Alt --------------------------------
(***************************************************************************)
(* ALT (op_alt.cpp): attached to several channels at once, it is triggered *)
(* by the first of its cases that is ready, runs the closure of that case  *)
(* in a process of its own, and finishes with it.                          *)
(***************************************************************************)
EXTENDS Par

Closure(p) == op[p].closures[1]

(***************************************************************************)
(* ALT(g1, f1, ..., gn, fn).  CheckArgs refuses a channel that has a       *)
(* reader and a second nil before anything changes; such a call raises an  *)
(* error in the program (LuaError).                                        *)
(***************************************************************************)
CheckArgs(guards) ==
  /\ \A i \in DOMAIN guards :
       guards[i].channel # NoChan => ~InAttached(guards[i].channel)
  /\ \A i, j \in DOMAIN guards : guards[i] = NilGuard /\ guards[j] = NilGuard => i = j

AltOp(guards, k) ==
  [NoOp EXCEPT
     !.kind = "ALT", !.closures = <<k>>,
     !.cases = [i \in 1 .. Len(guards) |->
                  [channel |-> guards[i].channel, time |-> guards[i].time,
                   closure |-> TRUE]],
     !.nilCase = IF NilGuard \in Range(guards)
                 THEN FirstOf({i \in DOMAIN guards : guards[i] = NilGuard}) ELSE 0]

AltInit(p) ==
  /\ InLua(p, "ALT")
  /\ \E guards \in AltForms, k \in Free :
       /\ CheckArgs(guards)
       /\ \A i \in DOMAIN guards :
            guards[i].channel # NoChan => MayUse(guards[i].channel)
       /\ attachIn' = [c \in Chan |-> IF \E i \in DOMAIN guards : guards[i].channel = c
                                      THEN p ELSE attachIn[c]]
       /\ thread' = [thread EXCEPT ![p] = "yield", ![k] = "null"]
       /\ Yield(p, AltOp(guards, k))
  /\ UNCHANGED <<parent, attachOut, isClosed>>

----------------------------------------------------------------------------
(***************************************************************************)
(* A case is triggered without arguments: the nil case or an expired time. *)
(***************************************************************************)
Trigger(p, i, stk, flags) ==
  /\ op' = [op EXCEPT ![p].caseTriggered = i, ![p].argumentsMoved = TRUE]
  /\ attachIn' = Detached(p)
  /\ PushEvalSteps("none", stk, flags, <<p>>)
  /\ UNCHANGED <<thread, parent, running, result, attachOut, isClosed>>

(* Mutant: the nil case only. *)
ReadyNil(o) == {i \in DOMAIN o.cases : i = o.nilCase}

Ready(o) ==
  {i \in DOMAIN o.cases :
     \/ i = o.nilCase
     \/ o.cases[i].channel # NoChan /\ OutAttached(o.cases[i].channel)}

AllCasesClosed(o) ==
  \A i \in DOMAIN o.cases :
    i # o.nilCase /\ o.cases[i].channel = NoChan /\ o.cases[i].time < 0

(* SelectChannelProcessToTrigger: the topmost case that is ready. *)
SelectChannel(p) ==
  LET o     == op[p]
      first == FirstOf(Ready(o))
  IN
  \/ /\ Ready(o) # {} /\ first = o.nilCase
     /\ Trigger(p, first, Popped, PoppedFlags)
     /\ UNCHANGED hostVars
  \/ /\ Ready(o) # {} /\ first # o.nilCase
     /\ Communicate(o.cases[first].channel, p)
     /\ UNCHANGED <<thread, parent, running, result, hostVars, isClosed>>
  \/ /\ Ready(o) = {} /\ AllCasesClosed(o)
     /\ FinishOperation(p, NoResult)
     /\ UNCHANGED chanVars
  \/ /\ Ready(o) = {} /\ ~AllCasesClosed(o)
     /\ KeepWaiting
     /\ UNCHANGED chanVars

(***************************************************************************)
(* StartTriggeredProcess: the closure is called with the arguments that    *)
(* came over the channel, then all references are dropped.                 *)
(***************************************************************************)
Unreferenced(o) ==
  [o EXCEPT !.arguments = NoArgs,
            !.cases = [i \in DOMAIN o.cases |->
                         [o.cases[i] EXCEPT !.channel = NoChan, !.closure = FALSE]]]

(* Mutant of Started: m_argumentsMoved stays set. *)
StillMoved(o) == Unreferenced(o)
Started(o)    == [Unreferenced(o) EXCEPT !.argumentsMoved = FALSE]

StartTriggered(p) ==
  LET o == op[p] IN
  /\ StartEvaluation(p, Started(o), Closure(p), o.arguments, <<>>,
                     IF o.cases[o.caseTriggered].closure THEN "none" ELSE "no_closure")
  /\ UNCHANGED chanVars

EvalAlt(p) ==
  LET o == op[p] IN
  /\ Evaluating(p) /\ o.kind = "ALT"
  /\ \/ o.caseTriggered = 0 /\ SelectChannel(p)
     \/ o.caseTriggered # 0 /\ o.argumentsMoved /\ StartTriggered(p)
     \/ /\ o.caseTriggered # 0 /\ ~o.argumentsMoved
        /\ IF IsRunning(Closure(p)) THEN KeepWaiting
                                    ELSE FinishOperation(p, NoResult)
        /\ UNCHANGED chanVars

----------------------------------------------------------------------------
(***************************************************************************)
(* OpAlt::Work.  A closed case has neither a channel nor a time, its       *)
(* m_time is -1: SelectTimeProcessToTrigger takes it for an expired one.   *)
(***************************************************************************)
ExpiredNow(o) ==      \* a mutant: the clock must stand at the time of the case
  {i \in DOMAIN o.cases :
     i # o.nilCase /\ o.cases[i].channel = NoChan /\ o.cases[i].time = time}
Expired(o) ==
  {i \in DOMAIN o.cases :
     i # o.nilCase /\ o.cases[i].channel = NoChan /\ o.cases[i].time <= time}

Earliest(o) ==
  FirstOf({i \in Expired(o) :
             \A j \in Expired(o) : o.cases[i].time <= o.cases[j].time})

WorkAlt(p) ==
  LET o == op[p] IN
  /\ Working(p) /\ o.kind = "ALT"
  /\ \/ /\ o.caseTriggered # 0
        /\ work' = IF IsRunning(Closure(p)) THEN <<Closure(p)>> \o Tail(work)
                                            ELSE Tail(work)
        /\ UNCHANGED <<thread, parent, op, stack, isOnStack, running, result,
                       failed, chanVars>>
     \/ /\ o.caseTriggered = 0 /\ Expired(o) # {}
        /\ Trigger(p, Earliest(o), stack, isOnStack)
        /\ work' = Tail(work)
     \/ /\ o.caseTriggered = 0 /\ Expired(o) = {}
        /\ work' = Tail(work)
        /\ UNCHANGED <<thread, parent, op, stack, isOnStack, running, result,
                       failed, chanVars>>
  /\ UNCHANGED <<dt, time>>

============================================================================
