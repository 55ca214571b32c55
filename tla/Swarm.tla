------------------------------- MODULE Swarm -------------------------------
(***************************************************************************)
(* Swarms (swarm.cpp): swarm:MAIN() blocks its process in an operation     *)
(* that never finishes, swarm:go(f1, ..., fn) hands it closures to run.    *)
(* The closures that were started (m_pClosuresHead) and those still to be  *)
(* started (m_pClosuresToRunHead) are one sequence, closureToRun says how  *)
(* many of them belong to the first list.                                  *)
(***************************************************************************)
EXTENDS LuaCSP

CONSTANTS
  Swarms,   \* the swarm objects
  NoSwarm   \* the NULL swarm pointer

ASSUME SwarmAssumption == NoSwarm \notin Swarms

VARIABLES
  opMain,   \* Swarm::m_pOpMain, as the process of the operation
  swarm,    \* OpSwarmMain::m_pSwarm
  tail      \* the MAIN whose Evaluate waits for StartEvaluation to return

swarmVars == <<opMain, swarm, tail>>
allVars   == <<vars, swarmVars>>

SwarmInit ==
  /\ Init
  /\ opMain = [s \in Swarms |-> NoProc]
  /\ swarm = [p \in Proc |-> NoSwarm]
  /\ tail = NoProc

IsMain(p)      == op[p].kind = "MAIN"
StartedOf(o)   == SubSeq(o.closures, 1, o.closureToRun)
ToRun(o)       == SubSeq(o.closures, o.closureToRun + 1, Len(o.closures))

----------------------------------------------------------------------------
(***************************************************************************)
(* swarm:MAIN().  The pointer to an earlier MAIN of the swarm is replaced  *)
(* unchecked; programs that do this are those with "twice" in Calls.       *)
(***************************************************************************)
MainInit(p) ==
  /\ InLua(p, "MAIN")
  /\ \E s \in Swarms :
       /\ opMain[s] = NoProc \/ "twice" \in Calls
       /\ opMain' = [opMain EXCEPT ![s] = p]
       /\ swarm' = [swarm EXCEPT ![p] = s]
  /\ Yield(p, [NoOp EXCEPT !.kind = "MAIN"])
  /\ thread' = [thread EXCEPT ![p] = "yield"]
  /\ UNCHANGED <<parent, tail, chanVars>>

(* Mutants of MainToWake: the process of MAIN is pushed anyway; or never. *)
MainAlways(m) == <<m>>
MainNever(m)  == <<>>

MainToWake(m) == IF isOnStack[m] THEN <<>> ELSE <<m>>

(***************************************************************************)
(* swarm:go(f1, ..., fn), from the Lua code of any process.  Without a     *)
(* MAIN it raises an error (LuaError).                                     *)
(***************************************************************************)
Go(p) ==
  /\ InLua(p, "go")
  /\ \E s \in Swarms, n \in 0 .. MaxClosures : \E new \in [1 .. n -> Free] :
       LET m == opMain[s] IN
       /\ m # NoProc /\ Injective(new)
       /\ op' = [op EXCEPT ![m].closures = @ \o new]
       /\ thread' = [q \in Proc |-> IF q \in Range(new) THEN "ready" ELSE thread[q]]
       /\ parent' = [q \in Proc |-> IF q \in Range(new) THEN m ELSE parent[q]]
       /\ PushEvalSteps("none", stack, isOnStack, MainToWake(m))
  /\ UNCHANGED <<running, result, hostVars, chanVars, swarmVars>>

----------------------------------------------------------------------------
(* Mutant of Ended: all that do not run. *)
EndedOrNew(o)   == {k \in Range(o.closures) : ~IsRunning(k)}

(* CheckFinished looks at the closures that were started only. *)
Ended(o) == {k \in Range(StartedOf(o)) : ~IsRunning(k)}

(* Mutant of Collect: the list keeps pointing to what was deleted. *)
CollectDangling(p, gone) ==
  /\ op' = [q \in Proc |-> IF q \in gone THEN NoOp ELSE op[q]]
  /\ thread' = [q \in Proc |-> IF q \in gone THEN "free" ELSE thread[q]]
  /\ parent' = [q \in Proc |-> IF q \in gone THEN NoProc ELSE parent[q]]
  /\ UNCHANGED <<running, result, hostVars, failed, chanVars>>

(***************************************************************************)
(* CheckFinished: the closures that have ended are destroyed, those that   *)
(* stay keep their order.                                                  *)
(***************************************************************************)
Collected(o, gone) ==
  [o EXCEPT !.closures = Without(@, gone),
            !.closureToRun = WritePos(o.closures, gone, @)]

Collect(p, gone) ==
  /\ op' = [q \in Proc |-> IF q = p THEN Collected(op[p], gone)
                           ELSE IF q \in gone THEN NoOp ELSE op[q]]
  /\ thread' = [q \in Proc |-> IF q \in gone THEN "free" ELSE thread[q]]
  /\ parent' = [q \in Proc |-> IF q \in gone THEN NoProc ELSE parent[q]]
  /\ UNCHANGED <<running, result, hostVars, failed, chanVars>>

(***************************************************************************)
(* OpSwarmMain::Evaluate: start the next closure and come back if it is    *)
(* not the last; with nothing to start, collect what has ended.            *)
(***************************************************************************)
StartNext(p) ==
  LET o    == op[p]
      next == o.closureToRun + 1
  IN
  /\ ToRun(o) # <<>>
  /\ StartEvaluation(p, [o EXCEPT !.closureToRun = next], o.closures[next],
                     NoArgs, IF next < Len(o.closures) THEN <<p>> ELSE <<>>,
                     "none")
  /\ tail' = p
  /\ UNCHANGED chanVars

EvalMain(p) ==
  /\ Evaluating(p) /\ IsMain(p) /\ tail = NoProc
  /\ \/ StartNext(p)
     \/ /\ ToRun(op[p]) = <<>>
        /\ Collect(p, Ended(op[p]))
        /\ stack' = Popped
        /\ isOnStack' = PoppedFlags
        /\ UNCHANGED tail
  /\ UNCHANGED <<opMain, swarm>>

(***************************************************************************)
(* The end of Evaluate after StartEvaluation: the Lua code of the closure  *)
(* has run up to its first operation, or to its end, and may have called   *)
(* go on this very swarm.                                                  *)
(***************************************************************************)
EndEvalMain ==
  /\ failed = "none" /\ running = NoProc /\ tail # NoProc
  /\ Collect(tail, Ended(op[tail]))
  /\ tail' = NoProc
  /\ UNCHANGED <<stack, isOnStack, opMain, swarm>>

(* OpSwarmMain::Work: the closures that run, the oldest first. *)
MainWork(p) == Without(StartedOf(op[p]), Ended(op[p]))

WorkMain(p) ==
  /\ Working(p) /\ IsMain(p)
  /\ work' = MainWork(p) \o Tail(work)
  /\ UNCHANGED <<thread, parent, op, stack, isOnStack, running, result,
                 dt, time, failed, chanVars, swarmVars>>

----------------------------------------------------------------------------
(* Mutant of EndMains: the swarm keeps pointing to the operation. *)
KeepMains == UNCHANGED <<opMain, swarm>>

(***************************************************************************)
(* OpSwarmMain::Terminate clears the pointer of its swarm, whichever MAIN  *)
(* it points to.                                                           *)
(***************************************************************************)
Terminated == {p \in Proc : IsMain(p) /\ op'[p].kind # "MAIN"}

EndMains ==
  /\ opMain' = [s \in Swarms |-> IF \E p \in Terminated : swarm[p] = s
                                 THEN NoProc ELSE opMain[s]]
  /\ swarm' = [p \in Proc |-> IF p \in Terminated THEN NoSwarm ELSE swarm[p]]

(* What the rest of LuaCSP does meanwhile; Lua code only before EndEvalMain. *)
OtherStep ==
  /\ running # NoProc \/ tail = NoProc
  /\ Next
  /\ EndMains
  /\ UNCHANGED tail

SwarmNext ==
  \/ OtherStep
  \/ EndEvalMain
  \/ \E p \in Proc : MainInit(p) \/ Go(p) \/ EvalMain(p) \/ WorkMain(p)

SwarmSpec == SwarmInit /\ [][SwarmNext]_allVars

(* The C++ code does not stop by itself, the application calls Host::Work. *)
SwarmCpp ==
  \/ running = NoProc /\ tail = NoProc /\ CppStep /\ EndMains /\ UNCHANGED tail
  \/ EndEvalMain
  \/ \E p \in Proc : EvalMain(p) \/ WorkMain(p)
SwarmWork     == tail = NoProc /\ HostWork /\ UNCHANGED <<chanVars, swarmVars>>
SwarmFairSpec == SwarmSpec /\ WF_allVars(SwarmCpp) /\ WF_allVars(SwarmWork)

----------------------------------------------------------------------------
(* Every variable has its type. *)
SwarmTypeOK ==
  /\ TypeOK
  /\ opMain \in [Swarms -> Proc \cup {NoProc}]
  /\ swarm \in [Proc -> Swarms \cup {NoSwarm}]
  /\ tail \in Proc \cup {NoProc}

AtRest == Idle /\ tail = NoProc

(***************************************************************************)
(* No wake-up is lost with swarms either: when the evaluator comes to rest *)
(* every closure given to go has been started and every one that has ended *)
(* has been collected, so a swarm that lives on does not grow              *)
(* (swarm.cpp:126-157, 186-187).                                           *)
(***************************************************************************)
SwarmBlocked(p) ==
  IF IsMain(p) THEN ToRun(op[p]) = <<>> /\ \A k \in Children(p) : IsRunning(k)
               ELSE Blocked(p)

NoLostGo == AtRest => \A p \in Proc : thread[p] = "yield" => SwarmBlocked(p)

(***************************************************************************)
(* For programs that start one MAIN on a swarm: the raw pointer from the   *)
(* swarm to the operation (swarm.h:39) never dangles, and a MAIN that runs *)
(* is the one its swarm points to, so that go finds it: "MAIN isn't        *)
(* started for this Swarm." (swarm.cpp:49) is raised only when it is not.  *)
(***************************************************************************)
SwarmPointsToMain ==
  \A s \in Swarms, p \in Proc : opMain[s] = p <=> IsMain(p) /\ swarm[p] = s

(***************************************************************************)
(* Sleeps that end in the same tick end in the order of the closures of a  *)
(* PAR, but in the reverse of the order in which closures were given to go *)
(* (tests/lua/par.lua:11-29; op_par.cpp:90, swarm.cpp:118): Host::Work     *)
(* meets the closures of a PAR from the last to the first, those of a MAIN *)
(* from the first to the last, and the stack turns that around.            *)
(***************************************************************************)
Below(p) == {p} \cup Descendants(p)

WokenBefore(p, q) ==
  \E r \in Proc : \E i, j \in DOMAIN op[r].closures :
    /\ IF IsMain(r) THEN i > j ELSE i < j
    /\ p \in Below(op[r].closures[i]) /\ q \in Below(op[r].closures[j])

WakeOrder ==
  \A i, j \in DOMAIN stack :
    LET p == stack[i]
        q == stack[j]
    IN  i < j /\ op[p].finished /\ op[q].finished => WokenBefore(q, p)

(***************************************************************************)
(* "fire-and-forget style" (LuaCSP.qbk:370): a closure given to go leaves  *)
(* the list of those to run by being started, unless its MAIN ends; a      *)
(* closure that has not started does not look like one that has ended      *)
(* (swarm.cpp:132).                                                        *)
(***************************************************************************)
LeftToRun ==
  [][\A m, k \in Proc :
       IsMain(m) /\ op'[m].kind = "MAIN" /\ k \in Range(ToRun(op[m]))
       => k \in Range(ToRun(op'[m])) \/ running' = k]_allVars
============================================================================
