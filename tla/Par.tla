-------------------------------- MODULE Par --------------------------------
(***************************************************************************)
(* PAR and PARWHILE (op_par.cpp), and the termination of a process with    *)
(* everything below it (Process::Terminate and the Terminate of the        *)
(* operations).                                                            *)
(***************************************************************************)
EXTENDS Channel

Injective(s) == \A i, j \in DOMAIN s : s[i] = s[j] => i = j

(***************************************************************************)
(* PAR(f1, ..., fn) and PARWHILE(f1, ..., fn): a process with a coroutine  *)
(* of its own for every closure.                                           *)
(***************************************************************************)
ParInit(p, kind) ==
  /\ InLua(p, kind)
  /\ \E n \in 0 .. MaxClosures : \E closures \in [1 .. n -> Free] :
       /\ Injective(closures)
       /\ thread' = [q \in Proc |-> IF q = p THEN "yield"
                                    ELSE IF q \in Range(closures) THEN "ready"
                                    ELSE thread[q]]
       /\ parent' = [q \in Proc |-> IF q \in Range(closures) THEN p
                                                             ELSE parent[q]]
       /\ Yield(p, [NoOp EXCEPT !.kind = kind, !.closures = closures])
  /\ UNCHANGED chanVars

(***************************************************************************)
(* OpPar::Evaluate while a closure has not been started: start the next    *)
(* one, and come back if it is not the last.                               *)
(***************************************************************************)
StartClosure(p) ==
  LET o    == op[p]
      next == o.closureToRun + 1
  IN
  /\ next \in DOMAIN o.closures
  /\ StartEvaluation(p, [o EXCEPT !.closureToRun = next], o.closures[next],
                     NoArgs, IF next < Len(o.closures) THEN <<p>> ELSE <<>>,
                     "none")
  /\ UNCHANGED chanVars

(* OpPar::CheckFinished, when all closures have been started. *)
CheckFinished(p) == \A k \in Children(p) : ~IsRunning(k)

AllStarted(p) == op[p].closureToRun = Len(op[p].closures)

EvalPar(p) ==
  /\ Evaluating(p) /\ op[p].kind = "PAR"
  /\ \/ StartClosure(p)
     \/ /\ AllStarted(p) /\ CheckFinished(p)
        /\ FinishOperation(p, NoResult)
        /\ UNCHANGED chanVars
     \/ /\ AllStarted(p) /\ ~CheckFinished(p)
        /\ KeepWaiting
        /\ UNCHANGED chanVars

----------------------------------------------------------------------------
(* Mutant of Descendants: only the closures themselves are terminated. *)
OnlyChildren(p) == Children(p)

(***************************************************************************)
(* Process::Terminate reaches every process below p, and the deletion of   *)
(* their operations destroys them: they are detached from the channels and *)
(* removed from the stack.                                                 *)
(***************************************************************************)
Closed(S)      == \A q \in S : Children(q) \subseteq S
Descendants(p) ==
  {q \in Proc : \A S \in SUBSET Proc :
                  Children(p) \subseteq S /\ Closed(S) => q \in S}

(* Mutant: OpChannelOut::Terminate does not reset the attachment. *)
DetachInputs(S) ==
  /\ attachIn' = [c \in Chan |-> IF attachIn[c] \in S THEN NoProc
                                                      ELSE attachIn[c]]
  /\ UNCHANGED <<attachOut, isClosed>>

DetachAll(S) ==
  /\ attachIn' = [c \in Chan |-> IF attachIn[c] \in S THEN NoProc
                                                      ELSE attachIn[c]]
  /\ attachOut' = [c \in Chan |-> IF attachOut[c] \in S THEN NoProc
                                                        ELSE attachOut[c]]
  /\ UNCHANGED isClosed

(* PARWHILE ends with its first closure and takes the others with it. *)
EndParWhile(p) ==
  LET gone == Descendants(p) IN
  /\ Resume(p, NoResult, gone,
            Without(Popped, {q \in gone : PoppedFlags[q]}), PoppedFlags)
  /\ DetachAll(gone)

FirstEnded(p) == op[p].closureToRun > 0 /\ ~IsRunning(op[p].closures[1])

EvalParWhile(p) ==
  /\ Evaluating(p) /\ op[p].kind = "PARWHILE"
  /\ \/ /\ op[p].closures = <<>>
        /\ FinishOperation(p, NoResult)
        /\ UNCHANGED chanVars
     \/ /\ op[p].closures # <<>> /\ FirstEnded(p)
        /\ EndParWhile(p)
     \/ /\ op[p].closures # <<>> /\ ~FirstEnded(p)
        /\ StartClosure(p)
     \/ /\ op[p].closures # <<>> /\ ~FirstEnded(p) /\ AllStarted(p)
        /\ KeepWaiting
        /\ UNCHANGED chanVars

(* Mutants: the first closure first; without the last one that was started. *)
FirstToLast(p)    == SubSeq(op[p].closures, 1, op[p].closureToRun)
WithoutNewest(p)  == Reverse(SubSeq(op[p].closures, 1, op[p].closureToRun - 1))

(* OpPar::Work: the closures that were started, the last one first. *)
LastToFirst(p) == Reverse(SubSeq(op[p].closures, 1, op[p].closureToRun))

WorkPar(p) ==
  /\ Working(p) /\ op[p].kind \in ParKinds
  /\ work' = LastToFirst(p) \o Tail(work)
  /\ UNCHANGED <<thread, parent, op, stack, isOnStack, running, result,
                 dt, time, failed, chanVars>>

(* Host::TerminateMain, between two calls of Host::Work. *)
TerminateMain ==
  LET gone == Descendants(Main) IN
  /\ Idle /\ IsRunning(Main) /\ op[Main].kind # "none" /\ "terminate" \in Calls
  /\ op' = [q \in Proc |-> IF q = Main \/ q \in gone THEN NoOp ELSE op[q]]
  /\ thread' = [q \in Proc |-> IF q \in gone THEN "free" ELSE thread[q]]
  /\ parent' = [q \in Proc |-> IF q \in gone THEN NoProc ELSE parent[q]]
  /\ isOnStack' = [q \in Proc |-> isOnStack[q] /\ q \notin gone]
  /\ DetachAll(gone \cup {Main})
  /\ UNCHANGED <<stack, running, result, hostVars, failed>>

ParCall(p)     == \E kind \in ParKinds : ParInit(p, kind)
ParEvaluate(p) == EvalPar(p) \/ EvalParWhile(p)
============================================================================
