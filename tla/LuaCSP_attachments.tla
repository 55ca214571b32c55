------------------------- MODULE LuaCSP_attachments -------------------------
(***************************************************************************)
(* The raw pointers from channels to operations, for every size and every  *)
(* program that closes no channel, or whose ALTs name no channel twice:    *)
(* they point to all that waits on the channel and to nothing else.        *)
(***************************************************************************)
EXTENDS LuaCSP_proofs

(* No call of ALT names a channel in two of its guards. *)
NoChannelTwice ==
  \A guards \in AltForms : \A i, j \in DOMAIN guards :
    guards[i].channel \in Chan /\ guards[i].channel = guards[j].channel => i = j

(* An operation has at most one case for a channel that may be closed. *)
OneCase(o) ==
  "close" \in Calls => \A i, j \in DOMAIN o.cases :
    o.cases[i].channel \in Chan /\ o.cases[i].channel = o.cases[j].channel => i = j

(* What waits for input on a channel is what the channel points to. *)
PointedTo ==
  /\ \A p \in Proc : op[p].kind = "ALT" => OneCase(op[p])
  /\ \A c \in Chan, p \in Proc : WaitsIn(p, c) => attachIn[c] = p

----------------------------------------------------------------------------
(***************************************************************************)
(* The shapes of the steps, for this module and for all that follow.       *)
(***************************************************************************)
(* A call of the Lua code: the process that makes it goes on or hands over. *)
LEMMA LuaTurn ==
  ASSUME NEW p \in Proc, LuaStep(p)
  PROVE  /\ failed = "none" /\ running = p
         /\ work' = work /\ running' \in {p, NoProc}
<1> QED
  BY DEF LuaStep, ProcessCall, ChannelCall, ParCall, Return, LuaError, End, Sleep,
         In, Out, Busy, Close, ParInit, AltInit, InLua, Yield, hostVars

(* A turn of the evaluator: the process on top of the stack is evaluated. *)
LEMMA EvaluateTurn ==
  ASSUME NEW p \in Proc, EvaluateStep(p)
  PROVE  Evaluating(p) /\ work' = work
<1>1. CASE EvalSleep(p) \/ EvalIn(p) \/ EvalOut(p) \/ EvalPar(p)
  BY <1>1 DEF EvalSleep, EvalIn, EvalOut, EvalPar, FinishOperation, KeepWaiting,
              StartClosure, StartEvaluation, Resume, hostVars
<1>2. CASE EvalParWhile(p)
  BY <1>2 DEF EvalParWhile, FinishOperation, KeepWaiting, EndParWhile,
              StartClosure, StartEvaluation, Resume, hostVars
<1>3. CASE EvalAlt(p)
  BY <1>3 DEF EvalAlt, FinishOperation, KeepWaiting, StartTriggered, SelectChannel,
              StartEvaluation, Resume, hostVars
<1> QED
  BY <1>1, <1>2, <1>3 DEF EvaluateStep, ProcessEvaluate, ChannelEvaluate, ParEvaluate

(* A call of Process::Work starts no Lua code. *)
LEMMA WorkTurn ==
  ASSUME NEW p \in Proc, WorkStep(p)
  PROVE  Working(p) /\ UNCHANGED <<thread, parent, running, result, dt, time>>
<1> QED
  BY DEF WorkStep, ProcessWork, WorkSleep, WorkNothing, WorkPar, WorkAlt, Trigger

(***************************************************************************)
(* What a turn of the loop of Host::Evaluate does to the process on top of *)
(* the stack, whatever operation it is in: it leaves it waiting, it        *)
(* finishes its operation, it ends a PARWHILE, it starts a closure, it     *)
(* lets two processes communicate or it triggers an ALT.                   *)
(***************************************************************************)
StillWaits(p) ==
  LET o == op[p] IN
  \/ o.kind = "SLEEP" /\ ~o.finished
  \/ o.kind \in {"IN", "RANGE"} /\ ~o.argumentsMoved /\ ~OutAttached(o.channel)
  \/ o.kind = "OUT" /\ ~o.argumentsMoved /\ ~InAttached(o.channel)
  \/ o.kind = "PAR" /\ AllStarted(p) /\ ~CheckFinished(p)
  \/ o.kind = "PARWHILE" /\ o.closures # <<>> /\ ~FirstEnded(p) /\ AllStarted(p)
  \/ o.kind = "ALT" /\ o.caseTriggered = 0 /\ Ready(o) = {} /\ ~AllCasesClosed(o)
  \/ o.kind = "ALT" /\ o.caseTriggered # 0 /\ ~o.argumentsMoved /\ IsRunning(Closure(p))

Finishes(p) ==
  LET o == op[p] IN
  \/ o.kind = "SLEEP" /\ o.finished
  \/ o.kind \in ChannelKinds /\ o.argumentsMoved
  \/ o.kind = "PAR" /\ AllStarted(p) /\ CheckFinished(p)
  \/ o.kind = "PARWHILE" /\ o.closures = <<>>
  \/ o.kind = "ALT" /\ o.caseTriggered = 0 /\ Ready(o) = {} /\ AllCasesClosed(o)
  \/ o.kind = "ALT" /\ o.caseTriggered # 0 /\ ~o.argumentsMoved /\ ~IsRunning(Closure(p))

(* The partner p waits for on channel c is there; p is who looks. *)
Meets(p, c, reader) ==
  \/ WaitsIn(p, c) /\ OutAttached(c) /\ reader = p
  \/ OffersOn(p, c) /\ attachOut[c] = p /\ InAttached(c) /\ reader = attachIn[c]

(* For an ALT, c is the channel of the topmost case that is ready. *)
Chosen(o, c) ==
  LET first == FirstOf(Ready(o)) IN
  o.kind = "ALT" => Ready(o) # {} /\ first # o.nilCase /\ o.cases[first].channel = c

Nothing(p) == KeepWaiting /\ UNCHANGED chanVars /\ StillWaits(p)

Ends(p) ==
  /\ \E results \in Result : FinishOperation(p, results)
  /\ UNCHANGED chanVars /\ Finishes(p)

Communicates(p) ==
  /\ \E c \in Chan, reader \in Proc :
       Meets(p, c, reader) /\ Chosen(op[p], c) /\ Communicate(c, reader)
  /\ UNCHANGED <<thread, parent, running, result, work, dt, time, isClosed>>

TakesNil(p) ==
  LET o == op[p]
      i == o.nilCase
  IN  /\ o.kind = "ALT" /\ o.caseTriggered = 0
      /\ i = FirstOf(Ready(o)) /\ i \in Ready(o)
      /\ Trigger(p, i, Popped, PoppedFlags) /\ UNCHANGED hostVars

(* The ready cases of an ALT and the first of them. *)
LEMMA ReadyFacts ==
  ASSUME IInv, NEW p \in Proc
  PROVE  /\ op[p].cases \in Seq(AltCase) /\ DOMAIN op[p].cases \subseteq Nat \ {0}
         /\ Ready(op[p]) \subseteq DOMAIN op[p].cases
         /\ Ready(op[p]) # {} => /\ FirstOf(Ready(op[p])) \in Ready(op[p])
                                 /\ \A j \in Ready(op[p]) : FirstOf(Ready(op[p])) <= j
         /\ \A i \in DOMAIN op[p].cases : op[p].cases[i] \in AltCase
<1>1. op[p].cases \in Seq(AltCase)
  BY DEF IInv, TypeOK, ProcessTypeOK, Operation
<1>2. /\ DOMAIN op[p].cases \subseteq Nat \ {0}
      /\ \A i \in DOMAIN op[p].cases : op[p].cases[i] \in AltCase
  BY <1>1, LenProperties, ElementOfSeq
<1>3. Ready(op[p]) \subseteq DOMAIN op[p].cases
  BY DEF Ready
<1>4. Ready(op[p]) \in SUBSET Nat
  BY <1>2, <1>3
<1> QED
  BY <1>1, <1>2, <1>3, <1>4, FirstOfIsLeast

LEMMA EvaluateShape ==
  ASSUME IInv, NEW p \in Proc, EvaluateStep(p)
  PROVE  \/ Nothing(p) \/ Ends(p) \/ Communicates(p) \/ TakesNil(p)
         \/ op[p].kind = "PARWHILE" /\ op[p].closures # <<>> /\ FirstEnded(p) /\ EndParWhile(p)
         \/ op[p].kind = "PAR" /\ StartClosure(p)
         \/ op[p].kind = "PARWHILE" /\ op[p].closures # <<>> /\ ~FirstEnded(p) /\ StartClosure(p)
         \/ /\ op[p].kind = "ALT" /\ op[p].caseTriggered # 0 /\ op[p].argumentsMoved
            /\ StartTriggered(p)
<1>0. NoResult \in Result /\ op[p] \in Operation
  BY TypeFacts DEF IInv, TypeOK, ProcessTypeOK
<1>1. CASE EvalSleep(p) /\ UNCHANGED chanVars
  BY <1>0, <1>1 DEF EvalSleep, Nothing, StillWaits, Ends, Finishes
<1>2. CASE EvalIn(p)
  <2>1. op[p].kind \in {"IN", "RANGE"} /\ op[p].channel \in Chan
    BY <1>2 DEF EvalIn, IInv, OnChannel, ChannelKinds
  <2>2. CASE op[p].argumentsMoved
    <3>1. \E results \in Result : FinishOperation(p, results)
      <4>1. [flag |-> IF op[p].kind = "IN" THEN "none"
                      ELSE IF isClosed[op[p].channel] THEN "nil" ELSE "true",
             arguments |-> op[p].arguments] \in Result
        BY <1>0 DEF Result, Operation
      <4> QED
        BY <1>2, <2>2, <4>1 DEF EvalIn
    <3> QED
      BY <1>2, <2>1, <2>2, <3>1 DEF EvalIn, Ends, Finishes, ChannelKinds, chanVars
  <2>3. CASE ~op[p].argumentsMoved /\ OutAttached(op[p].channel)
    <3>1. Meets(p, op[p].channel, p) /\ Chosen(op[p], op[p].channel)
      BY <2>1, <2>3 DEF Meets, WaitsIn, Chosen
    <3> QED
      BY <1>2, <2>1, <2>3, <3>1 DEF EvalIn, Communicates, hostVars
  <2>4. CASE ~op[p].argumentsMoved /\ ~OutAttached(op[p].channel)
    BY <1>2, <2>4 DEF EvalIn, Nothing, StillWaits, chanVars
  <2> QED
    BY <2>2, <2>3, <2>4
<1>3. CASE EvalOut(p)
  <2>1. op[p].kind = "OUT" /\ op[p].channel \in Chan
    BY <1>3 DEF EvalOut, IInv, OnChannel, ChannelKinds
  <2>2. CASE op[p].argumentsMoved
    BY <1>0, <1>3, <2>1, <2>2 DEF EvalOut, Ends, Finishes, ChannelKinds, chanVars
  <2>3. CASE ~op[p].argumentsMoved /\ InAttached(op[p].channel)
    <3>1. OffersOn(p, op[p].channel) /\ attachOut[op[p].channel] = p
      BY <2>1, <2>3 DEF OffersOn, IInv, Attached
    <3>2. PICK reader \in Proc : reader = attachIn[op[p].channel]
      BY <2>1, <2>3 DEF InAttached, IInv, TypeOK, ChannelTypeOK
    <3>3. Meets(p, op[p].channel, reader) /\ Chosen(op[p], op[p].channel)
      BY <2>1, <2>3, <3>1, <3>2 DEF Meets, Chosen
    <3> QED
      BY <1>3, <2>1, <2>3, <3>2, <3>3 DEF EvalOut, Communicates, hostVars
  <2>4. CASE ~op[p].argumentsMoved /\ ~InAttached(op[p].channel)
    BY <1>3, <2>4 DEF EvalOut, Nothing, StillWaits, chanVars
  <2> QED
    BY <2>2, <2>3, <2>4
<1>4. CASE EvalPar(p)
  BY <1>0, <1>4 DEF EvalPar, Nothing, StillWaits, Ends, Finishes
<1>5. CASE EvalParWhile(p)
  BY <1>0, <1>5 DEF EvalParWhile, Nothing, StillWaits, Ends, Finishes
<1>6. CASE EvalAlt(p)
  <2> DEFINE first == FirstOf(Ready(op[p]))
  <2>1. CASE op[p].caseTriggered = 0 /\ Ready(op[p]) # {} /\ first = op[p].nilCase
    BY <1>6, <2>1, ReadyFacts DEF EvalAlt, SelectChannel, TakesNil
  <2>2. CASE op[p].caseTriggered = 0 /\ Ready(op[p]) # {} /\ first # op[p].nilCase
    <3>1. PICK c \in Chan : c = op[p].cases[first].channel /\ OutAttached(c)
      BY <2>2, ReadyFacts DEF Ready, AltCase
    <3>2. Meets(p, c, p) /\ Chosen(op[p], c)
      BY <1>6, <2>2, <3>1, ReadyFacts DEF EvalAlt, Meets, WaitsIn, CasesFor, Chosen
    <3> QED
      BY <1>6, <2>2, <3>1, <3>2 DEF EvalAlt, SelectChannel, Communicates, hostVars
  <2>3. CASE op[p].caseTriggered = 0 /\ Ready(op[p]) = {}
    BY <1>0, <1>6, <2>3
       DEF EvalAlt, SelectChannel, Nothing, StillWaits, Ends, Finishes
  <2>4. CASE op[p].caseTriggered # 0
    BY <1>0, <1>6, <2>4 DEF EvalAlt, Nothing, StillWaits, Ends, Finishes
  <2> QED
    BY <2>1, <2>2, <2>3, <2>4
<1> QED
  BY <1>1, <1>2, <1>3, <1>4, <1>5, <1>6
     DEF EvaluateStep, ProcessEvaluate, ChannelEvaluate, ParEvaluate

(* An ALT is triggered by nil or by time. *)
LEMMA TriggerFacts ==
  ASSUME IInv, NEW p \in Proc, NEW i, op[p].kind = "ALT",
         NEW stk, NEW flags, Trigger(p, i, stk, flags)
  PROVE  /\ \A q \in Proc \ {p} : op'[q] = op[q]
         /\ op'[p].kind = "ALT" /\ op'[p].caseTriggered = i /\ op'[p].argumentsMoved
         /\ op'[p].cases = op[p].cases /\ op'[p].closures = op[p].closures
         /\ op'[p].arguments = op[p].arguments
         /\ \A d \in Chan : attachIn'[d] = IF attachIn[d] = p THEN NoProc ELSE attachIn[d]
         /\ UNCHANGED <<thread, parent, running, result, attachOut, isClosed>>
<1>1. /\ op' = [op EXCEPT ![p].caseTriggered = i, ![p].argumentsMoved = TRUE]
      /\ attachIn' = Detached(p)
      /\ UNCHANGED <<thread, parent, running, result, attachOut, isClosed>>
  BY DEF Trigger
<1>2. op[p] \in Operation /\ op \in [Proc -> Operation]
  BY DEF IInv, TypeOK, ProcessTypeOK
<1>3. /\ \A q \in Proc \ {p} : op'[q] = op[q]
      /\ op'[p] = [op[p] EXCEPT !.caseTriggered = i, !.argumentsMoved = TRUE]
  BY <1>1, <1>2
<1>4. /\ op'[p].kind = "ALT" /\ op'[p].caseTriggered = i /\ op'[p].argumentsMoved
      /\ op'[p].cases = op[p].cases /\ op'[p].closures = op[p].closures
      /\ op'[p].arguments = op[p].arguments
  BY <1>2, <1>3 DEF Operation
<1>5. \A d \in Chan : attachIn'[d] = IF attachIn[d] = p THEN NoProc ELSE attachIn[d]
  <2>1. \A d \in Chan : attachIn[d] = p => d \in Attachable(op[p])
    BY DEF IInv, Attached, WaitsIn, Attachable, CasesFor
  <2> QED
    BY <1>1, <2>1 DEF Detached
<1> QED
  BY <1>1, <1>3, <1>4, <1>5

(* The operations of the modules that extend LuaCSP: none of its own steps begins one. *)
ForeignKinds == {"MAIN", "CPPOUT", "LUA"}

(* The Lua code of p begins operation o; the closures of o are new processes. *)
Begins(p, o) ==
  /\ running = p /\ failed = "none" /\ Yield(p, o)
  /\ o.kind \in {"SLEEP", "IN", "RANGE", "OUT", "PAR", "PARWHILE", "ALT"} \cup ForeignKinds
  /\ o.closureToRun = 0 /\ o.caseTriggered = 0
  /\ ~o.argumentsMoved /\ ~o.finished /\ (o.kind # "OUT" => o.arguments = NoArgs)
  /\ Range(o.closures) \subseteq Free /\ DOMAIN o.closures \subseteq Nat \ {0}
  /\ o.kind = "ALT" => "ALT" \in Calls /\ \A i \in DOMAIN o.cases : o.cases[i].closure
  /\ thread'[p] = "yield"
  /\ \A q \in Proc \ {p} :
       thread'[q] = IF q \notin Range(o.closures) THEN thread[q]
                    ELSE IF o.kind = "ALT" THEN "null" ELSE "ready"
  /\ \A q \in Proc :
       parent'[q] = IF o.kind \in Spawning /\ q \in Range(o.closures) THEN p ELSE parent[q]

(* What a call of the Lua code does. *)
LEMMA CallShape ==
  ASSUME IInv, NEW p \in Proc, LuaStep(p)
  PROVE  \/ \E o : Begins(p, o) /\ o.kind \notin ForeignKinds
         \/ \E status \in {"dead", "error"} : End(p, status)
         \/ Busy(p) \/ Close(p)
<1>0. running = p /\ failed = "none" /\ thread[p] = "running"
      /\ thread \in [Proc -> ThreadStatus]
  BY LuaTurn, RunningFacts DEF IInv, TypeOK, ProcessTypeOK
<1>1. CASE Sleep(p)
  <2>1. PICK seconds \in Seconds :
          Yield(p, [NoOp EXCEPT !.kind = "SLEEP", !.seconds = seconds])
    BY <1>1 DEF Sleep
  <2> DEFINE o == [NoOp EXCEPT !.kind = "SLEEP", !.seconds = seconds]
  <2>2. /\ o.kind = "SLEEP" /\ o.closureToRun = 0 /\ o.caseTriggered = 0 /\ o.closures = <<>>
        /\ ~o.argumentsMoved /\ ~o.finished /\ o.arguments = NoArgs
    BY DEF NoOp
  <2>3. /\ thread'[p] = "yield" /\ parent' = parent
        /\ \A q \in Proc \ {p} : thread'[q] = thread[q]
    BY <1>0, <1>1 DEF Sleep
  <2> HIDE DEF o
  <2>4. Begins(p, o) /\ o.kind \notin ForeignKinds
    BY <1>0, <2>1, <2>2, <2>3 DEF o, Begins, ForeignKinds, Range, ParKinds, Spawning
  <2> QED
    BY <2>4
<1>2. CASE Out(p) \/ \E kind \in {"IN", "RANGE"} : In(p, kind)
  <2>0. PICK kind \in {"IN", "RANGE", "OUT"} :
          \E c, args : /\ Yield(p, ChannelOp(kind, c, args))
                       /\ kind # "OUT" => args = NoArgs
    BY <1>2 DEF Out, In
  <2>1. PICK c, args : Yield(p, ChannelOp(kind, c, args)) /\ (kind # "OUT" => args = NoArgs)
    BY <2>0
  <2> DEFINE o == ChannelOp(kind, c, args)
  <2>2. /\ o.kind = kind /\ o.closureToRun = 0 /\ o.caseTriggered = 0 /\ o.closures = <<>>
        /\ ~o.argumentsMoved /\ ~o.finished /\ o.arguments = args
    BY DEF ChannelOp, NoOp
  <2>3. /\ thread'[p] = "yield" /\ parent' = parent
        /\ \A q \in Proc \ {p} : thread'[q] = thread[q]
    BY <1>0, <1>2 DEF Out, In
  <2> HIDE DEF o
  <2>4. Begins(p, o) /\ o.kind \notin ForeignKinds
    BY <1>0, <2>1, <2>2, <2>3 DEF o, Begins, ForeignKinds, Range, ParKinds, Spawning
  <2> QED
    BY <2>4
<1>3. ASSUME NEW kind \in ParKinds, ParInit(p, kind) PROVE \E o : Begins(p, o) /\ o.kind \notin ForeignKinds
  <2>1. PICK n \in 0 .. MaxClosures : \E closures \in [1 .. n -> Free] :
          /\ thread' = [q \in Proc |-> IF q = p THEN "yield"
                                       ELSE IF q \in Range(closures) THEN "ready"
                                       ELSE thread[q]]
          /\ parent' = [q \in Proc |-> IF q \in Range(closures) THEN p ELSE parent[q]]
          /\ Yield(p, [NoOp EXCEPT !.kind = kind, !.closures = closures])
    BY <1>3 DEF ParInit
  <2>2. PICK closures \in [1 .. n -> Free] :
          /\ thread' = [q \in Proc |-> IF q = p THEN "yield"
                                       ELSE IF q \in Range(closures) THEN "ready"
                                       ELSE thread[q]]
          /\ parent' = [q \in Proc |-> IF q \in Range(closures) THEN p ELSE parent[q]]
          /\ Yield(p, [NoOp EXCEPT !.kind = kind, !.closures = closures])
    BY <2>1
  <2> DEFINE o == [NoOp EXCEPT !.kind = kind, !.closures = closures]
  <2>3. /\ o.kind = kind /\ o.closureToRun = 0 /\ o.caseTriggered = 0 /\ o.closures = closures
        /\ ~o.argumentsMoved /\ ~o.finished /\ o.arguments = NoArgs
    BY DEF NoOp
  <2>4. /\ Range(closures) \subseteq Free /\ DOMAIN closures \subseteq Nat \ {0}
    BY ProcessAssumption DEF Range
  <2> HIDE DEF o
  <2>5. Begins(p, o) /\ o.kind \notin ForeignKinds
    BY <1>0, <2>2, <2>3, <2>4 DEF o, Begins, ForeignKinds, ParKinds, Spawning
  <2> QED
    BY <2>5
<1>4. CASE AltInit(p)
  <2>1. PICK guards \in AltForms, k \in Free :
          /\ thread' = [thread EXCEPT ![p] = "yield", ![k] = "null"]
          /\ Yield(p, AltOp(guards, k))
    BY <1>4 DEF AltInit
  <2> DEFINE o == AltOp(guards, k)
  <2>2. /\ o.kind = "ALT" /\ o.closureToRun = 0 /\ o.caseTriggered = 0 /\ o.closures = <<k>>
        /\ ~o.argumentsMoved /\ ~o.finished /\ o.arguments = NoArgs
        /\ \A i \in DOMAIN o.cases : o.cases[i].closure
    BY DEF AltOp, NoOp
  <2>3. Range(<<k>>) = {k} /\ DOMAIN <<k>> = {1} /\ k \in Proc /\ k # p
    BY <1>0, <2>1 DEF Range, Free
  <2>4. /\ thread'[p] = "yield" /\ parent' = parent
        /\ \A q \in Proc \ {p} : thread'[q] = IF q = k THEN "null" ELSE thread[q]
    BY <1>0, <1>4, <2>1, <2>3 DEF AltInit
  <2> HIDE DEF o
  <2>5. Begins(p, o) /\ o.kind \notin ForeignKinds
    BY <1>0, <1>4, <2>1, <2>2, <2>3, <2>4
       DEF o, Begins, ForeignKinds, ParKinds, Spawning, AltInit, InLua
  <2> QED
    BY <2>5
<1>5. CASE Return(p) \/ LuaError(p)
  BY <1>5 DEF Return, LuaError
<1> QED
  BY <1>1, <1>2, <1>3, <1>4, <1>5 DEF LuaStep, ProcessCall, ChannelCall, ParCall

(***************************************************************************)
(* A step leaves the operation of a process what it is, on the channel it  *)
(* was begun on, or ends it, or is the call that begins it.  Who goes on   *)
(* without an operation is resumed, but for a main that is terminated.     *)
(***************************************************************************)
SameKind(q) == op'[q].kind = op[q].kind /\ op'[q].channel = op[q].channel

KindStep(q) ==
  \/ SameKind(q)
  \/ op'[q].kind = "none" /\ (thread'[q] = "yield" => q = Main /\ "terminate" \in Calls)
  \/ \E o : Begins(q, o) /\ o.kind \notin ForeignKinds /\ op'[q] = o

LEMMA StepKinds ==
  ASSUME IInv, [Next]_vars, NEW q \in Proc
  PROVE  KindStep(q)
<1> USE DEF IInv, TypeOK, ProcessTypeOK
<1>0. NoOp.kind = "none" /\ op[q] \in Operation
  BY DEF NoOp
<1>1. CASE HostMain \/ HostWork \/ TerminateMain \/ UNCHANGED vars
  BY <1>0, <1>1 DEF HostMain, HostWork, TerminateMain, vars, procVars, KindStep, SameKind
<1>2. ASSUME NEW p \in Proc, LuaStep(p) PROVE KindStep(q)
  <2>1. CASE \E o : Begins(p, o) /\ o.kind \notin ForeignKinds
    BY <2>1, ZenonT(30) DEF Begins, Yield, KindStep, SameKind
  <2>2. CASE (\E status \in {"dead", "error"} : End(p, status)) \/ Busy(p)
    BY <2>2 DEF End, Busy, KindStep, SameKind
  <2>3. CASE Close(p)
    <3>1. PICK c \in Chan : op' = [r \in Proc |-> IF r = attachIn[c] THEN CloseInput(op[r], c)
                                         ELSE IF r = attachOut[c] THEN CloseArguments(op[r])
                                         ELSE op[r]]
      BY <2>3 DEF Close
    <3>2. /\ CloseArguments(op[q]).kind = op[q].kind
          /\ CloseArguments(op[q]).channel = op[q].channel
      BY <1>0, CloseArgumentsFacts
    <3>3. q = attachIn[c] => /\ CloseInput(op[q], c).kind = op[q].kind
                             /\ CloseInput(op[q], c).channel = op[q].channel
      BY CloseInputFacts
    <3> QED
      BY <3>1, <3>2, <3>3 DEF KindStep, SameKind
  <2> QED
    BY <1>2, <2>1, <2>2, <2>3, CallShape
<1>3. ASSUME NEW p \in Proc, EvaluateStep(p) PROVE KindStep(q)
  <2>1. CASE Nothing(p)
    BY <2>1 DEF Nothing, KeepWaiting, KindStep, SameKind
  <2>2. CASE Ends(p) \/ EndParWhile(p)
    BY <1>0, <2>2 DEF Ends, FinishOperation, EndParWhile, Resume, KindStep, SameKind
  <2>3. CASE Communicates(p)
    <3>1. PICK c \in Chan, reader \in Proc : Communicate(c, reader)
      BY <2>3 DEF Communicates
    <3>2. \A args : /\ MoveChannelArguments(op[q], c, args).kind = op[q].kind
                    /\ MoveChannelArguments(op[q], c, args).channel = op[q].channel
      BY <1>0 DEF MoveChannelArguments, Operation
    <3>3. /\ CloseArguments(op[q]).kind = op[q].kind
          /\ CloseArguments(op[q]).channel = op[q].channel
      BY <1>0, CloseArgumentsFacts
    <3>4. CASE UNCHANGED op
      BY <3>4 DEF KindStep, SameKind
    <3>5. ASSUME NEW a, NEW b, NEW args,
                 op' = [op EXCEPT ![a] = MoveChannelArguments(@, c, args),
                                  ![b] = CloseArguments(@)]
          PROVE  \/ op'[q] = op[q] \/ op'[q] = MoveChannelArguments(op[q], c, args)
                 \/ op'[q] = CloseArguments(op[q])
                 \/ op'[q] = CloseArguments(MoveChannelArguments(op[q], c, args))
      BY <3>5
    <3> QED
      BY <3>1, <3>2, <3>3, <3>4, <3>5 DEF Communicate, KindStep, SameKind
  <2>4. CASE TakesNil(p)
    <3>1. PICK i : op' = [op EXCEPT ![p].caseTriggered = i, ![p].argumentsMoved = TRUE]
      BY <2>4 DEF TakesNil, Trigger
    <3>2. op'[q] \in {op[q], [op[q] EXCEPT !.caseTriggered = i, !.argumentsMoved = TRUE]}
      BY <3>1
    <3> QED
      BY <1>0, <3>2 DEF Operation, KindStep, SameKind
  <2>5. CASE StartClosure(p)
    <3>1. PICK n : op' = [op EXCEPT ![p] = [op[p] EXCEPT !.closureToRun = n]]
      BY <2>5 DEF StartClosure, StartEvaluation
    <3>2. op'[q] \in {op[q], [op[q] EXCEPT !.closureToRun = n]}
      BY <3>1
    <3> QED
      BY <1>0, <3>2 DEF Operation, KindStep, SameKind
  <2>6. CASE StartTriggered(p)
    <3>1. op' = [op EXCEPT ![p] = Started(op[p])]
      BY <2>6 DEF StartTriggered, StartEvaluation
    <3>2. op'[q] \in {op[q], Started(op[q])}
      BY <3>1
    <3> QED
      BY <1>0, <3>2 DEF Operation, Started, Unreferenced, KindStep, SameKind
  <2> QED
    BY <1>3, <2>1, <2>2, <2>3, <2>4, <2>5, <2>6, EvaluateShape
<1>4. ASSUME NEW p \in Proc, WorkStep(p) PROVE KindStep(q)
  <2>1. CASE WorkSleep(p)
    <3>1. PICK left, done : op' = [op EXCEPT ![p].seconds = left, ![p].finished = done]
      BY <2>1 DEF WorkSleep
    <3>2. op'[q] \in {op[q], [op[q] EXCEPT !.seconds = left, !.finished = done]}
      BY <3>1
    <3> QED
      BY <1>0, <3>2 DEF Operation, KindStep, SameKind
  <2>2. CASE \E i : Trigger(p, i, stack, isOnStack)
    <3>1. PICK i : op' = [op EXCEPT ![p].caseTriggered = i, ![p].argumentsMoved = TRUE]
      BY <2>2 DEF Trigger
    <3>2. op'[q] \in {op[q], [op[q] EXCEPT !.caseTriggered = i, !.argumentsMoved = TRUE]}
      BY <3>1
    <3> QED
      BY <1>0, <3>2 DEF Operation, KindStep, SameKind
  <2>3. CASE UNCHANGED op
    BY <2>3 DEF KindStep, SameKind
  <2> QED
    BY <1>4, <2>1, <2>2, <2>3 DEF WorkStep, ProcessWork, WorkNothing, WorkPar, WorkAlt
<1> QED
  BY <1>1, <1>2, <1>3, <1>4 DEF Next

----------------------------------------------------------------------------
(***************************************************************************)
(* Steps in which no operation begins to wait: each operation stays as it  *)
(* is and attached, or it waits for no input any more.                     *)
(***************************************************************************)
LEMMA NoneBegins ==
  ASSUME PointedTo,
         \A q \in Proc :
           \/ op'[q] = op[q] /\ \A c \in Chan : attachIn[c] = q => attachIn'[c] = q
           \/ /\ \A c \in Chan : ~WaitsIn(q, c)'
              /\ op'[q].kind = "ALT" => OneCase(op'[q])
  PROVE  PointedTo'
<1>1. ASSUME NEW q \in Proc
      PROVE  /\ op'[q].kind = "ALT" => OneCase(op'[q])
             /\ \A c \in Chan : WaitsIn(q, c)' => attachIn'[c] = q
  <2>1. CASE op'[q] = op[q] /\ \A c \in Chan : attachIn[c] = q => attachIn'[c] = q
    <3>1. \A c \in Chan : WaitsIn(q, c)' => WaitsIn(q, c)
      BY <2>1 DEF WaitsIn, CasesFor
    <3> QED
      BY <2>1, <3>1 DEF PointedTo
  <2>2. CASE /\ \A c \in Chan : ~WaitsIn(q, c)'
             /\ op'[q].kind = "ALT" => OneCase(op'[q])
    BY <2>2
  <2> QED
    BY <2>1, <2>2
<1> QED
  BY <1>1 DEF PointedTo

(* The channels and the operations stay as they are. *)
LEMMA WaitingKept ==
  ASSUME PointedTo, UNCHANGED <<op, attachIn>>
  PROVE  PointedTo'
<1> QED
  BY NoneBegins

(* A process without an operation begins one that waits for no input. *)
LEMMA CallWaiting ==
  ASSUME IInv, PointedTo, NEW p \in Proc, NEW o,
         o.kind \notin {"IN", "RANGE", "ALT"}, Yield(p, o), UNCHANGED attachIn
  PROVE  PointedTo'
<1>1. \A q \in Proc : op'[q] = IF q = p THEN o ELSE op[q]
  BY DEF Yield, IInv, TypeOK, ProcessTypeOK
<1>2. \A c \in Chan : ~WaitsIn(p, c)'
  BY <1>1 DEF WaitsIn
<1> QED
  BY <1>1, <1>2, NoneBegins

(* SLEEP, OUT, PAR and PARWHILE begin. *)
LEMMA OtherCallWaiting ==
  ASSUME IInv, PointedTo, NEW p \in Proc,
         (Sleep(p) /\ UNCHANGED chanVars) \/ Out(p) \/ ParCall(p)
  PROVE  PointedTo'
<1>1. CASE Sleep(p) /\ UNCHANGED chanVars
  <2>1. PICK seconds \in Seconds :
          Yield(p, [NoOp EXCEPT !.kind = "SLEEP", !.seconds = seconds])
    BY <1>1 DEF Sleep
  <2>2. [NoOp EXCEPT !.kind = "SLEEP", !.seconds = seconds].kind = "SLEEP"
    BY DEF NoOp
  <2> QED
    BY <1>1, <2>1, <2>2, CallWaiting DEF chanVars
<1>2. CASE Out(p)
  <2>1. PICK c \in Chan, v \in Val : Yield(p, ChannelOp("OUT", c, v))
    BY <1>2 DEF Out
  <2>2. ChannelOp("OUT", c, v).kind = "OUT"
    BY DEF ChannelOp, NoOp
  <2> QED
    BY <1>2, <2>1, <2>2, CallWaiting DEF Out
<1>3. ASSUME NEW kind \in ParKinds, ParInit(p, kind) PROVE PointedTo'
  <2>1. PICK n \in 0 .. MaxClosures : \E closures \in [1 .. n -> Free] :
          Yield(p, [NoOp EXCEPT !.kind = kind, !.closures = closures])
    BY <1>3 DEF ParInit
  <2>2. PICK closures \in [1 .. n -> Free] :
          Yield(p, [NoOp EXCEPT !.kind = kind, !.closures = closures])
    BY <2>1
  <2>3. [NoOp EXCEPT !.kind = kind, !.closures = closures].kind \in ParKinds
    BY DEF NoOp
  <2> QED
    BY <1>3, <2>2, <2>3, CallWaiting DEF ParInit, chanVars, ParKinds, Spawning
<1> QED
  BY <1>1, <1>2, <1>3 DEF ParCall

(* IN and RANGE begin on a channel that has no reader, and become its reader. *)
LEMMA InWaiting ==
  ASSUME IInv, PointedTo, NEW p \in Proc, NEW kind \in {"IN", "RANGE"}, In(p, kind)
  PROVE  PointedTo'
<1>1. PICK c \in Chan : /\ attachIn[c] = NoProc
                        /\ attachIn' = [attachIn EXCEPT ![c] = p]
                        /\ Yield(p, ChannelOp(kind, c, NoArgs))
  BY DEF In, InAttached
<1> DEFINE o == ChannelOp(kind, c, NoArgs)
<1>2. o.kind = kind /\ o.channel = c
  BY DEF ChannelOp, NoOp
<1>3. \A q \in Proc : op'[q] = IF q = p THEN o ELSE op[q]
  BY <1>1 DEF Yield, IInv, TypeOK, ProcessTypeOK
<1>4. \A d \in Chan : attachIn'[d] = IF d = c THEN p ELSE attachIn[d]
  BY <1>1 DEF IInv, TypeOK, ChannelTypeOK
<1> HIDE DEF o
<1>5. ASSUME NEW q \in Proc
      PROVE  /\ op'[q].kind = "ALT" => OneCase(op'[q])
             /\ \A d \in Chan : WaitsIn(q, d)' => attachIn'[d] = q
  <2>1. CASE q = p
    BY <2>1, <1>2, <1>3, <1>4 DEF WaitsIn
  <2>2. CASE q # p
    <3>1. op'[q] = op[q]
      BY <2>2, <1>3
    <3>2. \A d \in Chan : WaitsIn(q, d)' => WaitsIn(q, d)
      BY <3>1 DEF WaitsIn, CasesFor
    <3> QED
      BY <3>1, <3>2, <1>1, <1>4, ProcessAssumption DEF PointedTo
  <2> QED
    BY <2>1, <2>2
<1> QED
  BY <1>5 DEF PointedTo

(* ALT begins: CheckArgs has made sure that no channel has a reader. *)
LEMMA AltInitWaiting ==
  ASSUME {"ALT", "close"} \subseteq Calls => NoChannelTwice, IInv, PointedTo, NEW p \in Proc, AltInit(p)
  PROVE  PointedTo'
<1>1. PICK guards \in AltForms, k \in Free :
        /\ CheckArgs(guards)
        /\ attachIn' = [c \in Chan |-> IF \E i \in DOMAIN guards : guards[i].channel = c
                                       THEN p ELSE attachIn[c]]
        /\ Yield(p, AltOp(guards, k))
  BY DEF AltInit
<1> DEFINE o == AltOp(guards, k)
<1>2. DOMAIN guards = 1 .. Len(guards)
  <2>1. guards \in Seq(Guard)
    BY ProcessAssumption
  <2> QED
    BY <2>1, LenProperties
<1>3. /\ DOMAIN o.cases = DOMAIN guards
      /\ \A i \in DOMAIN guards : o.cases[i].channel = guards[i].channel
  BY <1>2 DEF AltOp, NoOp
<1>4. \A q \in Proc : op'[q] = IF q = p THEN o ELSE op[q]
  BY <1>1 DEF Yield, IInv, TypeOK, ProcessTypeOK
<1> HIDE DEF o
<1>5. ASSUME NEW q \in Proc
      PROVE  /\ op'[q].kind = "ALT" => OneCase(op'[q])
             /\ \A d \in Chan : WaitsIn(q, d)' => attachIn'[d] = q
  <2>1. CASE q = p
    <3>1. OneCase(o)
      BY <1>3 DEF OneCase, NoChannelTwice, AltInit, InLua
    <3>2. \A d \in Chan : WaitsIn(q, d)' => CasesFor(o, d) # {} \/ o.kind \in {"IN", "RANGE"}
      BY <2>1, <1>4 DEF WaitsIn, CasesFor
    <3>3. o.kind = "ALT"
      BY DEF o, AltOp, NoOp
    <3>4. \A d \in Chan : CasesFor(o, d) # {} => attachIn'[d] = q
      BY <2>1, <1>1, <1>3 DEF CasesFor
    <3> QED
      BY <2>1, <3>1, <3>2, <3>3, <3>4, <1>4
  <2>2. CASE q # p
    <3>1. op'[q] = op[q]
      BY <2>2, <1>4
    <3>2. \A d \in Chan : WaitsIn(q, d)' => WaitsIn(q, d)
      BY <3>1 DEF WaitsIn, CasesFor
    <3>3. \A d \in Chan : attachIn[d] = q => attachIn'[d] = q
      BY <1>1, ProcessAssumption DEF CheckArgs, InAttached
    <3> QED
      BY <3>1, <3>2, <3>3 DEF PointedTo
  <2> QED
    BY <2>1, <2>2
<1> QED
  BY <1>5 DEF PointedTo

(* An ALT that waits for a channel that is closed waits for the others only. *)
LEMMA CloseOneCase ==
  ASSUME IInv, NEW c \in Chan, NEW q \in Proc, q = attachIn[c], op[q].kind = "ALT",
         "close" \in Calls, OneCase(op[q])
  PROVE  /\ CloseInput(op[q], c).kind = "ALT"
         /\ CloseInput(op[q], c).caseTriggered = op[q].caseTriggered
         /\ OneCase(CloseInput(op[q], c))
         /\ \A d \in Chan : CasesFor(CloseInput(op[q], c), d) # {} =>
              d # c /\ CasesFor(op[q], d) # {}
<1> DEFINE o == op[q]
           i == FindCaseForChannel(o, c)
           closed == [o.cases[i] EXCEPT !.channel = NoChan, !.closure = FALSE]
           cases == [o.cases EXCEPT ![i] = closed]
           new == CloseInput(o, c)
<1>1. o \in Operation
  BY DEF IInv, TypeOK, ProcessTypeOK
<1>2. /\ o.cases \in Seq(AltCase) /\ DOMAIN o.cases \subseteq Nat
      /\ \A j \in DOMAIN o.cases : o.cases[j] \in AltCase
  <2>1. o.cases \in Seq(AltCase)
    BY <1>1 DEF Operation
  <2> QED
    BY <2>1, LenProperties, ElementOfSeq
<1>3. i \in DOMAIN o.cases /\ o.cases[i].channel = c
  <2>1. CasesFor(o, c) # {} /\ CasesFor(o, c) \in SUBSET Nat
    BY <1>2 DEF IInv, Attached, WaitsIn, CasesFor
  <2>2. i \in CasesFor(o, c)
    BY <2>1, FirstOfIsLeast DEF FindCaseForChannel
  <2> QED
    BY <2>2 DEF CasesFor
<1>4. new = [o EXCEPT !.cases = cases]
  BY <1>1 DEF CloseInput, CloseCase, Operation
<1> HIDE DEF i, new
<1>5. closed.channel = NoChan
  BY <1>2, <1>3 DEF AltCase
<1> HIDE DEF closed
<1>6. /\ DOMAIN cases = DOMAIN o.cases /\ cases[i] = closed
      /\ \A j \in DOMAIN o.cases \ {i} : cases[j] = o.cases[j]
  BY <1>2, <1>3
<1> HIDE DEF cases
<1>7. new.cases = cases /\ new.kind = "ALT" /\ new.caseTriggered = o.caseTriggered
  BY <1>1, <1>4 DEF Operation
<1>8. OneCase(new)
  BY <1>5, <1>6, <1>7, ProcessAssumption DEF OneCase
<1>9. \A d \in Chan : CasesFor(new, d) # {} => d # c /\ CasesFor(o, d) # {}
  <2> SUFFICES ASSUME NEW d \in Chan, NEW j \in CasesFor(new, d)
               PROVE  d # c /\ j \in CasesFor(o, d)
    OBVIOUS
  <2>1. j \in DOMAIN cases /\ cases[j].channel = d
    BY <1>7 DEF CasesFor
  <2>2. j # i
    BY <2>1, <1>5, <1>6, ProcessAssumption
  <2>3. j \in DOMAIN o.cases /\ o.cases[j].channel = d
    BY <2>1, <2>2, <1>6
  <2>4. d # c
    BY <2>2, <2>3, <1>3 DEF OneCase
  <2> QED
    BY <2>3, <2>4 DEF CasesFor
<1> QED
  BY <1>7, <1>8, <1>9 DEF new

(* A channel is closed: an ALT has no other case for it, the others are served. *)
LEMMA CloseWaiting ==
  ASSUME IInv, PointedTo, NEW p \in Proc, Close(p)
  PROVE  PointedTo'
<1>0. "close" \in Calls
  BY DEF Close, InLua
<1>1. PICK c \in Chan :
        /\ op' = [q \in Proc |-> IF q = attachIn[c] THEN CloseInput(op[q], c)
                                 ELSE IF q = attachOut[c] THEN CloseArguments(op[q])
                                 ELSE op[q]]
        /\ attachIn' = [attachIn EXCEPT ![c] = NoProc]
  BY DEF Close
<1>2. \A d \in Chan \ {c} : attachIn'[d] = attachIn[d]
  BY <1>1 DEF IInv, TypeOK, ChannelTypeOK
<1>3. ASSUME NEW q \in Proc
      PROVE  /\ op'[q].kind = "ALT" => OneCase(op'[q])
             /\ \A d \in Chan : WaitsIn(q, d)' => attachIn'[d] = q
  <2>0. op[q] \in Operation
    BY DEF IInv, TypeOK, ProcessTypeOK
  <2>1. CASE q = attachIn[c] /\ op[q].kind = "ALT"
    <3>1. op'[q] = CloseInput(op[q], c)
      BY <2>1, <1>1
    <3>2. OneCase(op[q])
      BY <2>1 DEF PointedTo
    <3>3. /\ op'[q].kind = "ALT" /\ op'[q].caseTriggered = op[q].caseTriggered
          /\ OneCase(op'[q])
          /\ \A d \in Chan : CasesFor(op'[q], d) # {} => d # c /\ CasesFor(op[q], d) # {}
      BY <2>1, <3>1, <3>2, <1>0, CloseOneCase
    <3>4. \A d \in Chan : WaitsIn(q, d)' => d # c /\ WaitsIn(q, d)
      BY <2>1, <3>3 DEF WaitsIn, CasesFor
    <3> QED
      BY <3>3, <3>4, <1>2 DEF PointedTo
  <2>2. CASE q = attachIn[c] /\ op[q].kind # "ALT"
    <3>1. op'[q] = CloseArguments(op[q])
      BY <2>2, <1>1 DEF CloseInput
    <3>2. op'[q].argumentsMoved /\ op'[q].kind = op[q].kind
      BY <2>0, <3>1 DEF CloseArguments, Operation
    <3> QED
      BY <2>2, <3>2 DEF WaitsIn
  <2>3. CASE q # attachIn[c] /\ q = attachOut[c]
    <3>1. op'[q] = CloseArguments(op[q]) /\ op[q].kind \in {"OUT", "CPPOUT"}
      BY <2>3, <1>1 DEF IInv, Attached, OffersOn
    <3>2. op'[q].kind \in {"OUT", "CPPOUT"}
      BY <2>0, <3>1, CloseArgumentsFacts
    <3> QED
      BY <3>2 DEF WaitsIn
  <2>4. CASE q # attachIn[c] /\ q # attachOut[c]
    <3>1. op'[q] = op[q]
      BY <2>4, <1>1
    <3>2. \A d \in Chan : WaitsIn(q, d)' => WaitsIn(q, d)
      BY <3>1 DEF WaitsIn, CasesFor
    <3>3. \A d \in Chan : WaitsIn(q, d) => attachIn[d] = q /\ d # c
      BY <2>4 DEF PointedTo
    <3> QED
      BY <3>1, <3>2, <3>3, <1>2 DEF PointedTo
  <2> QED
    BY <2>1, <2>2, <2>3, <2>4
<1> QED
  BY <1>3 DEF PointedTo

----------------------------------------------------------------------------
(* An operation ends; nobody else is detached but those that end with it. *)
LEMMA ResumeWaiting ==
  ASSUME PointedTo, NEW p \in Proc, NEW results, NEW gone, NEW stk, NEW flags,
         Resume(p, results, gone, stk, flags),
         \A c \in Chan : attachIn'[c] = attachIn[c] \/ attachIn[c] \in gone
  PROVE  PointedTo'
<1>1. \A q \in Proc : op'[q] = IF q = p \/ q \in gone THEN NoOp ELSE op[q]
  BY DEF Resume
<1>2. NoOp.kind = "none"
  BY DEF NoOp
<1>3. ASSUME NEW q \in Proc, q = p \/ q \in gone
      PROVE  op'[q].kind = "none" /\ \A c \in Chan : ~WaitsIn(q, c)'
  BY <1>1, <1>2, <1>3 DEF WaitsIn
<1> QED
  BY <1>1, <1>3, NoneBegins

(* The operation of p is finished, and no channel is touched. *)
LEMMA FinishWaiting ==
  ASSUME PointedTo, NEW p \in Proc, NEW results, FinishOperation(p, results),
         UNCHANGED attachIn
  PROVE  PointedTo'
<1> QED
  BY ResumeWaiting DEF FinishOperation

(* Communicate: the reader is served, and an ALT is triggered. *)
LEMMA CommunicateWaiting ==
  ASSUME IInv, PointedTo, NEW c \in Chan, NEW reader, OutAttached(c),
         Communicate(c, reader)
  PROVE  PointedTo'
<1>0. PICK in \in Proc \cup {NoProc}, writer \in Proc :
        in = attachIn[c] /\ writer = attachOut[c]
  BY DEF OutAttached, IInv, TypeOK, ChannelTypeOK
<1>1. OffersOn(writer, c)
  BY <1>0, ProcessAssumption DEF IInv, Attached
<1>2. CASE in = NoProc
  BY <1>0, <1>2, WaitingKept DEF Communicate
<1>3. CASE in # NoProc
  <2>1. in \in Proc /\ WaitsIn(in, c) /\ in # writer
    BY <1>0, <1>1, <1>3 DEF IInv, Attached, WaitsIn, OffersOn
  <2> DEFINE moved == MoveChannelArguments(op[in], c, op[writer].arguments)
             sent == CloseArguments(op[writer])
  <2>2. /\ op' = [op EXCEPT ![in] = MoveChannelArguments(@, c, op[writer].arguments),
                            ![writer] = CloseArguments(@)]
        /\ attachIn' = Detached(in)
    BY <1>0, <1>3 DEF Communicate
  <2>3. \A q \in Proc : op'[q] = IF q = in THEN moved
                                 ELSE IF q = writer THEN sent ELSE op[q]
    BY <2>1, <2>2 DEF IInv, TypeOK, ProcessTypeOK
  <2>4. op[in] \in Operation /\ op[writer] \in Operation
    BY <1>1, <2>1 DEF IInv, TypeOK, ProcessTypeOK
  <2>5. /\ moved.kind = op[in].kind /\ moved.argumentsMoved /\ moved.cases = op[in].cases
        /\ moved.caseTriggered = IF op[in].kind = "ALT"
                                 THEN FindCaseForChannel(op[in], c) ELSE 0
    BY <2>4 DEF MoveChannelArguments, Operation
  <2>6. sent.kind \in {"OUT", "CPPOUT"}
    BY <1>1, <2>4, CloseArgumentsFacts DEF OffersOn
  <2> HIDE DEF moved, sent
  <2>7. op[in].kind = "ALT" => FindCaseForChannel(op[in], c) # 0
    <3>1. op[in].cases \in Seq(AltCase)
      BY <2>4 DEF Operation
    <3>2. CasesFor(op[in], c) \in SUBSET (Nat \ {0})
      BY <3>1, LenProperties DEF CasesFor
    <3> QED
      BY <2>1, <3>2, FirstOfIsLeast DEF WaitsIn, FindCaseForChannel
  <2>8. /\ \A d \in Chan : ~WaitsIn(in, d)'
        /\ op'[in].kind = "ALT" => OneCase(op'[in])
    <3>1. op'[in] = moved
      BY <2>1, <2>3
    <3>2. moved.kind = "ALT" => moved.caseTriggered # 0
      BY <2>5, <2>7
    <3>3. \A d \in Chan : ~WaitsIn(in, d)'
      BY <2>5, <3>1, <3>2 DEF WaitsIn
    <3>4. op[in].kind = "ALT" => OneCase(op[in])
      BY <2>1 DEF PointedTo
    <3>5. moved.kind = "ALT" => OneCase(moved)
      BY <2>5, <3>4 DEF OneCase
    <3> QED
      BY <3>1, <3>3, <3>5
  <2>9. /\ \A d \in Chan : ~WaitsIn(writer, d)'
        /\ op'[writer].kind \in {"OUT", "CPPOUT"}
    <3>1. op'[writer] = sent
      BY <1>1, <2>1, <2>3
    <3> QED
      BY <2>6, <3>1 DEF WaitsIn
  <2>10. \A q \in Proc \ {in} : \A d \in Chan : attachIn[d] = q => attachIn'[d] = q
    BY <2>2 DEF Detached
  <2>11. ASSUME NEW q \in Proc
         PROVE  \/ op'[q] = op[q] /\ \A d \in Chan : attachIn[d] = q => attachIn'[d] = q
                \/ /\ \A d \in Chan : ~WaitsIn(q, d)'
                   /\ op'[q].kind = "ALT" => OneCase(op'[q])
    <3>1. CASE q = in
      BY <2>8, <3>1
    <3>2. CASE q = writer
      BY <2>9, <3>2
    <3>3. CASE q # in /\ q # writer
      BY <2>3, <2>10, <3>3
    <3> QED
      BY <3>1, <3>2, <3>3
  <2> QED
    BY <2>11, NoneBegins
<1> QED
  BY <1>2, <1>3

(* An ALT that is triggered waits no more. *)
LEMMA TriggerWaiting ==
  ASSUME IInv, PointedTo, NEW p \in Proc, NEW i, i # 0, op[p].kind = "ALT",
         NEW stk, NEW flags, Trigger(p, i, stk, flags)
  PROVE  PointedTo'
<1>1. /\ op' = [op EXCEPT ![p].caseTriggered = i, ![p].argumentsMoved = TRUE]
      /\ attachIn' = Detached(p)
  BY DEF Trigger
<1>2. op[p] \in Operation /\ op \in [Proc -> Operation]
  BY DEF IInv, TypeOK, ProcessTypeOK
<1>3. /\ \A q \in Proc \ {p} : op'[q] = op[q]
      /\ op'[p] = [op[p] EXCEPT !.caseTriggered = i, !.argumentsMoved = TRUE]
  BY <1>1, <1>2
<1>4. op'[p].kind = "ALT" /\ op'[p].caseTriggered = i /\ op'[p].cases = op[p].cases
  BY <1>2, <1>3 DEF Operation
<1>5. (\A d \in Chan : ~WaitsIn(p, d)') /\ OneCase(op'[p])
  BY <1>4 DEF WaitsIn, PointedTo, OneCase
<1>6. \A q \in Proc \ {p} : \A d \in Chan : attachIn[d] = q => attachIn'[d] = q
  BY <1>1 DEF Detached
<1> QED
  BY <1>3, <1>5, <1>6, NoneBegins

(* A closure starts: the operation of its parent was triggered before, or is no reader. *)
LEMMA StartWaiting ==
  ASSUME IInv, PointedTo, NEW p \in Proc, NEW o, NEW k, NEW args, NEW ps, NEW asserted,
         StartEvaluation(p, o, k, args, ps, asserted), UNCHANGED attachIn,
         o.kind \in Spawning \/ (o.kind = "ALT" /\ o.caseTriggered # 0 /\ OneCase(o))
  PROVE  PointedTo'
<1>1. \A q \in Proc : op'[q] = IF q = p THEN o ELSE op[q]
  BY DEF StartEvaluation, IInv, TypeOK, ProcessTypeOK
<1>2. (\A d \in Chan : ~WaitsIn(p, d)') /\ (op'[p].kind = "ALT" => OneCase(op'[p]))
  BY <1>1 DEF WaitsIn, ParKinds, Spawning
<1> QED
  BY <1>1, <1>2, NoneBegins

(* PAR, PARWHILE and MAIN start a closure. *)
LEMMA StartClosureWaiting ==
  ASSUME IInv, PointedTo, NEW p \in Proc, op[p].kind \in Spawning, StartClosure(p)
  PROVE  PointedTo'
<1> DEFINE o == [op[p] EXCEPT !.closureToRun = op[p].closureToRun + 1]
<1>1. o.kind = op[p].kind
  BY DEF IInv, TypeOK, ProcessTypeOK, Operation
<1> QED
  BY <1>1, StartWaiting DEF StartClosure, chanVars

----------------------------------------------------------------------------
(* SLEEP, IN, RANGE, OUT, PAR and PARWHILE are evaluated. *)
LEMMA EvaluateWaiting ==
  ASSUME IInv, PointedTo, NEW p \in Proc,
         \/ EvalSleep(p) /\ UNCHANGED chanVars
         \/ EvalIn(p) \/ EvalOut(p) \/ EvalPar(p) \/ EvalParWhile(p)
  PROVE  PointedTo'
<1>1. CASE KeepWaiting /\ UNCHANGED attachIn
  BY <1>1, WaitingKept DEF KeepWaiting
<1>2. ASSUME NEW results, FinishOperation(p, results), UNCHANGED attachIn
      PROVE  PointedTo'
  BY <1>2, FinishWaiting
<1>3. CASE EvalSleep(p) /\ UNCHANGED chanVars
  BY <1>1, <1>2, <1>3 DEF EvalSleep, chanVars
<1>4. CASE EvalIn(p)
  <2>1. op[p].channel \in Chan
    BY <1>4 DEF EvalIn, IInv, OnChannel, ChannelKinds
  <2> QED
    BY <1>1, <1>2, <1>4, <2>1, CommunicateWaiting DEF EvalIn
<1>5. CASE EvalOut(p)
  <2>1. op[p].channel \in Chan
    BY <1>5 DEF EvalOut, IInv, OnChannel, ChannelKinds
  <2>2. ~op[p].argumentsMoved => OutAttached(op[p].channel)
    BY <1>5, <2>1, ProcessAssumption
       DEF EvalOut, IInv, Attached, OffersOn, OutAttached
  <2> QED
    BY <1>1, <1>2, <1>5, <2>1, <2>2, CommunicateWaiting DEF EvalOut
<1>6. CASE StartClosure(p) /\ op[p].kind \in ParKinds
  BY <1>6, StartClosureWaiting DEF Spawning
<1>7. CASE EvalPar(p)
  BY <1>1, <1>2, <1>6, <1>7 DEF EvalPar, ParKinds, Spawning, chanVars
<1>8. CASE EndParWhile(p)
  BY <1>8, ResumeWaiting DEF EndParWhile, DetachAll
<1>9. CASE EvalParWhile(p)
  BY <1>1, <1>2, <1>6, <1>8, <1>9 DEF EvalParWhile, ParKinds, Spawning, chanVars
<1> QED
  BY <1>3, <1>4, <1>5, <1>7, <1>9

(* ALT is evaluated. *)
LEMMA EvalAltWaiting ==
  ASSUME IInv, PointedTo, NEW p \in Proc, EvalAlt(p)
  PROVE  PointedTo'
<1> DEFINE o == op[p]
           first == FirstOf(Ready(o))
<1>1. o \in Operation /\ o.kind = "ALT"
  BY DEF EvalAlt, IInv, TypeOK, ProcessTypeOK
<1>2. /\ o.cases \in Seq(AltCase) /\ DOMAIN o.cases \subseteq Nat \ {0}
      /\ \A i \in DOMAIN o.cases : o.cases[i] \in AltCase
  <2>1. o.cases \in Seq(AltCase)
    BY <1>1 DEF Operation
  <2> QED
    BY <2>1, LenProperties, ElementOfSeq
<1>3. Ready(o) # {} => first \in Ready(o) /\ first # 0
  <2>1. Ready(o) \in SUBSET (Nat \ {0})
    BY <1>2 DEF Ready
  <2> QED
    BY <2>1, FirstOfIsLeast
<1>4. CASE KeepWaiting /\ UNCHANGED chanVars
  BY <1>4, WaitingKept DEF KeepWaiting, chanVars
<1>5. CASE FinishOperation(p, NoResult) /\ UNCHANGED chanVars
  BY <1>5, FinishWaiting DEF chanVars
<1>6. CASE SelectChannel(p)
  <2>1. CASE Ready(o) # {} /\ Trigger(p, first, Popped, PoppedFlags)
    BY <1>1, <1>3, <2>1, TriggerWaiting
  <2>2. CASE /\ Ready(o) # {} /\ first # o.nilCase
             /\ Communicate(o.cases[first].channel, p)
    <3>1. o.cases[first].channel \in Chan /\ OutAttached(o.cases[first].channel)
      BY <1>2, <1>3, <2>2 DEF Ready, AltCase
    <3> QED
      BY <2>2, <3>1, CommunicateWaiting
  <2> QED
    BY <1>4, <1>5, <1>6, <2>1, <2>2 DEF SelectChannel
<1>7. CASE o.caseTriggered # 0 /\ StartTriggered(p)
  <2>1. Started(o).kind = "ALT" /\ Started(o).caseTriggered # 0
    BY <1>1, <1>7 DEF Started, Unreferenced, Operation
  <2>2. Started(o).cases = [i \in DOMAIN o.cases |->
                              [o.cases[i] EXCEPT !.channel = NoChan, !.closure = FALSE]]
    BY <1>1 DEF Started, Unreferenced, Operation
  <2>3. ASSUME NEW i \in DOMAIN Started(o).cases
        PROVE  Started(o).cases[i].channel = NoChan
    <3>1. i \in DOMAIN o.cases
      BY <2>2
    <3>2. Started(o).cases[i] = [o.cases[i] EXCEPT !.channel = NoChan, !.closure = FALSE]
      BY <2>2, <3>1
    <3>3. o.cases[i] \in AltCase
      BY <1>2, <3>1
    <3> QED
      BY <3>2, <3>3 DEF AltCase
  <2>4. OneCase(Started(o))
    BY <2>3, ProcessAssumption DEF OneCase
  <2> QED
    BY <1>7, <2>1, <2>4, StartWaiting DEF StartTriggered, chanVars
<1> QED
  BY <1>4, <1>5, <1>6, <1>7 DEF EvalAlt

(* ALT is told the delta time. *)
LEMMA WorkAltWaiting ==
  ASSUME IInv, PointedTo, NEW p \in Proc, WorkAlt(p)
  PROVE  PointedTo'
<1> DEFINE o == op[p]
<1>1. o \in Operation /\ o.kind = "ALT"
  BY DEF WorkAlt, IInv, TypeOK, ProcessTypeOK
<1>2. CASE Expired(o) # {} /\ Trigger(p, Earliest(o), stack, isOnStack)
  <2>1. Earliest(o) \in DOMAIN o.cases
    BY <1>1, <1>2, EarliestIsExpired DEF Expired
  <2>2. Earliest(o) # 0
    <3>1. o.cases \in Seq(AltCase)
      BY <1>1 DEF Operation
    <3> QED
      BY <2>1, <3>1, LenProperties
  <2> QED
    BY <1>1, <1>2, <2>2, TriggerWaiting
<1>3. CASE UNCHANGED <<op, chanVars>>
  BY <1>3, WaitingKept DEF chanVars
<1> QED
  BY <1>2, <1>3 DEF WorkAlt

(* SLEEP is told the delta time. *)
LEMMA WorkSleepWaiting ==
  ASSUME IInv, PointedTo, NEW p \in Proc, WorkSleep(p), UNCHANGED chanVars
  PROVE  PointedTo'
<1>1. /\ op' = [op EXCEPT ![p].seconds = op[p].seconds - dt,
                          ![p].finished = (op[p].seconds - dt <= 0)]
      /\ op[p].kind = "SLEEP" /\ op[p] \in Operation /\ op \in [Proc -> Operation]
  BY DEF WorkSleep, IInv, TypeOK, ProcessTypeOK
<1>2. \A q \in Proc \ {p} : op'[q] = op[q]
  BY <1>1
<1>3. op'[p].kind = "SLEEP"
  BY <1>1 DEF Operation
<1> QED
  BY <1>2, <1>3, NoneBegins DEF WaitsIn, chanVars

(* The main process is terminated, with all below it. *)
LEMMA TerminateMainWaiting ==
  ASSUME IInv, PointedTo, TerminateMain
  PROVE  PointedTo'
<1> DEFINE gone == Descendants(Main)
<1>1. /\ op' = [q \in Proc |-> IF q = Main \/ q \in gone THEN NoOp ELSE op[q]]
      /\ DetachAll(gone \cup {Main})
  BY DEF TerminateMain
<1> HIDE DEF gone
<1>2. ASSUME NEW q \in Proc, q = Main \/ q \in gone
      PROVE  op'[q].kind = "none" /\ \A c \in Chan : ~WaitsIn(q, c)'
  BY <1>1, <1>2 DEF WaitsIn, NoOp
<1>3. ASSUME NEW q \in Proc, q # Main, q \notin gone
      PROVE  op'[q] = op[q] /\ \A c \in Chan : attachIn[c] = q => attachIn'[c] = q
  BY <1>1, <1>3 DEF DetachAll
<1> QED
  BY <1>2, <1>3, NoneBegins

----------------------------------------------------------------------------
(* Nothing waits in the initial state. *)
LEMMA InitWaiting == Init => PointedTo
<1>1. NoOp.kind = "none"
  BY DEF NoOp
<1> QED
  BY <1>1 DEF Init, ProcessInit, PointedTo, WaitsIn

(* No step leaves an operation that waits without the channel pointing to it. *)
LEMMA NextWaiting ==
  ASSUME {"ALT", "close"} \subseteq Calls => NoChannelTwice
  PROVE  IInv /\ PointedTo /\ [Next]_vars => PointedTo'
<1> SUFFICES ASSUME IInv, PointedTo, [Next]_vars PROVE PointedTo'
  OBVIOUS
<1>1. CASE UNCHANGED <<op, chanVars>>
  BY <1>1, WaitingKept DEF chanVars
<1>2. CASE (HostMain \/ HostWork) /\ UNCHANGED chanVars
  BY <1>1, <1>2 DEF HostMain, HostWork
<1>3. CASE TerminateMain
  BY <1>3, TerminateMainWaiting
<1>4. ASSUME NEW p \in Proc, LuaStep(p) PROVE PointedTo'
  <2>1. CASE (Return(p) \/ LuaError(p)) /\ UNCHANGED chanVars
    BY <1>1, <2>1 DEF Return, LuaError, End
  <2>2. CASE (Sleep(p) /\ UNCHANGED chanVars) \/ Out(p) \/ ParCall(p)
    BY <2>2, OtherCallWaiting
  <2>3. ASSUME NEW kind \in {"IN", "RANGE"}, In(p, kind) PROVE PointedTo'
    BY <2>3, InWaiting
  <2>4. CASE Busy(p)
    BY <1>1, <2>4 DEF Busy
  <2>5. CASE Close(p)
    BY <2>5, CloseWaiting
  <2>6. CASE AltInit(p)
    BY <2>6, AltInitWaiting
  <2> QED
    BY <1>4, <2>1, <2>2, <2>3, <2>4, <2>5, <2>6 DEF LuaStep, ProcessCall, ChannelCall
<1>5. ASSUME NEW p \in Proc, EvaluateStep(p) PROVE PointedTo'
  BY <1>5, EvaluateWaiting, EvalAltWaiting
     DEF EvaluateStep, ProcessEvaluate, ChannelEvaluate, ParEvaluate
<1>6. ASSUME NEW p \in Proc, WorkStep(p) PROVE PointedTo'
  <2>1. CASE WorkSleep(p) /\ UNCHANGED chanVars
    BY <2>1, WorkSleepWaiting
  <2>2. CASE WorkNothing(p) /\ UNCHANGED chanVars
    BY <1>1, <2>2 DEF WorkNothing
  <2>3. CASE WorkPar(p)
    BY <1>1, <2>3 DEF WorkPar
  <2>4. CASE WorkAlt(p)
    BY <2>4, WorkAltWaiting
  <2> QED
    BY <1>6, <2>1, <2>2, <2>3, <2>4 DEF WorkStep, ProcessWork
<1>7. CASE UNCHANGED vars
  BY <1>1, <1>7 DEF vars, procVars
<1> QED
  BY <1>2, <1>3, <1>4, <1>5, <1>6, <1>7 DEF Next

(* No operation of the modules that extend LuaCSP is there. *)
NoForeign == \A p \in Proc : op[p].kind \notin ForeignKinds

LEMMA NextNoForeign == IInv /\ NoForeign /\ [Next]_vars => NoForeign'
<1> QED
  BY StepKinds DEF KindStep, SameKind, NoForeign, ForeignKinds

LEMMA NoForeignHolds == Spec => [](IInv /\ NoForeign)
<1>1. Init => NoForeign
  BY DEF Init, ProcessInit, NoOp, NoForeign, ForeignKinds
<1> QED
  BY <1>1, NextNoForeign, Inductive, PTL DEF Spec

(***************************************************************************)
(* What a channel points to lives, waits on it and has not been served,    *)
(* and every operation that waits is pointed to: no communication, close,  *)
(* termination or triggering leaves a dangling pointer or forgets a        *)
(* partner; in programs that close no channel, or whose ALTs name no       *)
(* channel twice.                                                          *)
(***************************************************************************)
THEOREM AttachmentsAreLive ==
  ASSUME {"ALT", "close"} \subseteq Calls => NoChannelTwice
  PROVE  Spec => []AttachmentsLive
<1>1. Init => PointedTo
  BY InitWaiting
<1>2. IInv /\ PointedTo /\ [Next]_vars => PointedTo'
  BY NextWaiting
<1>3. IInv /\ PointedTo /\ NoForeign => AttachmentsLive
  BY DEF IInv, Attached, PointedTo, AttachmentsLive, NoForeign, ForeignKinds, OffersOn, WaitsOut
<1> QED
  BY <1>1, <1>2, <1>3, Inductive, NoForeignHolds, PTL DEF Spec
=============================================================================
