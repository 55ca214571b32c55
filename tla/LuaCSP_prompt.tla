---------------------------- MODULE LuaCSP_prompt ----------------------------
(***************************************************************************)
(* The evaluator is prompt: what two partners or an ALT with a nil case    *)
(* can do is what Host::Evaluate does next.  From it follow, for every     *)
(* size and every program, that Host::Work stops only when no              *)
(* communication is left, that an ALT takes the topmost case that is       *)
(* ready, and that a reader returns what it has received.                  *)
(***************************************************************************)
EXTENDS LuaCSP_attachments

(***************************************************************************)
(* The turns of the host: nothing happens before HostMain, and Lua code    *)
(* runs only when no delta time is being handed down.                      *)
(***************************************************************************)
Turns ==
  /\ thread[Main] = "ready" => stack = <<>> /\ running = NoProc /\ work = <<>>
  /\ running # NoProc => work = <<>>

(* An ALT that has not looked at its nil case yet. *)
NilWaits(p) ==
  op[p].kind = "ALT" /\ op[p].caseTriggered = 0 /\ op[p].nilCase \in DOMAIN op[p].cases

(***************************************************************************)
(* A channel with both ends waiting, or an ALT with a nil case, is what    *)
(* Host::Evaluate turns to next: every call pushes the process that makes  *)
(* it on top of the stack (process.cpp:113-114).                            *)
(***************************************************************************)
Prompt ==
  failed = "none" =>
    /\ \A c \in Chan : InAttached(c) /\ OutAttached(c) =>
         Evaluating(attachIn[c]) \/ Evaluating(attachOut[c])
    /\ \A p \in Proc : NilWaits(p) => Evaluating(p)

----------------------------------------------------------------------------
(***************************************************************************)
(* Turns is an invariant.                                                  *)
(***************************************************************************)
LEMMA InitTurns == Init => Turns
<1> QED
  BY DEF Init, ProcessInit, Turns

(* Only the thread of a new closure becomes ready, and main is none. *)
LEMMA MainStaysBegun ==
  ASSUME IInv, NEW p \in Proc, LuaStep(p) \/ EvaluateStep(p), thread[Main] # "ready"
  PROVE  thread'[Main] # "ready"
<1> USE ProcessAssumption DEF IInv
<1>1. thread \in [Proc -> ThreadStatus] /\ thread[Main] # "free"
  BY DEF TypeOK, ProcessTypeOK, Tree
<1>2. CASE \E kind \in ParKinds : ParInit(p, kind)
  <2>1. PICK closures :
          /\ Range(closures) \subseteq Free
          /\ thread' = [q \in Proc |-> IF q = p THEN "yield"
                                       ELSE IF q \in Range(closures) THEN "ready"
                                       ELSE thread[q]]
    <3>1. PICK n \in 0 .. MaxClosures : \E closures \in [1 .. n -> Free] :
            thread' = [q \in Proc |-> IF q = p THEN "yield"
                                      ELSE IF q \in Range(closures) THEN "ready"
                                      ELSE thread[q]]
      BY <1>2 DEF ParInit
    <3>2. \A closures \in [1 .. n -> Free] : Range(closures) \subseteq Free
      BY DEF Range
    <3> QED
      BY <3>1, <3>2
  <2> QED
    BY <1>1, <2>1 DEF Free
<1>3. CASE AltInit(p)
  BY <1>1, <1>3 DEF AltInit
<1>4. CASE Out(p) \/ \E kind \in {"IN", "RANGE"} : In(p, kind)
  BY <1>1, <1>4 DEF In, Out
<1>5. CASE Sleep(p) \/ Return(p) \/ LuaError(p)
  BY <1>1, <1>5 DEF Sleep, Return, LuaError, End
<1>6. CASE Close(p) \/ Busy(p)
  BY <1>1, <1>6 DEF Close, Busy
<1>7. ASSUME NEW results, NEW gone, NEW stk, NEW flags, Resume(p, results, gone, stk, flags)
      PROVE  thread'[Main] # "ready"
  BY <1>1, <1>7 DEF Resume
<1>8. ASSUME NEW o, NEW k, NEW args, NEW ps, NEW asserted,
             StartEvaluation(p, o, k, args, ps, asserted)
      PROVE  thread'[Main] # "ready"
  BY <1>1, <1>8 DEF StartEvaluation
<1>9. CASE UNCHANGED thread
  BY <1>1, <1>9
<1>10. CASE EvaluateStep(p)
  <2>1. CASE EvalSleep(p) \/ EvalIn(p) \/ EvalOut(p) \/ EvalPar(p)
    BY <2>1, <1>7, <1>8, <1>9
       DEF EvalSleep, EvalIn, EvalOut, EvalPar, FinishOperation, KeepWaiting, StartClosure
  <2>2. CASE EvalParWhile(p)
    BY <2>2, <1>7, <1>8, <1>9
       DEF EvalParWhile, FinishOperation, KeepWaiting, StartClosure, EndParWhile
  <2>3. CASE EvalAlt(p)
    BY <2>3, <1>7, <1>8, <1>9
       DEF EvalAlt, FinishOperation, KeepWaiting, StartTriggered, SelectChannel, Trigger
  <2> QED
    BY <1>10, <2>1, <2>2, <2>3
       DEF EvaluateStep, ProcessEvaluate, ChannelEvaluate, ParEvaluate
<1> QED
  BY <1>2, <1>3, <1>4, <1>5, <1>6, <1>10 DEF LuaStep, ProcessCall, ChannelCall, ParCall

(* No step breaks the order of the turns. *)
LEMMA NextTurns == IInv /\ Turns /\ [Next]_vars => Turns'
<1> SUFFICES ASSUME IInv, Turns, [Next]_vars PROVE Turns'
  OBVIOUS
<1>0. /\ thread[Main] = "ready" => ~IsRunning(Main)
      /\ Main # NoProc /\ Main \in Proc
      /\ thread \in [Proc -> ThreadStatus]
  BY ProcessAssumption DEF IInv, InOperation, IsRunning, TypeOK, ProcessTypeOK
<1>1. CASE HostMain /\ UNCHANGED chanVars
  BY <1>0, <1>1 DEF HostMain, Turns, hostVars
<1>2. CASE HostWork /\ UNCHANGED chanVars
  BY <1>0, <1>2 DEF HostWork, Turns, Idle
<1>3. CASE TerminateMain
  BY <1>0, <1>3 DEF TerminateMain, Turns, Idle, hostVars
<1>4. ASSUME NEW p \in Proc, LuaStep(p) PROVE Turns'
  <2>1. /\ running = p /\ work = <<>> /\ work' = work /\ thread[Main] # "ready"
    BY <1>4, LuaTurn, ProcessAssumption DEF Turns
  <2> QED
    BY <1>4, <2>1, MainStaysBegun DEF Turns
<1>5. ASSUME NEW p \in Proc, EvaluateStep(p) PROVE Turns'
  <2>1. work = <<>> /\ work' = work /\ thread[Main] # "ready"
    BY <1>5, EvaluateTurn DEF Turns, Evaluating
  <2> QED
    BY <1>5, <2>1, MainStaysBegun DEF Turns
<1>6. ASSUME NEW p \in Proc, WorkStep(p) PROVE Turns'
  <2>1. work # <<>> /\ UNCHANGED <<thread, running>>
    BY <1>6, WorkTurn DEF Working
  <2> QED
    BY <2>1 DEF Turns
<1>7. CASE UNCHANGED vars
  BY <1>7 DEF vars, procVars, Turns
<1> QED
  BY <1>1, <1>2, <1>3, <1>4, <1>5, <1>6, <1>7 DEF Next

----------------------------------------------------------------------------
(***************************************************************************)
(* Prompt is an invariant.  Two shapes of steps: a call, after which the   *)
(* process that made it is on top of the stack, and a step in which        *)
(* nothing begins to wait and what was evaluated has no partner left.      *)
(***************************************************************************)
(* The channels of a step in which no attachment is added. *)
Shrinking ==
  \A c \in Chan : attachIn'[c] \in {attachIn[c], NoProc} /\ attachOut'[c] \in {attachOut[c], NoProc}

(* What p, that was evaluated, waits for is not there. *)
Served(p) ==
  /\ ~NilWaits(p)
  /\ \A c \in Chan : /\ WaitsIn(p, c) => ~OutAttached(c)
                     /\ OffersOn(p, c) => ~InAttached(c)

LEMMA NothingBegins ==
  ASSUME IInv', Prompt, failed = "none", Shrinking,
         \A q \in Proc : NilWaits(q)' => NilWaits(q),
         \A q \in Proc : Evaluating(q) => Served(q)'
  PROVE  Prompt'
<1>1. ASSUME NEW c \in Chan, InAttached(c)', OutAttached(c)' PROVE FALSE
  <2>1. /\ attachIn'[c] = attachIn[c] /\ attachOut'[c] = attachOut[c]
        /\ attachIn[c] # NoProc /\ attachOut[c] # NoProc
    BY <1>1 DEF Shrinking, InAttached, OutAttached
  <2>2. PICK in \in Proc, out \in Proc : in = attachIn[c] /\ out = attachOut[c]
    BY <2>1 DEF IInv, TypeOK, ChannelTypeOK
  <2>3. Evaluating(in) \/ Evaluating(out)
    BY <2>1, <2>2 DEF Prompt, InAttached, OutAttached
  <2>4. WaitsIn(in, c)' /\ OffersOn(out, c)'
    BY <2>1, <2>2 DEF IInv, Attached
  <2> QED
    BY <1>1, <2>3, <2>4 DEF Served
<1>2. ASSUME NEW q \in Proc, NilWaits(q)' PROVE FALSE
  BY <1>2 DEF Prompt, Served
<1> QED
  BY <1>1, <1>2 DEF Prompt

(* A call: whatever can go on now is the process that made it. *)
LEMMA CallPrompt ==
  ASSUME IInv, Turns, Prompt, failed = "none", NEW p \in Proc, running = p,
         NEW o, Yield(p, o),
         \A c \in Chan : attachIn'[c] \in {attachIn[c], p} /\ attachOut'[c] \in {attachOut[c], p}
  PROVE  Prompt'
<1>1. p # NoProc /\ work = <<>> /\ \A q \in Proc : ~Evaluating(q)
  BY ProcessAssumption DEF Turns, Evaluating
<1>2. SUFFICES ASSUME failed' = "none" PROVE Prompt'
  BY DEF Prompt
<1>3. stack' # <<>> /\ Last(stack') = p
  <2>1. stack' = stack \o <<p>>
    BY <1>2 DEF Yield, PushEvalSteps
  <2>2. stack \in Seq(Proc) /\ <<p>> \in Seq(Proc) /\ <<p>> # <<>>
    BY DEF IInv, TypeOK, ProcessTypeOK
  <2>3. Len(<<p>>) = 1 /\ <<p>>[1] = p
    OBVIOUS
  <2> QED
    BY <2>1, <2>2, <2>3, LastPushed
<1>4. Evaluating(p)'
  BY <1>1, <1>2, <1>3 DEF Yield, Evaluating, hostVars
<1>5. ASSUME NEW c \in Chan, InAttached(c)', OutAttached(c)'
      PROVE  attachIn'[c] = p \/ attachOut'[c] = p
  <2>1. CASE attachIn'[c] = attachIn[c] /\ attachOut'[c] = attachOut[c]
    <3>1. PICK in \in Proc, out \in Proc : in = attachIn[c] /\ out = attachOut[c]
      BY <1>5, <2>1 DEF InAttached, OutAttached, IInv, TypeOK, ChannelTypeOK
    <3> QED
      BY <1>1, <1>5, <2>1, <3>1 DEF Prompt, InAttached, OutAttached
  <2> QED
    BY <2>1
<1>6. ASSUME NEW q \in Proc, NilWaits(q)' PROVE q = p
  <2>1. q # p => op'[q] = op[q]
    BY DEF Yield, IInv, TypeOK, ProcessTypeOK
  <2> QED
    BY <1>1, <1>6, <2>1 DEF Prompt, NilWaits
<1> QED
  BY <1>4, <1>5, <1>6 DEF Prompt, Evaluating

(* Lua code that goes on, or ends, begins no operation. *)
LEMMA LuaPrompt ==
  ASSUME IInv, IInv', Turns, Prompt, NEW p \in Proc, LuaStep(p)
  PROVE  Prompt'
<1>1. failed = "none" /\ running = p /\ p # NoProc /\ \A q \in Proc : ~Evaluating(q)
  BY LuaTurn, ProcessAssumption DEF Evaluating
<1>2. CASE ((Return(p) \/ LuaError(p)) /\ UNCHANGED chanVars) \/ Busy(p)
  <2>1. CASE UNCHANGED <<op, chanVars>>
    BY <1>1, <2>1, NothingBegins DEF Shrinking, NilWaits, chanVars
  <2> QED
    BY <1>2, <2>1 DEF Return, LuaError, End, Busy
<1>3. CASE Close(p)
  <2>1. PICK c \in Chan :
          /\ op' = [q \in Proc |-> IF q = attachIn[c] THEN CloseInput(op[q], c)
                                   ELSE IF q = attachOut[c] THEN CloseArguments(op[q])
                                   ELSE op[q]]
          /\ attachIn' = [attachIn EXCEPT ![c] = NoProc]
          /\ attachOut' = [attachOut EXCEPT ![c] = NoProc]
    BY <1>3 DEF Close
  <2>2. Shrinking
    BY <2>1 DEF Shrinking, IInv, TypeOK, ChannelTypeOK
  <2>3. ASSUME NEW q \in Proc, NilWaits(q)' PROVE NilWaits(q)
    <3>1. op[q] \in Operation
      BY DEF IInv, TypeOK, ProcessTypeOK
    <3>2. CASE q = attachIn[c]
      <4>1. op'[q] = CloseInput(op[q], c)
        BY <2>1, <3>2
      <4> QED
        BY <2>3, <3>1, <4>1 DEF NilWaits, CloseInput, CloseCase, CloseArguments, Operation
    <3>3. CASE q # attachIn[c] /\ q = attachOut[c]
      BY <2>1, <2>3, <3>1, <3>3 DEF NilWaits, CloseArguments, Operation
    <3>4. CASE q # attachIn[c] /\ q # attachOut[c]
      BY <2>1, <2>3, <3>4 DEF NilWaits
    <3> QED
      BY <3>2, <3>3, <3>4
  <2> QED
    BY <1>1, <2>2, <2>3, NothingBegins
<1>4. ASSUME NEW kind, ParInit(p, kind) PROVE Prompt'
  <2>1. PICK n \in 0 .. MaxClosures : \E closures \in [1 .. n -> Free] :
          Yield(p, [NoOp EXCEPT !.kind = kind, !.closures = closures])
    BY <1>4 DEF ParInit
  <2>2. PICK closures \in [1 .. n -> Free] :
          Yield(p, [NoOp EXCEPT !.kind = kind, !.closures = closures])
    BY <2>1
  <2> QED
    BY <1>1, <1>4, <2>2, CallPrompt DEF ParInit, chanVars
<1>5. CASE Sleep(p) /\ UNCHANGED chanVars
  <2>1. PICK seconds \in Seconds :
          Yield(p, [NoOp EXCEPT !.kind = "SLEEP", !.seconds = seconds])
    BY <1>5 DEF Sleep
  <2> QED
    BY <1>1, <1>5, <2>1, CallPrompt DEF chanVars
<1>6. ASSUME NEW kind, In(p, kind) PROVE Prompt'
  <2>1. PICK c \in Chan : /\ attachIn' = [attachIn EXCEPT ![c] = p]
                          /\ Yield(p, ChannelOp(kind, c, NoArgs))
    BY <1>6 DEF In
  <2>2. \A d \in Chan : attachIn'[d] \in {attachIn[d], p} /\ attachOut'[d] \in {attachOut[d], p}
    BY <1>6, <2>1 DEF In, IInv, TypeOK, ChannelTypeOK
  <2> QED
    BY <1>1, <2>1, <2>2, CallPrompt
<1>7. CASE Out(p)
  <2>1. PICK c \in Chan, v \in Val : /\ attachOut' = [attachOut EXCEPT ![c] = p]
                                     /\ Yield(p, ChannelOp("OUT", c, v))
    BY <1>7 DEF Out
  <2>2. \A d \in Chan : attachIn'[d] \in {attachIn[d], p} /\ attachOut'[d] \in {attachOut[d], p}
    BY <1>7, <2>1 DEF Out, IInv, TypeOK, ChannelTypeOK
  <2> QED
    BY <1>1, <2>1, <2>2, CallPrompt
<1>8. CASE AltInit(p)
  <2>1. PICK guards \in AltForms, k \in Free :
          /\ attachIn' = [c \in Chan |-> IF \E i \in DOMAIN guards : guards[i].channel = c
                                         THEN p ELSE attachIn[c]]
          /\ Yield(p, AltOp(guards, k))
    BY <1>8 DEF AltInit
  <2>2. \A d \in Chan : attachIn'[d] \in {attachIn[d], p} /\ attachOut'[d] \in {attachOut[d], p}
    BY <1>8, <2>1 DEF AltInit
  <2> QED
    BY <1>1, <2>1, <2>2, CallPrompt
<1> QED
  BY <1>2, <1>3, <1>4, <1>5, <1>6, <1>7, <1>8, LuaTurn
     DEF LuaStep, ProcessCall, ChannelCall, ParCall

----------------------------------------------------------------------------
(* An operation ends when none of its closures is in an operation. *)
LEMMA EndedClosures ==
  ASSUME IInv, NEW p \in Proc, Ends(p)
  PROVE  \A k \in Children(p) : op[k].kind = "none"
<1>1. CASE op[p].kind \in {"PAR", "PARWHILE"}
  BY <1>1 DEF Ends, Finishes, CheckFinished, IsRunning, Children, Range, ChannelKinds
<1>2. CASE op[p].kind = "ALT"
  <2>1. Children(p) = {Closure(p)}
    BY <1>2, FreshClosure
  <2>2. Fresh(op[p]) => op[Closure(p)].kind = "none"
    BY <1>2, FreshClosure
  <2>3. ~Fresh(op[p]) => ~IsRunning(Closure(p))
    BY <1>2 DEF Ends, Finishes, Fresh, ChannelKinds
  <2> QED
    BY <2>1, <2>2, <2>3 DEF IsRunning
<1>3. CASE op[p].kind \notin {"PAR", "PARWHILE", "ALT"}
  <2>1. op[p].kind # "MAIN"
    BY DEF Ends, Finishes, ChannelKinds
  <2> QED
    BY <1>3, <2>1, NoClosures DEF IInv, ParKinds, Spawning
<1> QED
  BY <1>1, <1>2, <1>3

(***************************************************************************)
(* What OpChannel::Communicate leaves: the reader has the arguments, the   *)
(* writer has none, neither waits any more, and nobody else is touched.    *)
(***************************************************************************)
LEMMA CommunicateFacts ==
  ASSUME IInv, NEW c \in Chan, NEW in \in Proc, NEW out \in Proc, NEW reader,
         in = attachIn[c], out = attachOut[c], Communicate(c, reader)
  PROVE  /\ in # out /\ WaitsIn(in, c) /\ OffersOn(out, c)
         /\ \A q \in Proc \ {in, out} : op'[q] = op[q]
         /\ op'[in] = MoveChannelArguments(op[in], c, op[out].arguments)
         /\ op'[in].kind = op[in].kind /\ op'[in].argumentsMoved
         /\ op'[in].arguments = op[out].arguments
         /\ op'[in].channel = op[in].channel
         /\ op'[in].cases = op[in].cases /\ op'[in].closures = op[in].closures
         /\ op[in].kind = "ALT" =>
              /\ op'[in].caseTriggered = FindCaseForChannel(op[in], c)
              /\ op'[in].caseTriggered \in CasesFor(op[in], c)
              /\ \A i \in CasesFor(op[in], c) : op'[in].caseTriggered <= i
              /\ op'[in].caseTriggered # 0
         /\ op'[out] = CloseArguments(op[out])
         /\ op'[out].kind = op[out].kind /\ op'[out].kind \in {"OUT", "CPPOUT"}
         /\ op'[out].argumentsMoved /\ op'[out].arguments = NoArgs
         /\ attachIn' = Detached(in)
         /\ \A d \in Chan : attachIn'[d] = IF attachIn[d] = in THEN NoProc ELSE attachIn[d]
         /\ attachOut' = [attachOut EXCEPT ![c] = NoProc]
<1>0. in # NoProc
  BY ProcessAssumption
<1>1. /\ OffersOn(out, c) /\ WaitsIn(in, c) /\ in # out
      /\ op[in] \in Operation /\ op[out] \in Operation
  BY DEF IInv, TypeOK, ProcessTypeOK, Attached, WaitsIn, OffersOn
<1>2. /\ op' = [op EXCEPT ![in] = MoveChannelArguments(@, c, op[out].arguments),
                          ![out] = CloseArguments(@)]
      /\ attachIn' = Detached(in)
      /\ attachOut' = [attachOut EXCEPT ![c] = NoProc]
  BY <1>0 DEF Communicate
<1>3. /\ op'[in] = MoveChannelArguments(op[in], c, op[out].arguments)
      /\ op'[out] = CloseArguments(op[out])
      /\ \A q \in Proc \ {in, out} : op'[q] = op[q]
  BY <1>1, <1>2 DEF IInv, TypeOK, ProcessTypeOK
<1>4. /\ op'[in].kind = op[in].kind /\ op'[in].argumentsMoved
      /\ op'[in].arguments = op[out].arguments
      /\ op'[in].channel = op[in].channel
      /\ op'[in].cases = op[in].cases /\ op'[in].closures = op[in].closures
      /\ op[in].kind = "ALT" => op'[in].caseTriggered = FindCaseForChannel(op[in], c)
  BY <1>1, <1>3 DEF MoveChannelArguments, Operation
<1>5. op[in].kind = "ALT" =>
        /\ FindCaseForChannel(op[in], c) \in CasesFor(op[in], c)
        /\ \A i \in CasesFor(op[in], c) : FindCaseForChannel(op[in], c) <= i
        /\ FindCaseForChannel(op[in], c) # 0
  <2>1. CasesFor(op[in], c) \in SUBSET (Nat \ {0})
    BY ReadyFacts DEF CasesFor
  <2> QED
    BY <1>1, <2>1, FirstOfIsLeast DEF WaitsIn, FindCaseForChannel
<1>6. /\ op'[out].kind = op[out].kind /\ op'[out].kind \in {"OUT", "CPPOUT"}
      /\ op'[out].argumentsMoved /\ op'[out].arguments = NoArgs
  BY <1>1, <1>3, CloseArgumentsFacts DEF OffersOn
<1>7. \A d \in Chan : attachIn'[d] = IF attachIn[d] = in THEN NoProc ELSE attachIn[d]
  <2>1. \A d \in Chan : attachIn[d] = in => d \in Attachable(op[in])
    BY DEF IInv, Attached, WaitsIn, Attachable, CasesFor
  <2> QED
    BY <1>2, <2>1 DEF Detached
<1> QED
  BY <1>1, <1>2, <1>3, <1>4, <1>5, <1>6, <1>7

(* A step of the evaluator leaves p, that it evaluated, without a partner. *)
LEMMA EvaluatedPrompt ==
  ASSUME IInv', Prompt, NEW p \in Proc, Evaluating(p), Shrinking,
         \A q \in Proc : NilWaits(q)' => NilWaits(q), Served(p)'
  PROVE  Prompt'
<1>1. failed = "none" /\ \A q \in Proc : Evaluating(q) => q = p
  BY DEF Evaluating
<1> QED
  BY <1>1, NothingBegins

(* The operation of p ends, with all below it. *)
LEMMA ResumePrompt ==
  ASSUME IInv', Prompt, NEW p \in Proc, Evaluating(p),
         NEW results, NEW gone, NEW stk, NEW flags, Resume(p, results, gone, stk, flags),
         Shrinking
  PROVE  Prompt'
<1>1. \A q \in Proc : op'[q] = IF q = p \/ q \in gone THEN NoOp ELSE op[q]
  BY DEF Resume
<1>2. \A q \in Proc : NilWaits(q)' => NilWaits(q)
  BY <1>1 DEF NilWaits, NoOp
<1>3. Served(p)'
  BY <1>1 DEF Served, NilWaits, WaitsIn, OffersOn, NoOp
<1> QED
  BY <1>2, <1>3, EvaluatedPrompt

(* A process p starts a closure. *)
LEMMA StartPrompt ==
  ASSUME IInv, IInv', Prompt, NEW p \in Proc, Evaluating(p),
         NEW o, NEW k, NEW args, NEW ps, NEW asserted,
         StartEvaluation(p, o, k, args, ps, asserted), UNCHANGED chanVars,
         o.kind \in Spawning \/ (o.kind = "ALT" /\ o.caseTriggered # 0)
  PROVE  Prompt'
<1>1. \A q \in Proc : op'[q] = IF q = p THEN o ELSE op[q]
  BY DEF StartEvaluation, IInv, TypeOK, ProcessTypeOK
<1>2. \A q \in Proc : NilWaits(q)' => NilWaits(q)
  BY <1>1 DEF NilWaits, ParKinds, Spawning
<1>3. Served(p)'
  BY <1>1 DEF Served, NilWaits, WaitsIn, OffersOn, ParKinds, Spawning
<1>4. Shrinking
  BY DEF Shrinking, chanVars
<1> QED
  BY <1>2, <1>3, <1>4, EvaluatedPrompt

(* A turn of the evaluator attaches nobody and closes nothing. *)
LEMMA EvaluateShrinks ==
  ASSUME IInv, NEW p \in Proc, EvaluateStep(p)
  PROVE  Shrinking /\ isClosed' = isClosed
<1>1. CASE UNCHANGED chanVars
  BY <1>1 DEF Shrinking, chanVars
<1>2. CASE EndParWhile(p)
  BY <1>2 DEF EndParWhile, DetachAll, Shrinking
<1>3. CASE TakesNil(p)
  BY <1>3, TriggerFacts DEF TakesNil, Shrinking
<1>4. CASE Communicates(p)
  <2>1. PICK c \in Chan, reader \in Proc : Meets(p, c, reader) /\ Communicate(c, reader)
    BY <1>4 DEF Communicates
  <2>2. CASE attachIn[c] = NoProc
    <3>1. UNCHANGED <<attachIn, attachOut>>
      BY <2>1, <2>2 DEF Communicate
    <3>2. isClosed' = isClosed
      BY <1>4 DEF Communicates
    <3> QED
      BY <3>1, <3>2 DEF Shrinking
  <2>3. CASE attachIn[c] # NoProc
    <3>1. PICK in \in Proc, out \in Proc : in = attachIn[c] /\ out = attachOut[c]
      BY <2>1, <2>3, ProcessAssumption
         DEF Meets, OutAttached, IInv, TypeOK, ChannelTypeOK
    <3>2. /\ \A d \in Chan : attachIn'[d] = IF attachIn[d] = in THEN NoProc ELSE attachIn[d]
          /\ attachOut' = [attachOut EXCEPT ![c] = NoProc]
      BY <2>1, <3>1, CommunicateFacts
    <3> QED
      BY <1>4, <3>2 DEF Communicates, Shrinking, IInv, TypeOK, ChannelTypeOK
  <2> QED
    BY <2>2, <2>3
<1> QED
  BY <1>1, <1>2, <1>3, <1>4, EvaluateShape
     DEF Nothing, Ends, StartClosure, StartTriggered

(* The two that meet, one of which is evaluated. *)
LEMMA PartnersMeet ==
  ASSUME IInv, Prompt, NEW p \in Proc, Evaluating(p), NEW c \in Chan, NEW reader,
         Meets(p, c, reader), InAttached(c)
  PROVE  \E in, out \in Proc : /\ in = attachIn[c] /\ out = attachOut[c]
                               /\ p = in \/ (p = out /\ OffersOn(p, c))
                               /\ reader = in
<1>1. OutAttached(c)
  BY ProcessAssumption DEF Meets, OutAttached
<1>2. PICK in \in Proc, out \in Proc : in = attachIn[c] /\ out = attachOut[c]
  BY <1>1 DEF InAttached, OutAttached, IInv, TypeOK, ChannelTypeOK
<1>3. p = in \/ p = out
  BY <1>1, <1>2 DEF Prompt, Evaluating
<1>4. OffersOn(out, c) /\ WaitsIn(in, c)
  BY <1>2 DEF IInv, Attached
<1>5. reader = in
  BY <1>2, <1>3, <1>4 DEF Meets, WaitsIn, OffersOn
<1> QED
  BY <1>2, <1>3, <1>4, <1>5

(* Every turn of the evaluator keeps Prompt. *)
LEMMA EvaluatePrompt ==
  ASSUME IInv, IInv', Prompt, NEW p \in Proc, EvaluateStep(p)
  PROVE  Prompt'
<1>0. Evaluating(p) /\ op[p] \in Operation /\ Shrinking
  BY EvaluateTurn, EvaluateShrinks DEF IInv, TypeOK, ProcessTypeOK
<1>1. CASE Nothing(p)
  <2>1. UNCHANGED <<op, chanVars>> /\ StillWaits(p)
    BY <1>1 DEF Nothing, KeepWaiting
  <2>2. ~NilWaits(p)
    BY <2>1 DEF StillWaits, NilWaits, Ready
  <2>3. ASSUME NEW c \in Chan
        PROVE  /\ WaitsIn(p, c) => ~OutAttached(c)
               /\ OffersOn(p, c) => ~InAttached(c)
    <3>1. CASE op[p].kind = "ALT"
      <4>1. op[p].caseTriggered = 0 /\ WaitsIn(p, c) => c # NoChan /\ Ready(op[p]) = {}
        BY <2>1, <3>1, ProcessAssumption DEF StillWaits
      <4> QED
        BY <3>1, <4>1 DEF WaitsIn, OffersOn, CasesFor, Ready
    <3>2. CASE op[p].kind # "ALT"
      BY <2>1, <3>2 DEF StillWaits, WaitsIn, OffersOn
    <3> QED
      BY <3>1, <3>2
  <2>4. Served(p)'
    BY <2>1, <2>2, <2>3
       DEF Served, NilWaits, WaitsIn, OffersOn, CasesFor, InAttached, OutAttached, chanVars
  <2>5. \A q \in Proc : NilWaits(q)' => NilWaits(q)
    BY <2>1 DEF NilWaits
  <2> QED
    BY <1>0, <2>4, <2>5, EvaluatedPrompt
<1>2. CASE Ends(p) \/ EndParWhile(p)
  BY <1>0, <1>2, ResumePrompt DEF Ends, FinishOperation, EndParWhile
<1>3. CASE op[p].kind \in ParKinds /\ StartClosure(p)
  <2> DEFINE o == [op[p] EXCEPT !.closureToRun = op[p].closureToRun + 1]
  <2>1. o.kind = op[p].kind
    BY <1>0 DEF Operation
  <2> QED
    BY <1>0, <1>3, <2>1, StartPrompt DEF StartClosure, Spawning
<1>4. CASE op[p].kind = "ALT" /\ op[p].caseTriggered # 0 /\ StartTriggered(p)
  <2>1. Started(op[p]).kind = "ALT" /\ Started(op[p]).caseTriggered # 0
    BY <1>0, <1>4 DEF Started, Unreferenced, Operation
  <2> QED
    BY <1>0, <1>4, <2>1, StartPrompt DEF StartTriggered
<1>5. CASE TakesNil(p)
  <2> DEFINE i == op[p].nilCase
  <2>1. i # 0 /\ op[p].kind = "ALT" /\ Trigger(p, i, Popped, PoppedFlags)
    BY <1>5, ReadyFacts DEF TakesNil
  <2>2. /\ \A q \in Proc \ {p} : op'[q] = op[q]
        /\ op'[p].kind = "ALT" /\ op'[p].caseTriggered = i
    BY <2>1, TriggerFacts
  <2>3. Served(p)' /\ \A q \in Proc : NilWaits(q)' => NilWaits(q)
    BY <2>1, <2>2 DEF Served, NilWaits, WaitsIn, OffersOn
  <2> QED
    BY <1>0, <2>3, EvaluatedPrompt
<1>6. CASE Communicates(p)
  <2>1. PICK c \in Chan, reader \in Proc : Meets(p, c, reader) /\ Communicate(c, reader)
    BY <1>6 DEF Communicates
  <2>2. CASE ~InAttached(c)
    <3>1. failed' = "not_attached"
      BY <2>1, <2>2 DEF Communicate, PushEvalSteps, InAttached
    <3> QED
      BY <3>1 DEF Prompt
  <2>3. CASE InAttached(c)
    <3>1. PICK in \in Proc, out \in Proc :
            /\ in = attachIn[c] /\ out = attachOut[c]
            /\ p = in \/ p = out
      BY <1>0, <2>1, <2>3, PartnersMeet
    <3>2. /\ in # out /\ op[in].kind \in {"IN", "RANGE", "ALT"}
          /\ \A q \in Proc \ {in, out} : op'[q] = op[q]
          /\ op'[in].kind = op[in].kind /\ op'[in].argumentsMoved
          /\ op[in].kind = "ALT" => op'[in].caseTriggered # 0
          /\ op'[out].kind \in {"OUT", "CPPOUT"}
          /\ op'[out].argumentsMoved /\ op'[out].arguments = NoArgs
      BY <2>1, <3>1, CommunicateFacts DEF WaitsIn
    <3>3. Served(p)'
      BY <3>1, <3>2 DEF Served, NilWaits, WaitsIn, OffersOn
    <3>4. \A q \in Proc : NilWaits(q)' => NilWaits(q)
      BY <3>2 DEF NilWaits
    <3> QED
      BY <1>0, <3>3, <3>4, EvaluatedPrompt
  <2> QED
    BY <2>2, <2>3
<1> QED
  BY <1>1, <1>2, <1>3, <1>4, <1>5, <1>6, EvaluateShape DEF ParKinds, Spawning

(* While the delta time is handed down nothing can go on, and nothing begins. *)
LEMMA WorkPrompt ==
  ASSUME IInv, IInv', Prompt, NEW p \in Proc, WorkStep(p)
  PROVE  Prompt'
<1>0. failed = "none" /\ \A q \in Proc : ~Evaluating(q)
  BY WorkTurn DEF Working, Evaluating
<1>1. CASE UNCHANGED <<op, chanVars>>
  BY <1>0, <1>1, NothingBegins DEF Shrinking, NilWaits, chanVars
<1>2. CASE WorkSleep(p) /\ UNCHANGED chanVars
  <2>1. /\ \A q \in Proc \ {p} : op'[q] = op[q]
        /\ op'[p].kind = "SLEEP"
    BY <1>2 DEF WorkSleep, IInv, TypeOK, ProcessTypeOK, Operation
  <2>2. Shrinking /\ \A q \in Proc : NilWaits(q)' => NilWaits(q)
    BY <1>2, <2>1 DEF Shrinking, NilWaits, chanVars
  <2> QED
    BY <1>0, <2>2, NothingBegins
<1>3. CASE op[p].kind = "ALT" /\ Trigger(p, Earliest(op[p]), stack, isOnStack)
           /\ op[p].caseTriggered = 0
  <2>1. /\ \A q \in Proc \ {p} : op'[q] = op[q]
        /\ op'[p].caseTriggered = Earliest(op[p]) /\ op'[p].cases = op[p].cases
        /\ \A d \in Chan : attachIn'[d] = IF attachIn[d] = p THEN NoProc ELSE attachIn[d]
        /\ UNCHANGED attachOut
    BY <1>3, TriggerFacts
  <2>2. op'[p].nilCase = op[p].nilCase
    BY <1>3 DEF Trigger, IInv, TypeOK, ProcessTypeOK, Operation
  <2>3. Shrinking /\ \A q \in Proc : NilWaits(q)' => NilWaits(q)
    BY <1>3, <2>1, <2>2 DEF Shrinking, NilWaits
  <2> QED
    BY <1>0, <2>3, NothingBegins
<1> QED
  BY <1>1, <1>2, <1>3
     DEF WorkStep, ProcessWork, WorkNothing, WorkPar, WorkAlt

(* Main is terminated between two calls of Host::Work. *)
LEMMA TerminatePrompt ==
  ASSUME IInv', Prompt, TerminateMain
  PROVE  Prompt'
<1>0. failed = "none" /\ \A q \in Proc : ~Evaluating(q)
  BY DEF TerminateMain, Idle, Evaluating
<1>1. Shrinking
  BY DEF TerminateMain, DetachAll, Shrinking
<1>2. \A q \in Proc : NilWaits(q)' => NilWaits(q)
  BY DEF TerminateMain, NilWaits, NoOp
<1> QED
  BY <1>0, <1>1, <1>2, NothingBegins

LEMMA InitPrompt == Init => Prompt
<1> QED
  BY DEF Init, ProcessInit, ChannelInit, Prompt, NilWaits, InAttached, NoOp

(* Whatever can go on is what the evaluator does next, after every step. *)
LEMMA NextPrompt == IInv /\ Turns /\ Prompt /\ [Next]_vars => Prompt'
<1> SUFFICES ASSUME IInv, Turns, Prompt, [Next]_vars PROVE Prompt'
  OBVIOUS
<1>0. IInv'
  BY NextIInv
<1>1. CASE (HostMain \/ HostWork) /\ UNCHANGED chanVars
  <2>1. /\ failed = "none" /\ UNCHANGED <<op, chanVars>>
        /\ \A q \in Proc : ~Evaluating(q)
    BY <1>1 DEF HostMain, HostWork, Turns, Idle, Evaluating
  <2> QED
    BY <1>0, <2>1, NothingBegins DEF Shrinking, NilWaits, chanVars
<1>2. CASE TerminateMain
  BY <1>0, <1>2, TerminatePrompt
<1>3. ASSUME NEW p \in Proc, LuaStep(p) \/ EvaluateStep(p) \/ WorkStep(p)
      PROVE  Prompt'
  BY <1>0, <1>3, LuaPrompt, EvaluatePrompt, WorkPrompt
<1>4. CASE UNCHANGED vars
  BY <1>4 DEF vars, procVars, chanVars, Prompt, NilWaits, InAttached, OutAttached, Evaluating
<1> QED
  BY <1>1, <1>2, <1>3, <1>4 DEF Next

(* Both, along every behaviour. *)
LEMMA PromptHolds == Spec => [](IInv /\ Turns /\ Prompt)
<1> QED
  BY InitTurns, NextTurns, InitPrompt, NextPrompt, Inductive, PTL DEF Spec

(***************************************************************************)
(* Host::Work stops only when no communication is possible any more        *)
(* (LuaCSP.qbk:231): no channel is left with both ends waiting.            *)
(***************************************************************************)
THEOREM EvaluationIsGreedy == Spec => []Greedy
<1>1. ASSUME IInv, Prompt PROVE Greedy
  <2> SUFFICES ASSUME Idle, NEW c \in Chan, InAttached(c), OutAttached(c) PROVE FALSE
    BY DEF Greedy
  <2>1. Evaluating(attachIn[c]) \/ Evaluating(attachOut[c])
    BY <1>1 DEF Prompt, Idle
  <2> QED
    BY <2>1 DEF Idle, Evaluating
<1> QED
  BY <1>1, PromptHolds, PTL
----------------------------------------------------------------------------
(***************************************************************************)
(* An ALT takes the topmost case that is ready.  Its own evaluation takes  *)
(* it by construction.  A writer that meets an ALT takes the case of its   *)
(* channel instead, and the passing of time the one that has expired: they *)
(* do so only when nothing else is ready, because the evaluator is prompt. *)
(***************************************************************************)
(* The calls of the Lua code trigger no ALT. *)
LEMMA CallsTriggerNothing ==
  ASSUME IInv, NEW p \in Proc, LuaStep(p), NEW q \in Proc, op[q].kind = "ALT"
  PROVE  op'[q].caseTriggered = op[q].caseTriggered
<1>1. running = p /\ q # p /\ op[q] \in Operation
  BY LuaTurn, RunningFacts DEF IInv, TypeOK, ProcessTypeOK
<1>2. CASE op'[q] = op[q]
  BY <1>2
<1>3. ASSUME NEW o, Yield(p, o) PROVE op'[q] = op[q]
  BY <1>1, <1>3 DEF Yield, IInv, TypeOK, ProcessTypeOK
<1>4. CASE Close(p)
  <2>1. PICK c \in Chan :
          op' = [r \in Proc |-> IF r = attachIn[c] THEN CloseInput(op[r], c)
                                ELSE IF r = attachOut[c] THEN CloseArguments(op[r])
                                ELSE op[r]]
    BY <1>4 DEF Close
  <2>2. q # attachOut[c]
    BY DEF IInv, Attached, OffersOn
  <2>3. q = attachIn[c] => CloseInput(op[q], c).caseTriggered = op[q].caseTriggered
    BY CloseInputFacts
  <2> QED
    BY <2>1, <2>2, <2>3
<1>5. CASE Return(p) \/ LuaError(p) \/ Busy(p)
  BY <1>2, <1>5 DEF Return, LuaError, End, Busy
<1>6. ASSUME NEW kind, ParInit(p, kind) PROVE op'[q] = op[q]
  <2>1. PICK n \in 0 .. MaxClosures : \E closures \in [1 .. n -> Free] :
          Yield(p, [NoOp EXCEPT !.kind = kind, !.closures = closures])
    BY <1>6 DEF ParInit
  <2> QED
    BY <1>3, <2>1
<1>7. CASE Sleep(p) \/ Out(p) \/ AltInit(p) \/ \E kind \in {"IN", "RANGE"} : In(p, kind)
  BY <1>2, <1>3, <1>7 DEF Sleep, Out, AltInit, In
<1> QED
  BY <1>2, <1>4, <1>5, <1>6, <1>7 DEF LuaStep, ProcessCall, ChannelCall, ParCall

(* Neither does the end of an operation. *)
LEMMA ResumeTriggersNothing ==
  ASSUME NEW p \in Proc, NEW results, NEW gone, NEW stk, NEW flags,
         Resume(p, results, gone, stk, flags), NEW q \in Proc, op'[q].kind = "ALT"
  PROVE  op'[q] = op[q]
<1> QED
  BY DEF Resume, NoOp

(* The two that communicate take the topmost case of the reader that is ready. *)
LEMMA CommunicatesTopmost ==
  ASSUME IInv, PointedTo, Prompt, NEW p \in Proc, EvaluateStep(p), Communicates(p),
         NEW q \in Proc, NEW i \in DOMAIN op[q].cases, Triggered(q, i),
         NEW j \in Ready(op[q])
  PROVE  i <= j
<1>0. /\ i \in Nat \ {0} /\ j \in Nat /\ j \in DOMAIN op[q].cases
      /\ op[q].kind = "ALT" /\ op[q].caseTriggered = 0 /\ op'[q].caseTriggered = i
      /\ Evaluating(p) /\ failed = "none"
  BY ReadyFacts, EvaluateTurn DEF Triggered, Evaluating
<1>1. PICK c \in Chan, reader \in Proc :
        Meets(p, c, reader) /\ Chosen(op[p], c) /\ Communicate(c, reader)
  BY DEF Communicates
<1>2. InAttached(c)
  <2>1. ~InAttached(c) => UNCHANGED op
    BY <1>1 DEF Communicate, InAttached
  <2> QED
    BY <1>0, <2>1
<1>3. PICK in \in Proc, out \in Proc :
        in = attachIn[c] /\ out = attachOut[c] /\ (p = in \/ (p = out /\ OffersOn(p, c)))
  BY <1>0, <1>1, <1>2, PartnersMeet
<1>4. /\ \A r \in Proc \ {in, out} : op'[r] = op[r]
      /\ op'[out].kind \in {"OUT", "CPPOUT"} /\ in # out
      /\ op[in].kind = "ALT" => \A k \in CasesFor(op[in], c) : op'[in].caseTriggered <= k
  BY <1>1, <1>3, CommunicateFacts
<1>5. q = in
  BY <1>0, <1>4 DEF Triggered
<1>6. \A k \in CasesFor(op[q], c) : i <= k
  BY <1>0, <1>4, <1>5
<1>7. CASE p = q
  <2> DEFINE first == FirstOf(Ready(op[q]))
  <2>1. first \in Ready(op[q]) /\ first <= j /\ first \in Nat
    BY ReadyFacts
  <2>2. first \in CasesFor(op[q], c)
    BY <1>0, <1>1, <1>7, <2>1, ReadyFacts DEF Chosen, CasesFor
  <2> QED
    BY <1>0, <1>6, <2>1, <2>2
<1>8. CASE p # q
  <2>1. ~Evaluating(q) /\ p = out /\ OffersOn(p, c)
    BY <1>0, <1>3, <1>5, <1>8 DEF Evaluating
  <2>2. j # op[q].nilCase
    BY <1>0, <2>1 DEF Prompt, NilWaits
  <2>3. PICK d \in Chan : d = op[q].cases[j].channel /\ OutAttached(d)
    BY <1>0, <2>2, ReadyFacts DEF Ready, AltCase
  <2>4. attachIn[d] = q
    BY <1>0, <2>3 DEF PointedTo, WaitsIn, CasesFor
  <2>5. Evaluating(attachOut[d])
    BY <1>0, <2>1, <2>3, <2>4, ProcessAssumption DEF Prompt, InAttached
  <2>6. attachOut[d] = p
    BY <1>0, <2>5 DEF Evaluating
  <2>7. d = c
    BY <2>1, <2>6 DEF IInv, Attached, OffersOn
  <2> QED
    BY <1>0, <1>6, <2>3, <2>7 DEF CasesFor
<1> QED
  BY <1>7, <1>8

(* When time triggers an ALT, none of its cases is ready. *)
LEMMA WorkTopmost ==
  ASSUME IInv, PointedTo, Prompt, NEW p \in Proc, WorkStep(p),
         NEW q \in Proc, NEW i \in DOMAIN op[q].cases, Triggered(q, i),
         NEW j \in Ready(op[q])
  PROVE  FALSE
<1>1. /\ failed = "none" /\ \A r : ~Evaluating(r)
      /\ op[q].kind = "ALT" /\ op[q].caseTriggered = 0
  BY WorkTurn DEF Working, Evaluating, Triggered
<1>2. j \in DOMAIN op[q].cases /\ j # op[q].nilCase
  BY <1>1, ReadyFacts DEF Prompt, NilWaits
<1>3. PICK d \in Chan : d = op[q].cases[j].channel /\ OutAttached(d)
  BY <1>2, ReadyFacts DEF Ready, AltCase
<1>4. attachIn[d] = q
  BY <1>1, <1>2, <1>3 DEF PointedTo, WaitsIn, CasesFor
<1> QED
  BY <1>1, <1>3, <1>4, ProcessAssumption DEF Prompt, InAttached

(* No step takes a case below one that is ready. *)
LEMMA NextTopmost ==
  ASSUME IInv, PointedTo, Prompt, [Next]_vars,
         NEW q \in Proc, NEW i \in DOMAIN op[q].cases, Triggered(q, i),
         NEW j \in Ready(op[q])
  PROVE  i <= j
<1>0. i # 0 /\ op[q].kind = "ALT" /\ op'[q].kind = "ALT" /\ i # op[q].caseTriggered
  BY ReadyFacts DEF Triggered
<1>1. op'[q].caseTriggered # op[q].caseTriggered
  BY <1>0 DEF Triggered
<1>2. ASSUME NEW p \in Proc, LuaStep(p) PROVE FALSE
  BY <1>0, <1>1, <1>2, CallsTriggerNothing
<1>3. ASSUME NEW p \in Proc, EvaluateStep(p) PROVE i <= j
  <2>0. op \in [Proc -> Operation] /\ op[p] \in Operation
    BY DEF IInv, TypeOK, ProcessTypeOK
  <2>1. CASE Nothing(p)
    BY <1>1, <2>1 DEF Nothing, KeepWaiting
  <2>2. CASE Ends(p) \/ EndParWhile(p)
    BY <1>0, <1>1, <2>2, ResumeTriggersNothing DEF Ends, FinishOperation, EndParWhile
  <2>3. CASE Communicates(p)
    BY <1>3, <2>3, CommunicatesTopmost
  <2>4. CASE TakesNil(p)
    <3>1. /\ op'[p].caseTriggered = FirstOf(Ready(op[p]))
          /\ \A r \in Proc \ {p} : op'[r] = op[r]
      BY <2>4, TriggerFacts DEF TakesNil
    <3> QED
      BY <1>1, <3>1, ReadyFacts DEF Triggered
  <2>5. CASE op[p].kind \in ParKinds /\ StartClosure(p)
    BY <1>0, <1>1, <2>0, <2>5 DEF StartClosure, StartEvaluation, ParKinds, Spawning
  <2>6. CASE op[p].caseTriggered # 0 /\ StartTriggered(p)
    BY <1>1, <2>0, <2>6 DEF StartTriggered, StartEvaluation, Triggered
  <2> QED
    BY <1>3, <2>1, <2>2, <2>3, <2>4, <2>5, <2>6, EvaluateShape DEF ParKinds, Spawning
<1>4. ASSUME NEW p \in Proc, WorkStep(p) PROVE FALSE
  BY <1>4, WorkTopmost
<1>5. CASE TerminateMain
  BY <1>0, <1>1, <1>5 DEF TerminateMain, NoOp
<1>6. CASE (HostMain \/ HostWork) \/ UNCHANGED vars
  BY <1>1, <1>6 DEF HostMain, HostWork, vars, procVars
<1> QED
  BY <1>2, <1>3, <1>4, <1>5, <1>6 DEF Next

(***************************************************************************)
(* Whoever triggers an ALT, its own evaluation, a writer that meets it or  *)
(* the passing of time, no case above the one it takes was ready           *)
(* (LuaCSP.qbk:191-193); in programs that close no channel, or whose ALTs  *)
(* name no channel twice.                                                  *)
(***************************************************************************)
THEOREM AltTakesTopmostCase ==
  ASSUME {"ALT", "close"} \subseteq Calls => NoChannelTwice
  PROVE  Spec => AltTakesTopmost
<1>1. IInv /\ PointedTo /\ [Next]_vars => PointedTo'
  BY NextWaiting
<1>2. IInv /\ PointedTo /\ Prompt /\ [Next]_vars =>
        [\A p \in Proc : \A i \in DOMAIN op[p].cases :
           Triggered(p, i) => \A j \in Ready(op[p]) : i <= j]_vars
  BY NextTopmost
<1> QED
  BY <1>1, <1>2, InitWaiting, PromptHolds, PTL DEF Spec, AltTakesTopmost
----------------------------------------------------------------------------
(***************************************************************************)
(* A reader returns what it has received.  What RANGE returns depends on   *)
(* whether the channel is closed when the reader is resumed, not when the  *)
(* value passed: a writer that sends and closes at once must not be        *)
(* resumed in between.                                                     *)
(***************************************************************************)
(* Nothing is attached to a channel that is closed. *)
ClosedIsEmpty == \A c \in Chan : isClosed[c] => ~InAttached(c) /\ ~OutAttached(c)

(* A reader that has a value it has not returned yet. *)
Delivered(p) == /\ op[p].kind \in {"IN", "RANGE"} /\ op[p].argumentsMoved
                /\ op[p].arguments # NoArgs

(***************************************************************************)
(* What has been delivered is what Host::Evaluate turns to next: the       *)
(* reader is pushed after the writer (channel.cpp:100-110).                *)
(***************************************************************************)
DeliveredFirst ==
  failed = "none" =>
    \A p \in Proc : Delivered(p) => Evaluating(p) /\ ~isClosed[op[p].channel]

(* Only a call attaches an operation to a channel or closes one. *)
LEMMA OnlyCallsAttach ==
  ASSUME IInv, [Next]_vars, \A p \in Proc : ~LuaStep(p)
  PROVE  Shrinking /\ isClosed' = isClosed
<1>1. CASE UNCHANGED chanVars
  BY <1>1 DEF Shrinking, chanVars
<1>2. ASSUME NEW p \in Proc, EvaluateStep(p) PROVE Shrinking /\ isClosed' = isClosed
  BY <1>2, EvaluateShrinks
<1>3. ASSUME NEW p \in Proc, WorkAlt(p), ~UNCHANGED chanVars
      PROVE  Shrinking /\ isClosed' = isClosed
  <2>1. op[p].kind = "ALT" /\ Trigger(p, Earliest(op[p]), stack, isOnStack)
    BY <1>3 DEF WorkAlt
  <2> QED
    BY <2>1, TriggerFacts DEF Shrinking
<1>4. CASE TerminateMain
  BY <1>4 DEF TerminateMain, DetachAll, Shrinking
<1> QED
  BY <1>1, <1>2, <1>3, <1>4 DEF Next, WorkStep, WorkPar, vars

(* A program that does not use a channel it has closed leaves it empty. *)
LEMMA NextClosedIsEmpty ==
  ASSUME "reuse" \notin Calls
  PROVE  IInv /\ ClosedIsEmpty /\ [Next]_vars => ClosedIsEmpty'
<1> SUFFICES ASSUME IInv, ClosedIsEmpty, [Next]_vars PROVE ClosedIsEmpty'
  OBVIOUS
<1>0. /\ attachIn \in [Chan -> Proc \cup {NoProc}] /\ attachOut \in [Chan -> Proc \cup {NoProc}]
      /\ isClosed \in [Chan -> BOOLEAN]
  BY DEF IInv, TypeOK, ChannelTypeOK
<1>1. CASE Shrinking /\ isClosed' = isClosed
  BY <1>1 DEF Shrinking, ClosedIsEmpty, InAttached, OutAttached
<1>2. ASSUME NEW p \in Proc, LuaStep(p) PROVE ClosedIsEmpty'
  <2>1. CASE UNCHANGED chanVars
    BY <1>1, <2>1 DEF Shrinking, chanVars
  <2>2. ASSUME NEW kind, In(p, kind) PROVE ClosedIsEmpty'
    <3>1. PICK c \in Chan : ~isClosed[c] /\ attachIn' = [attachIn EXCEPT ![c] = p]
      BY <2>2 DEF In, MayUse
    <3> QED
      BY <1>0, <2>2, <3>1 DEF In, ClosedIsEmpty, InAttached, OutAttached
  <2>3. CASE Out(p)
    <3>1. PICK c \in Chan : ~isClosed[c] /\ attachOut' = [attachOut EXCEPT ![c] = p]
      BY <2>3 DEF Out, MayUse
    <3> QED
      BY <1>0, <2>3, <3>1 DEF Out, ClosedIsEmpty, InAttached, OutAttached
  <2>4. CASE AltInit(p)
    <3>1. PICK guards \in AltForms :
            /\ \A i \in DOMAIN guards :
                 guards[i].channel # NoChan => ~isClosed[guards[i].channel]
            /\ attachIn' = [c \in Chan |-> IF \E i \in DOMAIN guards : guards[i].channel = c
                                           THEN p ELSE attachIn[c]]
      BY <2>4 DEF AltInit, MayUse
    <3>2. \A c \in Chan : isClosed[c] => attachIn'[c] = attachIn[c]
      BY <3>1, ProcessAssumption
    <3> QED
      BY <2>4, <3>2 DEF AltInit, ClosedIsEmpty, InAttached, OutAttached
  <2>5. CASE Close(p)
    <3>1. PICK c \in Chan : /\ isClosed' = [isClosed EXCEPT ![c] = TRUE]
                            /\ attachIn' = [attachIn EXCEPT ![c] = NoProc]
                            /\ attachOut' = [attachOut EXCEPT ![c] = NoProc]
      BY <2>5 DEF Close
    <3> QED
      BY <1>0, <3>1 DEF ClosedIsEmpty, InAttached, OutAttached
  <2>6. CASE Busy(p) \/ \E kind \in ParKinds : ParInit(p, kind)
    BY <2>1, <2>6 DEF Busy, ParInit, chanVars
  <2> QED
    BY <1>2, <2>1, <2>2, <2>3, <2>4, <2>5, <2>6 DEF LuaStep, ChannelCall, ParCall
<1> QED
  BY <1>1, <1>2, OnlyCallsAttach

(* The calls of the Lua code deliver nothing. *)
LEMMA CallsDeliverNothing ==
  ASSUME IInv, NEW p \in Proc, LuaStep(p), NEW q \in Proc, Delivered(q)'
  PROVE  Delivered(q)
<1>0. running = p /\ op[q] \in Operation
  BY LuaTurn DEF IInv, TypeOK, ProcessTypeOK
<1>1. CASE op'[q] = op[q]
  BY <1>1 DEF Delivered
<1>2. ASSUME NEW o, Yield(p, o), ~o.argumentsMoved PROVE Delivered(q)
  BY <1>1, <1>2 DEF Yield, IInv, TypeOK, ProcessTypeOK, Delivered
<1>3. CASE Close(p)
  <2>1. PICK c \in Chan :
          op' = [r \in Proc |-> IF r = attachIn[c] THEN CloseInput(op[r], c)
                                ELSE IF r = attachOut[c] THEN CloseArguments(op[r])
                                ELSE op[r]]
    BY <1>3 DEF Close
  <2>2. CASE q = attachIn[c]
    <3>1. op'[q] = CloseInput(op[q], c)
      BY <2>1, <2>2
    <3>2. op'[q].kind = op[q].kind
      BY <2>2, <3>1, CloseInputFacts
    <3>3. op'[q] = CloseArguments(op[q])
      BY <3>1, <3>2 DEF CloseInput, Delivered
    <3> QED
      BY <1>0, <3>3 DEF CloseArguments, Operation, Delivered
  <2>3. CASE q # attachIn[c] /\ q = attachOut[c]
    BY <1>0, <2>1, <2>3 DEF CloseArguments, Operation, Delivered
  <2> QED
    BY <1>1, <2>1, <2>2, <2>3
<1>4. CASE Return(p) \/ LuaError(p) \/ Busy(p)
  BY <1>1, <1>4 DEF Return, LuaError, End, Busy
<1>5. ASSUME NEW kind, ParInit(p, kind) PROVE Delivered(q)
  <2>1. PICK n \in 0 .. MaxClosures : \E closures \in [1 .. n -> Free] :
          Yield(p, [NoOp EXCEPT !.kind = kind, !.closures = closures])
    BY <1>5 DEF ParInit
  <2>2. PICK closures \in [1 .. n -> Free] :
          Yield(p, [NoOp EXCEPT !.kind = kind, !.closures = closures])
    BY <2>1
  <2>3. ~[NoOp EXCEPT !.kind = kind, !.closures = closures].argumentsMoved
    BY DEF NoOp
  <2> QED
    BY <1>2, <2>2, <2>3
<1>6. CASE Sleep(p)
  <2>1. PICK seconds \in Seconds :
          Yield(p, [NoOp EXCEPT !.kind = "SLEEP", !.seconds = seconds])
    BY <1>6 DEF Sleep
  <2>2. ~[NoOp EXCEPT !.kind = "SLEEP", !.seconds = seconds].argumentsMoved
    BY DEF NoOp
  <2> QED
    BY <1>2, <2>1, <2>2
<1>7. CASE Out(p) \/ \E kind \in {"IN", "RANGE"} : In(p, kind)
  <2>1. PICK kind, c, args : Yield(p, ChannelOp(kind, c, args))
    BY <1>7 DEF Out, In
  <2>2. ~ChannelOp(kind, c, args).argumentsMoved
    BY DEF ChannelOp, NoOp
  <2> QED
    BY <1>2, <2>1, <2>2
<1>8. CASE AltInit(p)
  <2>1. PICK guards \in AltForms, k \in Free : Yield(p, AltOp(guards, k))
    BY <1>8 DEF AltInit
  <2>2. ~AltOp(guards, k).argumentsMoved
    BY DEF AltOp, NoOp
  <2> QED
    BY <1>2, <2>1, <2>2
<1> QED
  BY <1>3, <1>4, <1>5, <1>6, <1>7, <1>8 DEF LuaStep, ProcessCall, ChannelCall, ParCall

(* A reader that has a value ends its operation when it is evaluated. *)
LEMMA DeliveredEnds ==
  ASSUME IInv, NEW p \in Proc, EvaluateStep(p), Delivered(p)
  PROVE  EvalIn(p) /\ Ends(p)
<1> QED
  BY EvaluateShape
     DEF EvaluateStep, ProcessEvaluate, ChannelEvaluate, ParEvaluate, EvalSleep, EvalIn,
         EvalOut, EvalPar, EvalParWhile, EvalAlt, Delivered, Nothing, StillWaits,
         Communicates, Meets, WaitsIn, OffersOn, TakesNil, ParKinds, Spawning

(* Communicate delivers to the reader, that is evaluated next. *)
LEMMA CommunicateDelivers ==
  ASSUME IInv, Prompt, ClosedIsEmpty, NEW p \in Proc, EvaluateStep(p), Communicates(p),
         failed' = "none",
         NEW q \in Proc, Delivered(q)', ~Delivered(q)
  PROVE  Evaluating(q)' /\ ~isClosed'[op'[q].channel]
<1>0. /\ Evaluating(p) /\ running = NoProc /\ work = <<>>
      /\ UNCHANGED <<running, work, isClosed>>
  BY EvaluateTurn DEF Evaluating, Communicates
<1>1. PICK c \in Chan, reader \in Proc : Meets(p, c, reader) /\ Communicate(c, reader)
  BY DEF Communicates
<1>2. InAttached(c)
  BY <1>1 DEF Communicate, PushEvalSteps, InAttached
<1>3. PICK in \in Proc, out \in Proc :
        in = attachIn[c] /\ out = attachOut[c] /\ reader = in
  BY <1>0, <1>1, <1>2, PartnersMeet
<1>4. /\ in # out /\ WaitsIn(in, c)
      /\ \A r \in Proc \ {in, out} : op'[r] = op[r]
      /\ op'[in].kind = op[in].kind /\ op'[in].channel = op[in].channel
      /\ op'[out].kind \in {"OUT", "CPPOUT"}
  BY <1>1, <1>3, CommunicateFacts
<1>5. q = in
  BY <1>4 DEF Delivered
<1>6. op'[q].channel = c /\ ~isClosed[c]
  BY <1>2, <1>4, <1>5 DEF Delivered, WaitsIn, ClosedIsEmpty
<1>7. stack' = Popped \o <<out, in>>
  BY <1>1, <1>2, <1>3 DEF Communicate, PushEvalSteps, Partners, InAttached
<1>8. stack' # <<>> /\ Last(stack') = in
  <2>1. Popped \in Seq(Proc) /\ <<out, in>> \in Seq(Proc) /\ <<out, in>> # <<>>
    BY <1>0, EvaluatingFacts
  <2>2. Len(<<out, in>>) = 2 /\ <<out, in>>[2] = in
    OBVIOUS
  <2> QED
    BY <1>7, <2>1, <2>2, LastPushed
<1> QED
  BY <1>0, <1>5, <1>6, <1>8 DEF Evaluating

(* Every other step delivers nothing. *)
LEMMA OthersDeliverNothing ==
  ASSUME IInv, [Next]_vars, \A p \in Proc : ~(EvaluateStep(p) /\ Communicates(p)),
         NEW q \in Proc, Delivered(q)'
  PROVE  Delivered(q)
<1>0. op \in [Proc -> Operation] /\ op[q] \in Operation
  BY DEF IInv, TypeOK, ProcessTypeOK
<1>1. CASE op'[q] = op[q]
  BY <1>1 DEF Delivered
<1>2. ASSUME NEW p \in Proc, LuaStep(p) PROVE Delivered(q)
  BY <1>2, CallsDeliverNothing
<1>3. ASSUME NEW p \in Proc, EvaluateStep(p) PROVE Delivered(q)
  <2>0. op[p] \in Operation
    BY <1>0
  <2>1. CASE Nothing(p)
    BY <1>1, <2>1 DEF Nothing, KeepWaiting
  <2>2. CASE Ends(p) \/ EndParWhile(p)
    BY <1>1, <2>2 DEF Ends, FinishOperation, EndParWhile, Resume, NoOp, Delivered
  <2>3. CASE TakesNil(p)
    <3>1. op'[p].kind = "ALT" /\ \A r \in Proc \ {p} : op'[r] = op[r]
      BY <2>3, TriggerFacts DEF TakesNil
    <3> QED
      BY <1>1, <3>1 DEF Delivered
  <2>4. CASE op[p].kind \in ParKinds /\ StartClosure(p)
    BY <1>0, <1>1, <2>0, <2>4
       DEF StartClosure, StartEvaluation, ParKinds, Spawning, Delivered, Operation
  <2>5. CASE op[p].kind = "ALT" /\ StartTriggered(p)
    <3>1. Started(op[p]).kind = "ALT"
      BY <2>0, <2>5 DEF Started, Unreferenced, Operation
    <3> QED
      BY <1>0, <1>1, <2>5, <3>1 DEF StartTriggered, StartEvaluation, Delivered
  <2> QED
    BY <1>3, <2>1, <2>2, <2>3, <2>4, <2>5, EvaluateShape DEF ParKinds, Spawning
<1>4. ASSUME NEW p \in Proc, WorkStep(p) PROVE Delivered(q)
  <2>1. CASE WorkSleep(p)
    BY <1>0, <1>1, <2>1 DEF WorkSleep, Operation, Delivered
  <2>2. CASE op[p].kind = "ALT" /\ Trigger(p, Earliest(op[p]), stack, isOnStack)
    BY <1>1, <2>2, TriggerFacts DEF Delivered
  <2> QED
    BY <1>1, <1>4, <2>1, <2>2 DEF WorkStep, ProcessWork, WorkNothing, WorkPar, WorkAlt
<1>5. CASE TerminateMain
  BY <1>1, <1>5 DEF TerminateMain, NoOp, Delivered
<1>6. CASE HostMain \/ HostWork \/ UNCHANGED vars
  BY <1>1, <1>6 DEF HostMain, HostWork, vars, procVars
<1> QED
  BY <1>2, <1>3, <1>4, <1>5, <1>6 DEF Next

(* While a value is on its way to the Lua code nothing else happens. *)
LEMMA DeliveredIsNext ==
  ASSUME IInv, Turns, NEW q \in Proc, Evaluating(q), Next
  PROVE  EvaluateStep(q)
<1>1. /\ running = NoProc /\ work = <<>> /\ stack # <<>> /\ q = Last(stack)
      /\ thread[Main] # "ready" /\ ~Idle /\ \A p \in Proc : p # running
  BY ProcessAssumption DEF Evaluating, Turns, Idle
<1>2. \A p \in Proc : ~LuaStep(p) /\ ~WorkStep(p)
  BY <1>1, LuaTurn, WorkTurn DEF Working
<1>3. ~HostMain /\ ~HostWork /\ ~TerminateMain
  BY <1>1 DEF HostMain, HostWork, TerminateMain
<1>4. \A p \in Proc : EvaluateStep(p) => p = q
  BY <1>1, EvaluateTurn DEF Evaluating
<1> QED
  BY <1>2, <1>3, <1>4 DEF Next

(* What is delivered is returned before anything else happens. *)
LEMMA NextDeliveredFirst ==
  IInv /\ Turns /\ Prompt /\ ClosedIsEmpty /\ DeliveredFirst /\ [Next]_vars => DeliveredFirst'
<1> SUFFICES ASSUME IInv, Turns, Prompt, ClosedIsEmpty, DeliveredFirst, [Next]_vars,
                    failed' = "none", NEW q \in Proc, Delivered(q)'
             PROVE  Evaluating(q)' /\ ~isClosed'[op'[q].channel]
  BY DEF DeliveredFirst
<1>1. CASE UNCHANGED vars
  BY <1>1 DEF vars, procVars, chanVars, DeliveredFirst, Delivered, Evaluating
<1>2. CASE Next /\ Delivered(q)
  <2>1. Evaluating(q)
    BY <1>2, LuaTurn, EvaluateTurn, WorkTurn
       DEF DeliveredFirst, Next, HostMain, HostWork, TerminateMain, Idle, Evaluating, Working
  <2>2. Ends(q)
    BY <1>2, <2>1, DeliveredIsNext, DeliveredEnds
  <2> QED
    BY <2>2 DEF Ends, FinishOperation, Resume, NoOp, Delivered
<1>3. CASE ~Delivered(q)
  BY <1>3, OthersDeliverNothing, CommunicateDelivers
<1> QED
  BY <1>1, <1>2, <1>3

(* The process that is resumed with an IN or a RANGE is one that is evaluated. *)
LEMMA ReaderResumed ==
  ASSUME IInv, Next, NEW p \in Proc, op[p].kind \in {"IN", "RANGE"},
         running = NoProc, running' = p
  PROVE  EvalIn(p) /\ op[p].argumentsMoved
<1>0. p # NoProc /\ thread[p] = "yield"
  BY ProcessAssumption DEF IInv, InOperation
<1>1. ASSUME NEW q \in Proc, EvaluateStep(q)
      PROVE  EvalIn(p) /\ op[p].argumentsMoved
  <2>1. CASE Nothing(q) \/ Communicates(q) \/ TakesNil(q)
    BY <1>0, <2>1 DEF Nothing, KeepWaiting, Communicates, TakesNil, Trigger
  <2>2. CASE op[q].kind \in ParKinds /\ StartClosure(q)
    <3>1. p = op[q].closures[op[q].closureToRun + 1]
          /\ op[q].closureToRun + 1 \in DOMAIN op[q].closures
      BY <2>2 DEF StartClosure, StartEvaluation
    <3>2. op[q].closureToRun \in Nat
      BY DEF IInv, TypeOK, ProcessTypeOK, Operation
    <3>3. thread[p] = "ready"
      BY <2>2, <3>1, <3>2 DEF IInv, Closures, Spawning
    <3> QED
      BY <1>0, <3>3
  <2>3. CASE op[q].kind = "ALT" /\ op[q].argumentsMoved /\ StartTriggered(q)
    <3>1. p = Closure(q)
      BY <2>3 DEF StartTriggered, StartEvaluation
    <3>2. thread[p] = "null"
      BY <2>3, <3>1 DEF IInv, Closures, Fresh
    <3> QED
      BY <1>0, <3>2
  <2>4. CASE Ends(q) \/ (op[q].kind = "PARWHILE" /\ EndParWhile(q))
    <3>1. p = q
      BY <2>4 DEF Ends, FinishOperation, EndParWhile, Resume
    <3>2. Ends(p)
      BY <2>4, <3>1
    <3>3. op[p].argumentsMoved
      BY <3>2 DEF Ends, Finishes, ChannelKinds
    <3>4. EvalIn(p)
      BY <1>1, <3>1
         DEF EvaluateStep, ProcessEvaluate, ChannelEvaluate, ParEvaluate, EvalSleep,
             EvalOut, EvalPar, EvalParWhile, EvalAlt
    <3> QED
      BY <3>3, <3>4
  <2> QED
    BY <1>1, <2>1, <2>2, <2>3, <2>4, EvaluateShape DEF ParKinds, Spawning
<1>2. ~HostMain /\ ~HostWork /\ ~TerminateMain
  BY <1>0 DEF HostMain, HostWork, TerminateMain
<1>3. \A q \in Proc : ~LuaStep(q) /\ ~WorkStep(q)
  BY <1>0, LuaTurn, WorkTurn, ProcessAssumption
<1> QED
  BY <1>1, <1>2, <1>3 DEF Next

LEMMA InitDelivered == Init => ClosedIsEmpty /\ DeliveredFirst
<1> QED
  BY DEF Init, ProcessInit, ChannelInit, ClosedIsEmpty, DeliveredFirst, Delivered, NoOp

(***************************************************************************)
(* IN and RANGE return what was received, and RANGE ends the loop of the   *)
(* program only if nothing was: the reader of a writer that sends its last *)
(* value and closes the channel at once gets that value                    *)
(* (tests/lua/elementary.lua:117-133), in every program that begins no     *)
(* operation on a channel it has closed.                                   *)
(***************************************************************************)
THEOREM ReadersReturnWhatTheyReceived ==
  ASSUME "reuse" \notin Calls
  PROVE  Spec => ReceivedIsReturned
<1>1. ASSUME IInv, DeliveredFirst, Next,
             NEW p \in Proc, op[p].kind \in {"IN", "RANGE"}, running' = p, running = NoProc
      PROVE  /\ result'.arguments = op[p].arguments
             /\ result'.flag = "nil" => op[p].arguments = NoArgs
  <2>1. EvalIn(p) /\ op[p].argumentsMoved
    BY <1>1, ReaderResumed
  <2>2. result' = [flag |-> IF op[p].kind = "IN" THEN "none"
                            ELSE IF isClosed[op[p].channel] THEN "nil" ELSE "true",
                   arguments |-> op[p].arguments]
    BY <2>1 DEF EvalIn, FinishOperation, Resume
  <2>3. isClosed[op[p].channel] => op[p].arguments = NoArgs
    BY <1>1, <2>1 DEF DeliveredFirst, Delivered, EvalIn, Evaluating
  <2> QED
    BY <2>2, <2>3
<1>2. IInv /\ DeliveredFirst /\ [Next]_vars =>
        [\A p \in Proc :
           op[p].kind \in {"IN", "RANGE"} /\ running' = p /\ running = NoProc =>
             /\ result'.arguments = op[p].arguments
             /\ result'.flag = "nil" => op[p].arguments = NoArgs]_vars
  BY <1>1
<1>3. IInv /\ ClosedIsEmpty /\ [Next]_vars => ClosedIsEmpty'
  BY NextClosedIsEmpty
<1> QED
  BY <1>2, <1>3, InitDelivered, NextDeliveredFirst, PromptHolds, PTL
     DEF Spec, ReceivedIsReturned
============================================================================
