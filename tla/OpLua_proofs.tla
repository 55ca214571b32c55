---------------------------- MODULE OpLua_proofs ----------------------------
(***************************************************************************)
(* The extensions: C++ outputs, which attach to their channel when they    *)
(* have something to send, operations written in Lua, whose methods close  *)
(* channels in the midst of the C++ code, and programs that suspend their  *)
(* own coroutine.  For every size and every program, what is proved of     *)
(* LuaCSP holds next to them too: the pointers of the channels, the wake-  *)
(* ups, and that a key press does not wait while somebody reads.           *)
(***************************************************************************)
EXTENDS OpLua, LuaCSP_asserts

(* No operation of a swarm is there. *)
NoMain == \A p \in Proc : op[p].kind # "MAIN"

(* A channel has one operation that writes to it, as OneWriter demands. *)
Writes(o, c) == o.kind \in {"OUT", "CPPOUT"} /\ o.channel = c
OneOut == \A c \in Chan, p, q \in Proc : Writes(op[p], c) /\ Writes(op[q], c) => p = q

(***************************************************************************)
(* A C++ output with key presses left that the evaluator has looked at is  *)
(* attached: it holds the next one out to a reader.                        *)
(***************************************************************************)
CountHeld ==
  failed = "none" =>
    \A p \in Proc : op[p].kind = "CPPOUT" /\ count[p] > 0 =>
      isOnStack[p] \/ attachOut[op[p].channel] = p

(* A C++ output that has still to be told the delta time has not ended. *)
Going ==
  failed = "none" =>
    \A p \in Range(work) : \A q \in Under(p) : op[q].kind = "CPPOUT" => ~op[q].finished

(* Who is suspended without an operation did it itself, or is a main that was terminated. *)
RawSuspended ==
  \A p \in Proc : thread[p] = "yield" /\ op[p].kind = "none" =>
    "yield" \in Calls \/ (p = Main /\ "terminate" \in Calls)

CppTypeOK == count \in [Proc -> 0 .. MaxCount] /\ dangling \subseteq Chan

(* The parts on what the evaluator does, and those on C++ outputs. *)
Core == IInv /\ Turns /\ Prompt /\ WInv
Outputs == CppTypeOK /\ NoMain /\ OneOut /\ CountHeld /\ Disjoint /\ Going
EInv == Core /\ Outputs /\ RawSuspended

----------------------------------------------------------------------------
(***************************************************************************)
(* What the evaluation of a C++ output does: it looks and stays, holding   *)
(* out w or nothing, or it communicates with the reader.                   *)
(***************************************************************************)
Stays(p, w, asserted, stk, flags) ==
  LET c == op[p].channel IN
  /\ PushEvalSteps(asserted, stk, flags, <<>>)
  /\ op' = [op EXCEPT ![p].arguments = w]
  /\ attachIn[c] = NoProc \/ w = NoArgs
  /\ attachIn' = attachIn
  /\ attachOut' = [attachOut EXCEPT ![c] = IF w # NoArgs THEN p ELSE NoProc]

Transmits(p, w, asserted, stk, flags, in) ==
  LET c == op[p].channel IN
  /\ in = attachIn[c]
  /\ PushEvalSteps(asserted, stk, flags, <<p>> \o <<in>>)
  /\ op' = [op EXCEPT ![in] = MoveChannelArguments(@, c, w), ![p] = CloseArguments(@)]
  /\ attachIn' = Detached(in)
  /\ attachOut' = [attachOut EXCEPT ![c] = NoProc]

(* Nobody else writes to the channel, so nobody else is attached to it. *)
LEMMA CppChannelFacts ==
  ASSUME IInv, OneOut, NEW p \in Proc, op[p].kind = "CPPOUT"
  PROVE  /\ op[p].channel \in Chan /\ op[p] \in Operation
         /\ attachOut[op[p].channel] \in {p, NoProc}
         /\ attachIn[op[p].channel] \in (Proc \ {p}) \cup {NoProc}
         /\ \A d \in Chan : attachOut[d] = p => d = op[p].channel
<1>1. op[p].channel \in Chan /\ op[p] \in Operation
  BY DEF IInv, OnChannel, TypeOK, ProcessTypeOK
<1>2. ASSUME NEW q \in Proc, attachOut[op[p].channel] = q PROVE q = p
  <2>1. OffersOn(q, op[p].channel)
    BY <1>1, <1>2 DEF IInv, Attached
  <2> QED
    BY <1>1, <2>1 DEF OffersOn, OneOut, Writes
<1>3. attachIn[op[p].channel] # p
  BY <1>1 DEF IInv, Attached, WaitsIn
<1>4. \A d \in Chan : attachOut[d] = p => d = op[p].channel
  BY DEF IInv, Attached, OffersOn
<1> QED
  BY <1>1, <1>2, <1>3, <1>4 DEF IInv, TypeOK, ChannelTypeOK

LEMMA CppShape ==
  ASSUME IInv, OneOut, NEW p \in Proc, op[p].kind = "CPPOUT", ~op[p].finished,
         NEW n \in Nat, NEW stk, NEW flags, CppEvaluate(p, n, stk, flags)
  PROVE  /\ \E asserted \in Failures, w \in Val \cup {NoArgs} :
              \/ /\ Stays(p, w, asserted, stk, flags)
                 /\ (IF attachOut[op[p].channel] # p /\ n > 0 THEN n - 1 ELSE n) > 0 => w # NoArgs
              \/ \E in \in Proc \ {p} : Transmits(p, w, asserted, stk, flags, in)
         /\ count' = [count EXCEPT ![p] = IF attachOut[op[p].channel] # p /\ n > 0
                                          THEN n - 1 ELSE n]
         /\ UNCHANGED <<thread, parent, running, result, isClosed, dangling>>
<1> DEFINE c == op[p].channel
           in == attachIn[c]
           attaches == Attaches(p, n)
           communicates == Sends(p, n) /\ in # NoProc
<1>0. /\ c \in Chan /\ op[p] \in Operation /\ op[p].arguments \in Val \cup {NoArgs}
      /\ attachOut[c] \in {p, NoProc} /\ in \in (Proc \ {p}) \cup {NoProc}
      /\ attachOut \in [Chan -> Proc \cup {NoProc}]
  BY CppChannelFacts DEF Operation, IInv, TypeOK, ChannelTypeOK
<1>1. attachOut[c] = p <=> op[p].arguments # NoArgs
  BY <1>0 DEF IInv, Attached, OffersOn
<1>2. PICK v \in Val :
        /\ PushEvalSteps(IF \/ attaches /\ op[p].arguments # NoArgs
                            \/ communicates /\ op[in].arguments # NoArgs
                         THEN "arguments_set" ELSE "none",
                         stk, flags, IF communicates THEN CppPartners(p, in) ELSE <<>>)
        /\ count' = [count EXCEPT ![p] = IF attaches THEN n - 1 ELSE n]
        /\ op' = IF communicates
                 THEN [op EXCEPT ![in] = MoveChannelArguments(@, c, IF attaches THEN v ELSE op[p].arguments),
                                 ![p] = CloseArguments(@)]
                 ELSE [op EXCEPT ![p].arguments = IF attaches THEN v ELSE op[p].arguments]
        /\ attachIn' = IF communicates THEN Detached(in) ELSE attachIn
        /\ attachOut' = [attachOut EXCEPT ![c] = IF communicates THEN NoProc
                                                 ELSE IF attaches THEN p ELSE @]
        /\ UNCHANGED <<thread, parent, running, result, isClosed, dangling>>
  BY DEF CppEvaluate
<1> DEFINE w == IF attaches THEN v ELSE op[p].arguments
           asserted == IF \/ attaches /\ op[p].arguments # NoArgs
                          \/ communicates /\ op[in].arguments # NoArgs
                       THEN "arguments_set" ELSE "none"
<1>3. w \in Val \cup {NoArgs} /\ asserted \in Failures
  BY <1>0 DEF Failures
<1>4. attaches <=> attachOut[c] # p /\ n > 0
  BY DEF Attaches
<1>5. Sends(p, n) <=> w # NoArgs
  BY <1>1, <1>4, ProcessAssumption DEF Sends
<1>6. CASE ~communicates
  <2>1. PushEvalSteps(asserted, stk, flags, <<>>)
    BY <1>2, <1>6
  <2>2. op' = [op EXCEPT ![p].arguments = w]
    BY <1>2, <1>6
  <2>3. attachIn' = attachIn /\ (in = NoProc \/ w = NoArgs)
    BY <1>2, <1>5, <1>6
  <2>4. (IF attaches THEN p ELSE attachOut[c]) = IF w # NoArgs THEN p ELSE NoProc
    BY <1>0, <1>1, <1>4, ProcessAssumption
  <2>5. attachOut' = [attachOut EXCEPT ![c] = IF w # NoArgs THEN p ELSE NoProc]
    BY <1>2, <1>6, <2>4
  <2>6. Stays(p, w, asserted, stk, flags)
    BY <2>1, <2>2, <2>3, <2>5 DEF Stays
  <2>7. (IF attachOut[c] # p /\ n > 0 THEN n - 1 ELSE n) > 0 => w # NoArgs
    BY <1>1, <1>4, ProcessAssumption
  <2> HIDE DEF w, asserted, attaches
  <2> QED
    BY <1>2, <1>3, <1>4, <2>6, <2>7
<1>7. CASE communicates
  <2>1. <<p, in>> = <<p>> \o <<in>>
    OBVIOUS
  <2>2. PushEvalSteps(asserted, stk, flags, <<p>> \o <<in>>)
    BY <1>2, <1>7, <2>1 DEF CppPartners
  <2>3. op' = [op EXCEPT ![in] = MoveChannelArguments(@, c, w), ![p] = CloseArguments(@)]
    BY <1>2, <1>7
  <2>4. attachIn' = Detached(in) /\ attachOut' = [attachOut EXCEPT ![c] = NoProc]
    BY <1>2, <1>7
  <2>5. Transmits(p, w, asserted, stk, flags, in)
    BY <2>2, <2>3, <2>4 DEF Transmits
  <2>6. in \in Proc \ {p}
    BY <1>0, <1>7
  <2> HIDE DEF w, asserted, attaches, in
  <2> QED
    BY <1>2, <1>3, <1>4, <2>5, <2>6
<1> QED
  BY <1>6, <1>7
(* What stays of the operations: their kinds, their closures and their channels. *)
SameFields(q) ==
  /\ op'[q].kind = op[q].kind /\ op'[q].closures = op[q].closures
  /\ op'[q].closureToRun = op[q].closureToRun /\ op'[q].channel = op[q].channel
  /\ op'[q].finished = op[q].finished
  /\ Fresh(op'[q]) <=> Fresh(op[q])

LEMMA StaysFacts ==
  ASSUME IInv, OneOut, NEW p \in Proc, op[p].kind = "CPPOUT", ~op[p].finished,
         NEW w \in Val \cup {NoArgs}, NEW asserted, NEW stk, NEW flags,
         Stays(p, w, asserted, stk, flags), UNCHANGED isClosed
  PROVE  /\ op' \in [Proc -> Operation] /\ \A q \in Proc : SameFields(q)
         /\ \A q \in Proc \ {p} : op'[q] = op[q]
         /\ ChannelTypeOK' /\ Attached'
         /\ \A d \in Chan : InAttached(d)' /\ OutAttached(d)' =>
              d # op[p].channel /\ InAttached(d) /\ OutAttached(d)
<1> DEFINE c == op[p].channel
<1>0. /\ c \in Chan /\ op[p] \in Operation
      /\ attachOut[c] \in {p, NoProc} /\ attachIn[c] \in (Proc \ {p}) \cup {NoProc}
      /\ \A d \in Chan : attachOut[d] = p => d = c
      /\ attachOut \in [Chan -> Proc \cup {NoProc}] /\ op \in [Proc -> Operation]
  BY CppChannelFacts DEF IInv, TypeOK, ChannelTypeOK, ProcessTypeOK
<1>1. /\ op' = [op EXCEPT ![p].arguments = w]
      /\ attachIn[c] = NoProc \/ w = NoArgs
      /\ attachIn' = attachIn
      /\ attachOut' = [attachOut EXCEPT ![c] = IF w # NoArgs THEN p ELSE NoProc]
  BY DEF Stays
<1>2. op'[p] = [op[p] EXCEPT !.arguments = w] /\ \A q \in Proc \ {p} : op'[q] = op[q]
  BY <1>0, <1>1
<1>3. /\ op'[p] \in Operation /\ op'[p].kind = "CPPOUT" /\ op'[p].closures = op[p].closures
      /\ op'[p].closureToRun = op[p].closureToRun /\ op'[p].channel = c
      /\ op'[p].finished = op[p].finished /\ op'[p].arguments = w
  BY <1>0, <1>2 DEF Operation
<1>4. op' \in [Proc -> Operation]
  BY <1>0, <1>1, <1>3
<1>5. \A q \in Proc : SameFields(q)
  BY <1>2, <1>3 DEF SameFields, Fresh
<1>6. /\ attachOut' \in [Chan -> Proc \cup {NoProc}]
      /\ attachOut'[c] = (IF w # NoArgs THEN p ELSE NoProc)
      /\ \A d \in Chan \ {c} : attachOut'[d] = attachOut[d]
  BY <1>0, <1>1
<1>7. ChannelTypeOK'
  BY <1>1, <1>6 DEF IInv, TypeOK, ChannelTypeOK
<1>8. Attached'
  <2> SUFFICES ASSUME NEW d \in Chan, NEW q \in Proc
               PROVE  /\ attachIn'[d] = q => WaitsIn(q, d)'
                      /\ attachOut'[d] = q <=> OffersOn(q, d)'
    BY DEF Attached
  <2>1. attachIn'[d] = q => WaitsIn(q, d)'
    <3>1. attachIn'[d] = q => WaitsIn(q, d)
      BY <1>1 DEF IInv, Attached
    <3>2. WaitsIn(q, d) => op'[q] = op[q]
      BY <1>2 DEF WaitsIn
    <3> QED
      BY <3>1, <3>2 DEF WaitsIn, CasesFor
  <2>2. CASE q = p
    <3>1. OffersOn(p, d)' <=> d = c /\ w # NoArgs
      BY <1>3 DEF OffersOn
    <3> QED
      BY <2>1, <2>2, <3>1, <1>0, <1>6, ProcessAssumption
  <2>3. CASE q # p
    <3>1. OffersOn(q, d)' <=> OffersOn(q, d)
      BY <1>2, <2>3 DEF OffersOn
    <3>2. OffersOn(q, d) <=> attachOut[d] = q
      BY DEF IInv, Attached
    <3> QED
      BY <2>1, <2>3, <3>1, <3>2, <1>0, <1>6, ProcessAssumption
  <2> QED
    BY <2>2, <2>3
<1>9. \A d \in Chan : InAttached(d)' /\ OutAttached(d)' =>
              d # c /\ InAttached(d) /\ OutAttached(d)
  BY <1>1, <1>6 DEF InAttached, OutAttached
<1> QED
  BY <1>2, <1>4, <1>5, <1>7, <1>8, <1>9

LEMMA TransmitsFacts ==
  ASSUME IInv, OneOut, NEW p \in Proc, op[p].kind = "CPPOUT",
         NEW w \in Val \cup {NoArgs}, NEW asserted, NEW stk, NEW flags, NEW in \in Proc \ {p},
         Transmits(p, w, asserted, stk, flags, in), UNCHANGED isClosed
  PROVE  /\ op' \in [Proc -> Operation] /\ \A q \in Proc : SameFields(q)
         /\ \A q \in Proc \ {p, in} : op'[q] = op[q]
         /\ op[in].kind \in {"IN", "RANGE", "ALT"} /\ op'[in].argumentsMoved
         /\ op[in].kind = "ALT" => op'[in].caseTriggered # 0
         /\ op'[in].cases = op[in].cases
         /\ \A d \in Chan : attachIn'[d] = IF attachIn[d] = in THEN NoProc ELSE attachIn[d]
         /\ ChannelTypeOK' /\ Attached'
         /\ \A d \in Chan : InAttached(d)' /\ OutAttached(d)' =>
              d # op[p].channel /\ InAttached(d) /\ OutAttached(d)
<1> DEFINE c == op[p].channel
<1>0. /\ c \in Chan /\ op[p] \in Operation
      /\ attachOut[c] \in {p, NoProc}
      /\ \A d \in Chan : attachOut[d] = p => d = c
      /\ attachOut \in [Chan -> Proc \cup {NoProc}] /\ op \in [Proc -> Operation]
  BY CppChannelFacts DEF IInv, TypeOK, ChannelTypeOK, ProcessTypeOK
<1>1. /\ in = attachIn[c]
      /\ op' = [op EXCEPT ![in] = MoveChannelArguments(@, c, w), ![p] = CloseArguments(@)]
      /\ attachIn' = Detached(in)
      /\ attachOut' = [attachOut EXCEPT ![c] = NoProc]
  BY DEF Transmits
<1>2. WaitsIn(in, c) /\ op[in].kind \in {"IN", "RANGE", "ALT"}
  BY <1>0, <1>1 DEF IInv, Attached, WaitsIn
<1>3. /\ op'[in] = MoveChannelArguments(op[in], c, w)
      /\ op'[p] = CloseArguments(op[p])
      /\ \A q \in Proc \ {p, in} : op'[q] = op[q]
  BY <1>0, <1>1
<1>4. PICK moved : moved = MoveChannelArguments(op[in], c, w)
  OBVIOUS
<1>5. /\ moved \in Operation
      /\ moved.kind = op[in].kind /\ moved.closures = op[in].closures
      /\ moved.closureToRun = op[in].closureToRun /\ moved.channel = op[in].channel
      /\ moved.finished = op[in].finished
      /\ moved.argumentsMoved /\ moved.cases = op[in].cases
      /\ Fresh(moved) <=> Fresh(op[in])
      /\ op[in].kind = "ALT" => moved.caseTriggered # 0
  <2>1. PICK a : a = op[p].channel
    OBVIOUS
  <2>2. a \in Chan /\ WaitsIn(in, a) /\ moved = MoveChannelArguments(op[in], a, w)
    BY <2>1, <1>0, <1>2, <1>4
  <2> QED
    BY <2>2, MovedFacts
<1>6. op'[in] = moved
  BY <1>3, <1>4
<1>7. /\ op'[p] \in Operation /\ op'[p].kind = "CPPOUT" /\ op'[p].closures = op[p].closures
      /\ op'[p].closureToRun = op[p].closureToRun /\ op'[p].channel = c
      /\ op'[p].finished = op[p].finished /\ op'[p].arguments = NoArgs
  <2>1. PICK o \in Operation : o = op[p]
    BY <1>0
  <2>2. op'[p] = CloseArguments(o) /\ o.kind = "CPPOUT"
    BY <2>1, <1>3
  <2> QED
    BY <2>1, <2>2, CloseArgumentsFacts
<1>8. \A q \in Proc : op'[q] \in Operation /\ SameFields(q)
  <2> TAKE q \in Proc
  <2>1. CASE q = in
    BY <2>1, <1>5, <1>6 DEF SameFields
  <2>2. CASE q = p
    BY <2>2, <1>7 DEF SameFields, Fresh
  <2>3. CASE q \notin {p, in}
    BY <2>3, <1>3, <1>0 DEF SameFields
  <2> QED
    BY <2>1, <2>2, <2>3
<1>9. op' \in [Proc -> Operation]
  BY <1>0, <1>1, <1>8
<1>10. /\ attachIn' \in [Chan -> Proc \cup {NoProc}]
       /\ \A d \in Chan, q \in Proc : attachIn'[d] = q => attachIn[d] = q /\ q # in
  <2>1. PICK b \in Proc : b = in
    OBVIOUS
  <2>2. op[b].kind \in {"IN", "RANGE", "ALT"} /\ attachIn' = Detached(b)
    BY <2>1, <1>1, <1>2
  <2> QED
    BY <2>1, <2>2, DetachedFacts
<1>11. /\ attachOut' \in [Chan -> Proc \cup {NoProc}]
       /\ attachOut'[c] = NoProc
       /\ \A d \in Chan \ {c} : attachOut'[d] = attachOut[d]
  BY <1>0, <1>1
<1>12. ChannelTypeOK'
  BY <1>10, <1>11 DEF IInv, TypeOK, ChannelTypeOK
<1>13. Attached'
  <2> SUFFICES ASSUME NEW d \in Chan, NEW q \in Proc
               PROVE  /\ attachIn'[d] = q => WaitsIn(q, d)'
                      /\ attachOut'[d] = q <=> OffersOn(q, d)'
    BY DEF Attached
  <2>1. attachIn'[d] = q => WaitsIn(q, d)'
    <3>1. attachIn'[d] = q => WaitsIn(q, d) /\ q # in
      BY <1>10 DEF IInv, Attached
    <3>2. WaitsIn(q, d) /\ q # in => op'[q] = op[q]
      BY <1>3 DEF WaitsIn
    <3> QED
      BY <3>1, <3>2 DEF WaitsIn, CasesFor
  <2>2. CASE q = p
    <3>1. ~OffersOn(p, d)'
      BY <1>7 DEF OffersOn
    <3> QED
      BY <2>1, <2>2, <3>1, <1>0, <1>11, ProcessAssumption
  <2>3. CASE q = in
    <3>1. ~OffersOn(in, d)' /\ ~OffersOn(in, d)
      BY <1>2, <1>5, <1>6 DEF OffersOn
    <3> QED
      BY <2>1, <2>3, <3>1, <1>11, ProcessAssumption DEF IInv, Attached
  <2>4. CASE q \notin {p, in}
    <3>1. OffersOn(q, d)' <=> OffersOn(q, d)
      BY <1>3, <2>4 DEF OffersOn
    <3>2. OffersOn(q, d) <=> attachOut[d] = q
      BY DEF IInv, Attached
    <3> QED
      BY <2>1, <2>4, <3>1, <3>2, <1>0, <1>11, ProcessAssumption
  <2> QED
    BY <2>2, <2>3, <2>4
<1>14. ASSUME NEW d \in Chan, InAttached(d)', OutAttached(d)'
       PROVE  d # c /\ InAttached(d) /\ OutAttached(d)
  <2>1. attachIn'[d] \in Proc /\ attachIn[d] = attachIn'[d]
    BY <1>10, <1>14 DEF InAttached
  <2> QED
    BY <1>11, <1>14, <2>1, ProcessAssumption DEF InAttached, OutAttached
<1>15. ASSUME NEW d \in Chan
       PROVE  attachIn'[d] = IF attachIn[d] = in THEN NoProc ELSE attachIn[d]
  <2>1. attachIn'[d] = Detached(in)[d]
    BY <1>1
  <2>2. attachIn[d] = in => WaitsIn(in, d)
    BY DEF IInv, Attached
  <2>3. WaitsIn(in, d) => d \in Attachable(op[in])
    BY DEF WaitsIn, CasesFor, Attachable
  <2> QED
    BY <2>1, <2>2, <2>3 DEF Detached
<1> QED
  BY <1>2, <1>3, <1>5, <1>6, <1>8, <1>9, <1>12, <1>13, <1>14, <1>15
----------------------------------------------------------------------------
(***************************************************************************)
(* Steps in which the processes stay and only fields of operations change, *)
(* made by the process p that is evaluated or told the delta time: the     *)
(* evaluator turns to nobody else, so nobody else can have a partner.      *)
(***************************************************************************)
InTurn(p) == Evaluating(p) \/ Working(p)

LEMMA TurnFacts ==
  ASSUME Core, NEW p \in Proc, InTurn(p)
  PROVE  /\ failed = "none" /\ running = NoProc /\ thread[Main] # "ready"
         /\ \A q \in Proc : NilWaits(q) => q = p
         /\ \A c \in Chan : InAttached(c) /\ OutAttached(c) =>
              attachIn[c] = p \/ attachOut[c] = p
<1>1. failed = "none" /\ (work # <<>> \/ stack # <<>>)
  BY DEF InTurn, Evaluating, Working
<1>2. running = NoProc /\ thread[Main] # "ready"
  BY <1>1 DEF InTurn, Evaluating, Working, Core, Turns
<1>3. \A q : Evaluating(q) => q = p
  BY DEF InTurn, Evaluating, Working
<1>4. \A q \in Proc : NilWaits(q) => q = p
  BY <1>1, <1>3 DEF Core, Prompt
<1>5. \A c \in Chan : InAttached(c) /\ OutAttached(c) => attachIn[c] = p \/ attachOut[c] = p
  BY <1>1, <1>3 DEF Core, Prompt
<1> QED
  BY <1>1, <1>2, <1>4, <1>5

(* Turns and Prompt, when nothing that p had a part in goes on. *)
LEMMA TurnStep ==
  ASSUME Core, NEW p \in Proc, InTurn(p), UNCHANGED <<thread, running>>,
         \A q \in Proc : NilWaits(q)' => NilWaits(q) /\ q # p,
         \A d \in Chan : InAttached(d)' /\ OutAttached(d)' =>
           /\ InAttached(d) /\ OutAttached(d)
           /\ attachIn[d] # p /\ attachOut[d] # p
  PROVE  Turns' /\ Prompt'
<1>1. Turns'
  BY TurnFacts, ProcessAssumption DEF Turns
<1>2. \A q \in Proc : ~NilWaits(q)'
  BY TurnFacts
<1>3. \A d \in Chan : ~(InAttached(d)' /\ OutAttached(d)')
  BY TurnFacts
<1> QED
  BY <1>1, <1>2, <1>3 DEF Prompt

(* The stack after a C++ output was evaluated, and who is on it. *)
LEMMA PushFlags ==
  ASSUME NEW stk, NEW flags, NEW asserted, NEW ps, PushEvalSteps(asserted, stk, flags, ps),
         failed' = "none"
  PROVE  \A q \in Proc : isOnStack'[q] = (flags[q] \/ q \in Range(ps))
<1> QED
  BY DEF PushEvalSteps

(* A C++ output looks and stays. *)
LEMMA StaysStep ==
  ASSUME Core, OneOut, NEW p \in Proc, InTurn(p), op[p].kind = "CPPOUT", ~op[p].finished,
         NEW stk \in Seq(Proc), NEW flags \in [Proc -> BOOLEAN], StackFlags(stk, flags),
         Range(stk) \subseteq Range(stack), \A q \in Proc \ {p} : flags[q] = isOnStack[q],
         NEW w \in Val \cup {NoArgs}, NEW asserted \in Failures,
         Stays(p, w, asserted, stk, flags),
         UNCHANGED <<thread, parent, running, result, isClosed>>,
         work' \in Seq(Proc), dt' \in Nat, time' \in Nat
  PROVE  /\ Core' /\ (PointedTo => PointedTo')
         /\ \A q \in Proc : SameFields(q)
         /\ failed' = "none" => \A q \in Proc \ {p} : isOnStack'[q] = isOnStack[q]
<1>1. /\ op' \in [Proc -> Operation] /\ \A q \in Proc : SameFields(q)
      /\ \A q \in Proc \ {p} : op'[q] = op[q]
      /\ ChannelTypeOK' /\ Attached'
      /\ \A d \in Chan : InAttached(d)' /\ OutAttached(d)' =>
           d # op[p].channel /\ InAttached(d) /\ OutAttached(d)
  BY StaysFacts DEF Core
<1>2. PushEvalSteps(asserted, stk, flags, <<>>) /\ attachIn' = attachIn
  BY DEF Stays
<1>3. IInv'
  <2>1. <<>> \in Seq(Proc) /\ \A q \in Range(<<>>) : op[q].kind # "none"
    BY NonePushed
  <2> QED
    BY <1>1, <1>2, <2>1, PushStep DEF Core, SameFields
<1>4. op'[p].kind = "CPPOUT" /\ ~op'[p].finished
  BY <1>1 DEF SameFields
<1>5. failed' = "none" => \A q \in Proc \ {p} : isOnStack'[q] = isOnStack[q]
  BY <1>2, PushFlags, NonePushed
<1>6. WInv'
  <2>1. ASSUME failed' = "none", NEW q \in Proc
        PROVE  isOnStack'[q] \/ (op'[q] = op[q] /\ ~isOnStack[q]) \/ Rests(q)'
    <3>1. CASE q = p
      BY <1>4, <3>1 DEF Rests, ChannelKinds
    <3>2. CASE q # p
      <4>1. isOnStack \in [Proc -> BOOLEAN]
        BY DEF Core, IInv, TypeOK, ProcessTypeOK
      <4> QED
        BY <1>1, <1>5, <2>1, <3>2, <4>1
    <3> QED
      BY <3>1, <3>2
  <2> QED
    BY <1>1, <2>1, TurnFacts, FieldWakeup DEF Core, SameFields
<1>7. Turns' /\ Prompt'
  <2>1. \A q \in Proc : NilWaits(q)' => NilWaits(q) /\ q # p
    BY <1>1, <1>4 DEF NilWaits
  <2>2. \A d \in Chan : attachIn[d] # p /\ (d # op[p].channel => attachOut[d] # p)
    BY CppChannelFacts DEF Core, IInv, Attached, WaitsIn
  <2> QED
    BY <1>1, <2>1, <2>2, TurnStep
<1>8. PointedTo => PointedTo'
  <2>1. \A d \in Chan : ~WaitsIn(p, d)'
    BY <1>4 DEF WaitsIn
  <2> QED
    BY <1>1, <1>2, <1>4, <2>1, NoneBegins
<1> QED
  BY <1>1, <1>3, <1>5, <1>6, <1>7, <1>8 DEF Core

(* A C++ output communicates with the reader. *)
LEMMA TransmitsStep ==
  ASSUME Core, OneOut, NEW p \in Proc, InTurn(p), op[p].kind = "CPPOUT",
         NEW stk \in Seq(Proc), NEW flags \in [Proc -> BOOLEAN], StackFlags(stk, flags),
         Range(stk) \subseteq Range(stack), \A q \in Proc \ {p} : flags[q] = isOnStack[q],
         NEW w \in Val \cup {NoArgs}, NEW asserted \in Failures, NEW in \in Proc \ {p},
         Transmits(p, w, asserted, stk, flags, in),
         UNCHANGED <<thread, parent, running, result, isClosed>>,
         work' \in Seq(Proc), dt' \in Nat, time' \in Nat
  PROVE  /\ Core' /\ (PointedTo => PointedTo')
         /\ \A q \in Proc : SameFields(q)
         /\ failed' = "none" => isOnStack'[p] /\ \A q \in Proc \ {p} : isOnStack[q] => isOnStack'[q]
<1>1. /\ op' \in [Proc -> Operation] /\ \A q \in Proc : SameFields(q)
      /\ \A q \in Proc \ {p, in} : op'[q] = op[q]
      /\ op[in].kind \in {"IN", "RANGE", "ALT"} /\ op'[in].argumentsMoved
      /\ op[in].kind = "ALT" => op'[in].caseTriggered # 0
      /\ op'[in].cases = op[in].cases
      /\ \A d \in Chan : attachIn'[d] = IF attachIn[d] = in THEN NoProc ELSE attachIn[d]
      /\ ChannelTypeOK' /\ Attached'
      /\ \A d \in Chan : InAttached(d)' /\ OutAttached(d)' =>
           d # op[p].channel /\ InAttached(d) /\ OutAttached(d)
  BY TransmitsFacts DEF Core
<1> DEFINE ps == <<p>> \o <<in>>
<1>2. PushEvalSteps(asserted, stk, flags, ps)
  BY DEF Transmits
<1>3. ps \in Seq(Proc) /\ Range(ps) = {p, in}
  BY TwoPushed
<1> HIDE DEF ps
<1>4. IInv'
  <2>1. \A q \in Range(ps) : op[q].kind # "none"
    BY <1>1, <1>3
  <2> QED
    BY <1>1, <1>2, <1>3, <2>1, PushStep, ZenonT(30) DEF Core, SameFields
<1>5. failed' = "none" => \A q \in Proc : isOnStack'[q] = (flags[q] \/ q \in {p, in})
  BY <1>2, <1>3, PushFlags
<1>6. WInv'
  <2>1. ASSUME failed' = "none", NEW q \in Proc
        PROVE  isOnStack'[q] \/ (op'[q] = op[q] /\ ~isOnStack[q]) \/ Rests(q)'
    <3>1. isOnStack \in [Proc -> BOOLEAN]
      BY DEF Core, IInv, TypeOK, ProcessTypeOK
    <3> QED
      BY <1>1, <1>5, <2>1, <3>1
  <2> QED
    BY <1>1, <2>1, TurnFacts, FieldWakeup DEF Core, SameFields
<1>7. op'[p].kind = "CPPOUT" /\ op'[in].kind = op[in].kind
  BY <1>1 DEF SameFields
<1>8. Turns' /\ Prompt'
  <2>1. \A q \in Proc : NilWaits(q)' => NilWaits(q) /\ q # p
    BY <1>1, <1>7 DEF NilWaits
  <2>2. \A d \in Chan : attachIn[d] # p /\ (d # op[p].channel => attachOut[d] # p)
    BY CppChannelFacts DEF Core, IInv, Attached, WaitsIn
  <2> QED
    BY <1>1, <2>1, <2>2, TurnStep
<1>9. PointedTo => PointedTo'
  <2>1. \A d \in Chan : ~WaitsIn(p, d)' /\ ~WaitsIn(in, d)'
    BY <1>1, <1>7 DEF WaitsIn
  <2>2. PointedTo /\ op'[in].kind = "ALT" => OneCase(op'[in])
    BY <1>1, <1>7 DEF PointedTo, OneCase
  <2> QED
    BY <1>1, <1>7, <2>1, <2>2, NoneBegins
<1> QED
  BY <1>1, <1>4, <1>5, <1>6, <1>8, <1>9 DEF Core
(* A C++ output is evaluated, with n key presses counted. *)
LEMMA CppEvaluated ==
  ASSUME Core, CppTypeOK, OneOut, CountHeld,
         NEW p \in Proc, InTurn(p), op[p].kind = "CPPOUT", ~op[p].finished,
         NEW stk \in Seq(Proc), NEW flags \in [Proc -> BOOLEAN], StackFlags(stk, flags),
         Range(stk) \subseteq Range(stack), \A q \in Proc \ {p} : flags[q] = isOnStack[q],
         NEW n \in 0 .. MaxCount, CppEvaluate(p, n, stk, flags),
         work' \in Seq(Proc), dt' \in Nat, time' \in Nat
  PROVE  /\ Core' /\ (PointedTo => PointedTo')
         /\ \A q \in Proc : SameFields(q)
         /\ CppTypeOK' /\ CountHeld' /\ UNCHANGED thread
<1> DEFINE left == IF attachOut[op[p].channel] # p /\ n > 0 THEN n - 1 ELSE n
<1>0. n \in Nat
  BY CppAssumption
<1>1. PICK asserted \in Failures, w \in Val \cup {NoArgs} :
        \/ Stays(p, w, asserted, stk, flags) /\ (left > 0 => w # NoArgs)
        \/ \E in \in Proc \ {p} : Transmits(p, w, asserted, stk, flags, in)
  BY <1>0, CppShape DEF Core
<1>2. /\ count' = [count EXCEPT ![p] = left]
      /\ UNCHANGED <<thread, parent, running, result, isClosed, dangling>>
  BY <1>0, CppShape DEF Core
<1>3. left \in 0 .. MaxCount
  BY CppAssumption
<1> HIDE DEF left
<1>4. CppTypeOK' /\ count'[p] = left /\ \A q \in Proc \ {p} : count'[q] = count[q]
  BY <1>2, <1>3 DEF CppTypeOK
<1>5. op[p].channel \in Chan /\ \A d \in Chan : attachOut[d] = p => d = op[p].channel
  BY CppChannelFacts DEF Core
<1>6. failed = "none" /\ attachOut \in [Chan -> Proc \cup {NoProc}]
  BY TurnFacts DEF Core, IInv, TypeOK, ChannelTypeOK
<1>7. ASSUME NEW q \in Proc \ {p}, op[q].kind = "CPPOUT",
             attachOut[op[q].channel] = q
      PROVE  op[q].channel \in Chan /\ op[q].channel # op[p].channel
  BY <1>7 DEF Core, IInv, OnChannel, OneOut, Writes
<1>8. CASE Stays(p, w, asserted, stk, flags) /\ (left > 0 => w # NoArgs)
  <2>1. /\ Core' /\ (PointedTo => PointedTo')
        /\ \A q \in Proc : SameFields(q)
        /\ failed' = "none" => \A q \in Proc \ {p} : isOnStack'[q] = isOnStack[q]
    BY <1>2, <1>8, StaysStep
  <2>2. attachOut' = [attachOut EXCEPT ![op[p].channel] = IF w # NoArgs THEN p ELSE NoProc]
    BY <1>8 DEF Stays
  <2>3. ASSUME failed' = "none", NEW q \in Proc, op'[q].kind = "CPPOUT", count'[q] > 0
        PROVE  isOnStack'[q] \/ attachOut'[op'[q].channel] = q
    <3>1. op[q].kind = "CPPOUT" /\ op'[q].channel = op[q].channel
      BY <2>1, <2>3 DEF SameFields
    <3>2. CASE q = p
      BY <1>4, <1>5, <1>6, <1>8, <2>2, <2>3, <3>1, <3>2
    <3>3. CASE q # p
      <4>1. isOnStack[q] \/ attachOut[op[q].channel] = q
        BY <1>4, <1>6, <2>3, <3>1, <3>3 DEF CountHeld
      <4> QED
        BY <4>1, <1>6, <1>7, <2>1, <2>2, <2>3, <3>1, <3>3
    <3> QED
      BY <3>2, <3>3
  <2> QED
    BY <1>2, <1>4, <2>1, <2>3 DEF CountHeld
<1>9. ASSUME NEW in \in Proc \ {p}, Transmits(p, w, asserted, stk, flags, in)
      PROVE  /\ Core' /\ (PointedTo => PointedTo')
             /\ \A q \in Proc : SameFields(q)
             /\ CountHeld'
  <2>1. /\ Core' /\ (PointedTo => PointedTo')
        /\ \A q \in Proc : SameFields(q)
        /\ failed' = "none" => isOnStack'[p] /\ \A q \in Proc \ {p} : isOnStack[q] => isOnStack'[q]
    BY <1>2, <1>9, TransmitsStep
  <2>2. attachOut' = [attachOut EXCEPT ![op[p].channel] = NoProc]
    BY <1>9 DEF Transmits
  <2>3. ASSUME failed' = "none", NEW q \in Proc, op'[q].kind = "CPPOUT", count'[q] > 0
        PROVE  isOnStack'[q] \/ attachOut'[op'[q].channel] = q
    <3>1. op[q].kind = "CPPOUT" /\ op'[q].channel = op[q].channel
      BY <2>1, <2>3 DEF SameFields
    <3>2. CASE q = p
      BY <2>1, <2>3, <3>2
    <3>3. CASE q # p
      <4>1. isOnStack[q] \/ attachOut[op[q].channel] = q
        BY <1>4, <1>6, <2>3, <3>1, <3>3 DEF CountHeld
      <4> QED
        BY <4>1, <1>6, <1>7, <2>1, <2>2, <2>3, <3>1, <3>3
    <3> QED
      BY <3>2, <3>3
  <2> QED
    BY <2>1, <2>3 DEF CountHeld
<1> QED
  BY <1>1, <1>2, <1>4, <1>8, <1>9

----------------------------------------------------------------------------
(***************************************************************************)
(* What the fields that stay, and the calls of Process::Work, keep.        *)
(***************************************************************************)
LEMMA KindsKeep ==
  ASSUME NoMain, OneOut, RawSuspended,
         \A q \in Proc :
           \/ /\ op'[q].kind = op[q].kind /\ op'[q].channel = op[q].channel
              /\ thread'[q] = thread[q]
           \/ op'[q].kind = "none" /\ thread'[q] # "yield"
  PROVE  NoMain' /\ OneOut' /\ RawSuspended'
<1> QED
  BY DEF NoMain, OneOut, RawSuspended, Writes

LEMMA SameFieldsKeep ==
  ASSUME NoMain, OneOut, RawSuspended, \A q \in Proc : SameFields(q), UNCHANGED thread
  PROVE  NoMain' /\ OneOut' /\ RawSuspended'
<1> QED
  BY KindsKeep DEF SameFields

(* Nobody is forgotten who has a key press to send: who is detached is pushed. *)
LEMMA CountKept ==
  ASSUME failed = "none", CountHeld, CppTypeOK, UNCHANGED count, dangling' \subseteq Chan,
         failed' = "none" =>
           \A q \in Proc : op'[q].kind = "CPPOUT" =>
             /\ op[q].kind = "CPPOUT" /\ op'[q].channel = op[q].channel
             /\ \/ isOnStack'[q]
                \/ /\ ~isOnStack[q]
                   /\ attachOut[op[q].channel] = q => attachOut'[op[q].channel] = q
  PROVE  CountHeld' /\ CppTypeOK'
<1> QED
  BY DEF CountHeld, CppTypeOK

(* No delta time is being handed down. *)
LEMMA NoWork ==
  ASSUME work' = <<>>
  PROVE  Disjoint' /\ Going'
<1>1. Range(work') = {} /\ DOMAIN work' = {}
  BY DEF Range
<1> QED
  BY <1>1 DEF Disjoint, Going, Injective

(* p hands the delta time on to ks, or ends if it has nobody to hand it on to. *)
LEMMA WorkOn ==
  ASSUME Core, Disjoint, Going, NEW p \in Proc, Working(p),
         NEW ks \in Seq(Proc), Injective(ks), Range(ks) \subseteq Children(p),
         work' = ks \o Tail(work),
         \A q \in Proc : op'[q].closures = op[q].closures,
         \A q \in Proc : op'[q].kind = "CPPOUT" /\ op'[q].finished =>
           /\ op[q].kind = "CPPOUT"
           /\ op[q].finished \/ (q = p /\ ks = <<>>)
  PROVE  Disjoint' /\ Going'
<1>1. /\ Disjoint' /\ p \in Range(work)
      /\ \A q \in Range(work') :
           /\ q \in Proc /\ Under(q)' = Under(q)
           /\ \/ q \in Range(work) /\ p \notin Under(q)
              \/ ks # <<>> /\ Under(q) \subseteq Under(p)
  BY DisjointNext DEF Core, WInv
<1>2. \A r \in Range(work) : \A q \in Under(r) : op[q].kind = "CPPOUT" => ~op[q].finished
  BY DEF Going, Working
<1>3. ASSUME NEW r \in Range(work'), NEW q \in Under(r)', op'[q].kind = "CPPOUT"
      PROVE  ~op'[q].finished
  <2>1. q \in Under(r) /\ r \in Proc
    BY <1>1
  <2>2. q \in Proc
    BY <2>1 DEF Under, Descendants
  <2> QED
    BY <1>1, <1>2, <1>3, <2>1, <2>2
<1> QED
  BY <1>1, <1>3 DEF Going

(* The same when p hands the delta time to nobody. *)
LEMMA WorkDone ==
  ASSUME Core, Disjoint, Going, NEW p \in Proc, Working(p), work' = Tail(work),
         \A q \in Proc : op'[q].closures = op[q].closures,
         \A q \in Proc : op'[q].kind = "CPPOUT" /\ op'[q].finished =>
           op[q].kind = "CPPOUT" /\ (op[q].finished \/ q = p)
  PROVE  Disjoint' /\ Going'
<1>1. Tail(work) \in Seq(Proc) /\ <<>> \in Seq(Proc)
  BY WorkingFacts DEF Core
<1>2. work' = <<>> \o Tail(work)
  BY <1>1, ConcatEmptySeq
<1>3. Injective(<<>>) /\ Range(<<>>) \subseteq Children(p)
  BY NonePushed
<1> QED
  BY <1>1, <1>2, <1>3, WorkOn

(* Who is told the delta time has not ended. *)
LEMMA WorkedIsGoing ==
  ASSUME Core, Disjoint, Going, NEW p \in Proc, Working(p), op[p].kind = "CPPOUT"
  PROVE  ~op[p].finished
<1>1. PICK w \in Seq(Proc) : w = work
  BY DEF Core, IInv, TypeOK, ProcessTypeOK
<1>2. Injective(w) /\ w # <<>> /\ p = Head(w)
  BY <1>1 DEF Disjoint, Working
<1>3. p \in Range(w)
  BY <1>2, HeadAndTail
<1>4. p \in Range(work) /\ p \in Under(p) /\ failed = "none"
  BY <1>1, <1>3 DEF Under, Working
<1> QED
  BY <1>4 DEF Going
----------------------------------------------------------------------------
(***************************************************************************)
(* What a method that closes channel c does: the operations that wait on   *)
(* it are closed, detached and pushed, but for those that are terminated   *)
(* with the caller.                                                        *)
(***************************************************************************)
LEMMA ClosedAltFacts ==
  ASSUME IInv, NEW c \in Chan, NEW in \in Proc, attachIn[c] = in
  PROVE  /\ CloseInput(op[in], c).finished = op[in].finished
         /\ CloseInput(op[in], c).nilCase = op[in].nilCase
         /\ DOMAIN CloseInput(op[in], c).cases = DOMAIN op[in].cases
         /\ op[in].kind = "ALT" =>
              CloseInput(op[in], c).argumentsMoved = op[in].argumentsMoved
         /\ op[in].kind # "ALT" => CloseInput(op[in], c).argumentsMoved
<1> DEFINE o == op[in]
           i == FindCaseForChannel(o, c)
           closed == [o.cases[i] EXCEPT !.channel = NoChan, !.closure = FALSE]
           cases == [o.cases EXCEPT ![i] = closed]
<1>1. o \in Operation
  BY DEF IInv, TypeOK, ProcessTypeOK
<1>2. CASE o.kind = "ALT"
  <2>1. CloseInput(o, c) = [o EXCEPT !.cases = cases]
    BY <1>1, <1>2 DEF CloseInput, CloseCase, Operation
  <2>2. DOMAIN cases = DOMAIN o.cases
    OBVIOUS
  <2> HIDE DEF cases
  <2> QED
    BY <1>1, <1>2, <2>1, <2>2 DEF Operation
<1>3. CASE o.kind # "ALT"
  BY <1>1, <1>3, CloseArgumentsFacts DEF CloseInput
<1> QED
  BY <1>2, <1>3

(* What closing leaves of the operation of q. *)
ClosedFrom(o, q) ==
  /\ o \in Operation
  /\ o.kind = op[q].kind /\ o.closures = op[q].closures
  /\ o.closureToRun = op[q].closureToRun /\ o.channel = op[q].channel
  /\ o.finished = op[q].finished
  /\ Fresh(o) <=> Fresh(op[q])
  /\ o.caseTriggered = op[q].caseTriggered /\ o.nilCase = op[q].nilCase
  /\ DOMAIN o.cases = DOMAIN op[q].cases

LEMMA ClosedFacts ==
  ASSUME IInv, NEW c \in Chan \cup {NoChan}, NEW q \in Proc
  PROVE  /\ ClosedFrom(ClosedOps(c)[q], q)
         /\ \/ ClosedOps(c)[q] = op[q]
            \/ c \in Chan /\ (attachIn[c] = q \/ attachOut[c] = q)
<1>0. op[q] \in Operation
  BY DEF IInv, TypeOK, ProcessTypeOK
<1>1. CASE c \in Chan /\ q = attachIn[c]
  <2>1. ClosedOps(c)[q] = CloseInput(op[q], c)
    BY <1>1, ProcessAssumption DEF ClosedOps
  <2>2. PICK o : o = CloseInput(op[q], c)
    OBVIOUS
  <2>3. /\ o \in Operation
        /\ o.kind = op[q].kind /\ o.closures = op[q].closures
        /\ o.closureToRun = op[q].closureToRun /\ o.channel = op[q].channel
        /\ o.caseTriggered = op[q].caseTriggered
    BY <1>1, <2>2, CloseInputFacts
  <2>4. /\ o.finished = op[q].finished /\ o.nilCase = op[q].nilCase
        /\ DOMAIN o.cases = DOMAIN op[q].cases
        /\ op[q].kind = "ALT" => o.argumentsMoved = op[q].argumentsMoved
    BY <1>1, <2>2, ClosedAltFacts
  <2> QED
    BY <1>1, <2>1, <2>2, <2>3, <2>4 DEF ClosedFrom, Fresh
<1>2. CASE c \in Chan /\ q # attachIn[c] /\ q = attachOut[c]
  <2>1. ClosedOps(c)[q] = CloseArguments(op[q])
    BY <1>2, ProcessAssumption DEF ClosedOps
  <2>2. op[q].kind \in {"OUT", "CPPOUT"}
    BY <1>2 DEF IInv, Attached, OffersOn
  <2>3. PICK o \in Operation : o = op[q]
    BY <1>0
  <2> QED
    BY <1>2, <2>1, <2>2, <2>3, CloseArgumentsFacts DEF ClosedFrom, Fresh
<1>3. CASE ~(c \in Chan /\ (q = attachIn[c] \/ q = attachOut[c]))
  <2>1. ClosedOps(c)[q] = op[q]
    BY <1>3 DEF ClosedOps
  <2> QED
    BY <1>0, <2>1 DEF ClosedFrom
<1> QED
  BY <1>1, <1>2, <1>3

(* Who is pushed. *)
LEMMA AttachedToFacts ==
  ASSUME IInv, NEW c \in Chan \cup {NoChan}, NEW gone \in SUBSET Proc
  PROVE  /\ AttachedTo(c, gone) \in Seq(Proc)
         /\ \A q \in Proc : q \in Range(AttachedTo(c, gone)) <=>
              c \in Chan /\ q \notin gone /\ (attachIn[c] = q \/ attachOut[c] = q)
         /\ \A q \in Range(AttachedTo(c, gone)) :
              op[q].kind \in {"IN", "RANGE", "ALT", "OUT", "CPPOUT"}
<1>1. CASE c = NoChan
  BY <1>1, NonePushed, ProcessAssumption DEF AttachedTo
<1>2. CASE c \in Chan
  <2> DEFINE first == Unless(attachIn[c], gone)
             second == Unless(attachOut[c], gone)
  <2>1. /\ attachIn[c] \in Proc \cup {NoProc} /\ attachOut[c] \in Proc \cup {NoProc}
    BY <1>2 DEF IInv, TypeOK, ChannelTypeOK
  <2>2. ASSUME NEW r \in Proc \cup {NoProc}
        PROVE  /\ Unless(r, gone) \in Seq(Proc)
               /\ \A q : q \in Range(Unless(r, gone)) <=> q = r /\ q \in Proc /\ q \notin gone
    <3>1. CASE r = NoProc \/ r \in gone
      BY <3>1, NonePushed, ProcessAssumption DEF Unless
    <3>2. CASE r \in Proc /\ r \notin gone
      BY <3>2, OnePushed, ProcessAssumption DEF Unless
    <3> QED
      BY <3>1, <3>2
  <2>3. /\ first \in Seq(Proc) /\ second \in Seq(Proc)
        /\ \A q : q \in Range(first) <=> q = attachIn[c] /\ q \in Proc /\ q \notin gone
        /\ \A q : q \in Range(second) <=> q = attachOut[c] /\ q \in Proc /\ q \notin gone
    BY <2>1, <2>2
  <2> HIDE DEF first, second
  <2>4. first \o second \in Seq(Proc) /\ Range(first \o second) = Range(first) \cup Range(second)
    BY <2>3, ConcatProperties, RangeConcatenation
  <2>5. AttachedTo(c, gone) = first \o second
    BY <1>2, ProcessAssumption DEF AttachedTo, first, second
  <2>6. \A q \in Proc : /\ attachIn[c] = q => op[q].kind \in {"IN", "RANGE", "ALT"}
                        /\ attachOut[c] = q => op[q].kind \in {"OUT", "CPPOUT"}
    BY <1>2 DEF IInv, Attached, WaitsIn, OffersOn
  <2> QED
    BY <1>2, <2>3, <2>4, <2>5, <2>6
<1> QED
  BY <1>1, <1>2

(* What the channels point to afterwards. *)
LEMMA DetachedFrom ==
  ASSUME IInv, NEW c \in Chan \cup {NoChan}, NEW gone \in SUBSET Proc,
         DetachFrom(c, gone), MarkClosed(c)
  PROVE  /\ ChannelTypeOK'
         /\ \A d \in Chan, q \in Proc :
              /\ attachIn'[d] = q <=> d # c /\ q \notin gone /\ attachIn[d] = q
              /\ attachOut'[d] = q <=> d # c /\ q \notin gone /\ attachOut[d] = q
         /\ Shrinking
<1>1. /\ attachIn \in [Chan -> Proc \cup {NoProc}] /\ attachOut \in [Chan -> Proc \cup {NoProc}]
      /\ isClosed \in [Chan -> BOOLEAN]
  BY DEF IInv, TypeOK, ChannelTypeOK
<1>2. ASSUME NEW d \in Chan
      PROVE  /\ attachIn'[d] = IF d = c \/ attachIn[d] \in gone THEN NoProc ELSE attachIn[d]
             /\ attachOut'[d] = IF d = c \/ attachOut[d] \in gone THEN NoProc ELSE attachOut[d]
  BY DEF DetachFrom
<1>3. ChannelTypeOK'
  BY <1>1 DEF ChannelTypeOK, DetachFrom, MarkClosed
<1> QED
  BY <1>2, <1>3, ProcessAssumption DEF Shrinking

LEMMA ClosedAttached ==
  ASSUME IInv, NEW c \in Chan \cup {NoChan}, NEW gone \in SUBSET Proc,
         DetachFrom(c, gone), MarkClosed(c),
         \A q \in Proc :
           \/ op'[q].kind = "none" /\ (q \in gone \/ op[q].kind \in {"LUA", "PARWHILE"})
           \/ q \notin gone /\ op[q].kind = "LUA" /\ op'[q].kind = "LUA"
           \/ q \notin gone /\ op'[q] = ClosedOps(c)[q]
  PROVE  Attached'
<1> SUFFICES ASSUME NEW d \in Chan, NEW q \in Proc
             PROVE  /\ attachIn'[d] = q => WaitsIn(q, d)'
                    /\ attachOut'[d] = q <=> OffersOn(q, d)'
  BY DEF Attached
<1>1. /\ attachIn'[d] = q => d # c /\ q \notin gone /\ WaitsIn(q, d)
      /\ attachOut'[d] = q <=> d # c /\ q \notin gone /\ OffersOn(q, d)
  BY DetachedFrom DEF IInv, Attached
<1>2. CASE op'[q].kind = "none" /\ (q \in gone \/ op[q].kind \in {"LUA", "PARWHILE"})
  BY <1>1, <1>2 DEF WaitsIn, OffersOn
<1>3. CASE q \notin gone /\ op[q].kind = "LUA" /\ op'[q].kind = "LUA"
  BY <1>1, <1>3 DEF WaitsIn, OffersOn
<1>4. CASE q \notin gone /\ op'[q] = ClosedOps(c)[q]
  <2>1. CASE c \in Chan /\ q = attachIn[c]
    <3>1. op'[q] = CloseInput(op[q], c)
      BY <1>4, <2>1, ProcessAssumption DEF ClosedOps
    <3>2. attachIn'[d] = q => WaitsIn(q, d)'
      BY <1>1, <2>1, <3>1, CloseInputFacts DEF WaitsIn
    <3>3. ~OffersOn(q, d) /\ ~OffersOn(q, d)'
      BY <2>1, <3>1, CloseInputFacts DEF OffersOn
    <3> QED
      BY <1>1, <3>2, <3>3
  <2>2. CASE c \in Chan /\ q # attachIn[c] /\ q = attachOut[c]
    <3>1. /\ op'[q] = CloseArguments(op[q]) /\ op[q] \in Operation
          /\ op[q].kind \in {"OUT", "CPPOUT"} /\ op[q].channel = c
      BY <1>4, <2>2, ProcessAssumption DEF ClosedOps, IInv, TypeOK, ProcessTypeOK, Attached, OffersOn
    <3>2. /\ op'[q].kind \in {"OUT", "CPPOUT"} /\ op'[q].argumentsMoved
          /\ op'[q].arguments = NoArgs
      BY <3>1, CloseArgumentsFacts
    <3> QED
      BY <1>1, <3>1, <3>2 DEF WaitsIn, OffersOn
  <2>3. CASE ~(c \in Chan /\ (q = attachIn[c] \/ q = attachOut[c]))
    <3>1. op'[q] = op[q]
      BY <1>4, <2>3 DEF ClosedOps
    <3>2. c \in Chan => ~OffersOn(q, c)
      BY <2>3 DEF IInv, Attached
    <3>3. (OffersOn(q, d)' <=> OffersOn(q, d)) /\ (WaitsIn(q, d) => WaitsIn(q, d)')
      BY <3>1 DEF WaitsIn, OffersOn, CasesFor
    <3> QED
      BY <1>1, <1>4, <3>2, <3>3
  <2> QED
    BY <2>1, <2>2, <2>3
<1> QED
  BY <1>2, <1>3, <1>4
(* An operation waits on no channel that the method has closed, and stays attached to the others. *)
LEMMA ClosedWaiting ==
  ASSUME IInv, PointedTo, NEW c \in MayClose, NEW gone \in SUBSET Proc, DetachFrom(c, gone),
         MarkClosed(c),
         \A q \in Proc : \/ op'[q].kind \in {"none", "LUA"}
                         \/ q \notin gone /\ op'[q] = ClosedOps(c)[q]
  PROVE  PointedTo'
<1>0. c \in Chan \cup {NoChan} /\ (c \in Chan => "close" \in Calls)
  BY ProcessAssumption DEF MayClose
<1>1. ASSUME NEW q \in Proc
      PROVE  /\ op'[q].kind = "ALT" => OneCase(op'[q])
             /\ \A d \in Chan : WaitsIn(q, d)' => q \notin gone /\ d # c /\ WaitsIn(q, d)
  <2>1. CASE op'[q].kind \in {"none", "LUA"}
    BY <2>1 DEF WaitsIn
  <2>2. CASE q \notin gone /\ op'[q] = ClosedOps(c)[q]
    <3>1. CASE c \in Chan /\ q = attachIn[c] /\ op[q].kind = "ALT"
      <4>1. op'[q] = CloseInput(op[q], c)
        BY <2>2, <3>1, ProcessAssumption DEF ClosedOps
      <4>2. OneCase(op[q])
        BY <3>1 DEF PointedTo
      <4>3. /\ op'[q].kind = "ALT" /\ op'[q].caseTriggered = op[q].caseTriggered
            /\ OneCase(op'[q])
            /\ \A d \in Chan : CasesFor(op'[q], d) # {} => d # c /\ CasesFor(op[q], d) # {}
        BY <1>0, <3>1, <4>1, <4>2, CloseOneCase
      <4>4. \A d \in Chan : WaitsIn(q, d)' => d # c /\ WaitsIn(q, d)
        BY <3>1, <4>3 DEF WaitsIn, CasesFor
      <4> QED
        BY <2>2, <4>3, <4>4
    <3>2. CASE c \in Chan /\ q = attachIn[c] /\ op[q].kind # "ALT"
      <4>1. op'[q] = CloseInput(op[q], c)
        BY <2>2, <3>2, ProcessAssumption DEF ClosedOps
      <4>2. op'[q].argumentsMoved /\ op'[q].kind = op[q].kind
        BY <3>2, <4>1, ClosedAltFacts, CloseInputFacts
      <4> QED
        BY <3>2, <4>2 DEF WaitsIn
    <3>3. CASE c \in Chan /\ q # attachIn[c] /\ q = attachOut[c]
      <4>1. op[q].kind \in {"OUT", "CPPOUT"} /\ op'[q].kind = op[q].kind
        BY <1>0, <2>2, <3>3, ClosedFacts DEF ClosedFrom, IInv, Attached, OffersOn
      <4> QED
        BY <4>1 DEF WaitsIn
    <3>4. CASE ~(c \in Chan /\ (q = attachIn[c] \/ q = attachOut[c]))
      <4>1. op'[q] = op[q]
        BY <1>0, <2>2, <3>4, ClosedFacts
      <4>2. \A d \in Chan : WaitsIn(q, d)' => WaitsIn(q, d)
        BY <4>1 DEF WaitsIn, CasesFor
      <4>3. c \in Chan => ~WaitsIn(q, c)
        BY <3>4 DEF PointedTo
      <4> QED
        BY <2>2, <4>1, <4>2, <4>3 DEF PointedTo
    <3> QED
      BY <3>1, <3>2, <3>3, <3>4
  <2> QED
    BY <1>1, <2>1, <2>2
<1>2. \A d \in Chan, q \in Proc : WaitsIn(q, d)' => attachIn'[d] = q
  BY <1>0, <1>1, DetachedFrom DEF PointedTo
<1> QED
  BY <1>1, <1>2 DEF PointedTo

(* An operation written in Lua is attached to nothing, nor is a PARWHILE. *)
LEMMA AttachedToNothing ==
  ASSUME IInv, NEW p \in Proc, op[p].kind \in {"LUA", "PARWHILE"}
  PROVE  \A d \in Chan : attachIn[d] # p /\ attachOut[d] # p
<1>1. \A d \in Chan : ~WaitsIn(p, d) /\ ~OffersOn(p, d)
  BY DEF WaitsIn, OffersOn
<1> QED
  BY <1>1 DEF IInv, Attached

(***************************************************************************)
(* OpLua::Work: what the method closes, and p if it finishes, is pushed.   *)
(***************************************************************************)
LEMMA WorkLuaStep ==
  ASSUME EInv, NEW p \in Proc, WorkLua(p), dangling' \subseteq Chan
  PROVE  EInv' /\ (PointedTo => PointedTo')
<1> USE DEF EInv, Outputs
<1>0. Working(p) /\ op[p].kind = "LUA" /\ InTurn(p)
  BY DEF WorkLua, InTurn
<1>1. PICK c \in MayClose, finish \in BOOLEAN :
        /\ op' = [ClosedOps(c) EXCEPT ![p].finished = finish]
        /\ PushEvalSteps("none", stack, isOnStack, AttachedTo(c, {}) \o (IF finish THEN <<p>> ELSE <<>>))
        /\ MarkClosed(c) /\ DetachFrom(c, {})
  BY DEF WorkLua
<1>2. /\ work' = Tail(work) /\ UNCHANGED <<thread, parent, running, result, dt, time, count>>
  BY DEF WorkLua, cppVars
<1>3. c \in Chan \cup {NoChan} /\ {} \in SUBSET Proc
  BY DEF MayClose
<1>4. \A d \in Chan : attachIn[d] # p /\ attachOut[d] # p
  BY <1>0, AttachedToNothing DEF Core
<1>5. /\ op'[p] = [op[p] EXCEPT !.finished = finish]
      /\ \A q \in Proc \ {p} : op'[q] = ClosedOps(c)[q]
  <2>1. ClosedOps(c)[p] = op[p]
    BY <1>3, <1>4, ClosedFacts DEF Core
  <2> QED
    BY <1>1, <2>1 DEF ClosedOps
<1>6. /\ op'[p] \in Operation /\ op'[p].kind = "LUA" /\ op'[p].closures = op[p].closures
      /\ op'[p].closureToRun = op[p].closureToRun /\ op'[p].channel = op[p].channel
      /\ op'[p].finished = finish
  <2>1. op[p] \in Operation
    BY DEF Core, IInv, TypeOK, ProcessTypeOK
  <2> QED
    BY <1>0, <1>5, <2>1 DEF Operation
<1>7. ASSUME NEW q \in Proc \ {p}
      PROVE  ClosedFrom(op'[q], q) /\ (op'[q] = op[q] \/ q \in Range(AttachedTo(c, {})))
  BY <1>3, <1>5, <1>7, ClosedFacts, AttachedToFacts DEF Core
<1>8. \A q \in Proc :
        /\ op'[q] \in Operation
        /\ op'[q].kind = op[q].kind
        /\ op'[q].closures = op[q].closures
        /\ op'[q].closureToRun = op[q].closureToRun
        /\ op'[q].channel = op[q].channel
        /\ Fresh(op'[q]) <=> Fresh(op[q])
  BY <1>0, <1>6, <1>7 DEF ClosedFrom, Fresh
<1>9. op' \in [Proc -> Operation]
  <2>1. op' = [q \in Proc |-> op'[q]]
    BY <1>1 DEF ClosedOps
  <2> QED
    BY <1>8, <2>1
<1> DEFINE first == AttachedTo(c, {})
           second == IF finish THEN <<p>> ELSE <<>>
           ps == first \o second
<1>10. /\ first \in Seq(Proc) /\ \A q \in Range(first) : op[q].kind # "none"
       /\ \A q \in Proc : c \in Chan /\ (attachIn[c] = q \/ attachOut[c] = q) => q \in Range(first)
  BY <1>3, AttachedToFacts DEF Core
<1>11. second \in Seq(Proc) /\ Range(second) = IF finish THEN {p} ELSE {}
  BY OnePushed, NonePushed
<1> HIDE DEF first, second
<1>12. ps \in Seq(Proc) /\ Range(ps) = Range(first) \cup Range(second)
  BY <1>10, <1>11, ConcatProperties, RangeConcatenation
<1>13. PushEvalSteps("none", stack, isOnStack, ps)
  BY <1>1 DEF first, second
<1> HIDE DEF ps
<1>14. ChannelTypeOK' /\ Attached'
  BY <1>0, <1>1, <1>3, <1>5, <1>6, DetachedFrom, ClosedAttached DEF Core
<1>15. /\ stack \in Seq(Proc) /\ isOnStack \in [Proc -> BOOLEAN]
       /\ StackFlags(stack, isOnStack) /\ "none" \in Failures
       /\ work' \in Seq(Proc) /\ dt' \in Nat /\ time' \in Nat
  BY <1>0, <1>2, WorkingFacts
     DEF Core, IInv, TypeOK, ProcessTypeOK, StackConsistent, StackFlags, Failures
<1>16. IInv'
  <2>1. \A q \in Range(ps) : op[q].kind # "none"
    BY <1>0, <1>10, <1>11, <1>12
  <2> QED
    BY <1>2, <1>8, <1>9, <1>12, <1>13, <1>14, <1>15, <2>1, PushStep DEF Core
<1>17. failed' = "none" => \A q \in Proc : isOnStack'[q] = (isOnStack[q] \/ q \in Range(ps))
  BY <1>13, PushFlags
<1>18. WInv'
  <2>1. ASSUME failed' = "none", NEW q \in Proc
        PROVE  isOnStack'[q] \/ (op'[q] = op[q] /\ ~isOnStack[q]) \/ Rests(q)'
    <3>1. CASE q = p /\ finish
      BY <1>11, <1>12, <1>17, <2>1, <3>1
    <3>2. CASE q = p /\ ~finish
      BY <1>6, <3>2 DEF Rests, ChannelKinds
    <3>3. CASE q # p
      BY <1>7, <1>12, <1>15, <1>17, <2>1, <3>3 DEF first
    <3> QED
      BY <3>1, <3>2, <3>3
  <2>2. failed = "none"
    BY <1>0 DEF Working
  <2> QED
    BY <1>2, <1>8, <2>1, <2>2, FieldWakeup DEF Core
<1>19. Turns' /\ Prompt'
  <2>1. \A q \in Proc : NilWaits(q)' => NilWaits(q) /\ q # p
    BY <1>6, <1>7 DEF NilWaits, ClosedFrom
  <2>2. \A d \in Chan : InAttached(d)' /\ OutAttached(d)' => InAttached(d) /\ OutAttached(d)
    BY <1>1, <1>3, DetachedFrom DEF Core, Shrinking, InAttached, OutAttached
  <2> QED
    BY <1>0, <1>2, <1>4, <2>1, <2>2, TurnStep
<1>20. NoMain' /\ OneOut' /\ RawSuspended'
  BY <1>2, <1>8, KindsKeep
<1>21. CountHeld' /\ CppTypeOK'
  <2>1. ASSUME failed' = "none", NEW q \in Proc, op'[q].kind = "CPPOUT"
        PROVE  /\ op[q].kind = "CPPOUT" /\ op'[q].channel = op[q].channel
               /\ \/ isOnStack'[q]
                  \/ /\ ~isOnStack[q]
                     /\ attachOut[op[q].channel] = q => attachOut'[op[q].channel] = q
    <3>1. op[q].kind = "CPPOUT" /\ op'[q].channel = op[q].channel
      BY <1>8, <2>1
    <3>2. op[q].channel \in Chan
      BY <3>1 DEF Core, IInv, OnChannel
    <3>3. c \in Chan /\ attachOut[c] = q => isOnStack'[q]
      BY <1>10, <1>12, <1>17, <2>1
    <3>4. op[q].channel # c /\ attachOut[op[q].channel] = q => attachOut'[op[q].channel] = q
      BY <1>1, <1>3, <3>2, DetachedFrom DEF Core
    <3> QED
      BY <1>15, <1>17, <2>1, <3>1, <3>2, <3>3, <3>4
  <2>2. failed = "none"
    BY <1>0 DEF Working
  <2> QED
    BY <1>2, <2>1, <2>2, CountKept
<1>22. Disjoint' /\ Going'
  <2>1. \A q \in Proc : op'[q].kind = "CPPOUT" /\ op'[q].finished =>
          op[q].kind = "CPPOUT" /\ (op[q].finished \/ q = p)
    BY <1>7, <1>8 DEF ClosedFrom
  <2> QED
    BY <1>0, <1>2, <1>8, <2>1, WorkDone
<1>23. PointedTo => PointedTo'
  BY <1>1, <1>3, <1>5, <1>6, ClosedWaiting DEF Core
<1> QED
  BY <1>16, <1>18, <1>19, <1>20, <1>21, <1>22, <1>23 DEF Core

(***************************************************************************)
(* A C++ output ends: nothing points to it, its process is resumed.        *)
(***************************************************************************)
LEMMA CppFinishes ==
  ASSUME EInv, NEW p \in Proc, Evaluating(p), op[p].kind = "CPPOUT", op[p].finished,
         FinishOperation(p, NoResult), UNCHANGED <<chanVars, cppVars>>
  PROVE  EInv' /\ (PointedTo => PointedTo')
<1> USE DEF EInv, Outputs
<1>1. InTurn(p) /\ failed = "none" /\ running = NoProc /\ work = <<>>
  BY DEF InTurn, Evaluating
<1>2. Children(p) = {}
  BY NoClosures DEF Core, IInv, Spawning, ParKinds
<1>3. Resume(p, NoResult, {}, Popped, PoppedFlags)
  BY <1>2 DEF FinishOperation
<1>4. /\ op' = [q \in Proc |-> IF q = p THEN NoOp ELSE op[q]]
      /\ thread' = [q \in Proc |-> IF q = p THEN "running" ELSE thread[q]]
      /\ parent' = [q \in Proc |-> parent[q]]
      /\ \A q \in Proc : isOnStack'[q] = PoppedFlags[q]
      /\ running' = p /\ work' = <<>>
  BY <1>1, <1>3, EvaluatingFacts DEF Resume, hostVars, Core
<1>5. thread[p] = "yield" /\ p # NoProc
  BY EvaluatingFacts DEF Core
<1>6. \A q \in Proc : q # p => isOnStack'[q] = isOnStack[q]
  <2>1. isOnStack \in [Proc -> BOOLEAN]
    BY DEF Core, IInv, TypeOK, ProcessTypeOK
  <2> QED
    BY <1>4, <2>1 DEF PoppedFlags, Evaluating
<1>7. IInv'
  <2>1. \A c \in Chan : ~WaitsIn(p, c) /\ ~OffersOn(p, c)
    BY DEF WaitsIn, OffersOn
  <2>2. \A c \in Chan : attachIn[c] # p /\ attachOut[c] # p
    BY <2>1 DEF Core, IInv, Attached
  <2>3. NoResult \in Result
    BY TypeFacts DEF Core, IInv
  <2> QED
    BY <1>2, <2>2, <2>3, FinishStep DEF Core
<1>8. WInv'
  <2> DEFINE none == {}
  <2>1. /\ none \in SUBSET Proc /\ \A q \in Proc : q \notin none
        /\ Main \notin none /\ Children(p) \subseteq none
        /\ \A q \in none : Children(q) \subseteq none
        /\ \A q \in Proc, k \in none : k \in Children(q) => q = p \/ q \in none
    BY <1>2
  <2> HIDE DEF none
  <2>2. /\ op' = [q \in Proc |-> IF q = p \/ q \in none THEN NoOp ELSE op[q]]
        /\ \A q \in Proc \ {p} : thread'[q] = IF q \in none THEN "free" ELSE thread[q]
        /\ parent' = [q \in Proc |-> IF q \in none THEN NoProc ELSE parent[q]]
        /\ thread'[p] = "running"
    BY <1>4, <2>1
  <2> QED
    BY <1>1, <1>4, <1>5, <1>6, <2>1, <2>2, DestroyWakeup DEF Core
<1>9. Prompt'
  BY <1>3, <1>7, ResumePrompt DEF Core, Shrinking, chanVars
<1>10. Turns'
  BY <1>1, <1>4, TurnFacts, ProcessAssumption DEF Turns, Core
<1>11. NoMain' /\ OneOut' /\ RawSuspended'
  BY <1>4, KindsKeep, TypeFacts DEF Core, IInv
<1>12. CountHeld' /\ CppTypeOK'
  <2>1. \A q \in Proc : op'[q].kind = "CPPOUT" => q # p
    BY <1>4, TypeFacts DEF Core, IInv
  <2>2. isOnStack \in [Proc -> BOOLEAN]
    BY DEF Core, IInv, TypeOK, ProcessTypeOK
  <2>3. ASSUME NEW q \in Proc, op'[q].kind = "CPPOUT"
        PROVE  /\ op[q].kind = "CPPOUT" /\ op'[q].channel = op[q].channel
               /\ \/ isOnStack'[q]
                  \/ /\ ~isOnStack[q]
                     /\ attachOut[op[q].channel] = q => attachOut'[op[q].channel] = q
    BY <1>4, <1>6, <2>1, <2>2, <2>3 DEF chanVars
  <2> QED
    BY <1>1, <2>3, CountKept DEF cppVars, CppTypeOK
<1>13. Disjoint' /\ Going'
  BY <1>4, NoWork
<1>14. PointedTo => PointedTo'
  BY FinishWaiting DEF chanVars
<1> QED
  BY <1>7, <1>8, <1>9, <1>10, <1>11, <1>12, <1>13, <1>14 DEF Core

(* A C++ output is evaluated. *)
LEMMA EvalCppStep ==
  ASSUME EInv, NEW p \in Proc, EvalCpp(p)
  PROVE  EInv' /\ (PointedTo => PointedTo')
<1> USE DEF EInv, Outputs
<1>1. Evaluating(p) /\ op[p].kind = "CPPOUT" /\ InTurn(p)
  BY DEF EvalCpp, InTurn
<1>2. CASE op[p].finished /\ FinishOperation(p, NoResult) /\ UNCHANGED <<chanVars, cppVars>>
  BY <1>1, <1>2, CppFinishes
<1>3. CASE ~op[p].finished /\ CppEvaluate(p, count[p], Popped, PoppedFlags) /\ UNCHANGED hostVars
  <2>1. work' = <<>> /\ dt' = dt /\ time' = time
    BY <1>1, <1>3 DEF hostVars, Evaluating
  <2>2. /\ work' \in Seq(Proc) /\ dt' \in Nat /\ time' \in Nat
        /\ count[p] \in 0 .. MaxCount
    BY <1>3, <2>1 DEF hostVars, Core, IInv, TypeOK, ProcessTypeOK, CppTypeOK
  <2>3. \A q \in Proc \ {p} : PoppedFlags[q] = isOnStack[q]
    BY <1>1 DEF PoppedFlags, Evaluating, Core, IInv, TypeOK, ProcessTypeOK
  <2>4. /\ Core' /\ (PointedTo => PointedTo')
        /\ \A q \in Proc : SameFields(q)
        /\ CppTypeOK' /\ CountHeld' /\ UNCHANGED thread
    BY <1>1, <1>3, <2>2, <2>3, EvaluatingFacts, CppEvaluated DEF Core
  <2> QED
    BY <2>1, <2>4, NoWork, SameFieldsKeep
<1> QED
  BY <1>2, <1>3 DEF EvalCpp

(* A C++ output is told by its subclass to end: the channel forgets it, and it is pushed. *)
LEMMA CppEnds ==
  ASSUME EInv, NEW p \in Proc, Working(p), op[p].kind = "CPPOUT", EndOutput(p),
         op' = [op EXCEPT ![p].finished = TRUE],
         PushEvalSteps("none", stack, isOnStack, <<p>>),
         work' = Tail(work),
         UNCHANGED <<thread, parent, running, result, dt, time, attachIn, isClosed, cppVars>>
  PROVE  EInv' /\ (PointedTo => PointedTo')
<1> USE DEF EInv, Outputs
<1>0. failed = "none" /\ InTurn(p)
  BY DEF Working, InTurn
<1>1. /\ op \in [Proc -> Operation] /\ op[p] \in Operation
      /\ attachOut \in [Chan -> Proc \cup {NoProc}] /\ isOnStack \in [Proc -> BOOLEAN]
  BY DEF Core, IInv, TypeOK, ProcessTypeOK, ChannelTypeOK
<1>2. /\ op' \in [Proc -> Operation]
      /\ op'[p] = [op[p] EXCEPT !.finished = TRUE]
      /\ \A q \in Proc \ {p} : op'[q] = op[q]
  BY <1>1 DEF Operation
<1>3. op'[p].kind = "CPPOUT" /\ op'[p].finished
  BY <1>1, <1>2 DEF Operation
<1>4. \A q \in Proc : /\ op'[q].kind = op[q].kind /\ op'[q].closures = op[q].closures
                      /\ op'[q].closureToRun = op[q].closureToRun
                      /\ op'[q].channel = op[q].channel
                      /\ Fresh(op'[q]) <=> Fresh(op[q])
  BY <1>1, <1>2, <1>3 DEF Operation, Fresh
<1>5. \A d \in Chan, q \in Proc : attachOut'[d] = q <=> attachOut[d] = q /\ q # p
  BY ProcessAssumption DEF EndOutput
<1>6. ChannelTypeOK' /\ Attached'
  <2>1. \A d \in Chan, q \in Proc : OffersOn(q, d)' <=> OffersOn(q, d) /\ q # p
    BY <1>2, <1>3 DEF OffersOn
  <2>2. \A d \in Chan, q \in Proc : WaitsIn(q, d) => WaitsIn(q, d)'
    BY <1>2 DEF WaitsIn, CasesFor
  <2> QED
    BY <1>1, <1>5, <2>1, <2>2 DEF Core, IInv, TypeOK, Attached, ChannelTypeOK, EndOutput
<1>7. /\ stack \in Seq(Proc) /\ StackFlags(stack, isOnStack) /\ "none" \in Failures
      /\ work' \in Seq(Proc) /\ dt' \in Nat /\ time' \in Nat
  BY WorkingFacts
     DEF Core, IInv, TypeOK, ProcessTypeOK, StackConsistent, StackFlags, Failures
<1>8. IInv'
  <2>1. <<p>> \in Seq(Proc) /\ \A q \in Range(<<p>>) : op[q].kind # "none"
    BY OnePushed
  <2> QED
    BY <1>1, <1>2, <1>4, <1>6, <1>7, <2>1, PushStep DEF Core
<1>9. failed' = "none" => \A q \in Proc : isOnStack'[q] = (isOnStack[q] \/ q = p)
  BY PushFlags, OnePushed
<1>10. WInv'
  BY <1>0, <1>1, <1>2, <1>4, <1>9, FieldWakeup DEF Core
<1>11. Turns' /\ Prompt'
  <2>1. \A q \in Proc : NilWaits(q)' => NilWaits(q) /\ q # p
    BY <1>2, <1>3 DEF NilWaits
  <2>2. \A d \in Chan : InAttached(d)' /\ OutAttached(d)' =>
          InAttached(d) /\ OutAttached(d) /\ attachOut[d] # p
    BY ProcessAssumption DEF InAttached, OutAttached, EndOutput
  <2>3. \A d \in Chan : attachIn[d] # p
    BY DEF Core, IInv, Attached, WaitsIn
  <2> QED
    BY <1>0, <2>1, <2>2, <2>3, TurnStep
<1>12. NoMain' /\ OneOut' /\ RawSuspended'
  BY <1>4, KindsKeep
<1>13. CountHeld' /\ CppTypeOK'
  <2>1. ASSUME failed' = "none", NEW q \in Proc, op'[q].kind = "CPPOUT"
        PROVE  /\ op[q].kind = "CPPOUT" /\ op'[q].channel = op[q].channel
               /\ \/ isOnStack'[q]
                  \/ /\ ~isOnStack[q]
                     /\ attachOut[op[q].channel] = q => attachOut'[op[q].channel] = q
    <3>1. op[q].kind = "CPPOUT" /\ op[q].channel \in Chan /\ op'[q].channel = op[q].channel
      BY <1>4, <2>1 DEF Core, IInv, OnChannel
    <3> QED
      BY <1>1, <1>5, <1>9, <2>1, <3>1
  <2> QED
    BY <1>0, <2>1, CountKept DEF cppVars, CppTypeOK
<1>14. Disjoint' /\ Going'
  BY <1>2, <1>4, WorkDone
<1>15. PointedTo => PointedTo'
  <2>1. \A d \in Chan : ~WaitsIn(p, d)'
    BY <1>3 DEF WaitsIn
  <2> QED
    BY <1>2, <1>3, <2>1, NoneBegins
<1> QED
  BY <1>8, <1>10, <1>11, <1>12, <1>13, <1>14, <1>15 DEF Core

(* A C++ output is told the delta time. *)
LEMMA WorkCppStep ==
  ASSUME EInv, NEW p \in Proc, WorkCpp(p)
  PROVE  EInv' /\ (PointedTo => PointedTo')
<1> USE DEF EInv, Outputs
<1>1. /\ Working(p) /\ op[p].kind = "CPPOUT" /\ InTurn(p)
      /\ work' = Tail(work) /\ dt' = dt /\ time' = time
  BY DEF WorkCpp, InTurn
<1>2. ASSUME NEW n \in {count[p], count[p] + 1}, n <= MaxCount,
             CppEvaluate(p, n, stack, isOnStack)
      PROVE  EInv' /\ (PointedTo => PointedTo')
  <2>1. n \in 0 .. MaxCount
    BY <1>2, CppAssumption DEF CppTypeOK
  <2>2. ~op[p].finished
    BY <1>1, WorkedIsGoing
  <2>3. /\ stack \in Seq(Proc) /\ isOnStack \in [Proc -> BOOLEAN]
        /\ StackFlags(stack, isOnStack)
        /\ work' \in Seq(Proc) /\ dt' \in Nat /\ time' \in Nat
    BY <1>1, WorkingFacts DEF Core, IInv, TypeOK, ProcessTypeOK, StackConsistent, StackFlags
  <2>4. /\ Core' /\ (PointedTo => PointedTo')
        /\ \A q \in Proc : SameFields(q)
        /\ CppTypeOK' /\ CountHeld' /\ UNCHANGED thread
    BY <1>1, <1>2, <2>1, <2>2, <2>3, CppEvaluated
  <2>5. Disjoint' /\ Going'
    BY <1>1, <2>4, WorkDone DEF SameFields
  <2> QED
    BY <2>4, <2>5, SameFieldsKeep
<1> QED
  BY <1>1, <1>2, CppEnds DEF WorkCpp

----------------------------------------------------------------------------
(***************************************************************************)
(* The operation of p ends, with the processes of gone, in the midst of    *)
(* which a method closes channel c: p is resumed, the processes of gone    *)
(* are destroyed, and who waits on c and is not one of them is pushed.     *)
(***************************************************************************)
EndsAndCloses(p, c, gone, stk, flags) ==
  /\ op' = [q \in Proc |-> IF q = p \/ q \in gone THEN NoOp ELSE ClosedOps(c)[q]]
  /\ PushEvalSteps("none", stk, flags, AttachedTo(c, gone))
  /\ MarkClosed(c) /\ DetachFrom(c, gone)
  /\ thread' = [q \in Proc |-> IF q = p THEN "running"
                               ELSE IF q \in gone THEN "free" ELSE thread[q]]
  /\ parent' = [q \in Proc |-> IF q \in gone THEN NoProc ELSE parent[q]]
  /\ running' = p
  /\ result' = NoResult
  /\ UNCHANGED <<hostVars, count>>

LEMMA EndsAndClosesStep ==
  ASSUME EInv, NEW p \in Proc, Evaluating(p), op[p].kind \in {"LUA", "PARWHILE"},
         NEW c \in MayClose, NEW gone \in SUBSET Proc,
         Main \notin gone, Children(p) \subseteq gone,
         \A q \in gone : Children(q) \subseteq gone,
         \A q \in Proc, k \in gone : k \in Children(q) => q = p \/ q \in gone,
         NEW stk \in Seq(Proc), NEW flags \in [Proc -> BOOLEAN], StackFlags(stk, flags),
         \A q \in Proc : flags[q] <=> PoppedFlags[q] /\ q \notin gone,
         EndsAndCloses(p, c, gone, stk, flags), dangling' \subseteq Chan
  PROVE  EInv' /\ (PointedTo => PointedTo')
<1> USE DEF EInv, Outputs
<1>1. InTurn(p) /\ failed = "none" /\ running = NoProc /\ work = <<>>
  BY DEF InTurn, Evaluating
<1>2. /\ \A q \in Proc : op'[q] = IF q = p \/ q \in gone THEN NoOp ELSE ClosedOps(c)[q]
      /\ op' = [q \in Proc |-> op'[q]]
      /\ \A q \in Proc : thread'[q] = IF q = p THEN "running"
                                      ELSE IF q \in gone THEN "free" ELSE thread[q]
      /\ thread' = [q \in Proc |-> thread'[q]]
      /\ parent' = [q \in Proc |-> IF q \in gone THEN NoProc ELSE parent[q]]
      /\ running' = p /\ result' = NoResult /\ work' = <<>> /\ dt' = dt /\ time' = time
      /\ count' = count
  BY <1>1 DEF EndsAndCloses, hostVars
<1>3. PushEvalSteps("none", stk, flags, AttachedTo(c, gone)) /\ MarkClosed(c) /\ DetachFrom(c, gone)
  BY DEF EndsAndCloses
<1>4. c \in Chan \cup {NoChan}
  BY DEF MayClose
<1>5. \A d \in Chan : attachIn[d] # p /\ attachOut[d] # p
  BY AttachedToNothing DEF Core
<1>6. /\ NoOp \in Operation /\ NoResult \in Result /\ NoOp.kind = "none"
      /\ \A q \in Proc : op[q] \in Operation
  BY TypeFacts DEF Core, IInv
<1>7. /\ Popped \in Seq(Proc) /\ StackFlags(Popped, PoppedFlags)
      /\ Range(Popped) \subseteq Range(stack) /\ thread[p] = "yield" /\ p # NoProc
  BY EvaluatingFacts DEF Core
<1>8. /\ isOnStack \in [Proc -> BOOLEAN] /\ thread \in [Proc -> ThreadStatus]
      /\ parent \in [Proc -> Proc \cup {NoProc}] /\ dt \in Nat /\ time \in Nat
      /\ StackFlags(stack, isOnStack)
  BY DEF Core, IInv, TypeOK, ProcessTypeOK, StackConsistent, StackFlags
<1>9. ~PoppedFlags[p] /\ \A q \in Proc \ {p} : PoppedFlags[q] = isOnStack[q]
  BY <1>8 DEF PoppedFlags, Evaluating
<1> DEFINE ps == AttachedTo(c, gone)
<1>10. /\ ps \in Seq(Proc)
       /\ \A q \in Proc : q \in Range(ps) <=>
            c \in Chan /\ q \notin gone /\ (attachIn[c] = q \/ attachOut[c] = q)
       /\ \A q \in Range(ps) : op[q].kind # "none"
  BY <1>4, AttachedToFacts DEF Core
<1> HIDE DEF ps
<1>11. PushEvalSteps("none", stk, flags, ps)
  BY <1>3 DEF ps
<1>12. ASSUME NEW q \in Proc, q # p, q \notin gone
       PROVE  /\ ClosedFrom(op'[q], q) /\ op'[q] = ClosedOps(c)[q]
              /\ op'[q] = op[q] \/ q \in Range(ps)
  BY <1>2, <1>4, <1>10, <1>12, ClosedFacts DEF Core
<1>13. /\ stack' \in Seq(Proc) /\ isOnStack' \in [Proc -> BOOLEAN] /\ failed' \in Failures
       /\ StackFlags(stack', isOnStack')
       /\ Range(stack') \subseteq Range(stk) \cup Range(ps)
  <2>1. "none" \in Failures
    BY DEF Failures
  <2> QED
    BY <1>10, <1>11, <2>1, PushKeepsFlags
<1>14. ChannelTypeOK' /\ Attached'
  <2>1. \A q \in Proc :
          \/ op'[q].kind = "none" /\ (q \in gone \/ op[q].kind \in {"LUA", "PARWHILE"})
          \/ q \notin gone /\ op[q].kind = "LUA" /\ op'[q].kind = "LUA"
          \/ q \notin gone /\ op'[q] = ClosedOps(c)[q]
    BY <1>2, <1>6
  <2> QED
    BY <1>3, <1>4, <2>1, DetachedFrom, ClosedAttached DEF Core
<1>15. TypeOK'
  <2>1. op' \in [Proc -> Operation]
    BY <1>2, <1>6, <1>12 DEF ClosedFrom
  <2>2. thread' \in [Proc -> ThreadStatus]
    BY <1>2, <1>8 DEF ThreadStatus
  <2>3. parent' \in [Proc -> Proc \cup {NoProc}]
    BY <1>2, <1>8
  <2>4. work' \in Seq(Proc)
    BY <1>2
  <2> QED
    BY <1>2, <1>6, <1>8, <1>13, <1>14, <2>1, <2>2, <2>3, <2>4 DEF TypeOK, ProcessTypeOK
<1>16. Range(stack') \cap ({p} \cup gone) = {} /\ \A q \in Range(stack') : q \in Proc /\ op[q].kind # "none"
  <2>1. \A q \in Range(stk) : q \in Proc /\ PoppedFlags[q] /\ q \notin gone
    BY DEF StackFlags, Range
  <2>2. \A q \in Range(stk) : op[q].kind # "none"
    BY <1>7, <2>1 DEF StackFlags, Core, IInv, StackConsistent
  <2>3. \A q \in Range(ps) : q \in Proc /\ q # p /\ q \notin gone
    BY <1>5, <1>10 DEF Range
  <2> QED
    BY <1>9, <1>10, <1>13, <2>1, <2>2, <2>3
<1>17. \A q \in Proc : IF q = p \/ q \in gone THEN op'[q] = NoOp
                       ELSE SameShape(q) /\ (Fresh(op[q]) => Fresh(op'[q]))
  BY <1>2, <1>12 DEF ClosedFrom, SameShape
<1>18. /\ thread'[p] = "running"
       /\ \A q \in Proc \ {p} : thread'[q] = IF q \in gone THEN "free" ELSE thread[q]
  BY <1>2
<1>19. IInv'
  BY <1>2, <1>7, <1>13, <1>14, <1>15, <1>16, <1>17, <1>18, DestroyAndCloseStep DEF Core
<1>20. failed' = "none" => \A q \in Proc : isOnStack'[q] = (flags[q] \/ q \in Range(ps))
  BY <1>11, PushFlags
<1>21. WInv'
  <2>1. ASSUME failed' = "none", NEW q \in Proc, q # p, q \notin gone
        PROVE  isOnStack'[q] \/ (op'[q] = op[q] /\ ~isOnStack[q])
    BY <1>9, <1>12, <1>20, <2>1
  <2> QED
    BY <1>1, <1>2, <1>7, <1>17, <1>18, <2>1, DestroyAndCloseWakeup DEF Core
<1>22. Turns' /\ Prompt'
  <2>1. \A q \in Proc : NilWaits(q)' => NilWaits(q)
    BY <1>2, <1>6, <1>12 DEF NilWaits, ClosedFrom
  <2>2. Served(p)'
    BY <1>2, <1>6 DEF Served, NilWaits, WaitsIn, OffersOn
  <2>3. Shrinking
    BY <1>3, <1>4, DetachedFrom DEF Core
  <2>4. thread'[Main] # "ready"
    BY <1>1, <1>18, TurnFacts, ProcessAssumption
  <2> QED
    BY <1>2, <1>19, <2>1, <2>2, <2>3, <2>4, EvaluatedPrompt DEF Core, Turns
<1>23. NoMain' /\ OneOut' /\ RawSuspended'
  <2>1. ASSUME NEW q \in Proc
        PROVE  \/ /\ op'[q].kind = op[q].kind /\ op'[q].channel = op[q].channel
                  /\ thread'[q] = thread[q]
               \/ op'[q].kind = "none" /\ thread'[q] # "yield"
    BY <1>2, <1>6, <1>12 DEF ClosedFrom
  <2> QED
    BY <2>1, KindsKeep
<1>24. CountHeld' /\ CppTypeOK'
  <2>1. ASSUME failed' = "none", NEW q \in Proc, op'[q].kind = "CPPOUT"
        PROVE  /\ op[q].kind = "CPPOUT" /\ op'[q].channel = op[q].channel
               /\ \/ isOnStack'[q]
                  \/ /\ ~isOnStack[q]
                     /\ attachOut[op[q].channel] = q => attachOut'[op[q].channel] = q
    <3>1. q # p /\ q \notin gone
      BY <1>2, <1>6, <2>1
    <3>2. op[q].kind = "CPPOUT" /\ op'[q].channel = op[q].channel
      BY <1>12, <2>1, <3>1 DEF ClosedFrom
    <3>3. op[q].channel \in Chan
      BY <3>2 DEF Core, IInv, OnChannel
    <3>4. c \in Chan /\ attachOut[c] = q => isOnStack'[q]
      BY <1>10, <1>20, <2>1, <3>1
    <3>5. op[q].channel # c /\ attachOut[op[q].channel] = q => attachOut'[op[q].channel] = q
      BY <1>3, <1>4, <3>1, <3>3, DetachedFrom DEF Core
    <3> QED
      BY <1>8, <1>9, <1>20, <2>1, <3>1, <3>2, <3>3, <3>4, <3>5
  <2> QED
    BY <1>1, <1>2, <2>1, CountKept
<1>25. Disjoint' /\ Going'
  BY <1>2, NoWork
<1>26. PointedTo => PointedTo'
  <2>1. \A q \in Proc : \/ op'[q].kind \in {"none", "LUA"}
                        \/ q \notin gone /\ op'[q] = ClosedOps(c)[q]
    BY <1>2, <1>6
  <2> QED
    BY <1>3, <2>1, ClosedWaiting DEF Core
<1> QED
  BY <1>19, <1>21, <1>22, <1>23, <1>24, <1>25, <1>26 DEF Core

(* An operation in Lua that has not finished leaves the stack, and nothing else changes. *)
LEMMA LuaKeepsWaiting ==
  ASSUME EInv, NEW p \in Proc, Evaluating(p), op[p].kind = "LUA", ~op[p].finished,
         KeepWaiting, UNCHANGED <<chanVars, cppVars>>
  PROVE  EInv' /\ (PointedTo => PointedTo')
<1> USE DEF EInv, Outputs
<1>1. InTurn(p) /\ failed = "none" /\ running = NoProc /\ work = <<>>
  BY DEF InTurn, Evaluating
<1>2. /\ UNCHANGED <<thread, parent, op, running, work, failed, attachIn, attachOut, count, dangling>>
      /\ isOnStack' = PoppedFlags
  BY DEF KeepWaiting, hostVars, chanVars, cppVars
<1>3. \A q \in Proc \ {p} : isOnStack'[q] = isOnStack[q]
  BY <1>2 DEF PoppedFlags, Evaluating, Core, IInv, TypeOK, ProcessTypeOK
<1>4. isOnStack \in [Proc -> BOOLEAN]
  BY DEF Core, IInv, TypeOK, ProcessTypeOK
<1>5. IInv'
  BY KeepWaitingStep DEF Core
<1>6. WInv'
  <2>1. Rests(p)'
    BY <1>2 DEF Rests, ChannelKinds
  <2>2. \A q \in Proc : isOnStack'[q] \/ (op'[q] = op[q] /\ ~isOnStack[q]) \/ Rests(q)'
    BY <1>2, <1>3, <1>4, <2>1
  <2> QED
    BY <1>1, <1>2, <2>2, FieldWakeup DEF Core
<1>7. Turns' /\ Prompt'
  <2>1. \A q \in Proc : NilWaits(q)' => NilWaits(q) /\ q # p
    BY <1>2 DEF NilWaits
  <2>2. \A d \in Chan : attachIn[d] # p /\ attachOut[d] # p
    BY AttachedToNothing DEF Core
  <2>3. \A d \in Chan : InAttached(d)' /\ OutAttached(d)' => InAttached(d) /\ OutAttached(d)
    BY <1>2 DEF InAttached, OutAttached
  <2> QED
    BY <1>1, <1>2, <2>1, <2>2, <2>3, TurnStep
<1>8. NoMain' /\ OneOut' /\ RawSuspended'
  BY <1>2, KindsKeep
<1>9. CountHeld' /\ CppTypeOK'
  BY <1>1, <1>2, <1>3, <1>4, CountKept DEF CppTypeOK
<1>10. Disjoint' /\ Going'
  BY <1>1, <1>2, NoWork
<1>11. PointedTo => PointedTo'
  BY <1>2, WaitingKept
<1> QED
  BY <1>5, <1>6, <1>7, <1>8, <1>9, <1>10, <1>11 DEF Core

(* An operation in Lua is evaluated: OpLua::PushResults may close a channel. *)
LEMMA EvalLuaStep ==
  ASSUME EInv, NEW p \in Proc, EvalLua(p)
  PROVE  EInv' /\ (PointedTo => PointedTo')
<1>1. Evaluating(p) /\ op[p].kind = "LUA" /\ UNCHANGED <<count, dangling>>
  BY DEF EvalLua, cppVars
<1>2. CASE ~op[p].finished /\ KeepWaiting /\ UNCHANGED chanVars
  BY <1>1, <1>2, LuaKeepsWaiting DEF cppVars
<1>3. ASSUME NEW c \in MayClose,
             op' = [ClosedOps(c) EXCEPT ![p] = NoOp],
             PushEvalSteps("none", Popped, PoppedFlags, AttachedTo(c, {})),
             MarkClosed(c), DetachFrom(c, {}),
             thread' = [thread EXCEPT ![p] = "running"], running' = p,
             result' = NoResult, UNCHANGED <<parent, hostVars>>
      PROVE  EInv' /\ (PointedTo => PointedTo')
  <2> DEFINE none == {}
  <2>1. Children(p) = {}
    BY <1>1, NoClosures DEF EInv, Core, IInv, Spawning, ParKinds
  <2>2. /\ none \in SUBSET Proc /\ Main \notin none /\ Children(p) \subseteq none
        /\ \A q \in none : Children(q) \subseteq none
        /\ \A q \in Proc, k \in none : k \in Children(q) => q = p \/ q \in none
        /\ \A q \in Proc : q \notin none
    BY <2>1
  <2>3. /\ PushEvalSteps("none", Popped, PoppedFlags, AttachedTo(c, none))
        /\ DetachFrom(c, none)
    BY <1>3
  <2> HIDE DEF none
  <2>4. /\ thread \in [Proc -> ThreadStatus] /\ parent \in [Proc -> Proc \cup {NoProc}]
        /\ dangling \subseteq Chan
    BY DEF EInv, Core, Outputs, IInv, TypeOK, ProcessTypeOK, CppTypeOK
  <2>5. op' = [q \in Proc |-> IF q = p \/ q \in none THEN NoOp ELSE ClosedOps(c)[q]]
    BY <1>3, <2>2 DEF ClosedOps
  <2>6. thread' = [q \in Proc |-> IF q = p THEN "running"
                                  ELSE IF q \in none THEN "free" ELSE thread[q]]
    BY <1>3, <2>2, <2>4
  <2>7. parent' = [q \in Proc |-> IF q \in none THEN NoProc ELSE parent[q]]
    BY <1>3, <2>2, <2>4
  <2>8. EndsAndCloses(p, c, none, Popped, PoppedFlags)
    BY <1>1, <1>3, <2>3, <2>5, <2>6, <2>7 DEF EndsAndCloses, hostVars
  <2>9. /\ Popped \in Seq(Proc) /\ PoppedFlags \in [Proc -> BOOLEAN]
        /\ StackFlags(Popped, PoppedFlags)
    BY <1>1, EvaluatingFacts DEF EInv, Core
  <2> QED
    BY <1>1, <2>2, <2>4, <2>8, <2>9, EndsAndClosesStep
<1> QED
  BY <1>2, <1>3 DEF EvalLua

(* A PARWHILE ends, with operations in Lua below it whose Terminate closes a channel. *)
LEMMA TerminateLuaStep ==
  ASSUME EInv, NEW p \in Proc, TerminateLua(p), dangling' \subseteq Chan
  PROVE  EInv' /\ (PointedTo => PointedTo')
<1> DEFINE gone == Descendants(p)
           removed == {q \in gone : PoppedFlags[q]}
           kept == Without(Popped, removed)
           flags == [q \in Proc |-> PoppedFlags[q] /\ q \notin gone]
<1>1. Evaluating(p) /\ op[p].kind = "PARWHILE"
  BY DEF TerminateLua
<1>2. PICK c \in MayClose : EndsAndCloses(p, c, gone, kept, flags)
  BY DEF TerminateLua, EndsAndCloses, Outside
<1>3. /\ gone \in SUBSET Proc /\ Main \notin gone /\ Children(p) \subseteq gone
      /\ \A q \in gone : Children(q) \subseteq gone
      /\ \A q \in Proc, k \in gone : k \in Children(q) => q = p \/ q \in gone
  BY DescendantsFacts DEF EInv, Core
<1>4. Popped \in Seq(Proc) /\ PoppedFlags \in [Proc -> BOOLEAN] /\ StackFlags(Popped, PoppedFlags)
  BY <1>1, EvaluatingFacts DEF EInv, Core
<1>5. kept \in Seq(Proc) /\ Injective(kept) /\ Range(kept) = Range(Popped) \ removed
  BY <1>4, WithoutRemoves DEF StackFlags
<1>6. \A q \in Proc : q \in Range(kept) <=> PoppedFlags[q] /\ q \notin gone
  BY <1>4, <1>5 DEF StackFlags
<1> HIDE DEF gone, kept
<1>7. /\ flags \in [Proc -> BOOLEAN] /\ StackFlags(kept, flags)
      /\ \A q \in Proc : flags[q] <=> PoppedFlags[q] /\ q \notin gone
  BY <1>4, <1>5, <1>6 DEF StackFlags
<1> HIDE DEF flags
<1> QED
  BY <1>1, <1>2, <1>3, <1>5, <1>7, EndsAndClosesStep

----------------------------------------------------------------------------
(***************************************************************************)
(* The calls of the Lua code: KEYSTATE(ch), the begin of an operation in   *)
(* Lua, and coroutine.yield.                                               *)
(***************************************************************************)
BeginsOutside(o) ==
  /\ o \in Operation /\ o.kind \in {"CPPOUT", "LUA"}
  /\ o.closures = <<>> /\ o.closureToRun = 0
  /\ o.arguments = NoArgs /\ ~o.argumentsMoved /\ ~o.finished /\ o.caseTriggered = 0

LEMMA ExtCallStep ==
  ASSUME EInv, NEW p \in Proc, running = p, failed = "none",
         NEW o, BeginsOutside(o), Yield(p, o),
         o.kind = "CPPOUT" => o.channel \in Chan /\ OneWriter,
         thread' = [thread EXCEPT ![p] = "yield"],
         UNCHANGED <<parent, chanVars, dangling>>,
         count' \in [Proc -> 0 .. MaxCount], \A q \in Proc \ {p} : count'[q] = count[q],
         o.kind = "CPPOUT" => count'[p] = 0
  PROVE  EInv' /\ (PointedTo => PointedTo')
<1> USE DEF EInv, Outputs
<1>1. /\ o \in Operation /\ o.kind \in {"CPPOUT", "LUA"}
      /\ o.closures = <<>> /\ o.closureToRun = 0
      /\ o.arguments = NoArgs /\ ~o.argumentsMoved /\ ~o.finished /\ o.caseTriggered = 0
  BY DEF BeginsOutside
<1>2. thread[p] = "running" /\ op[p].kind = "none" /\ \A d \in Chan : attachIn[d] # p /\ attachOut[d] # p
  BY RunningFacts DEF Core
<1>3. /\ op' = [op EXCEPT ![p] = o] /\ PushEvalSteps("none", stack, isOnStack, <<p>>)
      /\ running' = NoProc /\ result' = NoResult /\ work' = work
  BY DEF Yield, hostVars
<1>4. /\ op \in [Proc -> Operation] /\ isOnStack \in [Proc -> BOOLEAN]
      /\ thread \in [Proc -> ThreadStatus] /\ parent \in [Proc -> Proc \cup {NoProc}]
  BY DEF Core, IInv, TypeOK, ProcessTypeOK
<1>5. op'[p] = o /\ \A q \in Proc \ {p} : op'[q] = op[q]
  BY <1>3, <1>4
<1>6. attachIn' = attachIn /\ attachOut' = attachOut /\ isClosed' = isClosed
  BY DEF chanVars
<1>7. Attached'
  <2>1. ASSUME NEW q \in Proc, NEW d \in Chan, q # p
        PROVE  (WaitsIn(q, d)' <=> WaitsIn(q, d)) /\ (OffersOn(q, d)' <=> OffersOn(q, d))
    BY <1>5, <2>1 DEF WaitsIn, OffersOn, CasesFor
  <2>2. \A d \in Chan : ~OffersOn(p, d)'
    BY <1>1, <1>5 DEF OffersOn
  <2> QED
    BY <1>2, <1>6, <2>1, <2>2 DEF Core, IInv, Attached
<1>8. Range(o.closures) = {} /\ Injective(o.closures) /\ DOMAIN o.closures = {}
  BY <1>1 DEF Range, Injective
<1>9. /\ thread' \in [Proc -> ThreadStatus] /\ thread'[p] = "yield"
      /\ \A q \in Proc \ {p} : thread'[q] = thread[q]
      /\ parent' = parent
  BY <1>4 DEF ThreadStatus
<1>10. o.kind # "none" /\ o.kind \notin Spawning \cup {"ALT"} /\ o.kind \notin ChannelKinds
  BY <1>1 DEF Spawning, ParKinds, ChannelKinds
<1>11. IInv'
  <2>1. ChannelTypeOK'
    BY <1>6 DEF Core, IInv, TypeOK, ChannelTypeOK
  <2> QED
    BY <1>1, <1>4, <1>7, <1>8, <1>9, <1>10, <2>1, CallStep DEF Core
<1>12. Begins(p, o)
  BY <1>1, <1>8, <1>9, <1>10 DEF Begins, ForeignKinds
<1>13. WInv'
  BY <1>12, CallWakeup DEF Core
<1>14. Prompt'
  BY <1>6, CallPrompt DEF Core
<1>15. work = <<>> /\ thread[Main] # "ready"
  BY ProcessAssumption DEF Core, Turns
<1>16. Turns'
  BY <1>3, <1>9, <1>15, ProcessAssumption DEF Turns
<1>17. NoMain' /\ RawSuspended'
  BY <1>1, <1>5, <1>9 DEF NoMain, RawSuspended
<1>18. OneOut'
  <2>1. ASSUME NEW d \in Chan, NEW q \in Proc \ {p}, Writes(op'[p], d), Writes(op'[q], d)
        PROVE  FALSE
    <3>1. op'[p].kind \in {"OUT", "CPPOUT"} /\ op[p].kind # op'[p].kind /\ op'[p].channel = d
      BY <1>2, <2>1 DEF Writes
    <3>2. op[q].kind \in {"OUT", "CPPOUT"} /\ op[q].channel = d
      BY <1>5, <2>1 DEF Writes
    <3>3. o.kind = "CPPOUT"
      BY <1>1, <1>5, <3>1
    <3> QED
      BY <3>1, <3>2, <3>3 DEF OneWriter
  <2> QED
    BY <1>5, <2>1 DEF OneOut
<1>19. CountHeld' /\ CppTypeOK'
  <2>1. failed' = "none" => \A q \in Proc : isOnStack'[q] = (isOnStack[q] \/ q \in Range(<<p>>))
    BY <1>3, PushFlags
  <2>2. ASSUME failed' = "none", NEW q \in Proc, op'[q].kind = "CPPOUT", count'[q] > 0
        PROVE  isOnStack'[q] \/ attachOut'[op'[q].channel] = q
    <3>1. q # p
      <4>1. SUFFICES ASSUME q = p PROVE FALSE
        OBVIOUS
      <4>2. o.kind = "CPPOUT"
        BY <1>5, <2>2, <4>1
      <4>3. count'[q] = 0
        BY <4>1, <4>2
      <4> QED
        BY <2>2, <4>3
    <3>2. isOnStack[q] \/ attachOut[op[q].channel] = q
      BY <1>5, <2>2, <3>1 DEF CountHeld
    <3> QED
      BY <1>4, <1>5, <1>6, <2>1, <2>2, <3>1, <3>2
  <2> QED
    BY <2>2 DEF CountHeld, CppTypeOK
<1>20. Disjoint' /\ Going'
  BY <1>3, <1>15, NoWork
<1>21. PointedTo => PointedTo'
  BY <1>1, <1>6, CallWaiting DEF Core
<1> QED
  BY <1>11, <1>13, <1>14, <1>16, <1>17, <1>18, <1>19, <1>20, <1>21 DEF Core

(* KEYSTATE(ch): the channel has no other output operation. *)
LEMMA CppOutStep ==
  ASSUME EInv, NEW p \in Proc, CppOut(p), OneWriter
  PROVE  EInv' /\ (PointedTo => PointedTo')
<1>1. PICK c \in Chan : Yield(p, ChannelOp("CPPOUT", c, NoArgs))
  BY DEF CppOut
<1> DEFINE o == ChannelOp("CPPOUT", c, NoArgs)
<1>2. BeginsOutside(o) /\ o.channel \in Chan
  BY TypeFacts DEF BeginsOutside, ChannelOp, NoOp, Operation, OpKinds, EInv, Core, IInv
<1> HIDE DEF o
<1>3. /\ running = p /\ failed = "none" /\ thread' = [thread EXCEPT ![p] = "yield"]
      /\ UNCHANGED <<parent, chanVars, dangling>>
      /\ count' = [count EXCEPT ![p] = 0]
  BY DEF CppOut, InLua
<1>4. count' \in [Proc -> 0 .. MaxCount] /\ count'[p] = 0 /\ \A q \in Proc \ {p} : count'[q] = count[q]
  BY <1>3, CppAssumption DEF EInv, Outputs, CppTypeOK
<1>5. Yield(p, o)
  BY <1>1 DEF o
<1> QED
  BY <1>2, <1>3, <1>4, <1>5, ExtCallStep

(* An operation written in Lua begins. *)
LEMMA LuaInitStep ==
  ASSUME EInv, NEW p \in Proc, LuaInit(p)
  PROVE  EInv' /\ (PointedTo => PointedTo')
<1> DEFINE o == [NoOp EXCEPT !.kind = "LUA"]
<1>1. BeginsOutside(o) /\ o.kind = "LUA"
  BY TypeFacts DEF BeginsOutside, NoOp, Operation, OpKinds, EInv, Core, IInv
<1>2. /\ running = p /\ failed = "none" /\ thread' = [thread EXCEPT ![p] = "yield"]
      /\ UNCHANGED <<parent, chanVars, dangling>> /\ count' = count
      /\ Yield(p, o)
  BY DEF LuaInit, InLua, cppVars
<1> HIDE DEF o
<1>3. count' \in [Proc -> 0 .. MaxCount]
  BY <1>2 DEF EInv, Outputs, CppTypeOK
<1> QED
  BY <1>1, <1>2, <1>3, ExtCallStep

(* The program yields by itself: its process has no operation and is not pushed. *)
LEMMA RawYieldStep ==
  ASSUME EInv, NEW p \in Proc, RawYield(p)
  PROVE  EInv' /\ (PointedTo => PointedTo')
<1> USE DEF EInv, Outputs
<1>1. /\ running = p /\ failed = "none" /\ "yield" \in Calls
      /\ thread' = [thread EXCEPT ![p] = "yield"]
      /\ running' = NoProc /\ result' = NoResult
      /\ UNCHANGED <<parent, op, stack, isOnStack, work, dt, time, failed>>
      /\ attachIn' = attachIn /\ attachOut' = attachOut /\ isClosed' = isClosed
      /\ UNCHANGED <<count, dangling>>
  BY DEF RawYield, InLua, hostVars, chanVars, cppVars
<1>2. thread[p] = "running" /\ op[p].kind = "none" /\ p # NoProc
  BY <1>1, RunningFacts, ProcessAssumption DEF Core
<1>3. thread \in [Proc -> ThreadStatus] /\ "yield" \in ThreadStatus
  BY DEF Core, IInv, TypeOK, ProcessTypeOK, ThreadStatus
<1>4. thread'[p] = "yield" /\ \A q \in Proc \ {p} : thread'[q] = thread[q]
  BY <1>1, <1>3
<1>5. ChannelTypeOK' /\ Attached'
  BY <1>1, AttachedKept DEF Core, chanVars
<1>6. IInv'
  <2>1. TypeOK'
    BY <1>1, <1>3, <1>5, TypeFacts DEF Core, IInv, TypeOK, ProcessTypeOK
  <2>2. StackConsistent' /\ InOperation' /\ Runs' /\ Parents' /\ OnChannel'
    BY <1>1, <1>4 DEF Core, IInv, StackConsistent, InOperation, Runs, Parents, OnChannel, Children
  <2>3. Tree'
    BY <1>1, <1>2, <1>4 DEF Core, IInv, Tree, Children
  <2>4. Closures'
    <3>1. \A q \in Proc : thread[q] \in {"ready", "null"} => thread'[q] = thread[q]
      BY <1>2, <1>4
    <3>2. \A q \in Proc : /\ \A i \in DOMAIN op[q].closures : op[q].closures[i] \in Proc
                          /\ op[q].kind = "ALT" => Closure(q) \in Proc
      BY ChildFacts DEF Core, Closure
    <3> QED
      BY <1>1, <3>1, <3>2 DEF Core, IInv, Closures, Closure, Fresh
  <2> QED
    BY <1>5, <2>1, <2>2, <2>3, <2>4 DEF IInv
<1>7. WInv'
  <2>1. \A k \in Proc : (Alive(k) => Alive(k)') /\ (HasStarted(k) => HasStarted(k)')
    BY <1>2, <1>4 DEF Alive, HasStarted
  <2>2. OnlyRunning'
    BY <1>1, <1>2, <1>4 DEF Core, WInv, OnlyRunning
  <2>3. Begun'
    <3>1. ASSUME NEW q \in Proc
          PROVE  /\ op'[q].kind \in Spawning =>
                      \A i \in DOMAIN op'[q].closures :
                        /\ parent'[op'[q].closures[i]] = q
                        /\ i <= op'[q].closureToRun => HasStarted(op[q].closures[i])'
                 /\ op'[q].kind = "ALT" /\ ~Fresh(op'[q]) =>
                      parent'[op'[q].closures[1]] = q /\ HasStarted(op[q].closures[1])'
      <4>1. \A k \in Children(q) : k \in Proc
        BY ChildFacts DEF Core
      <4>2. \A k \in Children(q) : /\ parent[k] = q => parent'[k] = q
                                   /\ HasStarted(k) => HasStarted(k)'
        BY <1>1, <2>1, <4>1
      <4> QED
        BY <1>1, <4>2, BegunKept DEF Core, WInv
    <3> QED
      BY <1>1, <3>1, BegunNext DEF HasStarted
  <2>4. Rooted'
    BY <1>1, <1>2, <1>4, RootedKept DEF Core, WInv
  <2>5. Awake'
    <3>1. ASSUME NEW q \in Proc, thread'[q] = "yield", ~isOnStack'[q]
          PROVE  Rests(q)'
      <4>1. CASE q = p
        BY <1>1, <1>2, <4>1 DEF Rests, ChannelKinds
      <4>2. CASE q # p
        <5>1. Rests(q)
          BY <1>1, <1>4, <3>1, <4>2 DEF Core, WInv, Awake
        <5>2. \A k \in Children(q) : k \in Proc
          BY ChildFacts DEF Core
        <5> QED
          BY <1>1, <2>1, <5>1, <5>2, RestsKept DEF Core
      <4> QED
        BY <4>1, <4>2
    <3> QED
      BY <3>1 DEF Awake
  <2> QED
    BY <2>2, <2>3, <2>4, <2>5 DEF WInv
<1>8. thread[Main] # "ready" /\ work = <<>>
  BY <1>1, <1>2 DEF Core, Turns
<1>9. Turns'
  BY <1>1, <1>4, <1>8, ProcessAssumption DEF Turns
<1>10. Prompt'
  <2>1. \A q : ~Evaluating(q)
    BY <1>1, <1>2 DEF Evaluating
  <2>2. \A q \in Proc : ~NilWaits(q)'
    BY <1>1, <2>1 DEF Core, Prompt, NilWaits
  <2>3. \A d \in Chan : ~(InAttached(d)' /\ OutAttached(d)')
    BY <1>1, <2>1 DEF Core, Prompt, InAttached, OutAttached
  <2> QED
    BY <2>2, <2>3 DEF Prompt
<1>11. NoMain' /\ OneOut' /\ RawSuspended'
  BY <1>1, <1>4 DEF NoMain, OneOut, RawSuspended, Writes
<1>12. CountHeld' /\ CppTypeOK'
  BY <1>1 DEF CountHeld, CppTypeOK
<1>13. Disjoint' /\ Going'
  BY <1>1, <1>8, NoWork
<1>14. PointedTo => PointedTo'
  BY <1>1, WaitingKept
<1> QED
  BY <1>6, <1>7, <1>9, <1>10, <1>11, <1>12, <1>13, <1>14 DEF Core

----------------------------------------------------------------------------
(***************************************************************************)
(* The steps of LuaCSP.  A C++ output that such a step leaves alone stays  *)
(* what it was; one that is served or closed is pushed.                    *)
(***************************************************************************)
Bystands(q) ==
  /\ op'[q].finished = op[q].finished
  /\ failed' = "none" => isOnStack'[q] \/ (op'[q] = op[q] /\ ~isOnStack[q])

(* A process that stays where it is and what it is, whoever is pushed. *)
LEMMA PushedBystands ==
  ASSUME NEW q \in Proc, op'[q] = op[q], NEW stk, NEW flags, NEW ps, NEW asserted,
         PushEvalSteps(asserted, stk, flags, ps), flags[q] = isOnStack[q],
         isOnStack \in [Proc -> BOOLEAN]
  PROVE  Bystands(q)
<1>1. failed' = "none" => isOnStack'[q] = (flags[q] \/ q \in Range(ps))
  BY PushFlags
<1> QED
  BY <1>1 DEF Bystands

LEMMA LuaBystander ==
  ASSUME IInv, NEW p \in Proc, LuaStep(p), NEW q \in Proc, op[q].kind = "CPPOUT"
  PROVE  Bystands(q)
<1>0. /\ op \in [Proc -> Operation] /\ isOnStack \in [Proc -> BOOLEAN]
      /\ q # p /\ op[q] \in Operation
  BY LuaTurn, RunningFacts DEF IInv, TypeOK, ProcessTypeOK
<1>1. ASSUME NEW o, Begins(p, o) PROVE Bystands(q)
  BY <1>0, <1>1, PushedBystands DEF Begins, Yield
<1>2. ASSUME NEW status, End(p, status) PROVE Bystands(q)
  BY <1>0, <1>2, PushedBystands DEF End
<1>3. CASE Busy(p)
  BY <1>3 DEF Busy, Bystands
<1>4. CASE Close(p)
  <2>1. PICK c \in Chan :
        /\ PushEvalSteps("none", stack, isOnStack,
                         (IF attachIn[c] = NoProc THEN <<>> ELSE <<attachIn[c]>>) \o
                         (IF attachOut[c] = NoProc THEN <<>> ELSE <<attachOut[c]>>))
        /\ op' = [r \in Proc |-> IF r = attachIn[c] THEN CloseInput(op[r], c)
                                 ELSE IF r = attachOut[c] THEN CloseArguments(op[r])
                                 ELSE op[r]]
    BY <1>4 DEF Close
  <2> DEFINE first  == IF attachIn[c] = NoProc THEN <<>> ELSE <<attachIn[c]>>
             second == IF attachOut[c] = NoProc THEN <<>> ELSE <<attachOut[c]>>
  <2>2. q # attachIn[c]
    BY DEF IInv, Attached, WaitsIn
  <2>3. CASE q # attachOut[c]
    BY <1>0, <2>1, <2>2, <2>3, PushedBystands
  <2>4. CASE q = attachOut[c]
    <3>1. op'[q] = CloseArguments(op[q])
      BY <2>1, <2>2, <2>4
    <3>2. op'[q].finished = op[q].finished
      BY <1>0, <3>1, CloseArgumentsFacts
    <3>3. first \in Seq(Proc) /\ second \in Seq(Proc) /\ q \in Range(second)
      <4>1. attachIn[c] \in Proc \cup {NoProc} /\ q # NoProc
        BY ProcessAssumption DEF IInv, TypeOK, ChannelTypeOK
      <4>2. second = <<q>>
        BY <2>4, <4>1
      <4> QED
        BY <4>1, <4>2, OnePushed
    <3>4. PushEvalSteps("none", stack, isOnStack, first \o second)
      BY <2>1
    <3> HIDE DEF first, second
    <3>5. q \in Range(first \o second)
      BY <3>3, RangeConcatenation
    <3>6. failed' = "none" => isOnStack'[q]
      BY <3>4, <3>5, PushFlags
    <3> QED
      BY <3>2, <3>6 DEF Bystands
  <2> QED
    BY <2>3, <2>4
<1> QED
  BY <1>1, <1>2, <1>3, <1>4, CallShape

LEMMA EvaluateBystander ==
  ASSUME IInv, Prompt, NEW p \in Proc, EvaluateStep(p),
         NEW q \in Proc, op[q].kind = "CPPOUT", op'[q].kind = "CPPOUT"
  PROVE  Bystands(q)
<1>0. /\ Evaluating(p) /\ op \in [Proc -> Operation] /\ isOnStack \in [Proc -> BOOLEAN]
      /\ op[q] \in Operation
  BY EvaluateTurn DEF IInv, TypeOK, ProcessTypeOK
<1>1. q # p
  BY DEF EvaluateStep, ProcessEvaluate, EvalSleep, ChannelEvaluate, EvalIn, EvalOut,
         ParEvaluate, EvalPar, EvalParWhile, EvalAlt
<1>2. PoppedFlags[q] = isOnStack[q]
  BY <1>0, <1>1 DEF PoppedFlags, Evaluating
<1>3. CASE Nothing(p)
  BY <1>0, <1>2, <1>3 DEF Nothing, KeepWaiting, Bystands
<1>4. ASSUME NEW results, NEW gone, NEW stk, Resume(p, results, gone, stk, PoppedFlags)
      PROVE  Bystands(q)
  <2>1. /\ op'[q] = IF q = p \/ q \in gone THEN NoOp ELSE op[q]
        /\ isOnStack'[q] <=> PoppedFlags[q] /\ q \notin gone
    BY <1>4 DEF Resume
  <2>2. q \notin gone
    BY <2>1 DEF NoOp
  <2> QED
    BY <1>0, <1>1, <1>2, <2>1, <2>2 DEF Bystands
<1>5. ASSUME NEW o, NEW k, NEW args, NEW ps, NEW asserted,
             StartEvaluation(p, o, k, args, ps, asserted)
      PROVE  Bystands(q)
  BY <1>0, <1>1, <1>2, <1>5, PushedBystands DEF StartEvaluation
<1>6. CASE Communicates(p)
  <2>1. PICK c \in Chan, reader \in Proc : Meets(p, c, reader) /\ Communicate(c, reader)
    BY <1>6 DEF Communicates
  <2>2. CASE ~InAttached(c)
    <3>1. UNCHANGED op /\ failed' # "none"
      BY <2>1, <2>2 DEF Communicate, InAttached, PushEvalSteps
    <3> QED
      BY <3>1 DEF Bystands
  <2>3. CASE InAttached(c)
    <3>1. PICK in \in Proc, out \in Proc : in = attachIn[c] /\ out = attachOut[c] /\ reader = in
      BY <1>0, <2>1, <2>3, PartnersMeet
    <3>2. /\ WaitsIn(in, c) /\ \A r \in Proc \ {in, out} : op'[r] = op[r]
          /\ op'[out] = CloseArguments(op[out])
      BY <2>1, <3>1, CommunicateFacts
    <3>3. q # in
      BY <3>2 DEF WaitsIn
    <3>4. in # NoProc
      BY ProcessAssumption
    <3>5. PICK asserted : PushEvalSteps(asserted, Popped, PoppedFlags, <<out, in>>)
      BY <2>1, <3>1, <3>4 DEF Communicate, Partners
    <3>6. CASE q # out
      BY <1>0, <1>2, <3>2, <3>3, <3>5, <3>6, PushedBystands
    <3>7. CASE q = out
      <4>1. op'[q].finished = op[q].finished
        BY <1>0, <3>2, <3>7, CloseArgumentsFacts
      <4>2. q \in Range(<<out, in>>)
        BY <3>7 DEF Range
      <4>3. failed' = "none" => isOnStack'[q]
        BY <3>5, <4>2, PushFlags
      <4> QED
        BY <4>1, <4>3 DEF Bystands
    <3> QED
      BY <3>6, <3>7
  <2> QED
    BY <2>2, <2>3
<1>7. CASE TakesNil(p)
  <2>1. PICK i : Trigger(p, i, Popped, PoppedFlags)
    BY <1>7 DEF TakesNil
  <2>2. op'[q] = op[q]
    BY <1>1, <1>7, <2>1, TriggerFacts DEF TakesNil
  <2>3. PICK asserted : PushEvalSteps(asserted, Popped, PoppedFlags, <<p>>)
    BY <2>1 DEF Trigger
  <2> QED
    BY <1>0, <1>2, <2>2, <2>3, PushedBystands
<1>8. CASE Ends(p)
  BY <1>4, <1>8 DEF Ends, FinishOperation
<1>9. CASE EndParWhile(p)
  BY <1>4, <1>9 DEF EndParWhile
<1>10. CASE StartClosure(p)
  BY <1>5, <1>10 DEF StartClosure
<1>11. CASE StartTriggered(p)
  BY <1>5, <1>11 DEF StartTriggered
<1> QED
  BY <1>3, <1>6, <1>7, <1>8, <1>9, <1>10, <1>11, EvaluateShape

LEMMA WorkBystander ==
  ASSUME IInv, NEW p \in Proc, WorkStep(p), NEW q \in Proc, op[q].kind = "CPPOUT"
  PROVE  Bystands(q)
<1>0. op \in [Proc -> Operation] /\ isOnStack \in [Proc -> BOOLEAN]
  BY DEF IInv, TypeOK, ProcessTypeOK
<1>1. CASE UNCHANGED <<op, isOnStack>>
  BY <1>0, <1>1 DEF Bystands
<1>2. CASE WorkSleep(p)
  <2>1. q # p
    BY <1>2 DEF WorkSleep
  <2>2. op'[q] = op[q] /\ \E ps : PushEvalSteps("none", stack, isOnStack, ps)
    BY <1>0, <1>2, <2>1 DEF WorkSleep
  <2> QED
    BY <1>0, <2>2, PushedBystands
<1>3. CASE op[p].kind = "ALT" /\ \E i : Trigger(p, i, stack, isOnStack)
  <2>1. PICK i : Trigger(p, i, stack, isOnStack)
    BY <1>3
  <2>2. op'[q] = op[q]
    BY <1>3, <2>1, TriggerFacts
  <2>3. PICK asserted : PushEvalSteps(asserted, stack, isOnStack, <<p>>)
    BY <2>1 DEF Trigger
  <2> QED
    BY <1>0, <2>2, <2>3, PushedBystands
<1> QED
  BY <1>1, <1>2, <1>3 DEF WorkStep, ProcessWork, WorkNothing, WorkPar, WorkAlt

(* A step of LuaCSP begins no operation of the extensions, and an OUT only without another writer. *)
LEMMA NextKinds ==
  ASSUME EInv, [Next]_vars, OneWriter
  PROVE  NoMain' /\ OneOut' /\ RawSuspended'
<1> USE DEF EInv, Outputs
<1>1. \A q \in Proc : KindStep(q)
  BY StepKinds DEF Core
<1>2. NoMain'
  BY <1>1 DEF NoMain, KindStep, SameKind, ForeignKinds
<1>3. ASSUME NEW c \in Chan, NEW q \in Proc, Writes(op'[q], c)
      PROVE  \/ Writes(op[q], c) /\ SameKind(q)
             \/ running = q /\ \A r \in Proc : ~Writes(op[r], c)
  <2>1. CASE SameKind(q)
    BY <1>3, <2>1 DEF Writes, SameKind
  <2>2. CASE op'[q].kind = "none"
    BY <1>3, <2>2 DEF Writes
  <2>3. ASSUME NEW o, Begins(q, o) PROVE running = q /\ \A r \in Proc : ~Writes(op[r], c)
    <3>1. running = q /\ op[q].kind = "none"
      BY <2>3, RunningFacts DEF Begins, Core
    <3> QED
      BY <1>3, <3>1 DEF OneWriter, Writes
  <2> QED
    BY <1>1, <2>1, <2>2, <2>3 DEF KindStep
<1>4. OneOut'
  <2> SUFFICES ASSUME NEW c \in Chan, NEW q \in Proc, NEW r \in Proc,
                      Writes(op'[q], c), Writes(op'[r], c)
               PROVE  q = r
    BY DEF OneOut
  <2> QED
    BY <1>3 DEF OneOut
<1>5. RawSuspended'
  BY StepSuspended DEF RawSuspended, Core
<1> QED
  BY <1>2, <1>4, <1>5

(* What a C++ output is left with. *)
LEMMA NextBystander ==
  ASSUME EInv, [Next]_vars, NEW q \in Proc, op'[q].kind = "CPPOUT"
  PROVE  op[q].kind = "CPPOUT" /\ op'[q].channel = op[q].channel /\ Bystands(q)
<1> USE DEF EInv, Outputs
<1>1. op[q].kind = "CPPOUT" /\ op'[q].channel = op[q].channel
  BY StepKinds DEF KindStep, SameKind, ForeignKinds, Core
<1>2. isOnStack \in [Proc -> BOOLEAN]
  BY DEF Core, IInv, TypeOK, ProcessTypeOK
<1>3. CASE UNCHANGED <<op, isOnStack>>
  BY <1>2, <1>3 DEF Bystands
<1>4. CASE HostMain \/ HostWork \/ UNCHANGED vars
  BY <1>3, <1>4 DEF HostMain, HostWork, vars, procVars
<1>5. CASE TerminateMain
  <2>1. /\ op'[q] = IF q = Main \/ q \in Descendants(Main) THEN NoOp ELSE op[q]
        /\ isOnStack'[q] <=> isOnStack[q] /\ q \notin Descendants(Main)
    BY <1>5 DEF TerminateMain
  <2>2. q \notin Descendants(Main) /\ q # Main
    BY <2>1 DEF NoOp
  <2> QED
    BY <1>2, <2>1, <2>2 DEF Bystands
<1>6. ASSUME NEW p \in Proc, LuaStep(p) \/ EvaluateStep(p) \/ WorkStep(p)
      PROVE  Bystands(q)
  BY <1>1, <1>6, LuaBystander, EvaluateBystander, WorkBystander DEF Core
<1> QED
  BY <1>1, <1>4, <1>5, <1>6 DEF Next

(* Whoever holds a key press out stays attached, or is looked at again. *)
LEMMA NextCounts ==
  ASSUME EInv, [Next]_vars, Attached', UNCHANGED count, dangling' \subseteq Chan
  PROVE  CountHeld' /\ CppTypeOK'
<1> USE DEF EInv, Outputs
<1>1. failed' = "none" => failed = "none"
  <2>1. ASSUME NEW p \in Proc, LuaStep(p) \/ EvaluateStep(p) \/ WorkStep(p)
        PROVE  failed = "none"
    BY <2>1, LuaTurn, EvaluateTurn, WorkTurn DEF Evaluating, Working
  <2> QED
    BY <2>1 DEF Next, HostMain, HostWork, TerminateMain, Idle, vars, procVars
<1>2. ASSUME failed' = "none", NEW q \in Proc, op'[q].kind = "CPPOUT", count'[q] > 0
      PROVE  isOnStack'[q] \/ attachOut'[op'[q].channel] = q
  <2>1. op[q].kind = "CPPOUT" /\ op'[q].channel = op[q].channel /\ Bystands(q)
    BY <1>2, NextBystander
  <2>2. CASE op'[q] = op[q] /\ ~isOnStack[q]
    <3>1. attachOut[op[q].channel] = q /\ op[q].channel \in Chan
      BY <1>1, <1>2, <2>1, <2>2 DEF CountHeld, Core, IInv, OnChannel
    <3>2. OffersOn(q, op[q].channel)
      BY <3>1 DEF Core, IInv, Attached
    <3>3. OffersOn(q, op[q].channel)'
      BY <2>2, <3>2 DEF OffersOn
    <3> QED
      BY <2>1, <3>1, <3>3 DEF Attached
  <2> QED
    BY <1>2, <2>1, <2>2 DEF Bystands
<1> QED
  BY <1>2 DEF CountHeld, CppTypeOK

(***************************************************************************)
(* The delta time is handed down the tree: nobody is told it twice, and no *)
(* C++ output that has still to be told it ends.                           *)
(***************************************************************************)
LEMMA WorkStepGoes ==
  ASSUME EInv, NEW p \in Proc, WorkStep(p),
         \A q \in Proc : op'[q].kind = "CPPOUT" /\ op'[q].finished =>
           op[q].kind = "CPPOUT" /\ op[q].finished
  PROVE  Disjoint' /\ Going'
<1>0. /\ Core /\ IInv /\ Disjoint /\ Going /\ Working(p)
      /\ op \in [Proc -> Operation] /\ op[p] \in Operation
  BY WorkTurn DEF EInv, Outputs, Core, IInv, TypeOK, ProcessTypeOK
<1>1. CASE work' = Tail(work) /\ \A q \in Proc : op'[q].closures = op[q].closures
  BY <1>0, <1>1, WorkDone
<1>2. CASE WorkNothing(p)
  BY <1>1, <1>2 DEF WorkNothing
<1>3. CASE WorkSleep(p)
  <2>1. PICK left, done : op' = [op EXCEPT ![p].seconds = left, ![p].finished = done]
    BY <1>3 DEF WorkSleep
  <2>2. /\ \A q \in Proc \ {p} : op'[q] = op[q]
        /\ op'[p] = [op[p] EXCEPT !.seconds = left, !.finished = done]
    BY <1>0, <2>1
  <2>3. op'[p].closures = op[p].closures
    BY <1>0, <2>2 DEF Operation
  <2> QED
    BY <1>1, <1>3, <2>2, <2>3 DEF WorkSleep
<1>4. CASE WorkPar(p)
  <2>1. PICK ks \in Seq(Proc) :
          /\ Injective(ks) /\ Range(ks) \subseteq Children(p) /\ work' = ks \o Tail(work)
    BY <1>0, <1>4, LastToFirstOnce DEF WorkPar
  <2>2. UNCHANGED op
    BY <1>4 DEF WorkPar
  <2> QED
    BY <1>0, <2>1, <2>2, WorkOn
<1>5. CASE op[p].kind = "ALT" /\ UNCHANGED op /\ work' = Tail(work)
  BY <1>1, <1>5
<1>6. CASE op[p].kind = "ALT" /\ UNCHANGED op /\ work' = <<Closure(p)>> \o Tail(work)
  <2>1. PICK k \in Children(p) : k = Closure(p)
    BY <1>0, <1>6, ChildFacts
  <2>2. k \in Proc
    BY <1>0, ChildFacts
  <2>3. PICK ks \in Seq(Proc) :
          /\ Injective(ks) /\ Range(ks) \subseteq Children(p) /\ work' = ks \o Tail(work)
    BY <1>6, <2>1, <2>2, OnePushed
  <2> QED
    BY <1>0, <1>6, <2>3, WorkOn
<1>7. CASE /\ op[p].kind = "ALT" /\ Trigger(p, Earliest(op[p]), stack, isOnStack)
           /\ work' = Tail(work)
  <2>1. PICK i : Trigger(p, i, stack, isOnStack)
    BY <1>7
  <2>2. /\ \A q \in Proc \ {p} : op'[q] = op[q]
        /\ op'[p].closures = op[p].closures
    BY <1>0, <1>7, <2>1, TriggerFacts
  <2> QED
    BY <1>1, <1>7, <2>2
<1> QED
  BY <1>2, <1>3, <1>4, <1>5, <1>6, <1>7 DEF WorkStep, ProcessWork, WorkAlt

LEMMA NextWork ==
  ASSUME EInv, [Next]_vars
  PROVE  Disjoint' /\ Going'
<1>0. Core /\ IInv /\ Turns /\ Disjoint /\ Going
  BY DEF EInv, Outputs, Core
<1>1. ASSUME NEW q \in Proc, op'[q].kind = "CPPOUT", op'[q].finished
      PROVE  op[q].kind = "CPPOUT" /\ op[q].finished
  BY <1>1, NextBystander DEF Bystands
<1>2. ASSUME NEW p \in Proc, WorkStep(p) PROVE Disjoint' /\ Going'
  BY <1>1, <1>2, WorkStepGoes
<1>3. ASSUME NEW p \in Proc, LuaStep(p) \/ EvaluateStep(p) PROVE work' = <<>>
  <2>1. CASE LuaStep(p)
    <3>1. running # NoProc
      BY <2>1, LuaTurn, ProcessAssumption
    <3> QED
      BY <1>0, <2>1, <3>1, LuaTurn DEF Turns
  <2>2. CASE EvaluateStep(p)
    BY <2>2, EvaluateTurn DEF Evaluating
  <2> QED
    BY <1>3, <2>1, <2>2
<1>4. CASE HostMain \/ TerminateMain
  <2>1. work' = <<>>
    BY <1>0, <1>4 DEF HostMain, TerminateMain, Turns, Idle, hostVars
  <2> QED
    BY <2>1, NoWork
<1>5. CASE HostWork
  <2>1. Idle /\ work' = <<Main>> /\ UNCHANGED op
    BY <1>5 DEF HostWork
  <2>2. Range(work') = {Main} /\ Injective(work')
    BY <2>1, OnePushed, ProcessAssumption
  <2>3. ASSUME NEW q \in Proc, op[q].kind = "CPPOUT" PROVE ~op[q].finished
    <3>1. thread[q] = "yield" /\ ~isOnStack[q]
      BY <1>0, <2>1, <2>3 DEF Idle, Range, IInv, StackConsistent, InOperation
    <3>2. Rests(q)
      BY <1>0, <2>1, <3>1 DEF Core, WInv, Awake, Idle
    <3> QED
      BY <2>3, <3>2 DEF Rests
  <2>4. Disjoint'
    BY <2>2 DEF Disjoint
  <2>5. ASSUME NEW q \in Under(Main)' PROVE q \in Proc
    BY <2>5, ProcessAssumption DEF Under, Descendants
  <2>6. Going'
    BY <2>1, <2>2, <2>3, <2>5 DEF Going
  <2> QED
    BY <2>4, <2>6
<1>6. CASE UNCHANGED vars
  <2>1. UNCHANGED <<op, work, failed>>
    BY <1>6 DEF vars, procVars, hostVars
  <2>2. \A q : Under(q)' = Under(q)
    BY <2>1 DEF Under, Descendants, Closed, Children
  <2> QED
    BY <1>0, <2>1, <2>2 DEF Disjoint, Going
<1> QED
  BY <1>2, <1>3, <1>4, <1>5, <1>6, NoWork DEF Next

----------------------------------------------------------------------------
(***************************************************************************)
(* The invariant.                                                          *)
(***************************************************************************)
LEMMA NextKeeps ==
  ASSUME EInv, [Next]_vars, OneWriter, UNCHANGED count, dangling' \subseteq Chan
  PROVE  EInv'
<1>1. IInv /\ Turns /\ Prompt /\ WInv
  BY DEF EInv, Core
<1>2. IInv' /\ Turns' /\ Prompt' /\ WInv'
  BY <1>1, NextIInv, NextTurns, NextPrompt, NextWakeup
<1>3. NoMain' /\ OneOut' /\ RawSuspended'
  BY NextKinds
<1>4. Attached'
  BY <1>2 DEF IInv
<1>5. CountHeld' /\ CppTypeOK'
  BY <1>4, NextCounts
<1>6. Disjoint' /\ Going'
  BY NextWork
<1> QED
  BY <1>2, <1>3, <1>5, <1>6 DEF EInv, Core, Outputs

LEMMA LeftBehindIsChannels == LeftBehind \subseteq Chan
<1> QED
  BY DEF LeftBehind

(* The steps of the extensions, and those of LuaCSP next to them. *)
LEMMA ExtNextKeeps ==
  ASSUME EInv, [ExtNext]_extVars
  PROVE  /\ EInv'
         /\ \/ PointedTo => PointedTo'
            \/ [Next]_vars
<1>0. IInv /\ dangling \subseteq Chan
  BY DEF EInv, Core, Outputs, CppTypeOK
<1>1. CASE Next /\ OneWriter /\ dangling' = LeftBehind /\ UNCHANGED count
  BY <1>1, NextKeeps, LeftBehindIsChannels
<1>2. ASSUME NEW p \in Proc, CppCall(p), OneWriter
      PROVE  EInv' /\ (PointedTo => PointedTo')
  BY <1>2, CppOutStep DEF CppCall
<1>3. ASSUME NEW p \in Proc, CppStepOf(p)
      PROVE  EInv' /\ (PointedTo => PointedTo')
  BY <1>3, EvalCppStep, WorkCppStep DEF CppStepOf
<1>4. ASSUME NEW p \in Proc, LuaInit(p) \/ EvalLua(p) \/ RawYield(p)
      PROVE  EInv' /\ (PointedTo => PointedTo')
  BY <1>4, LuaInitStep, EvalLuaStep, RawYieldStep
<1>5. ASSUME NEW p \in Proc, WorkLua(p)
      PROVE  EInv' /\ (PointedTo => PointedTo')
  <2>1. dangling' \subseteq Chan
    BY <1>0, <1>5 DEF WorkLua, cppVars
  <2> QED
    BY <1>5, <2>1, WorkLuaStep
<1>6. ASSUME NEW p \in Proc, TerminateLua(p), dangling' = LeftBehind
      PROVE  EInv' /\ (PointedTo => PointedTo')
  BY <1>6, TerminateLuaStep, LeftBehindIsChannels
<1>7. CASE UNCHANGED extVars
  <2>1. UNCHANGED vars /\ UNCHANGED <<count, dangling>> /\ UNCHANGED op
    BY <1>7 DEF extVars, cppVars, vars, procVars
  <2>2. OneWriter
    BY <2>1 DEF OneWriter
  <2> QED
    BY <1>0, <2>1, <2>2, NextKeeps
<1> QED
  BY <1>1, <1>2, <1>3, <1>4, <1>5, <1>6, <1>7 DEF ExtNext

(* What waits for input is pointed to, unless closing takes one case of two. *)
LEMMA ExtNextWaiting ==
  ASSUME {"ALT", "close"} \subseteq Calls => NoChannelTwice
  PROVE  EInv /\ PointedTo /\ [ExtNext]_extVars => PointedTo'
<1> SUFFICES ASSUME EInv, PointedTo, [ExtNext]_extVars PROVE PointedTo'
  OBVIOUS
<1>1. [Next]_vars => PointedTo'
  BY NextWaiting DEF EInv, Core
<1> QED
  BY <1>1, ExtNextKeeps

LEMMA ExtInitHolds == ExtInit => EInv /\ PointedTo
<1> SUFFICES ASSUME ExtInit PROVE EInv /\ PointedTo
  OBVIOUS
<1>1. Init /\ CppInit
  BY DEF ExtInit
<1>2. IInv /\ Turns /\ Prompt /\ WInv /\ PointedTo
  BY <1>1, InitIInv, InitTurns, InitPrompt, InitWakeup, InitWaiting
<1>3. /\ \A p \in Proc : op[p].kind = "none" /\ thread[p] # "yield"
      /\ work = <<>>
  BY <1>1 DEF Init, ProcessInit, NoOp
<1>4. Range(work) = {} /\ Injective(work)
  BY <1>3, NonePushed
<1>5. NoMain /\ OneOut /\ CountHeld /\ Disjoint /\ Going /\ RawSuspended
  BY <1>3, <1>4 DEF NoMain, OneOut, Writes, CountHeld, Disjoint, Going, RawSuspended
<1>6. CppTypeOK
  BY <1>1, CppAssumption DEF CppInit, CppTypeOK
<1> QED
  BY <1>2, <1>5, <1>6 DEF EInv, Core, Outputs

LEMMA ExtHolds == ExtSpec => []EInv
<1> QED
  BY ExtInitHolds, ExtNextKeeps, PTL DEF ExtSpec

LEMMA ExtWaitingHolds ==
  ASSUME {"ALT", "close"} \subseteq Calls => NoChannelTwice
  PROVE  ExtSpec => [](EInv /\ PointedTo)
<1>1. EInv /\ PointedTo /\ [ExtNext]_extVars => PointedTo'
  BY ExtNextWaiting
<1> QED
  BY <1>1, ExtInitHolds, ExtHolds, PTL DEF ExtSpec

----------------------------------------------------------------------------
(***************************************************************************)
(* The evaluator, next to the extensions, keeps what it keeps without      *)
(* them: the stack and the flags that cache it agree and no process is on  *)
(* it twice (host.cpp:141-184), though methods written in Lua close        *)
(* channels in the midst of its turns (op_lua.cpp), and what a channel     *)
(* points to waits on it.                                                  *)
(***************************************************************************)
THEOREM ExtInductive == ExtSpec => []IInv
<1>1. EInv => IInv
  BY DEF EInv, Core
<1> QED
  BY <1>1, ExtHolds, PTL

(* Every variable keeps its type: key presses are counted up to the bound. *)
THEOREM ExtTypeCorrect == ExtSpec => []ExtTypeOK
<1>1. EInv => ExtTypeOK
  BY DEF EInv, Core, IInv, Outputs, CppTypeOK, ExtTypeOK
<1> QED
  BY <1>1, ExtHolds, PTL

(***************************************************************************)
(* The pointers from channels to operations, C++ outputs among them: what  *)
(* a channel points to lives and waits on it, and what waits is pointed to *)
(* (channel.cpp:376-396, cppchannel.cpp:34-42).  In programs that close    *)
(* channels no ALT may have two cases for one, or the second of them waits *)
(* on a channel that has forgotten it.                                     *)
(***************************************************************************)
THEOREM ExtAttachmentsAreLive ==
  ASSUME {"ALT", "close"} \subseteq Calls => NoChannelTwice
  PROVE  ExtSpec => []AllAttachmentsLive
<1>1. EInv /\ PointedTo => AllAttachmentsLive
  <2> SUFFICES ASSUME EInv, PointedTo, NEW c \in Chan, NEW p \in Proc
               PROVE  /\ attachIn[c] = p <=> WaitsIn(p, c)
                      /\ attachOut[c] = p <=> WaitsOut(p, c) \/ CppWaitsOut(p, c)
    BY DEF AllAttachmentsLive
  <2>1. OffersOn(p, c) <=> WaitsOut(p, c) \/ CppWaitsOut(p, c)
    BY DEF OffersOn, WaitsOut, CppWaitsOut, CppOutput
  <2>2. attachIn[c] = p => WaitsIn(p, c)
    BY DEF EInv, Core, IInv, Attached
  <2>3. attachOut[c] = p <=> OffersOn(p, c)
    BY DEF EInv, Core, IInv, Attached
  <2> QED
    BY <2>1, <2>2, <2>3 DEF PointedTo
<1> QED
  BY <1>1, ExtWaitingHolds, PTL

(***************************************************************************)
(* No key press waits while somebody reads (cppchannel.cpp:30-54): when    *)
(* the evaluator rests, a channel with a reader has no C++ output with     *)
(* anything to send.  Nothing is asked of the program: the reader may be   *)
(* an ALT, may come before the key press or after it, and the channel may  *)
(* have been closed in between.                                            *)
(***************************************************************************)
THEOREM KeyPressesAreRead == ExtSpec => []KeyPressRead
<1>1. EInv => KeyPressRead
  <2> SUFFICES ASSUME EInv, Idle, NEW c \in Chan, NEW p \in Proc, InAttached(c), CppOutput(p, c)
               PROVE  count[p] = 0 /\ op[p].arguments = NoArgs
    BY DEF KeyPressRead
  <2>1. op[p].kind = "CPPOUT" /\ op[p].channel = c /\ failed = "none" /\ stack = <<>>
    BY DEF CppOutput, Idle
  <2>2. thread[p] = "yield" /\ ~isOnStack[p]
    BY <2>1 DEF Range, EInv, Core, IInv, StackConsistent, InOperation
  <2>3. ~op[p].finished
    BY <2>1, <2>2 DEF EInv, Core, WInv, Awake, Rests
  <2>4. attachOut[c] # p
    <3> SUFFICES ASSUME attachOut[c] = p PROVE FALSE
      OBVIOUS
    <3>1. OutAttached(c)
      BY ProcessAssumption DEF OutAttached
    <3> QED
      BY <2>1, <3>1 DEF EInv, Core, Prompt, Evaluating
  <2>5. op[p].arguments = NoArgs
    BY <2>1, <2>3, <2>4 DEF EInv, Core, IInv, Attached, OffersOn
  <2>6. ~(count[p] > 0)
    BY <2>1, <2>2, <2>4 DEF EInv, Outputs, CountHeld
  <2>7. count[p] \in Nat
    BY CppAssumption DEF EInv, Outputs, CppTypeOK
  <2> QED
    BY <2>5, <2>6, <2>7
<1> QED
  BY <1>1, ExtHolds, PTL

(***************************************************************************)
(* No wake-up is lost with the extensions: when the evaluator rests, every *)
(* suspended process is where something can still wake it.  A C++ output   *)
(* with key presses to send is attached (cppchannel.cpp:34-42), though the *)
(* channel may have been closed under it, an operation in Lua has not      *)
(* finished, and who waits on a channel that a method in Lua has closed    *)
(* has been pushed (channel.cpp:429-438), unless it was destroyed with it. *)
(***************************************************************************)
THEOREM NobodyIsForgottenOutside ==
  ASSUME {"ALT", "close"} \subseteq Calls => NoChannelTwice
  PROVE  ExtSpec => []NoLostExtWakeup
<1>1. EInv /\ PointedTo => NoLostExtWakeup
  <2> SUFFICES ASSUME EInv, PointedTo, Idle, NEW p \in Proc, thread[p] = "yield"
               PROVE  ExtBlocked(p)
    BY DEF NoLostExtWakeup
  <2>1. ~isOnStack[p] /\ failed = "none"
    BY DEF Idle, Range, EInv, Core, IInv, StackConsistent
  <2>2. Rests(p)
    BY <2>1 DEF EInv, Core, WInv, Awake
  <2>3. CASE op[p].kind = "CPPOUT"
    <3>1. ~op[p].finished
      BY <2>2, <2>3 DEF Rests
    <3>2. count[p] > 0 => attachOut[op[p].channel] = p
      BY <2>1, <2>3 DEF EInv, Outputs, CountHeld
    <3> QED
      BY <2>3, <3>1, <3>2 DEF ExtBlocked
  <2>4. CASE op[p].kind = "LUA"
    BY <2>2, <2>4 DEF Rests, ExtBlocked
  <2>5. op[p].kind # "MAIN"
    BY DEF EInv, Outputs, NoMain
  <2>6. CASE op[p].kind = "none" /\ "yield" \in Calls
    BY <2>6 DEF ExtBlocked
  <2>7. CASE op[p].kind \notin ForeignKinds /\ ~(op[p].kind = "none" /\ "yield" \in Calls)
    <3>1. op[p].kind = "none" => p = Main /\ "terminate" \in Calls
      BY <2>7 DEF EInv, RawSuspended
    <3>2. Blocked(p)
      BY <2>7, <3>1, RestingIsBlocked DEF EInv, Core
    <3> QED
      BY <2>7, <3>2 DEF ExtBlocked, ForeignKinds
  <2> QED
    BY <2>3, <2>4, <2>5, <2>6, <2>7 DEF ForeignKinds
<1> QED
  BY <1>1, ExtWaitingHolds, PTL
=============================================================================
