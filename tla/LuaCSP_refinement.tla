------------------------- MODULE LuaCSP_refinement -------------------------
(***************************************************************************)
(* The channels, writers and readers of LuaCSP implement the abstract      *)
(* rendezvous, for every size and every program: initial states map to     *)
(* initial states, and each step maps to a step of Rendezvous or leaves    *)
(* the abstract state as it is.                                            *)
(***************************************************************************)
EXTENDS LuaCSP_wakeup

(***************************************************************************)
(* A writer that has been served holds no value any more, and a reader or  *)
(* an ALT that waits has not received one yet.                             *)
(***************************************************************************)
Honest(o) ==
  /\ o.kind = "OUT" /\ o.argumentsMoved => o.arguments = NoArgs
  /\ o.kind \in {"IN", "RANGE"} /\ ~o.argumentsMoved => o.arguments = NoArgs
  /\ o.kind = "ALT" /\ o.caseTriggered = 0 => ~o.argumentsMoved /\ o.arguments = NoArgs

Values == \A p \in Proc : Honest(op[p])

----------------------------------------------------------------------------
(***************************************************************************)
(* The actions of Rendezvous in terms of what the processes hold.          *)
(***************************************************************************)
(* The abstract state, process by process. *)
SameOffer(q) == OfferOf(op[q])' = OfferOf(op[q]) /\ Targets(q)' = Targets(q)
SameInput(q) == InboxOf(op[q])' = InboxOf(op[q]) /\ WaitsOn(q)' = WaitsOn(q)
Same         == \A q \in Proc : SameOffer(q) /\ SameInput(q)

LEMMA Stutters ==
  ASSUME Same, Living \subseteq Living', isClosed' = isClosed
  PROVE  R!Spawn
<1> QED
  BY DEF Same, SameOffer, SameInput, R!Spawn, R!Spawning

LEMMA Offers ==
  ASSUME NEW p \in Proc, NEW c \in Chan, NEW v, p \in Living, ~OutAttached(c),
         OfferOf(op[p])' = v, Targets(p)' = {c},
         \A q \in Proc : SameInput(q) /\ (q # p => SameOffer(q)),
         Living \subseteq Living', isClosed' = isClosed
  PROVE  R!Offer(p, c, v)
<1>1. \A q \in Proc : c \notin Targets(q)
  BY ProcessAssumption DEF OutAttached, Targets
<1> QED
  BY <1>1 DEF SameOffer, SameInput, R!Offer, R!Spawning

LEMMA Waits ==
  ASSUME NEW p \in Proc, NEW C \in SUBSET Chan, C # {}, p \in Living,
         InboxOf(op[p]) = NoArgs, InboxOf(op[p])' = NoArgs, WaitsOn(p)' = C,
         \A c \in C : ~InAttached(c),
         \A q \in Proc : SameOffer(q) /\ (q # p => SameInput(q)),
         Living \subseteq Living', isClosed' = isClosed
  PROVE  R!Wait(p, C)
<1>1. \A q \in Proc : C \cap WaitsOn(q) = {}
  BY ProcessAssumption DEF InAttached, WaitsOn
<1>2. \A q \in Proc : InboxOf(op[q])' = InboxOf(op[q])
  BY DEF SameInput
<1> QED
  BY <1>1, <1>2 DEF SameOffer, SameInput, R!Wait, R!Spawning

LEMMA BothMeet ==
  ASSUME NEW w \in Proc, NEW r \in Proc, w # r, NEW c \in Chan,
         c \in Targets(w), c \in WaitsOn(r),
         InboxOf(op[r])' = OfferOf(op[w]), WaitsOn(r)' = {},
         OfferOf(op[w])' = NoArgs, Targets(w)' = {},
         \A q \in Proc : (q # w => SameOffer(q)) /\ (q # r => SameInput(q)),
         Living \subseteq Living', isClosed' = isClosed
  PROVE  R!Meet(w, r, c)
<1> QED
  BY DEF SameOffer, SameInput, R!Meet, R!Spawning

LEMMA Receives ==
  ASSUME NEW r \in Proc, InboxOf(op[r])' = NoArgs, WaitsOn(r)' = WaitsOn(r),
         \A q \in Proc : SameOffer(q) /\ (q # r => SameInput(q)),
         Living \subseteq Living', isClosed' = isClosed
  PROVE  R!Receive(r)
<1> QED
  BY DEF SameOffer, SameInput, R!Receive, R!Spawning

LEMMA GivesUp ==
  ASSUME NEW r \in Proc, InboxOf(op[r])' = InboxOf(op[r]), WaitsOn(r)' = {},
         \A q \in Proc : SameOffer(q) /\ (q # r => SameInput(q)),
         Living \subseteq Living', isClosed' = isClosed
  PROVE  R!GiveUp(r)
<1> QED
  BY DEF SameOffer, SameInput, R!GiveUp, R!Spawning

LEMMA Closes ==
  ASSUME NEW c \in Chan, isClosed \in [Chan -> BOOLEAN],
         isClosed' = [isClosed EXCEPT ![c] = TRUE],
         attachIn \in [Chan -> Proc \cup {NoProc}], attachOut \in [Chan -> Proc \cup {NoProc}],
         attachIn' = [attachIn EXCEPT ![c] = NoProc],
         attachOut' = [attachOut EXCEPT ![c] = NoProc],
         \A q \in Proc : /\ OfferOf(op[q])' = IF attachOut[c] = q THEN NoArgs ELSE OfferOf(op[q])
                         /\ InboxOf(op[q])' = InboxOf(op[q]),
         Living' = Living
  PROVE  R!Close(c)
<1>1. \A q \in Proc : /\ Targets(q)' = Targets(q) \ {c} /\ WaitsOn(q)' = WaitsOn(q) \ {c}
                      /\ c \in Targets(q) <=> attachOut[c] = q
  BY ProcessAssumption DEF Targets, WaitsOn
<1>2. {d \in Chan : isClosed'[d]} = {d \in Chan : isClosed[d]} \cup {c}
  OBVIOUS
<1> QED
  BY <1>1, <1>2 DEF R!Close

LEMMA Terminates ==
  ASSUME NEW S \in SUBSET Proc, isClosed' = isClosed,
         \A q \in S : /\ OfferOf(op[q])' = NoArgs /\ InboxOf(op[q])' = NoArgs
                      /\ Targets(q)' = {} /\ WaitsOn(q)' = {},
         \A q \in Proc \ S : SameOffer(q) /\ SameInput(q),
         Living' = Living \ S
  PROVE  R!Terminate(S)
<1> QED
  BY DEF SameOffer, SameInput, R!Terminate

----------------------------------------------------------------------------
(***************************************************************************)
(* The calls of the Lua code.                                              *)
(***************************************************************************)
(* The process that runs begins an operation. *)
LEMMA YieldViews ==
  ASSUME IInv, NEW p \in Proc, running = p, NEW o, o.kind # "none",
         op' = [op EXCEPT ![p] = o], thread'[p] = "yield",
         \A q \in Proc \ {p} : \/ thread'[q] = thread[q]
                               \/ thread[q] = "free" /\ thread'[q] \in {"ready", "null"}
  PROVE  /\ p \in Living /\ Living \subseteq Living'
         /\ OfferOf(op[p]) = NoArgs /\ InboxOf(op[p]) = NoArgs
         /\ Targets(p) = {} /\ WaitsOn(p) = {}
         /\ OfferOf(op[p])' = OfferOf(o) /\ InboxOf(op[p])' = InboxOf(o)
         /\ \A q \in Proc \ {p} : /\ OfferOf(op[q])' = OfferOf(op[q])
                                  /\ InboxOf(op[q])' = InboxOf(op[q])
<1>1. /\ thread[p] = "running" /\ op[p].kind = "none"
      /\ \A c \in Chan : attachIn[c] # p /\ attachOut[c] # p
  BY RunningFacts
<1>2. op'[p] = o /\ \A q \in Proc \ {p} : op'[q] = op[q]
  BY DEF IInv, TypeOK, ProcessTypeOK
<1>3. p \in Living /\ Living \subseteq Living'
  BY <1>1, <1>2 DEF Living
<1> QED
  BY <1>1, <1>2, <1>3 DEF OfferOf, InboxOf, Received, Targets, WaitsOn

(* ALT waits on the channels of its guards, if it has any. *)
LEMMA AltImplements ==
  ASSUME IInv, NEW p \in Proc, LuaStep(p), AltInit(p)
  PROVE  R!Next
<1>0. /\ running = p /\ thread[p] = "running" /\ thread \in [Proc -> ThreadStatus] /\ TypeOK
      /\ \A c \in Chan : attachIn[c] # p /\ attachOut[c] # p
  BY LuaTurn, RunningFacts DEF IInv, TypeOK, ProcessTypeOK
<1>1. PICK guards \in AltForms, k \in Free :
        /\ CheckArgs(guards)
        /\ attachIn' = [c \in Chan |-> IF \E i \in DOMAIN guards : guards[i].channel = c
                                       THEN p ELSE attachIn[c]]
        /\ thread' = [thread EXCEPT ![p] = "yield", ![k] = "null"]
        /\ op' = [op EXCEPT ![p] = AltOp(guards, k)]
  BY DEF AltInit, Yield
<1> DEFINE o == AltOp(guards, k)
           C == {c \in Chan : \E i \in DOMAIN guards : guards[i].channel = c}
<1>2. o.kind = "ALT" /\ o.argumentsMoved = FALSE
  BY DEF AltOp, NoOp
<1>3. op' = [op EXCEPT ![p] = o]
  BY <1>1
<1> HIDE DEF o
<1>4. OfferOf(o) = NoArgs /\ InboxOf(o) = NoArgs /\ o.kind # "none"
  BY <1>2 DEF OfferOf, InboxOf, Received
<1>5. /\ thread'[p] = "yield"
      /\ \A q \in Proc \ {p} : \/ thread'[q] = thread[q]
                               \/ thread[q] = "free" /\ thread'[q] = "null"
      /\ UNCHANGED <<attachOut, isClosed>>
  BY <1>0, <1>1 DEF AltInit, Free
<1>6. /\ p \in Living /\ Living \subseteq Living'
      /\ InboxOf(op[p]) = NoArgs /\ InboxOf(op[p])' = NoArgs
      /\ \A q \in Proc : /\ OfferOf(op[q])' = OfferOf(op[q])
                         /\ InboxOf(op[q])' = InboxOf(op[q])
  BY <1>0, <1>3, <1>4, <1>5, YieldViews
<1>7. \A c \in C : ~InAttached(c)
  BY <1>1, ProcessAssumption DEF CheckArgs
<1>8. \A c \in Chan : attachIn'[c] = IF c \in C THEN p ELSE attachIn[c]
  BY <1>1
<1>9. C \in SUBSET Chan
  OBVIOUS
<1> HIDE DEF C
<1>10. WaitsOn(p)' = C /\ \A q \in Proc \ {p} : WaitsOn(q)' = WaitsOn(q)
  BY <1>0, <1>7, <1>8, <1>9, ProcessAssumption DEF WaitsOn, InAttached
<1>11. \A q \in Proc : SameOffer(q) /\ (q # p => SameInput(q))
  BY <1>5, <1>6, <1>10 DEF SameOffer, SameInput, Targets
<1>12. CASE C # {}
  <2>1. R!Wait(p, C)
    BY <1>5, <1>6, <1>7, <1>9, <1>10, <1>11, <1>12, Waits
  <2> QED
    BY <1>9, <2>1 DEF R!Next
<1>13. CASE C = {}
  <2>1. SameInput(p)
    BY <1>0, <1>6, <1>10, <1>13 DEF SameInput, WaitsOn
  <2> QED
    BY <1>5, <1>6, <1>11, <2>1, Stutters DEF Same, R!Next
<1> QED
  BY <1>12, <1>13

(* A channel that is closed has no partners any more. *)
LEMMA CloseImplements ==
  ASSUME IInv, NoForeign, NEW p \in Proc, Close(p)
  PROVE  R!Next
<1>1. PICK c \in Chan :
        /\ isClosed' = [isClosed EXCEPT ![c] = TRUE]
        /\ op' = [q \in Proc |-> IF q = attachIn[c] THEN CloseInput(op[q], c)
                                 ELSE IF q = attachOut[c] THEN CloseArguments(op[q])
                                 ELSE op[q]]
        /\ attachIn' = [attachIn EXCEPT ![c] = NoProc]
        /\ attachOut' = [attachOut EXCEPT ![c] = NoProc]
  BY DEF Close
<1>2. ASSUME NEW q \in Proc
      PROVE  /\ OfferOf(op[q])' = IF attachOut[c] = q THEN NoArgs ELSE OfferOf(op[q])
             /\ InboxOf(op[q])' = InboxOf(op[q])
             /\ op'[q].kind = op[q].kind
  <2>0. op[q] \in Operation
    BY DEF IInv, TypeOK, ProcessTypeOK
  <2>1. CASE q = attachIn[c]
    <3>1. WaitsIn(q, c) /\ op'[q] = CloseInput(op[q], c) /\ attachOut[c] # q
      BY <1>1, <2>1 DEF IInv, Attached, WaitsIn, OffersOn
    <3>2. CASE op[q].kind = "ALT"
      <4>1. /\ op'[q].kind = "ALT" /\ op'[q].argumentsMoved = op[q].argumentsMoved
            /\ op'[q].arguments = op[q].arguments
        BY <2>0, <3>1, <3>2 DEF CloseInput, CloseCase, Operation
      <4> QED
        BY <3>1, <3>2, <4>1 DEF OfferOf, InboxOf, Received
    <3>3. CASE op[q].kind \in {"IN", "RANGE"}
      <4>1. /\ op'[q].kind = op[q].kind /\ op'[q].arguments = NoArgs
            /\ ~op[q].argumentsMoved
        BY <2>0, <3>1, <3>3 DEF CloseInput, CloseArguments, Operation, WaitsIn
      <4> QED
        BY <3>1, <3>3, <4>1 DEF OfferOf, InboxOf, Received
    <3> QED
      BY <3>1, <3>2, <3>3 DEF WaitsIn
  <2>2. CASE q # attachIn[c] /\ q = attachOut[c]
    <3>1. op'[q] = CloseArguments(op[q]) /\ op[q].kind = "OUT"
      BY <1>1, <2>2 DEF IInv, Attached, OffersOn, NoForeign, ForeignKinds
    <3>2. op'[q].kind = "OUT" /\ op'[q].arguments = NoArgs
      BY <2>0, <3>1 DEF CloseArguments, Operation
    <3> QED
      BY <2>2, <3>1, <3>2 DEF OfferOf, InboxOf, Received
  <2>3. CASE q # attachIn[c] /\ q # attachOut[c]
    BY <1>1, <2>3
  <2> QED
    BY <2>1, <2>2, <2>3
<1>3. Living' = Living
  <2>1. thread' = thread
    BY DEF Close
  <2> QED
    BY <1>2, <2>1 DEF Living
<1>4. R!Close(c)
  BY <1>1, <1>2, <1>3, Closes DEF IInv, TypeOK, ChannelTypeOK
<1> QED
  BY <1>4 DEF R!Next

(* Whatever the Lua code calls is a step of the abstract rendezvous. *)
LEMMA CallImplements ==
  ASSUME IInv, NoForeign, NEW p \in Proc, LuaStep(p)
  PROVE  R!Next
<1>0. /\ running = p /\ thread[p] = "running" /\ thread \in [Proc -> ThreadStatus]
      /\ op[p].kind = "none" /\ op \in [Proc -> Operation] /\ TypeOK
      /\ \A c \in Chan : attachIn[c] # p /\ attachOut[c] # p
  BY LuaTurn, RunningFacts DEF IInv, TypeOK, ProcessTypeOK
<1>1. ASSUME Same, Living \subseteq Living', isClosed' = isClosed PROVE R!Next
  BY <1>1, Stutters DEF R!Next
<1>2. CASE (Return(p) \/ LuaError(p)) /\ UNCHANGED chanVars
  <2>1. /\ op' = op /\ thread'[p] \in {"dead", "error"}
        /\ \A q \in Proc \ {p} : thread'[q] = thread[q]
    BY <1>0, <1>2 DEF Return, LuaError, End
  <2>2. Living \subseteq Living'
    BY <2>1 DEF Living
  <2>3. Same
    BY <1>2, <2>1 DEF Same, SameOffer, SameInput, Targets, WaitsOn, chanVars
  <2> QED
    BY <1>1, <1>2, <2>2, <2>3 DEF chanVars
<1>3. CASE Sleep(p) /\ UNCHANGED chanVars
  <2>1. PICK seconds \in Seconds :
          op' = [op EXCEPT ![p] = [NoOp EXCEPT !.kind = "SLEEP", !.seconds = seconds]]
    BY <1>3 DEF Sleep, Yield
  <2> DEFINE o == [NoOp EXCEPT !.kind = "SLEEP", !.seconds = seconds]
  <2>2. o.kind = "SLEEP"
    BY DEF NoOp
  <2>3. thread'[p] = "yield" /\ \A q \in Proc \ {p} : thread'[q] = thread[q]
    BY <1>0, <1>3 DEF Sleep
  <2>4. op' = [op EXCEPT ![p] = o]
    BY <2>1
  <2> HIDE DEF o
  <2>5. OfferOf(o) = NoArgs /\ InboxOf(o) = NoArgs /\ o.kind # "none"
    BY <2>2 DEF OfferOf, InboxOf, Received
  <2>6. /\ Living \subseteq Living'
        /\ \A q \in Proc : /\ OfferOf(op[q])' = OfferOf(op[q])
                           /\ InboxOf(op[q])' = InboxOf(op[q])
    BY <1>0, <2>3, <2>4, <2>5, YieldViews
  <2>7. Same
    BY <1>3, <2>6 DEF Same, SameOffer, SameInput, Targets, WaitsOn, chanVars
  <2> QED
    BY <1>1, <1>3, <2>6, <2>7 DEF chanVars
<1>4. ASSUME NEW kind \in {"IN", "RANGE"}, In(p, kind) PROVE R!Next
  <2>1. PICK c \in Chan : /\ ~InAttached(c)
                          /\ attachIn' = [attachIn EXCEPT ![c] = p]
                          /\ op' = [op EXCEPT ![p] = ChannelOp(kind, c, NoArgs)]
    BY <1>4 DEF In, Yield
  <2>2. /\ thread'[p] = "yield" /\ \A q \in Proc \ {p} : thread'[q] = thread[q]
        /\ UNCHANGED <<attachOut, isClosed>>
    BY <1>0, <1>4 DEF In
  <2> DEFINE o == ChannelOp(kind, c, NoArgs)
  <2>3. o.kind = kind /\ o.argumentsMoved = FALSE
    BY DEF ChannelOp, NoOp
  <2> HIDE DEF o
  <2>4. OfferOf(o) = NoArgs /\ InboxOf(o) = NoArgs /\ o.kind # "none"
    BY <2>3 DEF OfferOf, InboxOf, Received
  <2>5. op' = [op EXCEPT ![p] = o]
    BY <2>1 DEF o
  <2>6. /\ p \in Living /\ Living \subseteq Living'
        /\ InboxOf(op[p]) = NoArgs /\ InboxOf(op[p])' = NoArgs
        /\ \A q \in Proc : /\ OfferOf(op[q])' = OfferOf(op[q])
                           /\ InboxOf(op[q])' = InboxOf(op[q])
    BY <1>0, <2>2, <2>4, <2>5, YieldViews
  <2>7. \A d \in Chan : attachIn'[d] = IF d = c THEN p ELSE attachIn[d]
    BY <1>0, <2>1 DEF TypeOK, ChannelTypeOK
  <2>8. WaitsOn(p)' = {c} /\ \A q \in Proc \ {p} : WaitsOn(q)' = WaitsOn(q)
    BY <1>0, <2>1, <2>7, ProcessAssumption DEF WaitsOn, InAttached
  <2>9. \A q \in Proc : SameOffer(q) /\ (q # p => SameInput(q))
    BY <2>2, <2>6, <2>8 DEF SameOffer, SameInput, Targets
  <2>10. R!Wait(p, {c})
    BY <2>1, <2>2, <2>6, <2>8, <2>9, Waits
  <2> QED
    BY <2>10 DEF R!Next
<1>5. CASE Out(p)
  <2>1. PICK c \in Chan, v \in Val : /\ ~OutAttached(c)
                                     /\ attachOut' = [attachOut EXCEPT ![c] = p]
                                     /\ op' = [op EXCEPT ![p] = ChannelOp("OUT", c, v)]
    BY <1>5 DEF Out, Yield
  <2>2. /\ thread'[p] = "yield" /\ \A q \in Proc \ {p} : thread'[q] = thread[q]
        /\ UNCHANGED <<attachIn, isClosed>>
    BY <1>0, <1>5 DEF Out
  <2> DEFINE o == ChannelOp("OUT", c, v)
  <2>3. o.kind = "OUT" /\ o.arguments = v
    BY DEF ChannelOp, NoOp
  <2> HIDE DEF o
  <2>4. OfferOf(o) = v /\ InboxOf(o) = NoArgs /\ o.kind # "none"
    BY <2>3 DEF OfferOf, InboxOf, Received
  <2>5. op' = [op EXCEPT ![p] = o]
    BY <2>1 DEF o
  <2>6. /\ p \in Living /\ Living \subseteq Living' /\ OfferOf(op[p])' = v
        /\ \A q \in Proc : /\ q # p => OfferOf(op[q])' = OfferOf(op[q])
                           /\ InboxOf(op[q])' = InboxOf(op[q])
    BY <1>0, <2>2, <2>4, <2>5, YieldViews
  <2>7. \A d \in Chan : attachOut'[d] = IF d = c THEN p ELSE attachOut[d]
    BY <1>0, <2>1 DEF TypeOK, ChannelTypeOK
  <2>8. Targets(p)' = {c} /\ \A q \in Proc \ {p} : Targets(q)' = Targets(q)
    BY <1>0, <2>1, <2>7, ProcessAssumption DEF Targets, OutAttached
  <2>9. \A q \in Proc : SameInput(q) /\ (q # p => SameOffer(q))
    BY <2>2, <2>6, <2>8 DEF SameOffer, SameInput, WaitsOn
  <2>10. R!Offer(p, c, v)
    BY <2>1, <2>2, <2>6, <2>8, <2>9, Offers
  <2> QED
    BY <2>10 DEF R!Next
<1>6. CASE Busy(p)
  <2>1. UNCHANGED <<thread, op, chanVars>>
    BY <1>6 DEF Busy
  <2>2. Living = Living' /\ Same
    BY <2>1 DEF Living, Same, SameOffer, SameInput, Targets, WaitsOn, chanVars
  <2> QED
    BY <1>1, <2>1, <2>2 DEF chanVars
<1>7. CASE Close(p)
  BY <1>7, CloseImplements
<1>8. ASSUME NEW kind \in ParKinds, ParInit(p, kind) PROVE R!Next
  <2>1. PICK n \in 0 .. MaxClosures : \E closures \in [1 .. n -> Free] :
          /\ thread' = [q \in Proc |-> IF q = p THEN "yield"
                                       ELSE IF q \in Range(closures) THEN "ready"
                                       ELSE thread[q]]
          /\ op' = [op EXCEPT ![p] = [NoOp EXCEPT !.kind = kind, !.closures = closures]]
    BY <1>8 DEF ParInit, Yield
  <2>2. PICK closures \in [1 .. n -> Free] :
          /\ thread' = [q \in Proc |-> IF q = p THEN "yield"
                                       ELSE IF q \in Range(closures) THEN "ready"
                                       ELSE thread[q]]
          /\ op' = [op EXCEPT ![p] = [NoOp EXCEPT !.kind = kind, !.closures = closures]]
    BY <2>1
  <2> DEFINE o == [NoOp EXCEPT !.kind = kind, !.closures = closures]
  <2>3. o.kind = kind
    BY DEF NoOp
  <2>4. \A q \in Range(closures) : thread[q] = "free"
    BY DEF Range, Free
  <2>5. /\ thread'[p] = "yield"
        /\ \A q \in Proc \ {p} : \/ thread'[q] = thread[q]
                                 \/ thread[q] = "free" /\ thread'[q] = "ready"
    BY <2>2, <2>4
  <2>6. op' = [op EXCEPT ![p] = o] /\ UNCHANGED chanVars
    BY <1>8, <2>2 DEF ParInit
  <2> HIDE DEF o
  <2>7. OfferOf(o) = NoArgs /\ InboxOf(o) = NoArgs /\ o.kind # "none"
    BY <2>3 DEF OfferOf, InboxOf, Received, ParKinds, Spawning
  <2>8. /\ Living \subseteq Living'
        /\ \A q \in Proc : /\ OfferOf(op[q])' = OfferOf(op[q])
                           /\ InboxOf(op[q])' = InboxOf(op[q])
    BY <1>0, <2>5, <2>6, <2>7, YieldViews
  <2>9. Same
    BY <2>6, <2>8 DEF Same, SameOffer, SameInput, Targets, WaitsOn, chanVars
  <2> QED
    BY <1>1, <2>6, <2>8, <2>9 DEF chanVars
<1>9. CASE AltInit(p)
  BY <1>9, AltImplements
<1> QED
  BY <1>2, <1>3, <1>4, <1>5, <1>6, <1>7, <1>8, <1>9
     DEF LuaStep, ProcessCall, ChannelCall, ParCall

----------------------------------------------------------------------------
(***************************************************************************)
(* The turns of the evaluator and the calls of Process::Work.              *)
(***************************************************************************)
(* Operations change, but not what they hold. *)
LEMMA SameImplements ==
  ASSUME UNCHANGED chanVars,
         \A q \in Proc : /\ op'[q].kind = op[q].kind
                         /\ OfferOf(op[q])' = OfferOf(op[q])
                         /\ InboxOf(op[q])' = InboxOf(op[q])
                         /\ \/ thread'[q] = thread[q]
                            \/ thread'[q] \in {"running", "ready", "null", "dead", "error"}
  PROVE  R!Next
<1>1. Living \subseteq Living'
  BY DEF Living
<1>2. Same
  BY DEF Same, SameOffer, SameInput, Targets, WaitsOn, chanVars
<1> QED
  BY <1>1, <1>2, Stutters DEF R!Next, chanVars

(* A process that is destroyed, with those below it, holds nothing. *)
LEMMA DestroyImplements ==
  ASSUME NEW S \in SUBSET Proc, isClosed' = isClosed,
         \A q \in S : /\ op'[q] = NoOp
                      /\ \A c \in Chan : attachIn'[c] # q /\ attachOut'[c] # q,
         \A q \in Proc \ S :
           /\ OfferOf(op[q])' = OfferOf(op[q]) /\ InboxOf(op[q])' = InboxOf(op[q])
           /\ \A c \in Chan : /\ attachIn'[c] = q <=> attachIn[c] = q
                              /\ attachOut'[c] = q <=> attachOut[c] = q,
         Living' = Living \ S
  PROVE  R!Next
<1>1. ASSUME NEW q \in S
      PROVE  /\ OfferOf(op[q])' = NoArgs /\ InboxOf(op[q])' = NoArgs
             /\ Targets(q)' = {} /\ WaitsOn(q)' = {}
  BY <1>1 DEF OfferOf, InboxOf, Received, NoOp, Targets, WaitsOn
<1>2. \A q \in Proc \ S : SameOffer(q) /\ SameInput(q)
  BY DEF SameOffer, SameInput, Targets, WaitsOn
<1>3. R!Terminate(S)
  BY <1>1, <1>2, Terminates
<1> QED
  BY <1>3 DEF R!Next

(* The operation of p ends, and gone with it. *)
LEMMA ResumeImplements ==
  ASSUME IInv, NEW p \in Proc, Evaluating(p),
         NEW results, NEW gone \in SUBSET Proc, NEW stk, NEW flags,
         Resume(p, results, gone, stk, flags), p \notin gone,
         OfferOf(op[p]) = NoArgs, InboxOf(op[p]) = NoArgs, isClosed' = isClosed,
         \A q \in gone, c \in Chan : attachIn'[c] # q /\ attachOut'[c] # q,
         \A q \in Proc \ gone, c \in Chan : /\ attachIn'[c] = q <=> attachIn[c] = q
                                            /\ attachOut'[c] = q <=> attachOut[c] = q
  PROVE  R!Next
<1>0. thread[p] = "yield" /\ op[p].kind # "none"
  BY EvaluatingFacts
<1>1. \A q \in Proc :
        /\ op'[q] = IF q = p \/ q \in gone THEN NoOp ELSE op[q]
        /\ thread'[q] = IF q = p THEN "running" ELSE IF q \in gone THEN "free" ELSE thread[q]
  BY DEF Resume
<1>2. Living' = Living \ gone
  BY <1>0, <1>1 DEF Living
<1>3. OfferOf(NoOp) = NoArgs /\ InboxOf(NoOp) = NoArgs
  BY DEF OfferOf, InboxOf, Received, NoOp
<1>4. \A q \in Proc \ gone : /\ OfferOf(op[q])' = OfferOf(op[q])
                             /\ InboxOf(op[q])' = InboxOf(op[q])
  BY <1>1, <1>3
<1> QED
  BY <1>1, <1>2, <1>4, DestroyImplements

(* An operation is finished: a reader takes what it has received. *)
LEMMA EndsImplements ==
  ASSUME IInv, Values, NEW p \in Proc, Evaluating(p), Ends(p)
  PROVE  R!Next
<1>0. /\ op[p] \in Operation /\ thread[p] = "yield" /\ op[p].kind # "none"
      /\ Honest(op[p]) /\ Finishes(p) /\ UNCHANGED chanVars
  BY EvaluatingFacts DEF IInv, TypeOK, ProcessTypeOK, Values, Ends
<1>1. PICK results : Resume(p, results, Children(p), Popped, PoppedFlags)
  BY DEF Ends, FinishOperation
<1>2. OfferOf(op[p]) = NoArgs
  BY <1>0 DEF Honest, Finishes, OfferOf, ChannelKinds
<1>3. CASE op[p].kind \in Spawning \cup {"ALT"}
  <2>1. InboxOf(op[p]) = NoArgs
    BY <1>0, <1>3 DEF Honest, Finishes, InboxOf, Received, ParKinds, Spawning, ChannelKinds
  <2>2. \A k \in Children(p) : k \in Proc /\ op[k].kind = "none"
    BY EndedClosures, ChildFacts
  <2>3. p \notin Children(p) /\ Children(p) \in SUBSET Proc
    BY <1>0, <2>2
  <2>4. \A k \in Children(p), c \in Chan : attachIn[c] # k /\ attachOut[c] # k
    BY <2>2 DEF IInv, Attached, WaitsIn, OffersOn
  <2> QED
    BY <1>0, <1>1, <1>2, <2>1, <2>3, <2>4, ResumeImplements DEF chanVars
<1>4. CASE op[p].kind \notin Spawning \cup {"ALT"}
  <2>1. Children(p) = {}
    BY <1>4, NoClosures DEF IInv
  <2>2. /\ op'[p] = NoOp /\ thread'[p] = "running"
        /\ \A q \in Proc \ {p} : op'[q] = op[q] /\ thread'[q] = thread[q]
    BY <1>1, <2>1 DEF Resume, IInv, TypeOK, ProcessTypeOK
  <2>3. OfferOf(op[p])' = NoArgs /\ InboxOf(op[p])' = NoArgs
    BY <2>2 DEF OfferOf, InboxOf, Received, NoOp
  <2>4. Living \subseteq Living'
    BY <1>0, <2>2 DEF Living
  <2>5. \A q \in Proc : SameOffer(q) /\ (q # p => SameInput(q)) /\ WaitsOn(q)' = WaitsOn(q)
    BY <1>0, <1>2, <2>2, <2>3 DEF SameOffer, SameInput, Targets, WaitsOn, chanVars
  <2>6. R!Receive(p)
    BY <1>0, <2>3, <2>4, <2>5, Receives DEF chanVars
  <2> QED
    BY <2>6 DEF R!Next
<1> QED
  BY <1>3, <1>4

(* The writer and the reader of a channel meet. *)
LEMMA CommunicateImplements ==
  ASSUME IInv, NoForeign, NEW p \in Proc, Evaluating(p), Communicates(p)
  PROVE  R!Next
<1>1. PICK c \in Chan, reader \in Proc : Meets(p, c, reader) /\ Communicate(c, reader)
  BY DEF Communicates
<1>2. UNCHANGED <<thread, isClosed>>
  BY DEF Communicates
<1>3. CASE ~InAttached(c)
  <2>1. UNCHANGED <<op, chanVars>>
    BY <1>1, <1>2, <1>3 DEF Communicate, InAttached, chanVars
  <2> QED
    BY <1>2, <2>1, SameImplements
<1>4. CASE InAttached(c)
  <2>1. OutAttached(c)
    BY <1>1, ProcessAssumption DEF Meets, OutAttached
  <2>2. PICK in \in Proc, out \in Proc : in = attachIn[c] /\ out = attachOut[c]
    BY <1>4, <2>1 DEF InAttached, OutAttached, IInv, TypeOK, ChannelTypeOK
  <2>3. /\ in # out /\ WaitsIn(in, c) /\ OffersOn(out, c)
        /\ \A q \in Proc \ {in, out} : op'[q] = op[q]
        /\ op'[in].kind = op[in].kind /\ op'[in].argumentsMoved
        /\ op'[in].arguments = op[out].arguments
        /\ op'[out].kind = op[out].kind /\ op'[out].arguments = NoArgs
        /\ \A d \in Chan : attachIn'[d] = IF attachIn[d] = in THEN NoProc ELSE attachIn[d]
        /\ attachOut' = [attachOut EXCEPT ![c] = NoProc]
    BY <1>1, <2>2, CommunicateFacts
  <2>4. op[out].kind = "OUT"
    BY <2>3 DEF OffersOn, NoForeign, ForeignKinds
  <2>5. /\ OfferOf(op[out]) = op[out].arguments /\ OfferOf(op[out])' = NoArgs
        /\ InboxOf(op[in])' = op[out].arguments
        /\ \A q \in Proc : /\ q # out => OfferOf(op[q])' = OfferOf(op[q])
                           /\ q # in => InboxOf(op[q])' = InboxOf(op[q])
    BY <2>3, <2>4 DEF OfferOf, InboxOf, Received, WaitsIn, OffersOn
  <2>6. /\ c \in Targets(out) /\ Targets(out)' = {}
        /\ \A q \in Proc \ {out} : Targets(q)' = Targets(q)
    <3>1. \A d \in Chan : attachOut[d] = out => d = c
      BY <2>3 DEF IInv, Attached, OffersOn
    <3>2. \A d \in Chan : attachOut'[d] = IF d = c THEN NoProc ELSE attachOut[d]
      BY <2>3 DEF IInv, TypeOK, ChannelTypeOK
    <3> QED
      BY <2>2, <3>1, <3>2, ProcessAssumption DEF Targets
  <2>7. /\ c \in WaitsOn(in) /\ WaitsOn(in)' = {}
        /\ \A q \in Proc \ {in} : WaitsOn(q)' = WaitsOn(q)
    BY <2>2, <2>3, ProcessAssumption DEF WaitsOn
  <2>8. \A q \in Proc : (q # out => SameOffer(q)) /\ (q # in => SameInput(q))
    BY <2>5, <2>6, <2>7 DEF SameOffer, SameInput
  <2>9. Living \subseteq Living'
    BY <1>2, <2>3 DEF Living, OffersOn
  <2>10. R!Meet(out, in, c)
    BY <1>2, <2>3, <2>5, <2>6, <2>7, <2>8, <2>9, BothMeet
  <2> QED
    BY <2>10 DEF R!Next
<1> QED
  BY <1>3, <1>4

(* An ALT that takes its nil case, or a time, waits no more. *)
LEMMA TriggerImplements ==
  ASSUME IInv, Values, NEW p \in Proc, op[p].kind = "ALT", op[p].caseTriggered = 0,
         NEW i, NEW stk, NEW flags, Trigger(p, i, stk, flags)
  PROVE  R!Next
<1>1. /\ \A q \in Proc \ {p} : op'[q] = op[q]
      /\ op'[p].kind = "ALT" /\ op'[p].arguments = op[p].arguments
      /\ \A d \in Chan : attachIn'[d] = IF attachIn[d] = p THEN NoProc ELSE attachIn[d]
      /\ UNCHANGED <<thread, attachOut, isClosed>>
  BY TriggerFacts
<1>2. op[p].arguments = NoArgs
  BY DEF Values, Honest
<1>3. \A q \in Proc : /\ OfferOf(op[q])' = OfferOf(op[q])
                      /\ InboxOf(op[q])' = InboxOf(op[q])
  BY <1>1, <1>2 DEF OfferOf, InboxOf, Received
<1>4. WaitsOn(p)' = {} /\ \A q \in Proc \ {p} : WaitsOn(q)' = WaitsOn(q)
  BY <1>1, ProcessAssumption DEF WaitsOn
<1>5. Living \subseteq Living'
  BY <1>1 DEF Living
<1>6. \A q \in Proc : SameOffer(q) /\ (q # p => SameInput(q))
  BY <1>1, <1>3, <1>4 DEF SameOffer, SameInput, Targets
<1>7. R!GiveUp(p)
  BY <1>1, <1>3, <1>4, <1>5, <1>6, GivesUp
<1> QED
  BY <1>7 DEF R!Next

(* No process is below itself. *)
LEMMA NotBelowItself ==
  ASSUME IInv, Rooted, NEW p \in Proc, thread[p] # "free"
  PROVE  p \notin Descendants(p)
<1> DEFINE U == Proc \ Descendants(p)
<1>1. SUFFICES ASSUME p \in Descendants(p) PROVE FALSE
  OBVIOUS
<1>2. /\ Main \in Proc /\ Main \notin Descendants(p)
      /\ \A q \in Proc : Children(q) \subseteq Proc
  BY DescendantsFacts, ProcessAssumption, ChildFacts
<1>3. \A q \in U : Children(q) \subseteq U
  BY <1>1, <1>2, DescendantsFacts
<1>4. Main \in U /\ U \in SUBSET Proc
  BY <1>2
<1>5. Children(Main) \subseteq U /\ Closed(U)
  BY <1>3, <1>4 DEF Closed
<1> HIDE DEF U
<1>6. p = Main \/ p \in U
  BY <1>4, <1>5 DEF Rooted
<1> QED
  BY <1>1, <1>2, <1>6 DEF U

(* A turn of the evaluator. *)
LEMMA EvaluateImplements ==
  ASSUME IInv, Rooted, Values, NoForeign, NEW p \in Proc, EvaluateStep(p)
  PROVE  R!Next
<1>0. /\ Evaluating(p) /\ op[p] \in Operation /\ p \in Proc
      /\ op \in [Proc -> Operation] /\ thread \in [Proc -> ThreadStatus]
  BY EvaluateTurn DEF IInv, TypeOK, ProcessTypeOK
<1>1. CASE Nothing(p)
  BY <1>1, SameImplements DEF Nothing, KeepWaiting
<1>2. CASE Ends(p)
  BY <1>0, <1>2, EndsImplements
<1>3. CASE Communicates(p)
  BY <1>0, <1>3, CommunicateImplements
<1>4. CASE TakesNil(p)
  BY <1>4, TriggerImplements DEF TakesNil
<1>5. CASE op[p].kind = "PARWHILE" /\ EndParWhile(p)
  <2> DEFINE gone == Descendants(p)
  <2>1. /\ Resume(p, NoResult, gone, Without(Popped, {q \in gone : PoppedFlags[q]}), PoppedFlags)
        /\ DetachAll(gone)
    BY <1>5 DEF EndParWhile
  <2>2. gone \in SUBSET Proc /\ Main \notin gone
    BY DescendantsFacts
  <2>3. p \notin gone
    BY <1>0, EvaluatingFacts, NotBelowItself
  <2>4. OfferOf(op[p]) = NoArgs /\ InboxOf(op[p]) = NoArgs
    BY <1>5 DEF OfferOf, InboxOf, Received
  <2>5. /\ isClosed' = isClosed
        /\ \A c \in Chan : /\ attachIn'[c] = IF attachIn[c] \in gone THEN NoProc ELSE attachIn[c]
                           /\ attachOut'[c] = IF attachOut[c] \in gone THEN NoProc ELSE attachOut[c]
    BY <2>1 DEF DetachAll
  <2> HIDE DEF gone
  <2>6. /\ \A q \in gone, c \in Chan : attachIn'[c] # q /\ attachOut'[c] # q
        /\ \A q \in Proc \ gone, c \in Chan : /\ attachIn'[c] = q <=> attachIn[c] = q
                                              /\ attachOut'[c] = q <=> attachOut[c] = q
    BY <2>2, <2>5, ProcessAssumption
  <2> QED
    BY <1>0, <2>1, <2>2, <2>3, <2>4, <2>5, <2>6, ResumeImplements
<1>6. CASE op[p].kind \in ParKinds /\ StartClosure(p)
  <2>1. PICK next, k, ps :
          StartEvaluation(p, [op[p] EXCEPT !.closureToRun = next], k, NoArgs, ps, "none")
    BY <1>6 DEF StartClosure
  <2>2. /\ \A q \in Proc \ {p} : op'[q] = op[q]
        /\ op'[p] = [op[p] EXCEPT !.closureToRun = next]
        /\ \A q \in Proc : thread'[q] = thread[q] \/ thread'[q] = "running"
    BY <1>0, <2>1 DEF StartEvaluation
  <2>3. op'[p].kind = op[p].kind
    BY <1>0, <2>2 DEF Operation
  <2>4. \A q \in Proc : /\ op'[q].kind = op[q].kind
                        /\ OfferOf(op[q])' = OfferOf(op[q])
                        /\ InboxOf(op[q])' = InboxOf(op[q])
    BY <1>6, <2>2, <2>3 DEF OfferOf, InboxOf, Received, ParKinds, Spawning
  <2> QED
    BY <1>6, <2>2, <2>4, SameImplements DEF StartClosure
<1>7. CASE op[p].kind = "ALT" /\ StartTriggered(p)
  <2> DEFINE o == Started(op[p])
  <2>1. PICK k, asserted : StartEvaluation(p, o, k, op[p].arguments, <<>>, asserted)
    BY <1>7 DEF StartTriggered
  <2>2. o.kind = "ALT" /\ o.arguments = NoArgs
    BY <1>0, <1>7 DEF Started, Unreferenced, Operation
  <2> HIDE DEF o
  <2>3. /\ \A q \in Proc \ {p} : op'[q] = op[q]
        /\ op'[p] = o
        /\ \A q \in Proc : thread'[q] = thread[q] \/ thread'[q] = "running"
    BY <1>0, <2>1 DEF StartEvaluation
  <2>4. OfferOf(op[p]) = NoArgs /\ OfferOf(op[p])' = NoArgs /\ InboxOf(op[p])' = NoArgs
    BY <1>7, <2>2, <2>3 DEF OfferOf, InboxOf, Received
  <2>5. Living \subseteq Living'
    BY <1>7, <2>2, <2>3 DEF Living
  <2>6. UNCHANGED chanVars
    BY <1>7 DEF StartTriggered
  <2>7. \A q \in Proc : SameOffer(q) /\ (q # p => SameInput(q)) /\ WaitsOn(q)' = WaitsOn(q)
    BY <2>3, <2>4, <2>6 DEF SameOffer, SameInput, Targets, WaitsOn, chanVars
  <2>8. R!Receive(p)
    BY <2>4, <2>5, <2>6, <2>7, Receives DEF chanVars
  <2> QED
    BY <2>8 DEF R!Next
<1> QED
  BY <1>1, <1>2, <1>3, <1>4, <1>5, <1>6, <1>7, EvaluateShape DEF ParKinds, Spawning

(* A call of Process::Work. *)
LEMMA WorkImplements ==
  ASSUME IInv, Values, NEW p \in Proc, WorkStep(p)
  PROVE  R!Next
<1>0. thread' = thread /\ op[p] \in Operation /\ op \in [Proc -> Operation]
  BY WorkTurn DEF IInv, TypeOK, ProcessTypeOK
<1>1. CASE WorkSleep(p) /\ UNCHANGED chanVars
  <2>1. PICK left, done : op' = [op EXCEPT ![p].seconds = left, ![p].finished = done]
    BY <1>1 DEF WorkSleep
  <2>2. /\ \A q \in Proc \ {p} : op'[q] = op[q]
        /\ op'[p] = [op[p] EXCEPT !.seconds = left, !.finished = done]
    BY <1>0, <2>1
  <2>3. op'[p].kind = op[p].kind /\ op[p].kind = "SLEEP"
    <3>1. op[p].kind = "SLEEP"
      BY <1>1 DEF WorkSleep
    <3> QED
      BY <1>0, <2>2, <3>1 DEF Operation
  <2>4. \A q \in Proc : /\ op'[q].kind = op[q].kind
                        /\ OfferOf(op[q])' = OfferOf(op[q])
                        /\ InboxOf(op[q])' = InboxOf(op[q])
    BY <2>2, <2>3 DEF OfferOf, InboxOf, Received
  <2> QED
    BY <1>0, <1>1, <2>4, SameImplements
<1>2. CASE op[p].kind = "ALT" /\ op[p].caseTriggered = 0
           /\ \E i : Trigger(p, i, stack, isOnStack)
  BY <1>2, TriggerImplements
<1>3. CASE UNCHANGED <<op, chanVars>>
  BY <1>0, <1>3, SameImplements
<1> QED
  BY <1>1, <1>2, <1>3 DEF WorkStep, ProcessWork, WorkNothing, WorkPar, WorkAlt

(* Host::TerminateMain. *)
LEMMA TerminateImplements ==
  ASSUME IInv, TerminateMain
  PROVE  R!Next
<1> DEFINE gone == Descendants(Main)
           S    == gone \cup {Main}
<1>0. Main \in Proc /\ thread[Main] = "yield" /\ thread \in [Proc -> ThreadStatus]
  BY ProcessAssumption DEF TerminateMain, IInv, InOperation, TypeOK, ProcessTypeOK
<1>1. /\ op' = [q \in Proc |-> IF q = Main \/ q \in gone THEN NoOp ELSE op[q]]
      /\ thread' = [q \in Proc |-> IF q \in gone THEN "free" ELSE thread[q]]
      /\ isClosed' = isClosed
      /\ \A c \in Chan : /\ attachIn'[c] = IF attachIn[c] \in S THEN NoProc ELSE attachIn[c]
                         /\ attachOut'[c] = IF attachOut[c] \in S THEN NoProc ELSE attachOut[c]
  BY DEF TerminateMain, DetachAll
<1>2. gone \in SUBSET Proc /\ S \in SUBSET Proc /\ Main \notin gone
  BY <1>0, DescendantsFacts
<1>3. \A q \in Proc : q \in S <=> q = Main \/ q \in gone
  BY <1>0
<1> HIDE DEF gone, S
<1>4. /\ \A q \in S : /\ op'[q] = NoOp
                      /\ \A c \in Chan : attachIn'[c] # q /\ attachOut'[c] # q
      /\ \A q \in Proc \ S : /\ op'[q] = op[q]
                             /\ \A c \in Chan : /\ attachIn'[c] = q <=> attachIn[c] = q
                                                /\ attachOut'[c] = q <=> attachOut[c] = q
  BY <1>1, <1>2, <1>3, ProcessAssumption
<1>5. Living' = Living \ S
  BY <1>0, <1>1, <1>2, <1>3, <1>4 DEF Living, NoOp
<1>6. \A q \in Proc \ S : /\ OfferOf(op[q])' = OfferOf(op[q])
                          /\ InboxOf(op[q])' = InboxOf(op[q])
  BY <1>4
<1> QED
  BY <1>1, <1>2, <1>4, <1>5, <1>6, DestroyImplements

LEMMA NextImplements ==
  IInv /\ Rooted /\ Values /\ NoForeign /\ [Next]_vars => [R!Next]_(R!rvars)
<1> SUFFICES ASSUME IInv, Rooted, Values, NoForeign, [Next]_vars PROVE R!Next
  OBVIOUS
<1>1. CASE (HostMain \/ HostWork) /\ UNCHANGED chanVars
  <2>1. /\ UNCHANGED <<op, chanVars>>
        /\ \A q \in Proc : thread'[q] = thread[q] \/ thread'[q] = "running"
    BY <1>1 DEF HostMain, HostWork, IInv, TypeOK, ProcessTypeOK
  <2> QED
    BY <2>1, SameImplements
<1>2. CASE UNCHANGED vars
  BY <1>2, SameImplements DEF vars, procVars
<1>3. CASE TerminateMain
  BY <1>3, TerminateImplements
<1>4. ASSUME NEW p \in Proc, LuaStep(p) \/ EvaluateStep(p) \/ WorkStep(p) PROVE R!Next
  BY <1>4, CallImplements, EvaluateImplements, WorkImplements
<1> QED
  BY <1>1, <1>2, <1>3, <1>4 DEF Next

----------------------------------------------------------------------------
(***************************************************************************)
(* Values is an invariant.                                                 *)
(***************************************************************************)
LEMMA CallValues ==
  ASSUME IInv, Values, NEW p \in Proc, LuaStep(p)
  PROVE  Values'
<1>0. op \in [Proc -> Operation]
  BY DEF IInv, TypeOK, ProcessTypeOK
<1>1. ASSUME NEW o, Begins(p, o) PROVE Values'
  <2>1. op' = [op EXCEPT ![p] = o] /\ Honest(o)
    BY <1>1 DEF Begins, Yield, Honest
  <2>2. \A q \in Proc : op'[q] = IF q = p THEN o ELSE op[q]
    BY <1>0, <2>1
  <2> QED
    BY <2>1, <2>2 DEF Values
<1>2. CASE (\E status \in {"dead", "error"} : End(p, status)) \/ Busy(p)
  BY <1>2 DEF End, Busy, Values
<1>3. CASE Close(p)
  <2>1. PICK c \in Chan :
          op' = [q \in Proc |-> IF q = attachIn[c] THEN CloseInput(op[q], c)
                                ELSE IF q = attachOut[c] THEN CloseArguments(op[q])
                                ELSE op[q]]
    BY <1>3 DEF Close
  <2>2. ASSUME NEW q \in Proc PROVE Honest(op'[q])
    <3>0. op[q] \in Operation /\ Honest(op[q])
      BY <1>0 DEF Values
    <3>1. CASE q = attachIn[c] /\ op[q].kind = "ALT"
      <4>1. op'[q] = CloseCase(op[q], FindCaseForChannel(op[q], c))
        BY <2>1, <3>1 DEF CloseInput
      <4>2. /\ op'[q].kind = "ALT" /\ op'[q].caseTriggered = op[q].caseTriggered
            /\ op'[q].argumentsMoved = op[q].argumentsMoved
            /\ op'[q].arguments = op[q].arguments
        BY <3>0, <3>1, <4>1 DEF CloseCase, Operation
      <4> QED
        BY <3>0, <3>1, <4>2 DEF Honest
    <3>2. CASE \/ q = attachIn[c] /\ op[q].kind # "ALT"
               \/ q # attachIn[c] /\ q = attachOut[c]
      <4>1. op'[q] = CloseArguments(op[q]) /\ op[q].kind # "ALT"
        BY <2>1, <3>2 DEF CloseInput, IInv, Attached, OffersOn
      <4>2. op'[q].arguments = NoArgs /\ op'[q].kind # "ALT"
        BY <3>0, <4>1 DEF CloseArguments, Operation
      <4> QED
        BY <4>2 DEF Honest
    <3>3. CASE q # attachIn[c] /\ q # attachOut[c]
      BY <2>1, <3>0, <3>3
    <3> QED
      BY <3>1, <3>2, <3>3
  <2> QED
    BY <2>2 DEF Values
<1> QED
  BY <1>1, <1>2, <1>3, CallShape

(* An ALT is triggered by a case it has. *)
LEMMA TriggerValues ==
  ASSUME IInv, Values, NEW p \in Proc, op[p].kind = "ALT",
         NEW i \in DOMAIN op[p].cases, NEW stk, NEW flags, Trigger(p, i, stk, flags)
  PROVE  Values'
<1>1. /\ \A q \in Proc \ {p} : op'[q] = op[q]
      /\ op'[p].kind = "ALT" /\ op'[p].caseTriggered = i
  BY TriggerFacts
<1>2. i # 0
  BY ReadyFacts
<1> QED
  BY <1>1, <1>2 DEF Values, Honest

LEMMA EvaluateValues ==
  ASSUME IInv, Values, NEW p \in Proc, EvaluateStep(p)
  PROVE  Values'
<1>0. /\ op \in [Proc -> Operation] /\ op[p] \in Operation
      /\ \A q \in Proc : Honest(op[q])
  BY DEF IInv, TypeOK, ProcessTypeOK, Values
<1>1. CASE Nothing(p)
  BY <1>1 DEF Nothing, KeepWaiting, Values
<1>2. CASE Ends(p) \/ EndParWhile(p)
  <2>1. PICK gone : op' = [q \in Proc |-> IF q = p \/ q \in gone THEN NoOp ELSE op[q]]
    BY <1>2 DEF Ends, FinishOperation, EndParWhile, Resume
  <2>2. Honest(NoOp)
    BY DEF Honest, NoOp
  <2> QED
    BY <1>0, <2>1, <2>2 DEF Values
<1>3. CASE Communicates(p)
  <2>1. PICK c \in Chan, reader \in Proc : Meets(p, c, reader) /\ Communicate(c, reader)
    BY <1>3 DEF Communicates
  <2>2. CASE ~InAttached(c)
    BY <2>1, <2>2 DEF Communicate, InAttached, Values
  <2>3. CASE InAttached(c)
    <3>1. OutAttached(c)
      BY <2>1, ProcessAssumption DEF Meets, OutAttached
    <3>2. PICK in \in Proc, out \in Proc : in = attachIn[c] /\ out = attachOut[c]
      BY <2>3, <3>1 DEF InAttached, OutAttached, IInv, TypeOK, ChannelTypeOK
    <3>3. /\ \A q \in Proc \ {in, out} : op'[q] = op[q]
          /\ WaitsIn(in, c) /\ op'[in].kind = op[in].kind /\ op'[in].argumentsMoved
          /\ op[in].kind = "ALT" => op'[in].caseTriggered # 0
          /\ op'[out].kind \in {"OUT", "CPPOUT"} /\ op'[out].arguments = NoArgs
      BY <2>1, <3>2, CommunicateFacts
    <3>4. Honest(op'[in])
      BY <3>3 DEF Honest, WaitsIn
    <3>5. Honest(op'[out])
      BY <3>3 DEF Honest
    <3> QED
      BY <1>0, <3>3, <3>4, <3>5 DEF Values
  <2> QED
    BY <2>2, <2>3
<1>4. CASE TakesNil(p)
  <2>1. op[p].nilCase \in DOMAIN op[p].cases
    BY <1>4 DEF TakesNil, Ready
  <2> QED
    BY <1>4, <2>1, TriggerValues DEF TakesNil
<1>5. CASE op[p].kind \in ParKinds /\ StartClosure(p)
  <2>1. PICK next : op' = [op EXCEPT ![p] = [op[p] EXCEPT !.closureToRun = next]]
    BY <1>5 DEF StartClosure, StartEvaluation
  <2>2. op'[p] = [op[p] EXCEPT !.closureToRun = next] /\ \A q \in Proc \ {p} : op'[q] = op[q]
    BY <1>0, <2>1
  <2>3. op'[p].kind = op[p].kind
    BY <1>0, <2>2 DEF Operation
  <2> QED
    BY <1>0, <1>5, <2>2, <2>3 DEF Values, Honest, ParKinds, Spawning
<1>6. CASE op[p].kind = "ALT" /\ op[p].caseTriggered # 0 /\ StartTriggered(p)
  <2>1. op' = [op EXCEPT ![p] = Started(op[p])]
    BY <1>6 DEF StartTriggered, StartEvaluation
  <2>2. op'[p] = Started(op[p]) /\ \A q \in Proc \ {p} : op'[q] = op[q]
    BY <1>0, <2>1
  <2>3. op'[p].kind = "ALT" /\ op'[p].caseTriggered # 0
    BY <1>0, <1>6, <2>2 DEF Started, Unreferenced, Operation
  <2> QED
    BY <1>0, <2>2, <2>3 DEF Values, Honest
<1> QED
  BY <1>1, <1>2, <1>3, <1>4, <1>5, <1>6, EvaluateShape DEF ParKinds, Spawning

LEMMA WorkValues ==
  ASSUME IInv, Values, NEW p \in Proc, WorkStep(p)
  PROVE  Values'
<1>0. op \in [Proc -> Operation] /\ op[p] \in Operation
  BY DEF IInv, TypeOK, ProcessTypeOK
<1>1. CASE WorkSleep(p)
  <2>1. PICK left, done : op' = [op EXCEPT ![p].seconds = left, ![p].finished = done]
    BY <1>1 DEF WorkSleep
  <2>2. /\ \A q \in Proc \ {p} : op'[q] = op[q]
        /\ op'[p] = [op[p] EXCEPT !.seconds = left, !.finished = done]
    BY <1>0, <2>1
  <2>3. op[p].kind = "SLEEP"
    BY <1>1 DEF WorkSleep
  <2>4. op'[p].kind = "SLEEP"
    BY <1>0, <2>2, <2>3 DEF Operation
  <2> QED
    BY <2>2, <2>4 DEF Values, Honest
<1>2. CASE /\ op[p].kind = "ALT" /\ Expired(op[p]) # {}
           /\ Trigger(p, Earliest(op[p]), stack, isOnStack)
  <2>1. Earliest(op[p]) \in DOMAIN op[p].cases
    BY <1>0, <1>2, EarliestIsExpired DEF Expired
  <2> QED
    BY <1>2, <2>1, TriggerValues
<1>3. CASE UNCHANGED op
  BY <1>3 DEF Values
<1> QED
  BY <1>1, <1>2, <1>3 DEF WorkStep, ProcessWork, WorkNothing, WorkPar, WorkAlt

LEMMA NextValues == IInv /\ Values /\ [Next]_vars => Values'
<1> SUFFICES ASSUME IInv, Values, [Next]_vars PROVE Values'
  OBVIOUS
<1>1. CASE HostMain \/ HostWork \/ UNCHANGED vars
  BY <1>1 DEF HostMain, HostWork, vars, procVars, Values
<1>2. CASE TerminateMain
  BY <1>2 DEF TerminateMain, Values, Honest, NoOp
<1>3. ASSUME NEW p \in Proc, LuaStep(p) \/ EvaluateStep(p) \/ WorkStep(p) PROVE Values'
  BY <1>3, CallValues, EvaluateValues, WorkValues
<1> QED
  BY <1>1, <1>2, <1>3 DEF Next

----------------------------------------------------------------------------
(***************************************************************************)
(* Communication is synchronous, unbuffered and point to point: every      *)
(* behaviour of the host, whatever the programs, is one of the abstract    *)
(* rendezvous.  No value is lost, duplicated or invented, also when        *)
(* channels are closed or processes terminated in between, when an ALT     *)
(* names a channel twice, and up to an assertion that fails.               *)
(***************************************************************************)
THEOREM ImplementsAbstractRendezvous == Spec => ImplementsRendezvous
<1>1. Init => Values
  BY DEF Init, ProcessInit, Values, Honest, NoOp
<1>2. Init => R!Init
  <2> SUFFICES ASSUME Init PROVE R!Init
    OBVIOUS
  <2>1. \A p \in Proc : OfferOf(op[p]) = NoArgs /\ InboxOf(op[p]) = NoArgs
    BY DEF Init, ProcessInit, OfferOf, InboxOf, Received, NoOp
  <2>2. \A p \in Proc : Targets(p) = {} /\ WaitsOn(p) = {}
    BY ProcessAssumption DEF Init, ChannelInit, Targets, WaitsOn
  <2>3. {c \in Chan : isClosed[c]} = {}
    BY DEF Init, ChannelInit
  <2>4. Living \in SUBSET Proc
    BY DEF Living
  <2> QED
    BY <2>1, <2>2, <2>3, <2>4 DEF R!Init
<1>3. IInv /\ Values /\ [Next]_vars => Values'
  BY NextValues
<1>4. IInv /\ WInv /\ Values /\ NoForeign /\ [Next]_vars => [R!Next]_(R!rvars)
  BY NextImplements DEF WInv
<1> QED
  BY <1>1, <1>2, <1>3, <1>4, WakeupHolds, PTL DEF Spec, ImplementsRendezvous, R!Spec
=============================================================================
