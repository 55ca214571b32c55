----------------------------- MODULE CppChannel -----------------------------
(***************************************************************************)
(* The C++ end of a channel (cppchannel.cpp): an output operation that     *)
(* waits for its subclass to have something to send, which it asks on      *)
(* every tick, and attaches to the channel only then.  It sends again and  *)
(* again and ends when its subclass says so.  The subclass is the one of   *)
(* the sample (mycppchannel.cpp), which counts key presses; one that ends  *)
(* by itself is allowed for too.                                           *)
(***************************************************************************)
EXTENDS LuaCSP

CONSTANTS MaxCount   \* bound: the key presses that are counted

ASSUME CppAssumption == MaxCount \in Nat

VARIABLES
  count,     \* OpMonitorKeyState::m_count
  dangling   \* channels whose m_pAttachmentOut points to a destroyed operation

cppVars == <<count, dangling>>

CppInit == /\ count = [p \in Proc |-> 0]
           /\ dangling = {}

CppOutput(p, c) == op[p].kind = "CPPOUT" /\ op[p].channel = c

----------------------------------------------------------------------------
(***************************************************************************)
(* KEYSTATE(ch): Init references the channel and does not attach to it, so *)
(* that it cannot tell whether the channel has a writer.  The programs     *)
(* modelled keep to one output operation on a channel at a time.           *)
(***************************************************************************)
OneWriter ==
  \A p \in Proc : op'[p].kind \in {"OUT", "CPPOUT"} /\ op[p].kind # op'[p].kind =>
    \A q \in Proc : op[q].kind \in {"OUT", "CPPOUT"} => op[q].channel # op'[p].channel

CppOut(p) ==
  /\ InLua(p, "CPPOUT")
  /\ \E c \in Chan :
       /\ MayUse(c)
       /\ Yield(p, ChannelOp("CPPOUT", c, NoArgs))
  /\ thread' = [thread EXCEPT ![p] = "yield"]
  /\ count' = [count EXCEPT ![p] = 0]
  /\ UNCHANGED <<parent, chanVars, dangling>>

(* Mutant of Attaches: it attaches and sends whether it has something or not. *)
AttachesAlways(p, n) == attachOut[op[p].channel] # p

(* IsOutputAttached, IsOutputReady. *)
Attaches(p, n) == attachOut[op[p].channel] # p /\ n > 0

(* Mutant of Sends: an output that has just attached leaves it to its reader. *)
SendsLater(p, n) == attachOut[op[p].channel] = p
Sends(p, n)      == attachOut[op[p].channel] = p \/ Attaches(p, n)

(* Mutant of CppPartners: the reader is left out. *)
WriterOnly(p, reader)  == <<p>>
CppPartners(p, reader) == <<p, reader>>

(***************************************************************************)
(* OpCppChannelOut::Evaluate with n key presses counted: attach if there   *)
(* is something to send, taking the place of whatever is attached, then    *)
(* communicate if there is a reader.                                       *)
(***************************************************************************)
CppEvaluate(p, n, stk, flags) ==
  \E v \in Val :
    LET o            == op[p]
        c            == o.channel
        in           == attachIn[c]
        attaches     == Attaches(p, n)
        communicates == Sends(p, n) /\ in # NoProc
        sent         == IF attaches THEN v ELSE o.arguments
    IN
    /\ PushEvalSteps(IF \/ attaches /\ o.arguments # NoArgs
                        \/ communicates /\ op[in].arguments # NoArgs
                     THEN "arguments_set" ELSE "none",
                     stk, flags, IF communicates THEN CppPartners(p, in) ELSE <<>>)
    /\ count' = [count EXCEPT ![p] = IF attaches THEN n - 1 ELSE n]
    /\ op' = IF communicates
             THEN [op EXCEPT ![in] = MoveChannelArguments(@, c, sent),
                             ![p] = CloseArguments(@)]
             ELSE [op EXCEPT ![p].arguments = sent]
    /\ attachIn' = IF communicates THEN Detached(in) ELSE attachIn
    /\ attachOut' = [attachOut EXCEPT ![c] = IF communicates THEN NoProc
                                             ELSE IF attaches THEN p ELSE @]
    /\ UNCHANGED <<thread, parent, running, result, isClosed, dangling>>

EvalCpp(p) ==
  /\ Evaluating(p) /\ op[p].kind = "CPPOUT"
  /\ \/ /\ ~op[p].finished
        /\ CppEvaluate(p, count[p], Popped, PoppedFlags)
        /\ UNCHANGED hostVars
     \/ /\ op[p].finished
        /\ FinishOperation(p, NoResult)
        /\ UNCHANGED <<chanVars, cppVars>>

(* Mutant of EndOutput: the channel keeps pointing to the operation. *)
KeepOutput(p) == UNCHANGED attachOut
EndOutput(p)  == attachOut' = [c \in Chan |-> IF attachOut[c] = p THEN NoProc ELSE attachOut[c]]

(***************************************************************************)
(* OpCppChannelOut::Work: Update counts a key press or not, or ends the    *)
(* operation; if it goes on, it is evaluated at once.                      *)
(***************************************************************************)
WorkCpp(p) ==
  /\ Working(p) /\ op[p].kind = "CPPOUT"
  /\ \/ \E n \in {count[p], count[p] + 1} :
          n <= MaxCount /\ CppEvaluate(p, n, stack, isOnStack)
     \/ /\ EndOutput(p)
        /\ op' = [op EXCEPT ![p].finished = TRUE]
        /\ PushEvalSteps("none", stack, isOnStack, <<p>>)
        /\ UNCHANGED <<thread, parent, running, result, attachIn, isClosed, cppVars>>
  /\ work' = Tail(work)
  /\ UNCHANGED <<dt, time>>

(***************************************************************************)
(* OpCppChannelOut::Terminate does not reset the attachment: the channel   *)
(* is left with a pointer to freed memory.  Nothing is known of what       *)
(* follows, the model stops there.                                         *)
(***************************************************************************)
LeftBehind ==
  {c \in Chan : \E p \in Proc : /\ attachOut[c] = p /\ CppOutput(p, c)
                                /\ op'[p].kind # "CPPOUT"}

CppCall(p)     == CppOut(p)
CppStepOf(p)   == EvalCpp(p) \/ WorkCpp(p)

----------------------------------------------------------------------------
(***************************************************************************)
(* The pointers from channels to operations with C++ outputs among them: a *)
(* C++ output is attached from when it has taken its arguments until they  *)
(* are moved or the channel is closed (cppchannel.cpp:34-42, 97-108).      *)
(***************************************************************************)
CppWaitsOut(p, c) == CppOutput(p, c) /\ op[p].arguments # NoArgs /\ ~op[p].finished

AllAttachmentsLive ==
  failed = "none" /\ dangling = {} =>
    \A c \in Chan, p \in Proc :
      /\ attachIn[c] = p <=> WaitsIn(p, c)
      /\ attachOut[c] = p <=> WaitsOut(p, c) \/ CppWaitsOut(p, c)

(***************************************************************************)
(* No key press waits while somebody reads: when the evaluator rests, a    *)
(* channel with a reader has no C++ output with anything to send, though   *)
(* the reader may have come before or after the key press, or be an ALT,   *)
(* and though the channel may have been closed in between                  *)
(* (cppchannel.cpp:30-54).                                                 *)
(***************************************************************************)
KeyPressRead ==
  Idle /\ dangling = {} =>
    \A c \in Chan, p \in Proc :
      InAttached(c) /\ CppOutput(p, c) => count[p] = 0 /\ op[p].arguments = NoArgs

(***************************************************************************)
(* "CORE_ASSERT( m_pAttachmentOut == NULL )" (channel.cpp:373): nothing is *)
(* attached to a channel that is collected, as all operations that name it *)
(* have ended or been terminated.                                          *)
(***************************************************************************)
NothingLeftBehind == dangling = {}
============================================================================
