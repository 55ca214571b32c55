------------------------------ MODULE Channel ------------------------------
(***************************************************************************)
(* Channels (channel.cpp) and the operations IN, RANGE and OUT on them.  A *)
(* channel points to at most one input attachment, an IN, RANGE or ALT,    *)
(* and at most one output attachment, an OUT.  An operation is identified  *)
(* with the process it belongs to.                                         *)
(***************************************************************************)
EXTENDS Process

VARIABLES
  attachIn,   \* Channel::m_pAttachmentIn
  attachOut,  \* Channel::m_pAttachmentOut
  isClosed    \* Channel::m_isClosed

chanVars == <<attachIn, attachOut, isClosed>>

ChannelTypeOK ==
  /\ attachIn \in [Chan -> Proc \cup {NoProc}]
  /\ attachOut \in [Chan -> Proc \cup {NoProc}]
  /\ isClosed \in [Chan -> BOOLEAN]

ChannelInit ==
  /\ attachIn = [c \in Chan |-> NoProc]
  /\ attachOut = [c \in Chan |-> NoProc]
  /\ isClosed = [c \in Chan |-> FALSE]

InAttached(c)  == attachIn[c] # NoProc
OutAttached(c) == attachOut[c] # NoProc

----------------------------------------------------------------------------
(* Mutant of FirstOf: the last one. *)
LastOf(S)  == CHOOSE i \in S : \A j \in S : j <= i

(***************************************************************************)
(* The interface ChannelAttachmentIn_i as IN, RANGE and ALT implement it,  *)
(* on their operation record o.                                            *)
(***************************************************************************)
FirstOf(S) == CHOOSE i \in S : \A j \in S : i <= j

CasesFor(o, c) == {i \in DOMAIN o.cases : o.cases[i].channel = c}
FindCaseForChannel(o, c) == FirstOf(CasesFor(o, c))

(* The channels whose input attachment o resets when it is triggered. *)
Attachable(o) == IF o.kind = "ALT" THEN {o.cases[i].channel : i \in DOMAIN o.cases}
                                   ELSE {o.channel}

(* Mutant: the reader stays attached. *)
StillAttached(p) == attachIn

(* DetachChannels of ALT, ResetAttachmentIn of IN. *)
Detached(p) ==
  [c \in Chan |-> IF attachIn[c] = p /\ c \in Attachable(op[p]) THEN NoProc
                                                                ELSE attachIn[c]]

(* Mutant: the arguments are dropped. *)
ArgumentsLost(o, c, args) ==
  [o EXCEPT !.argumentsMoved = TRUE,
            !.caseTriggered = IF o.kind = "ALT" THEN FindCaseForChannel(o, c)
                                                ELSE 0]

MoveChannelArguments(o, c, args) ==
  [o EXCEPT !.arguments = args, !.argumentsMoved = TRUE,
            !.caseTriggered = IF o.kind = "ALT" THEN FindCaseForChannel(o, c)
                                                ELSE 0]

CloseCase(o, i) ==
  [o EXCEPT !.cases[i] = [@ EXCEPT !.channel = NoChan, !.closure = FALSE]]

(* CloseChannel of IN, RANGE and OUT. *)
CloseArguments(o) == [o EXCEPT !.arguments = NoArgs, !.argumentsMoved = TRUE]

(* Mutant: an ALT does not notice that a case was closed. *)
CaseKept(o, c) == IF o.kind = "ALT" THEN o ELSE CloseArguments(o)

CloseInput(o, c) ==
  IF o.kind = "ALT" THEN CloseCase(o, FindCaseForChannel(o, c))
                    ELSE CloseArguments(o)

----------------------------------------------------------------------------
(***************************************************************************)
(* Programs that begin no operation on a channel they have closed (no      *)
(* "reuse" among the calls) are told apart from those that do: the code    *)
(* does not check it.                                                      *)
(***************************************************************************)
MayUse(c) == ~isClosed[c] \/ "reuse" \in Calls

(***************************************************************************)
(* The calls ch:IN, ch:RANGE's iterator and ch:OUT.  On a channel that is  *)
(* in such an operation already Init fails after the channel was           *)
(* referenced, and the destructor asserts that it is not.                  *)
(***************************************************************************)
ChannelOp(kind, c, args) ==
  [NoOp EXCEPT !.kind = kind, !.channel = c, !.arguments = args]

In(p, kind) ==
  /\ InLua(p, kind)
  /\ \E c \in Chan :
       /\ MayUse(c) /\ ~InAttached(c)
       /\ attachIn' = [attachIn EXCEPT ![c] = p]
       /\ Yield(p, ChannelOp(kind, c, NoArgs))
  /\ thread' = [thread EXCEPT ![p] = "yield"]
  /\ UNCHANGED <<parent, attachOut, isClosed>>

Out(p) ==
  /\ InLua(p, "OUT")
  /\ \E c \in Chan, v \in Val :
       /\ MayUse(c) /\ ~OutAttached(c)
       /\ attachOut' = [attachOut EXCEPT ![c] = p]
       /\ Yield(p, ChannelOp("OUT", c, v))
  /\ thread' = [thread EXCEPT ![p] = "yield"]
  /\ UNCHANGED <<parent, attachIn, isClosed>>

(* A program that does not keep to one reader and one writer at a time. *)
Busy(p) ==
  /\ InLua(p, "busy")
  /\ \E c \in Chan : InAttached(c) \/ OutAttached(c)
  /\ failed' = "channel_ref"
  /\ UNCHANGED <<thread, parent, op, stack, isOnStack, running, result,
                 hostVars, chanVars>>

----------------------------------------------------------------------------
(* Mutant: the reader first. *)
ReaderFirst(writer, reader) == <<reader, writer>>
Partners(writer, reader)    == <<writer, reader>>

(***************************************************************************)
(* OpChannel::Communicate on channel c, from the Evaluate of its writer or *)
(* of its reader, whose process is reader: the arguments move, both ends   *)
(* detach, and first the writer, then the reader is pushed.                *)
(***************************************************************************)
Communicate(c, reader) ==
  LET in     == attachIn[c]
      writer == attachOut[c]
  IN
  IF in = NoProc
  THEN /\ PushEvalSteps("not_attached", Popped, PoppedFlags, <<>>)
       /\ UNCHANGED <<op, attachIn, attachOut>>
  ELSE /\ PushEvalSteps(IF op[in].arguments # NoArgs THEN "arguments_set"
                                                     ELSE "none",
                        Popped, PoppedFlags, Partners(writer, reader))
       /\ op' = [op EXCEPT
                   ![in] = MoveChannelArguments(@, c, op[writer].arguments),
                   ![writer] = CloseArguments(@)]
       /\ attachIn' = Detached(in)
       /\ attachOut' = [attachOut EXCEPT ![c] = NoProc]

EvalIn(p) ==
  LET o == op[p] IN
  /\ Evaluating(p) /\ o.kind \in {"IN", "RANGE"}
  /\ \/ /\ o.argumentsMoved
        /\ FinishOperation(p,
             [flag |-> IF o.kind = "IN" THEN "none"
                       ELSE IF isClosed[o.channel] THEN "nil" ELSE "true",
              arguments |-> o.arguments])
        /\ UNCHANGED <<attachIn, attachOut>>
     \/ /\ ~o.argumentsMoved /\ OutAttached(o.channel)
        /\ Communicate(o.channel, p)
        /\ UNCHANGED <<thread, parent, running, result, hostVars>>
     \/ /\ ~o.argumentsMoved /\ ~OutAttached(o.channel)
        /\ KeepWaiting
        /\ UNCHANGED <<attachIn, attachOut>>
  /\ UNCHANGED isClosed

EvalOut(p) ==
  LET o == op[p] IN
  /\ Evaluating(p) /\ o.kind = "OUT"
  /\ \/ /\ o.argumentsMoved
        /\ FinishOperation(p, NoResult)
        /\ UNCHANGED <<attachIn, attachOut>>
     \/ /\ ~o.argumentsMoved /\ InAttached(o.channel)
        /\ Communicate(o.channel, attachIn[o.channel])
        /\ UNCHANGED <<thread, parent, running, result, hostVars>>
     \/ /\ ~o.argumentsMoved /\ ~InAttached(o.channel)
        /\ KeepWaiting
        /\ UNCHANGED <<attachIn, attachOut>>
  /\ UNCHANGED isClosed

----------------------------------------------------------------------------
(***************************************************************************)
(* ch:close(): the input end, then the output end is pushed and detached.  *)
(* The Lua code that closes the channel goes on.                           *)
(***************************************************************************)
Close(p) ==
  /\ InLua(p, "close")
  /\ \E c \in Chan :
       LET in  == attachIn[c]
           out == attachOut[c]
       IN
       /\ isClosed' = [isClosed EXCEPT ![c] = TRUE]
       /\ PushEvalSteps("none", stack, isOnStack,
                        (IF in = NoProc THEN <<>> ELSE <<in>>) \o
                        (IF out = NoProc THEN <<>> ELSE <<out>>))
       /\ op' = [q \in Proc |-> IF q = in THEN CloseInput(op[q], c)
                                ELSE IF q = out THEN CloseArguments(op[q])
                                ELSE op[q]]
       /\ attachIn' = [attachIn EXCEPT ![c] = NoProc]
       /\ attachOut' = [attachOut EXCEPT ![c] = NoProc]
  /\ UNCHANGED <<thread, parent, running, result, hostVars>>

ChannelCall(p) ==
  \/ \E kind \in {"IN", "RANGE"} : In(p, kind)
  \/ Out(p) \/ Busy(p) \/ Close(p)
ChannelEvaluate(p) == EvalIn(p) \/ EvalOut(p)
============================================================================
