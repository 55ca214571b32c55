---------------------------- MODULE LuaCoroutine ----------------------------
(***************************************************************************)
(* Coroutines and protected calls (ldo.c, lcorolib.c, pcall and dofile of  *)
(* lbaselib.c, lua_callk and lua_pcallk of lapi.c, luaV_finishOp).  A Lua  *)
(* function runs in luaV_execute on the C stack.  A yield and an error     *)
(* jump to the latest protected call of the thread and drop the C stack    *)
(* above; what the dropped C functions had left to do is done by unroll    *)
(* when the coroutine is resumed, or when it recovers from the error.      *)
(***************************************************************************)
EXTENDS Integers, FiniteSets, SequencesExt

CONSTANTS
  Coroutines,     \* a set of positive integers; 0 is the main thread
  MaxCCalls,      \* LUAI_MAXCCALLS
  ExtraCCalls,    \* the calls beyond it for handling the overflow
  MaxCalls,       \* bound: the calls a program makes
  Programs        \* each a set of calls a program uses

VARIABLES lua,      \* [th, cs, last, fault], see CoroutineInit
          calls,  \* the calls made so far
          uses    \* the calls the program uses
coVars == <<lua, calls, uses>>

Main == 0
Threads == {Main} \cup Coroutines
LuaFrame(fresh, handler) ==     \* fresh: not CIST_REENTRY
  [f |-> "lua", fresh |-> fresh, handler |-> handler, op |-> "none", left |-> 0]
CFrame(f, handler) ==
  [f |-> f, handler |-> handler, k |-> FALSE, ypcall |-> FALSE, stat |-> "OK", oldef |-> 0]
Thread == [status |-> "OK", nny |-> 1, ncc |-> 0, errfunc |-> 0, ci |-> <<>>, top |-> 0]

\* The C stack holds the calls of luaD_pcall and lua_resume, which set
\* errorJmp, and of luaD_call.  The host has called a Lua function.
Protected(a, t, th) ==
  [a |-> a, t |-> t, nny |-> th.nny, ncc |-> th.ncc, errfunc |-> th.errfunc, len |-> Len(th.ci)]
Unprotected(t, allow) == [a |-> "call", t |-> t, allow |-> allow]
\* What a Lua function got: <<from, success, value, thread asked about>>.
Got(t, r) == <<t, r, Main>>
CoroutineInit ==
  /\ lua = [th |-> [t \in Threads |->
                    IF t = Main THEN [Thread EXCEPT !.nny = 2, !.ncc = 1, !.ci = <<LuaFrame(TRUE, FALSE)>>]
                    ELSE [Thread EXCEPT !.status = "unborn"]],
          cs |-> <<Unprotected(Main, FALSE), Protected("pcall", Main, Thread), Unprotected(Main, FALSE)>>,
          last |-> Got(Main, <<"start", TRUE, "">>), fault |-> "none"]
  /\ calls = 0
  /\ uses \in Programs

Running(x) == Last(x.cs).t
L(x) == x.th[Running(x)]
TopCI(x) == Last(L(x).ci)
PushCI(x, fr) == [x EXCEPT !.th[Running(x)].ci = Append(@, fr)]
PopCI(x) == [x EXCEPT !.th[Running(x)].ci = Front(@)]
SetTop(x, fr) == [x EXCEPT !.th[Running(x)].ci = Append(Front(@), fr)]
PushC(x, act) == [x EXCEPT !.cs = Append(@, act)]
PopC(x) == [x EXCEPT !.cs = Front(@)]
SetOp(x, op, left) == SetTop(x, [TopCI(x) EXCEPT !.op = op, !.left = left])
Deliver(x, v) == [SetOp(x, "none", 0) EXCEPT !.last = Got(Running(x), v)]
Checked(x, b) == IF b THEN x ELSE [x EXCEPT !.fault = "assert"]

\* Calls between the functions below that may come back to the caller.
RECURSIVE Go(_, _, _)

(***************************************************************************)
(* Calls and errors.                                                       *)
(***************************************************************************)
EnterCall(x, allow, handler) ==
  PushC([PushCI(x, LuaFrame(TRUE, handler)) EXCEPT !.th[Running(x)].nny = @ + (IF allow THEN 0 ELSE 1)],
        Unprotected(Running(x), allow))
CountedCall(x, allow, handler) ==
  IF L(x).ncc = MaxCCalls THEN Go("raise", PushC(x, Unprotected(Running(x), TRUE)), "C stack overflow")
  ELSE IF L(x).ncc >= MaxCCalls + ExtraCCalls THEN Go("throw", x, <<"ERRERR", "error in error handling">>)
  ELSE EnterCall(x, allow, handler)
Call(x, allow, handler) == CountedCall([x EXCEPT !.th[Running(x)].ncc = @ + 1], allow, handler)

Errormsg(x, msg) ==
  IF L(x).errfunc = 0 THEN Go("throw", x, <<"ERRRUN", msg>>) ELSE Call(x, FALSE, TRUE)

ErrorJmp(x) == Max({n \in DOMAIN x.cs : x.cs[n].t = Running(x) /\ x.cs[n].a \in {"pcall", "resume"}})
ThrowUncounted(x, e) ==                                           \* a mutant
  Go(x.cs[ErrorJmp(x)].a, [x EXCEPT !.cs = SubSeq(@, 1, ErrorJmp(x))], e)
Throw(x, e) ==
  LET n == ErrorJmp(x)
  IN Go(x.cs[n].a, [x EXCEPT !.cs = SubSeq(@, 1, n), !.th[Running(x)].ncc = x.cs[n].ncc], e)

\* The pcall at the top returns to the Lua function that called it; the
\* outermost one returns to the host.
Return1(x, v) == Deliver(PopCI(x), v)
FinishPcall(x, ok, v) ==
  IF L(x).ci = <<>> THEN [x EXCEPT !.last = Got(Main, <<"host", ok, v>>)]
  ELSE Return1(x, <<"pcall", ok, v>>)
\* luaD_pcall has caught an error.
PcallFails(x, e) ==
  LET act == Last(x.cs)
  IN FinishPcall([PopC(x) EXCEPT !.th[act.t].ci = SubSeq(@, 1, act.len), !.th[act.t].nny = act.nny,
                                 !.th[act.t].errfunc = act.errfunc], FALSE, e[2])
PcallReturns(x, v) ==
  FinishPcall([PopC(x) EXCEPT !.th[Running(x)].errfunc = Last(x.cs).errfunc], TRUE, v)
YpcallReturns(x, v) ==
  FinishPcall([x EXCEPT !.th[Running(x)].errfunc = TopCI(x).oldef], TRUE, v)

Pcallk(x, handler) ==
  IF L(x).nny > 0
  THEN Call([PushC(x, Protected("pcall", Running(x), L(x))) EXCEPT !.th[Running(x)].errfunc = handler],
            FALSE, FALSE)
  ELSE Call([SetTop(x, [TopCI(x) EXCEPT !.k = TRUE, !.ypcall = TRUE, !.oldef = L(x).errfunc])
               EXCEPT !.th[Running(x)].errfunc = handler], TRUE, FALSE)
Callk(x, k) ==
  IF k /\ L(x).nny = 0 THEN Call(SetTop(x, [TopCI(x) EXCEPT !.k = TRUE]), TRUE, FALSE)
  ELSE Call(x, FALSE, FALSE)

(***************************************************************************)
(* An operation of a Lua function for which a metamethod was called.       *)
(***************************************************************************)
Not(v) == IF v = "true" THEN "false" ELSE "true"
CallTM(x) == Call(x, TRUE, FALSE)
Concat(x, total) == CallTM(SetOp(x, "CONCAT", total))
InPlace(x, v) ==
  LET op == TopCI(x).op
  IN IF op = "CONCAT" /\ TopCI(x).left > 2 THEN Concat(x, TopCI(x).left - 1)
     ELSE Deliver(x, <<op, TRUE, IF op = "LE" THEN Not(v) ELSE v>>)    \* not b < a
FinishOpPlain(x, v) ==                                            \* a mutant
  IF TopCI(x).op = "CONCAT" /\ TopCI(x).left - 1 > 1 THEN Concat(x, TopCI(x).left - 1)
  ELSE Deliver(x, <<TopCI(x).op, TRUE, v>>)
FinishOp(x, v) ==
  LET op == TopCI(x).op
  IN CASE op = "LE" -> Deliver(x, <<op, TRUE, Not(v)>>)
       [] op = "CONCAT" /\ TopCI(x).left - 1 > 1 -> Concat(x, TopCI(x).left - 1)
       [] OTHER -> Deliver(Checked(x, op # "none"), <<op, TRUE, v>>)

(***************************************************************************)
(* Resuming and yielding.                                                  *)
(***************************************************************************)
\* lua_resume ends; auxresume moves the values to the thread that resumed.
ResumeEnds(x, ok, v) ==
  LET act == Last(x.cs)
      z   == [PopC(x) EXCEPT !.th[act.t].nny = act.nny, !.th[act.t].ncc = @ - 1]
      y   == Checked(z, z.th[act.t].ncc = L(z).ncc)
  IN IF ok \/ TopCI(y).f = "resume" THEN Return1(y, <<TopCI(y).f, ok, v>>)
     ELSE Go("raise", y, v)
AuxResumeFails(x, v) ==
  IF TopCI(x).f = "resume" THEN Return1(x, <<"resume", FALSE, v>>) ELSE Errormsg(x, v)

FindPcall(x) == {n \in DOMAIN L(x).ci : L(x).ci[n].f = "pcall" /\ L(x).ci[n].ypcall}
RecoverAtLocked(x, n, e) ==                                       \* a mutant
  Go("unroll", [x EXCEPT !.th[Running(x)].ci = Append(SubSeq(@, 1, n - 1), [@[n] EXCEPT !.stat = e[1]]),
                         !.th[Running(x)].errfunc = L(x).ci[n].oldef], <<"error", FALSE, e[2]>>)
RecoverAt(x, n, e) ==
  LET ci == L(x).ci
  IN Go("unroll", [x EXCEPT !.th[Running(x)].ci = Append(SubSeq(@, 1, n - 1), [ci[n] EXCEPT !.stat = e[1]]),
                            !.th[Running(x)].nny = 0,
                            !.th[Running(x)].errfunc = ci[n].oldef], <<"error", FALSE, e[2]>>)
ResumeLands(x, e) ==
  CASE e[1] = "YIELD" -> ResumeEnds(x, TRUE, e[2])
    [] e[1] = "BADRESUME" -> ResumeEnds(x, FALSE, e[2])
    [] e[1] \notin {"YIELD", "BADRESUME"} /\ FindPcall(x) # {} -> RecoverAt(x, Max(FindPcall(x)), e)
    [] OTHER -> ResumeEnds([x EXCEPT !.th[Running(x)].status = e[1]], FALSE, e[2])

\* A C function that was interrupted: its continuation returns to the caller.
FinishCcall(x, v) ==
  LET fr == TopCI(x)
      y  == PopCI(Checked(x, fr.k /\ L(x).nny = 0))
  IN IF ~fr.ypcall THEN Go("unroll", y, <<fr.f, TRUE, v[3]>>)
     ELSE Go("unroll", [y EXCEPT !.th[Running(x)].errfunc = fr.oldef], <<"pcall", fr.stat = "OK", v[3]>>)
CoroutineEnds(x, v) ==
  ResumeEnds(Checked([x EXCEPT !.th[Running(x)].top = 0], L(x).ncc = Last(x.cs).ncc), TRUE, v)
Unroll(x, v) ==
  IF L(x).ci = <<>> THEN CoroutineEnds(x, v[3])
  ELSE IF TopCI(x).f = "lua" THEN
    (IF TopCI(x).op = "call" THEN Deliver(x, v) ELSE FinishOp(x, v[3]))
  ELSE FinishCcall(x, v)

\* The body of lua_resume, in the coroutine.
StartOrGoOn(x) ==
  CASE L(x).ncc >= MaxCCalls -> Throw(x, <<"BADRESUME", "C stack overflow">>)
    [] L(x).ncc < MaxCCalls /\ L(x).status = "OK" ->
         IF L(x).ci # <<>> THEN Throw(x, <<"BADRESUME", "non-suspended">>)
         ELSE PushCI(x, LuaFrame(TRUE, FALSE))
    [] L(x).ncc < MaxCCalls /\ L(x).status = "YIELD" ->
         Unroll(PopCI([x EXCEPT !.th[Running(x)].status = "OK"]), <<"yield", TRUE, "true">>)
    [] OTHER -> Throw(x, <<"BADRESUME", "dead">>)
LuaResume(x, co) ==
  LET th == [x.th[co] EXCEPT !.ncc = L(x).ncc + 1]
  IN StartOrGoOn(PushC([x EXCEPT !.th[co] = [th EXCEPT !.nny = 0]], Protected("resume", co, th)))
\* The values on the stack of co above its latest call, as counted before the
\* arguments are moved: resume has the coroutine as its argument, wrap none.
GetTop(x, co) ==
  LET ci == x.th[co].ci
  IN IF ci = <<>> THEN x.th[co].top ELSE IF Last(ci).f = "wrap" THEN 0 ELSE 1
AuxResume(x, co) ==
  IF x.th[co].status = "OK" /\ GetTop(x, co) = 0 THEN AuxResumeFails(x, "dead")
  ELSE LuaResume(x, co)

Yieldk(x, v) ==
  IF L(x).nny > 0 THEN Errormsg(x, IF Running(x) = Main THEN "outside" ELSE "boundary")
  ELSE Throw([x EXCEPT !.th[Running(x)].status = "YIELD"], <<"YIELD", v>>)

Go(what, x, v) ==
  CASE what = "raise"  -> Errormsg(x, v)
    [] what = "throw"  -> Throw(x, v)
    [] what = "pcall"  -> PcallFails(x, v)
    [] what = "resume" -> ResumeLands(x, v)
    [] what = "unroll" -> Unroll(x, v)

(***************************************************************************)
(* A Lua function returns: to the luaV_execute that runs it, or from it to *)
(* unroll or to the C function that called luaD_call.                      *)
(***************************************************************************)
EndCall(x) ==
  [PopC(x) EXCEPT !.th[Running(x)].nny = @ - (IF Last(x.cs).allow THEN 0 ELSE 1),
                  !.th[Running(x)].ncc = @ - 1]
ToCaller(x, v) ==
  IF L(x).ci = <<>> THEN PcallReturns(x, v)
  ELSE CASE TopCI(x).f = "lua" -> InPlace(x, v)
         [] TopCI(x).f = "pcall" /\ TopCI(x).ypcall -> YpcallReturns(x, v)
         [] TopCI(x).f = "pcall" /\ ~TopCI(x).ypcall -> PcallReturns(x, v)
         [] OTHER -> Return1(x, <<TopCI(x).f, TRUE, v>>)
LuaReturns(x, fr, v) ==
  IF ~fr.fresh THEN InPlace(x, v)
  ELSE IF Last(x.cs).a = "resume" THEN Unroll(x, <<"return", TRUE, v>>)
  ELSE IF fr.handler THEN Throw(EndCall(x), <<"ERRRUN", "handled">>)
  ELSE ToCaller(EndCall(x), v)

(***************************************************************************)
(* What the running Lua function does.                                     *)
(***************************************************************************)
Ready == lua.th[Main].ci # <<>>
InC(f, handler) == PushCI(SetOp(lua, "call", 0), CFrame(f, handler))
Makes(call) ==
  Ready /\ call \in uses /\ calls < MaxCalls /\ calls' = calls + 1 /\ UNCHANGED uses

Lua_call == Makes("lua") /\ lua' = PushCI(SetOp(lua, "call", 0), LuaFrame(FALSE, FALSE))
Lua_pcall(handler) ==
  /\ Makes(IF handler THEN "xpcall" ELSE "pcall")
  /\ lua' = Pcallk(InC("pcall", handler), IF handler THEN Len(L(lua).ci) + 1 ELSE 0)
Lua_dofile == Makes("dofile") /\ lua' = Callk(InC("dofile", FALSE), TRUE)
Lua_callback == Makes("callback") /\ lua' = Callk(InC("callback", FALSE), FALSE)
Lua_operation(op) ==
  Makes(op) /\ lua' = IF op = "CONCAT" THEN Concat(lua, 3) ELSE CallTM(SetOp(lua, op, 0))
Lua_error == Makes("error") /\ lua' = Errormsg(InC("error", FALSE), "error")
Lua_return ==
  Ready /\ lua' = LuaReturns(PopCI(lua), TopCI(lua), "true") /\ UNCHANGED <<calls, uses>>
Lua_yield == Makes("yield") /\ lua' = Yieldk(InC("yield", FALSE), "true")
Busy(co) == \E n \in DOMAIN lua.cs : lua.cs[n].t = co
Lua_resume(co, f) ==
  /\ Makes(f) /\ lua.th[co].status # "unborn"
  /\ Busy(co) => "busy" \in uses
  /\ f = "wrap" => co \in Coroutines
  /\ lua' = AuxResume(InC(f, FALSE), co)
Lua_create(co) ==
  /\ Makes("create") /\ lua.th[co].status = "unborn"
  /\ \A c \in Coroutines : c < co => lua.th[c].status # "unborn"
  /\ lua' = [lua EXCEPT !.th[co].status = "OK", !.th[co].top = 1,
                    !.last = <<Running(lua), <<"create", TRUE, "">>, co>>]
Costatus(co) ==
  CASE co = Running(lua) -> "running"
    [] co # Running(lua) /\ lua.th[co].status = "YIELD" -> "suspended"
    [] co # Running(lua) /\ lua.th[co].status = "OK" ->
         IF lua.th[co].ci # <<>> THEN "normal" ELSE IF lua.th[co].top = 0 THEN "dead" ELSE "suspended"
    [] OTHER -> "dead"
Lua_status(co) ==
  /\ Makes("status") /\ lua.th[co].status # "unborn"
  /\ lua' = [lua EXCEPT !.last = <<Running(lua), <<"status", TRUE, Costatus(co)>>, co>>]

CoroutineNext ==
  \/ Lua_call \/ Lua_dofile \/ Lua_callback \/ Lua_error \/ Lua_return \/ Lua_yield
  \/ \E handler \in BOOLEAN : Lua_pcall(handler)
  \/ \E op \in {"ADD", "LT", "LE", "CONCAT"} : Lua_operation(op)
  \/ \E co \in Threads : Lua_status(co) \/ \E f \in {"resume", "wrap"} : Lua_resume(co, f)
  \/ \E co \in Coroutines : Lua_create(co)
CoroutineSpec == CoroutineInit /\ [][CoroutineNext]_coVars

(***************************************************************************)
(* What must hold.                                                         *)
(***************************************************************************)
ResumeChain == SelectSeq([n \in DOMAIN lua.cs |->
                      IF n = 1 THEN Main ELSE IF lua.cs[n].a = "resume" THEN lua.cs[n].t ELSE -1],
                   LAMBDA t : t >= 0)
AbsFrame(fr) ==
  IF fr.f = "lua" THEN [f |-> "lua", handler |-> fr.handler, op |-> fr.op, left |-> fr.left]
  ELSE [f |-> fr.f, handler |-> fr.handler]
AbsLife(t) ==
  CASE lua.th[t].status = "unborn" -> "unborn"
    [] lua.th[t].status = "YIELD" -> "suspended"
    [] lua.th[t].status = "OK" ->
         IF t \in {ResumeChain[n] : n \in DOMAIN ResumeChain} THEN "active" ELSE IF lua.th[t].top = 1 THEN "new" ELSE "dead"
    [] OTHER -> "dead"
AbsFrames(t) ==
  IF AbsLife(t) = "dead" THEN <<>> ELSE FoldLeft(LAMBDA c, fr : Append(c, AbsFrame(fr)), <<>>, lua.th[t].ci)
Promise == INSTANCE Coroutines WITH
  a <- [fr |-> (Main :> AbsFrames(Main)) @@ [t \in Coroutines |-> AbsFrames(t)],
        life |-> (Main :> "active") @@ [t \in Coroutines |-> AbsLife(t)],
        chain |-> ResumeChain, last |-> lua.last]

\* Programs see the coroutines of the module Coroutines: each yield, error and
\* return reaches the frame it belongs to with the value it carries, although
\* the C functions in between are gone and only continuations, saved fields of
\* their CallInfo and finished operations stand for them (ldo.c, lvm.c).
ImplementsCoroutines == Promise!CoroutinesSpec


\* nCcalls counts the C calls below the latest one of each running thread, after
\* every error and yield that dropped some: no limit is used up or lost.
CallsBelow(n) == {m \in 1 .. n : m > 1 /\ lua.cs[m].a \in {"call", "resume"}}
CCallsCounted ==
  \A n \in DOMAIN lua.cs :
    (\A m \in DOMAIN lua.cs : m > n => lua.cs[m].t # lua.cs[n].t) =>
      lua.th[lua.cs[n].t].ncc = Cardinality(CallsBelow(n))

\* The assertions of ldo.c and lvm.c hold: nCcalls is what it was when a resume
\* returns and when a coroutine ends, an interrupted C function has a
\* continuation and may yield, an interrupted operation is a known one.
NoAssertFails == lua.fault = "none"
=============================================================================
