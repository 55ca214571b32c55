----------------------------- MODULE Coroutines -----------------------------
(***************************************************************************)
(* What coroutines and protected calls promise to a program.  Each thread  *)
(* is a stack of calls; the threads that resumed each other form a chain,  *)
(* the last of which runs.  An error goes to the innermost pcall of its    *)
(* thread, and ends the thread if there is none.  A thread may yield       *)
(* unless a C function that called back, or a message handler, is active   *)
(* in it.  There is no C stack here; any call may fail for want of one.    *)
(***************************************************************************)
EXTENDS Integers, FiniteSets, SequencesExt

CONSTANTS Coroutines,
          Main

VARIABLE a      \* [fr, life, chain, last], see CoroutinesInit

Threads == {Main} \cup Coroutines
LuaCall(handler) == [f |-> "lua", handler |-> handler, op |-> "none", left |-> 0]
CCall(f, handler) == [f |-> f, handler |-> handler]

CoroutinesInit ==
  a = [fr    |-> [t \in Threads |-> IF t = Main THEN <<LuaCall(FALSE)>> ELSE <<>>],
       life  |-> [t \in Threads |-> IF t = Main THEN "active" ELSE "unborn"],
       chain |-> <<Main>>,
       last  |-> <<Main, <<"start", TRUE, "">>, Main>>]

Runs(x) == Last(x.chain)
Push(x, fr) == [x EXCEPT !.fr[Runs(x)] = Append(@, fr)]
Pop(x) == [x EXCEPT !.fr[Runs(x)] = Front(@)]
Top(x) == Last(x.fr[Runs(x)])
Gets(x, v) == [x EXCEPT !.last = <<Runs(x), v, Main>>]
SetOp(x, op, left) ==
  [x EXCEPT !.fr[Runs(x)][Len(x.fr[Runs(x)])] = [@ EXCEPT !.op = op, !.left = left]]
Deliver(x, v) == Gets(SetOp(x, "none", 0), v)

Yieldable(x) ==
  /\ Runs(x) # Main
  /\ \A fr \in Range(x.fr[Runs(x)]) : fr.f # "callback" /\ ~(fr.f = "lua" /\ fr.handler)
Pcalls(x) == {n \in DOMAIN x.fr[Runs(x)] : x.fr[Runs(x)][n].f = "pcall"}
Innermost(x) == Max(Pcalls(x))
Handled(x) == Pcalls(x) # {} /\ x.fr[Runs(x)][Innermost(x)].handler

(***************************************************************************)
(* The outcomes of an error and of a call.                                 *)
(***************************************************************************)
RECURSIVE Raised(_, _)
ResumeFails(x, msg) ==
  IF Top(x).f = "resume" THEN {Deliver(Pop(x), <<"resume", FALSE, msg>>)} ELSE Raised(x, msg)
Ends(x, life) ==
  [x EXCEPT !.fr[Runs(x)] = <<>>, !.life[Runs(x)] = life, !.chain = Front(@)]
Caught(x, msg) ==
  IF Pcalls(x) # {}
  THEN {Deliver([x EXCEPT !.fr[Runs(x)] = SubSeq(@, 1, Innermost(x) - 1)],
                <<"pcall", FALSE, msg>>)}
  ELSE IF Runs(x) = Main THEN {Gets([x EXCEPT !.fr[Main] = <<>>], <<"host", FALSE, msg>>)}
  ELSE ResumeFails(Ends(x, "dead"), msg)
Raised(x, msg) ==
  IF Handled(x) THEN {Push(x, LuaCall(TRUE))} \cup Caught(x, "error in error handling")
  ELSE Caught(x, msg)
Overflows(x) == Raised(x, "C stack overflow") \cup Caught(x, "error in error handling")
Calls(x) == {Push(x, LuaCall(FALSE))} \cup Overflows(x)

(***************************************************************************)
(* What a Lua function does.                                               *)
(***************************************************************************)
Live(x) == x.fr[Main] # <<>>

CallC(f) ==
  \E handler \in {FALSE} \cup (IF f = "pcall" THEN {TRUE} ELSE {}) :
    a' \in Calls(Push(SetOp(a, "call", 0), CCall(f, handler)))
CallLua == a' = Push(SetOp(a, "call", 0), LuaCall(FALSE))
Operate(op) == a' \in Calls(SetOp(a, op, IF op = "CONCAT" THEN 3 ELSE 0))
Error == a' \in Raised(Push(SetOp(a, "call", 0), CCall("error", FALSE)), "error")

Resumer(x, v) == Deliver(Pop(x), <<Top(x).f, TRUE, v>>)
OpResult(op, v) == IF op = "LE" THEN (IF v = "true" THEN "false" ELSE "true") ELSE v
Return(v) ==
  LET x == Pop(a)
  IN IF Top(a).handler THEN a' \in Caught(a, "handled")
     ELSE IF x.fr[Runs(x)] = <<>>
     THEN a' = IF Runs(x) = Main THEN Gets(x, <<"host", TRUE, v>>) ELSE Resumer(Ends(x, "dead"), v)
     ELSE CASE Top(x).f = "pcall" -> a' = Deliver(Pop(x), <<"pcall", TRUE, v>>)
            [] Top(x).f \in {"callback", "dofile"} -> a' = Deliver(Pop(x), <<Top(x).f, TRUE, v>>)
            [] Top(x).f = "lua" /\ Top(x).op = "CONCAT" /\ Top(x).left > 2 ->
                 a' \in Calls(SetOp(x, "CONCAT", Top(x).left - 1))
            [] OTHER -> a' = Deliver(x, <<Top(x).op, TRUE, OpResult(Top(x).op, v)>>)

Yield(v) ==
  LET x == Push(SetOp(a, "call", 0), CCall("yield", FALSE))
  IN IF Yieldable(x)
     THEN a' = Resumer([x EXCEPT !.life[Runs(x)] = "suspended", !.chain = Front(@)], v)
     ELSE a' \in Raised(x, IF Runs(x) = Main THEN "outside" ELSE "boundary")

\* The coroutine goes on behind its yield.
GoesOn(x, co) ==
  Deliver([x EXCEPT !.chain = Append(@, co), !.life[co] = "active", !.fr[co] = Front(@)],
          <<"yield", TRUE, "true">>)
Starts(x, co) ==
  [x EXCEPT !.chain = Append(@, co), !.life[co] = "active", !.fr[co] = <<LuaCall(FALSE)>>]
\* A thread that waits in wrap is refused as if it were dead.
Refusal(x, co) == IF Last(x.fr[co]).f = "wrap" THEN "dead" ELSE "non-suspended"
Resume(co, f) ==
  LET x == Push(SetOp(a, "call", 0), CCall(f, FALSE))
  IN \/ a.life[co] = "new" /\ a' = Starts(x, co)
     \/ a.life[co] = "suspended" /\ a' = GoesOn(x, co)
     \/ a.life[co] = "active" /\ a' \in ResumeFails(x, Refusal(x, co))
     \/ a.life[co] = "dead" /\ a' \in ResumeFails(x, "dead")
     \/ a.life[co] # "unborn" /\ a' \in ResumeFails(x, "C stack overflow")
Create(co) == a.life[co] = "unborn" /\ a' = [a EXCEPT !.life[co] = "new", !.last = <<Runs(a), <<"create", TRUE, "">>, co>>]
StatusOf(co) ==
  CASE co = Runs(a) -> "running"
    [] a.life[co] = "active" -> "normal"
    [] a.life[co] = "dead" -> "dead"
    [] OTHER -> "suspended"
Status(co) == a.life[co] # "unborn" /\ a' = [a EXCEPT !.last = <<Runs(a), <<"status", TRUE, StatusOf(co)>>, co>>]

CoroutinesNext ==
  /\ a' # a /\ Live(a)
  /\ \/ \E f \in {"pcall", "callback", "dofile"} : CallC(f)
     \/ CallLua
     \/ \E op \in {"ADD", "LT", "LE", "CONCAT"} : Operate(op)
     \/ Error
     \/ Return("true") \/ Yield("true")
     \/ \E co \in Threads : Status(co) \/ \E f \in {"resume", "wrap"} : Resume(co, f)
     \/ \E co \in Coroutines : Create(co)

CoroutinesSpec == CoroutinesInit /\ [][CoroutinesNext]_a
=============================================================================
