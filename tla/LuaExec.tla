------------------------------ MODULE LuaExec ------------------------------
(***************************************************************************)
(* The virtual machine of Lua (luaV_execute in lvm.c, with luaD_precall,   *)
(* luaD_poscall and the upvalues of lfunc.c).  A machine m has the stack,  *)
(* the frames (CallInfo), the closures, the upvalues and a world w: the    *)
(* tables and the calls of C functions made so far.  Values have no        *)
(* metatables, and a C function calls nobody.                              *)
(***************************************************************************)
EXTENDS LuaParser, TLC

CONSTANT Fuel                \* bound: instructions executed

ErrV == <<"err">>
Fun(f) == <<"fun", f>>
Closure(id) == <<"closure", id>>
Truthy(v) == v # NilV /\ v # Bool(FALSE)

IsNum(v) == v[1] = "num"
IsStr(v) == v[1] = "str"
\* A string is the list of its characters; strings are compared in the order of
\* the characters below.
Alphabet == <<"-", "0", "1", "2", "3", "4", "5", "6", "7", "8", "9", "k">>
Ord(c) == CHOOSE n \in DOMAIN Alphabet : Alphabet[n] = c
Before(s, t) ==
  \E n \in DOMAIN t :
    /\ n <= Len(s) + 1 /\ SubSeq(s, 1, n - 1) = SubSeq(t, 1, n - 1)
    /\ n <= Len(s) => Ord(s[n]) < Ord(t[n])
RECURSIVE Numeral(_)
Numeral(n) ==
  IF n < 0 THEN <<"-">> \o Numeral(0 - n)
  ELSE IF n < 10 THEN <<Alphabet[n + 2]>> ELSE Numeral(n \div 10) \o Numeral(n % 10)
StrOf(v) == IF IsNum(v) THEN Numeral(v[2]) ELSE v[2]
ArithV(op, a, b) == IF IsNum(a) /\ IsNum(b) THEN Num(ArithOf(op, a[2], b[2])) ELSE ErrV
ConcatOf(a, b) ==
  IF {a[1], b[1]} \subseteq {"num", "str"} THEN <<"str", StrOf(a) \o StrOf(b)>> ELSE ErrV
LessThan(a, b) ==
  CASE IsNum(a) /\ IsNum(b) -> Bool(a[2] < b[2])
    [] IsStr(a) /\ IsStr(b) -> Bool(Before(a[2], b[2]))
    [] OTHER -> ErrV
LessEqual(a, b) ==
  CASE IsNum(a) /\ IsNum(b) -> Bool(a[2] <= b[2])
    [] IsStr(a) /\ IsStr(b) -> Bool(~Before(b[2], a[2]))
    [] OTHER -> ErrV
CompV(op, a, b) ==
  CASE op = "EQ" -> Bool(a = b)
    [] op = "LT" -> LessThan(a, b)
    [] op = "LE" -> LessEqual(a, b)
\* A border of a table: with holes, any border will do (LuaTable has which).
Border(h) == CHOOSE n \in 0..Cardinality(DOMAIN h) :
               (n > 0 => Num(n) \in DOMAIN h) /\ Num(n + 1) \notin DOMAIN h
UnaryV(w, op, v) ==
  CASE op = "UNM" /\ IsNum(v) -> Num(0 - v[2])
    [] op = "LEN" /\ IsStr(v) -> Num(Len(v[2]))
    [] op = "LEN" /\ v[1] = "tab" -> Num(Border(w.heap[v[2]]))
    [] OTHER -> ErrV

GetTable(w, t, key) ==
  IF t[1] # "tab" THEN ErrV
  ELSE IF key \in DOMAIN w.heap[t[2]] THEN w.heap[t[2]][key] ELSE NilV
CanSet(t, key) == t[1] = "tab" /\ key # NilV
NonNil(h) == [key \in {key \in DOMAIN h : h[key] # NilV} |-> h[key]]
SetTable(w, t, key, v) == [w EXCEPT !.heap[t[2]] = NonNil((key :> v) @@ @)]
\* The values vs at the integer keys behind n.
AppendTable(w, t, vs, n) ==
  [w EXCEPT !.heap[t[2]] =
     NonNil([key \in {Num(n + k) : k \in DOMAIN vs} |-> vs[key[2] - n]] @@ @)]
NewTable(w) == [w EXCEPT !.heap = Append(@, <<>>)]
TheNew(w) == <<"tab", Len(w.heap)>>

\* A C function logs its call and changes the global u; the iterator it ends
\* after the third call.
Globals == <<"tab", 1>>
Called(w, f, args) ==
  SetTable([w EXCEPT !.log = Append(@, <<f, args>>)], Globals, StrV("u"),
           Num(Len(w.log)))
Results(w, f) ==
  IF f # Fun("it") THEN w.ret
  ELSE IF Len(w.log) >= 3 THEN <<NilV>> ELSE <<Num(Len(w.log)), Bool(FALSE)>>
Adjust(vs, n) == [k \in 1..n |-> IF k <= Len(vs) THEN vs[k] ELSE NilV]

(***************************************************************************)
(* The machine.  st is "run", "return", "err" for a run-time error, and    *)
(* "crash" for an operand out of the frame or a jump that was never fixed. *)
(***************************************************************************)
StackSize == 40
Ci(m) == m.ci[Len(m.ci)]
Cl(m) == m.cls[Ci(m).cl]
P(m) == Cl(m).p
Base(m) == Ci(m).base
RV(m, r) == m.stack[Base(m) + r]
RKV(m, x) == IF ISK(x) THEN P(m).k[x - BitRK + 1] ELSE RV(m, x)
Fail(m) == [m EXCEPT !.st = "err"]
Put(m, r, v) == IF v = ErrV THEN Fail(m) ELSE [m EXCEPT !.stack[Base(m) + r] = v]
MovePc(m, n) == [m EXCEPT !.ci[Len(m.ci)].pc = @ + n]
Go(m, target) ==
  IF target = NoJump THEN [m EXCEPT !.st = "crash"] ELSE [m EXCEPT !.ci[Len(m.ci)].pc = target]
StoreAt(m, t, key, v) ==
  IF CanSet(t, key) THEN [m EXCEPT !.w = SetTable(@, t, key, v)] ELSE Fail(m)
\* The stack with the values vs from slot at on.
Write(stack, at, vs) ==
  [s \in DOMAIN stack |-> IF s >= at /\ s < at + Len(vs) THEN vs[s - at + 1] ELSE stack[s]]
Slots(m, from, to) == [k \in 1..(to - from) |-> m.stack[from + k - 1]]

(***************************************************************************)
(* Upvalues.  An open one has the slot of its variable, a closed one -1    *)
(* and the value.                                                          *)
(***************************************************************************)
Open(m, level) == {u \in DOMAIN m.upv : m.upv[u].at = level}
FindUpval(m, level) ==
  IF Open(m, level) # {} THEN m ELSE [m EXCEPT !.upv = Append(@, [at |-> level, v |-> NilV])]
UpvalAt(m, level) == CHOOSE u \in Open(m, level) : TRUE
Close(m, level) ==
  [m EXCEPT !.upv = [u \in DOMAIN @ |-> IF @[u].at >= level
                                        THEN [at |-> -1, v |-> m.stack[@[u].at]] ELSE @[u]]]
GetUp(m, u) == IF m.upv[u].at = -1 THEN m.upv[u].v ELSE m.stack[m.upv[u].at]
Up(m, n) == Cl(m).upvals[n + 1]
SetUp(m, u, v) ==
  IF m.upv[u].at = -1 THEN [m EXCEPT !.upv[u].v = v] ELSE [m EXCEPT !.stack[m.upv[u].at] = v]

\* The closure of a function is used again when it would get the same
\* variables: a closed upvalue is the same as itself only.
SameVariable(m, u, desc) ==
  IF desc.instack THEN m.upv[u].at = Base(m) + desc.idx
  ELSE \/ u = Up(m, desc.idx)
       \/ m.upv[u].at # -1 /\ m.upv[u].at = m.upv[Up(m, desc.idx)].at
Cached(m, path, p) ==
  {id \in {m.cache[path]} \ {0} :
     \A n \in DOMAIN p.ups : SameVariable(m, m.cls[id].upvals[n], p.ups[n])}
FindAll(m, ups) ==
  FoldLeft(LAMBDA d, desc : IF desc.instack THEN FindUpval(d, Base(d) + desc.idx) ELSE d, m, ups)
NewClosure(m, path, p) ==
  [m EXCEPT !.cls = Append(@,
     [p |-> p, path |-> path,
      upvals |-> [n \in DOMAIN p.ups |-> IF p.ups[n].instack
                                         THEN UpvalAt(m, Base(m) + p.ups[n].idx)
                                         ELSE Up(m, p.ups[n].idx)]]),
            !.cache = (path :> Len(m.cls) + 1) @@ @]
PushClosure(m, a, path, p) ==
  Put(NewClosure(FindAll(m, p.ups), path, p), a, Closure(Len(m.cls) + 1))
ClosureAt(m, a, path, p) ==
  IF path \in DOMAIN m.cache /\ Cached(m, path, p) # {}
  THEN Put(m, a, Closure(m.cache[path])) ELSE PushClosure(m, a, path, p)

(***************************************************************************)
(* Calls.                                                                  *)
(***************************************************************************)
\* The results are moved to the place of the function that is returning.
MoveResults(m, func, vs, wanted) ==
  [m EXCEPT !.stack = Write(@, func, vs), !.top = func + Len(vs)]
PosCall(m, func, vs, wanted) ==
  MoveResults(m, func, IF wanted = MultRet THEN vs ELSE Adjust(vs, wanted), wanted)
CCall(m, func, f, args, wanted) ==
  PosCall([m EXCEPT !.w = Called(@, f, args)], func, Results(m.w, f), wanted)

\* A vararg function works on copies of its parameters above the arguments.
Enter(m, func, base, cl, wanted) ==
  [m EXCEPT !.ci = Append(@, [func |-> func, base |-> base, cl |-> cl, pc |-> 0,
                              wanted |-> wanted]),
            !.top = base + m.cls[cl].p.maxstack]
AdjustVarargs(m, func, n) ==
  [m EXCEPT !.stack = Write(Write(@, func + 1, [k \in 1..n |-> NilV]), m.top,
                            Slots(m, func + 1, func + 1 + n))]
LuaCall(m, func, cl, wanted) ==
  IF m.cls[cl].p.vararg
  THEN Enter(AdjustVarargs(m, func, m.cls[cl].p.numparams), func, m.top, cl, wanted)
  ELSE Enter(m, func, func + 1, cl, wanted)
Missing(m, func, p) ==
  IF p.numparams > m.top - func - 1 THEN p.numparams - (m.top - func - 1) ELSE 0
Complete(m, n) ==
  [m EXCEPT !.stack = Write(@, m.top, [k \in 1..n |-> NilV]), !.top = @ + n]
Precall(m, func, wanted) ==
  CASE m.stack[func][1] = "fun" ->
         CCall(m, func, m.stack[func], Slots(m, func + 1, m.top), wanted)
    [] m.stack[func][1] = "closure" ->
         LuaCall(Complete(m, Missing(m, func, m.cls[m.stack[func][2]].p)), func,
                 m.stack[func][2], wanted)
    [] OTHER -> Fail(m)
SetTop(m, top) == [m EXCEPT !.top = top]
CiTop(m) == Base(m) + P(m).maxstack
\* The operand b of a call counts the arguments, 0 for all up to the top.
WithArgs(m, i) == IF i.b = 0 THEN m ELSE SetTop(m, Base(m) + i.a + i.b)
AfterCall(m, depth, wanted) ==   \* a C function has returned
  IF Len(m.ci) = depth /\ wanted # MultRet /\ m.st = "run" THEN SetTop(m, CiTop(m)) ELSE m
CallAt1(m, i) ==
  AfterCall(Precall(WithArgs(m, i), Base(m) + i.a, i.c - 1), Len(m.ci), i.c - 1)

\* The frame of the function called takes the place of the frame of its caller.
CloseFrame(m, p) == IF p.p # <<>> THEN Close(m, Base(m)) ELSE m
MoveFrame(m, new, old) ==
  [m EXCEPT !.stack = Write(@, old.func,
                            Slots(m, new.func, new.base + m.cls[new.cl].p.numparams)),
            !.ci = Append(SubSeq(@, 1, Len(@) - 2),
                          [new EXCEPT !.func = old.func, !.wanted = old.wanted,
                                      !.base = @ - (new.func - old.func)]),
            !.top = @ - (new.func - old.func)]
CloseCaller(m, old, p) == IF p.p # <<>> THEN Close(m, old.base) ELSE m
TailCalled(m, depth, old, p) ==
  IF Len(m.ci) = depth THEN m ELSE MoveFrame(CloseCaller(m, old, p), Ci(m), old)
TailCallAt(m, i) ==
  TailCalled(Precall(WithArgs(m, i), Base(m) + i.a, MultRet), Len(m.ci), Ci(m), P(m))

LeaveFunc(m, ci, vs) ==
  IF Len(m.ci) = 1 THEN [m EXCEPT !.st = "return", !.vs = vs]
  ELSE PosCall([m EXCEPT !.ci = SubSeq(@, 1, Len(@) - 1)], ci.func, vs, ci.wanted)
Returned(m, wanted) ==
  IF m.st = "run" /\ wanted # MultRet THEN SetTop(m, CiTop(m)) ELSE m
ReturnAt(m, i) ==
  Returned(LeaveFunc(CloseFrame(m, P(m)), Ci(m),
                 Slots(m, Base(m) + i.a, IF i.b = 0 THEN m.top ELSE Base(m) + i.a + i.b - 1)),
           Ci(m).wanted)

TForCall(m, i) ==
  AfterCall(Precall([m EXCEPT !.stack = Write(@, Base(m) + i.a + 3,
                                              Slots(m, Base(m) + i.a, Base(m) + i.a + 3)),
                              !.top = Base(m) + i.a + 6], Base(m) + i.a + 3, i.c),
            Len(m.ci), i.c)
TForLoop(m, i) ==
  IF RV(m, i.a + 1) = NilV THEN m ELSE Go(Put(m, i.a, RV(m, i.a + 1)), i.b)

(***************************************************************************)
(* The other instructions; the program counter is already behind i.        *)
(***************************************************************************)
\* A test skips the jump after it or takes it.
CloseFrom(m, a) == IF a = 0 THEN m ELSE Close(m, Base(m) + a - 1)
DoJump(m, i) == Go(CloseFrom(m, i.a), i.b)
Skip(m, b) == IF b THEN MovePc(m, 1) ELSE DoJump(m, At(P(m), Ci(m).pc))

SetListTo(m, i, n) ==
  SetTop([m EXCEPT !.w = AppendTable(@, RV(m, i.a),
            Slots(m, Base(m) + i.a + 1, n), (i.c - 1) * FieldsPerFlush)], CiTop(m))
SetListAt(m, i) ==
  SetListTo(m, i, IF i.b = 0 THEN m.top ELSE Base(m) + i.a + i.b + 1)
RECURSIVE ConcatFrom(_, _, _)
ConcatFrom(m, r, c) ==           \* from right to left
  IF r = c THEN RV(m, r)
  ELSE LET v == ConcatFrom(m, r + 1, c) IN IF v = ErrV THEN v ELSE ConcatOf(RV(m, r), v)
\* The operands are overwritten by the partial results.
ConcatTo(m, i, v) ==
  Put([m EXCEPT !.stack = Write(@, Base(m) + i.b, [k \in 1..(i.c - i.b) |-> v])], i.a, v)
ConcatRegs(m, i) == ConcatTo(m, i, ConcatFrom(m, i.b, i.c))
ForPrepAt(m, i) ==
  IF \A r \in i.a..(i.a + 2) : IsNum(RV(m, r))
  THEN Go(Put(m, i.a, Num(RV(m, i.a)[2] - RV(m, i.a + 2)[2])), i.b) ELSE Fail(m)
ForStep(m, i, idx, step, limit) ==
  IF IF 0 < step THEN idx <= limit ELSE limit <= idx
  THEN Go(Put(Put(m, i.a, Num(idx)), i.a + 3, Num(idx)), i.b) ELSE m
ForLoopAt(m, i) ==
  ForStep(m, i, RV(m, i.a)[2] + RV(m, i.a + 2)[2], RV(m, i.a + 2)[2], RV(m, i.a + 1)[2])

InFrame(p, i) ==
  /\ i.op \notin {"JMP", "SETTABUP"} => i.a < p.maxstack
  /\ i.op \in {"MOVE", "GETTABLE", "NOT", "UNM", "LEN", "TESTSET", "SELF"} => i.b < p.maxstack

Loads(m, i) ==
  CASE i.op = "MOVE" -> Put(m, i.a, RV(m, i.b))
    [] i.op = "LOADK" -> Put(m, i.a, P(m).k[i.b + 1])
    [] i.op = "LOADBOOL" -> MovePc(Put(m, i.a, Bool(i.b = 1)), i.c)
    [] i.op = "LOADNIL" ->
         [m EXCEPT !.stack = Write(@, Base(m) + i.a, [k \in 1..(i.b + 1) |-> NilV])]
    [] i.op = "CLOSURE" ->
         ClosureAt(m, i.a, Append(Cl(m).path, i.b), P(m).p[i.b + 1])
Tables(m, i) ==
  CASE i.op = "GETUPVAL" -> Put(m, i.a, GetUp(m, Up(m, i.b)))
    [] i.op = "GETTABUP" -> Put(m, i.a, GetTable(m.w, GetUp(m, Up(m, i.b)), RKV(m, i.c)))
    [] i.op = "GETTABLE" -> Put(m, i.a, GetTable(m.w, RV(m, i.b), RKV(m, i.c)))
    [] i.op = "SETTABUP" -> StoreAt(m, GetUp(m, Up(m, i.a)), RKV(m, i.b), RKV(m, i.c))
    [] i.op = "SETUPVAL" -> SetUp(m, Up(m, i.b), RV(m, i.a))
    [] i.op = "SETTABLE" -> StoreAt(m, RV(m, i.a), RKV(m, i.b), RKV(m, i.c))
    [] i.op = "NEWTABLE" -> Put([m EXCEPT !.w = NewTable(@)], i.a, TheNew(NewTable(m.w)))
    [] i.op = "SELF" ->
         Put(Put(m, i.a + 1, RV(m, i.b)), i.a, GetTable(m.w, RV(m, i.b), RKV(m, i.c)))
Operators(m, i) ==
  CASE i.op \in {"ADD", "SUB", "MUL", "MOD", "POW"} ->
         Put(m, i.a, ArithV(i.op, RKV(m, i.b), RKV(m, i.c)))
    [] i.op \in {"UNM", "LEN"} -> Put(m, i.a, UnaryV(m.w, i.op, RV(m, i.b)))
    [] i.op = "NOT" -> Put(m, i.a, Bool(~Truthy(RV(m, i.b))))
    [] i.op = "CONCAT" -> ConcatRegs(m, i)
SkipComp(m, v, cond) == IF v = ErrV THEN Fail(m) ELSE Skip(m, v # Bool(cond = 1))
Jumps(m, i) ==
  CASE i.op = "JMP" -> DoJump(m, i)
    [] i.op \in {"EQ", "LT", "LE"} ->
         SkipComp(m, CompV(i.op, RKV(m, i.b), RKV(m, i.c)), i.a)
    [] i.op = "TEST" -> Skip(m, Truthy(RV(m, i.a)) # (i.c = 1))
    [] i.op = "TESTSET" ->
         IF Truthy(RV(m, i.b)) # (i.c = 1) THEN Skip(m, TRUE)
         ELSE Skip(Put(m, i.a, RV(m, i.b)), FALSE)
Loops(m, i) ==
  CASE i.op = "FORPREP" -> ForPrepAt(m, i)
    [] i.op = "FORLOOP" -> ForLoopAt(m, i)
    [] i.op = "TFORCALL" -> TForCall(m, i)
    [] i.op = "TFORLOOP" -> TForLoop(m, i)
NVarargs(m) == Base(m) - Ci(m).func - P(m).numparams - 1
Varargs(m) == Slots(m, Base(m) - NVarargs(m), Base(m))
Vararg(m, a, n, open) ==
  [m EXCEPT !.stack = Write(@, Base(m) + a, Adjust(Varargs(m), n)),
            !.top = IF open THEN Base(m) + a + n ELSE @]
Do(m, i) ==
  CASE i.op \in {"MOVE", "LOADK", "LOADBOOL", "LOADNIL", "CLOSURE"} -> Loads(m, i)
    [] i.op \in {"GETUPVAL", "GETTABUP", "GETTABLE", "SETTABUP", "SETUPVAL", "SETTABLE",
                 "NEWTABLE", "SELF"} -> Tables(m, i)
    [] i.op \in {"ADD", "SUB", "MUL", "MOD", "POW", "UNM", "LEN", "NOT", "CONCAT"} ->
         Operators(m, i)
    [] i.op \in Tests \cup {"JMP"} -> Jumps(m, i)
    [] i.op \in {"FORPREP", "FORLOOP", "TFORCALL", "TFORLOOP"} -> Loops(m, i)
    [] i.op = "CALL" -> CallAt1(m, i)
    [] i.op = "TAILCALL" -> TailCallAt(m, i)
    [] i.op = "RETURN" -> ReturnAt(m, i)
    [] i.op = "SETLIST" -> SetListAt(m, i)
    [] i.op = "VARARG" -> Vararg(m, i.a, IF i.b = 0 THEN NVarargs(m) ELSE i.b - 1, i.b = 0)

RECURSIVE Run(_, _)
Step(m, i) ==
  IF InFrame(P(m), i) THEN Do(MovePc(m, 1), i) ELSE [m EXCEPT !.st = "crash"]
Run(m, n) ==
  IF m.st # "run" \/ n = 0 THEN m ELSE Run(Step(m, At(P(m), Ci(m).pc)), n - 1)
\* The main function is called with args.
Execute(p, args, w) ==
  Run(Precall([st |-> "run", vs |-> <<>>, w |-> w, ci |-> <<>>, top |-> 1 + Len(args),
               stack |-> Write([s \in 0..StackSize |-> NilV], 0, <<Closure(1)>> \o args),
               upv |-> <<[at |-> -1, v |-> Globals]>>, cache |-> <<>>,
               cls |-> <<[p |-> p, path |-> <<>>, upvals |-> <<1>>]>>], 0, MultRet), Fuel)
=============================================================================
