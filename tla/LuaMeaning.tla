----------------------------- MODULE LuaMeaning -----------------------------
(***************************************************************************)
(* What a program means, by its tree alone: the reference for the code     *)
(* that LuaParser generates and LuaExec runs.  A state s has the world,    *)
(* the variables in scope (env, names bound to cells), and the values vs   *)
(* of the last expression; st is "run", or says how the statement ended.   *)
(* Operands are evaluated from left to right; an assignment evaluates the  *)
(* tables and keys of its targets, then its expressions, and assigns from  *)
(* the last target to the first.                                           *)
(***************************************************************************)
EXTENDS LuaExec

CONSTANT Rounds              \* bound: rounds of a loop

(***************************************************************************)
(* The tree of a list of operators and operands, by their precedence.      *)
(***************************************************************************)
Precedence == <<{"or"}, {"and"}, DOMAIN CompOp, {"concat"}, {"add", "sub"}, {"mul", "mod"},
                UnOprs, {"pow"}>>
RightAssoc == {"concat", "pow"}
Level(op) == CHOOSE n \in DOMAIN Precedence : op \in Precedence[n]
IsOp(t) == t[1] = "op"
\* The operators that are not in a prefix.
BinaryAt(ts) == {n \in 2..Len(ts) : IsOp(ts[n]) /\ ~IsOp(ts[n - 1])}
LowestAt(ts) ==
  {n \in BinaryAt(ts) : \A k \in BinaryAt(ts) : Level(ts[n][2]) <= Level(ts[k][2])}
FirstOf(S) == CHOOSE n \in S : \A k \in S : n <= k
RECURSIVE Tree(_)
SplitAt(ts, n) ==
  <<ts[n][2], Tree(SubSeq(ts, 1, n - 1)), Tree(SubSeq(ts, n + 1, Len(ts)))>>
TreeBy(ts, low) ==
  IF IsOp(ts[1]) /\ \A n \in low : Level(ts[n][2]) > Level(ts[1][2])
  THEN <<ts[1][2], Tree(Tail(ts))>>
  ELSE SplitAt(ts, IF ts[FirstOf(low)][2] \in RightAssoc THEN FirstOf(low) ELSE LastOf(low))
Tree(ts) == IF Len(ts) = 1 THEN ts[1] ELSE TreeBy(ts, LowestAt(ts))

(***************************************************************************)
(* The programs that the rules of goto, break and labels forbid.           *)
(***************************************************************************)
Declares(s) == s[1] \in {"locals", "localfunc"}
LabelsAt(ss, name) == {n \in DOMAIN ss : ss[n] = <<"label", name>>}
\* A label that only labels follow is outside the scope of the variables of
\* its block, unless the block ends in until.
CanReach(ss, from, to, until) ==
  \/ to <= from
  \/ \A n \in from..to : ~Declares(ss[n])
  \/ ~until /\ AllLabels(SubSeq(ss, to, Len(ss)))
RECURSIVE Escapes(_), Illegal(_)
BlockEscapes(ss) == {g \in UNION {Escapes(ss[n]) : n \in DOMAIN ss} : LabelsAt(ss, g) = {}}
IllegalBlock(ss, until) ==
  \/ \E n \in DOMAIN ss : Illegal(ss[n]) \/ (IsLabel(ss[n]) /\ LabelsAt(ss, ss[n][2]) # {n})
  \/ \E n \in DOMAIN ss : \E g \in Escapes(ss[n]) :
        \E k \in LabelsAt(ss, g) : ~CanReach(ss, n, k, until)
BlocksOf(s) ==
  CASE s[1] = "do" -> {s[2]}
    [] s[1] = "if" -> {s[2][n][2] : n \in DOMAIN s[2]} \cup {s[3]}
    [] s[1] = "while" -> {s[3]}
    [] s[1] = "repeat" -> {s[2]}
    [] s[1] = "for" -> {s[6]}
    [] s[1] = "in" -> {s[4]}
    [] OTHER -> {}
Loops1 == {"while", "repeat", "for", "in"}
Escapes(s) ==
  IF s[1] \in {"break", "goto"} THEN {LabelOf(s)}
  ELSE UNION {BlockEscapes(ss) : ss \in BlocksOf(s)} \ (IF s[1] \in Loops1 THEN {"break"} ELSE {})
IllegalFunction(ss) == IllegalBlock(ss, FALSE) \/ BlockEscapes(ss) # {}
Illegal(s) ==
  IF s[1] = "localfunc" THEN IllegalFunction(s[3][4])
  ELSE \E ss \in BlocksOf(s) : IllegalBlock(ss, s[1] = "repeat")

(***************************************************************************)
(* Expressions.                                                            *)
(***************************************************************************)
Running(s) == s.st = "run"
Err(s) == [s EXCEPT !.st = "err"]
Val(s, v) == IF v = ErrV THEN Err(s) ELSE [s EXCEPT !.vs = <<v>>]
One(s) == [s EXCEPT !.vs = Adjust(@, 1)]
V(s) == s.vs[1]

Bound(s, n) == {k \in DOMAIN s.env : s.env[k][1] = n}
Cell(s, n) == s.env[LastOf(Bound(s, n))][2]
NameV(s, n) ==
  IF Bound(s, n) # {} THEN s.cells[Cell(s, n)] ELSE GetTable(s.w, Globals, StrV(n))
SetName(s, n, v) ==
  IF Bound(s, n) # {} THEN [s EXCEPT !.cells[Cell(s, n)] = v]
  ELSE [s EXCEPT !.w = SetTable(@, Globals, StrV(n), v)]
Declare(s, names, vs) ==
  [s EXCEPT !.cells = @ \o Adjust(vs, Len(names)),
            !.env = @ \o [k \in DOMAIN names |-> <<names[k], Len(s.cells) + k>>]]
Leave(s, n) == [s EXCEPT !.env = SubSeq(@, 1, n)]

RECURSIVE Ev(_, _), EvList(_, _, _), EvItems(_, _, _, _), Block1(_, _), Stat1(_, _)
Ev1(s, x) == One(Ev(s, x))
EvArgs(s, xs) == EvList(s, xs, <<>>)
EvTail(s, xs, vs) == EvList(s, Tail(xs), Append(vs, V(s)))
EvList(s, xs, vs) ==             \* the last expression gives all its values
  CASE ~Running(s) -> s
    [] xs = <<>> -> [s EXCEPT !.vs = vs]
    [] Len(xs) = 1 -> [Ev(s, xs[1]) EXCEPT !.vs = vs \o @]
    [] OTHER -> EvTail(Ev1(s, xs[1]), xs, vs)

NewFunction(s, x) ==
  Val([s EXCEPT !.fns = Append(@, [params |-> x[2], vararg |-> x[3], body |-> x[4],
                                   env |-> s.env])], Closure(Len(s.fns) + 1))
FinishCall(s, caller) ==
  [s EXCEPT !.env = caller.env, !.dots = caller.dots,
            !.st = IF @ = "return" THEN "run" ELSE @, !.vs = IF s.st = "run" THEN <<>> ELSE @]
EvCall(s, fn) ==
  FinishCall(Block1(Declare([s EXCEPT !.env = fn.env,
                              !.dots = SubSeq(s.vs, Len(fn.params) + 1, Len(s.vs))],
                            fn.params, s.vs), fn.body), s)
Call1(s, f) ==
  CASE ~Running(s) -> s
    [] f[1] = "fun" -> [s EXCEPT !.w = Called(@, f, s.vs), !.vs = Results(s.w, f)]
    [] f[1] = "closure" -> EvCall(s, s.fns[f[2]])
    [] OTHER -> Err(s)
CallV(s, args) == Call1(EvArgs(s, args), V(s))
MethodV(s, obj, f, args) ==
  IF f = ErrV THEN Err(s) ELSE Call1(EvList(s, args, <<obj>>), f)

Item(s, t, key) ==
  IF Running(s) THEN [s EXCEPT !.w = SetTable(@, t, key, V(s))] ELSE s
ListItems(s, t, n) ==
  IF Running(s) THEN Val([s EXCEPT !.w = AppendTable(@, t, s.vs, n)], t) ELSE s
Keyed(s, t, v) ==
  IF V(s) = NilV THEN Err(Ev1(s, v)) ELSE Item(Ev1(s, v), t, V(s))
EvItems(s, items, t, n) ==       \* n items of the list are stored
  CASE ~Running(s) -> s
    [] items = <<>> -> Val(s, t)
    [] Len(items[1]) = 2 ->
         EvItems(Keyed(Ev1(s, items[1][1]), t, items[1][2]), Tail(items), t, n)
    [] Len(items) = 1 -> ListItems(Ev(s, items[1][1]), t, n)
    [] OTHER -> EvItems(Item(Ev1(s, items[1][1]), t, Num(n + 1)), Tail(items), t, n + 1)
EvTable(s, items) == EvItems(s, items, <<"tab", Len(s.w.heap)>>, 0)

Apply(s, op, a, b) ==
  CASE ~Running(s) -> s
    [] op \in DOMAIN ArithOp -> Val(s, ArithV(ArithOp[op], a, b))
    [] op = "concat" -> Val(s, ConcatOf(a, b))
    [] op = "ne" -> Val(s, Bool(a # b))
    [] op \in {"gt", "ge"} -> Val(s, CompV(IF op = "gt" THEN "LT" ELSE "LE", b, a))
    [] OTHER -> Val(s, CompV(CompOp[op][1], a, b))
Apply2(s, op, a) == Apply(s, op, a, V(s))
EvBin(s, op, r) ==
  CASE ~Running(s) -> s
    [] op = "and" -> IF Truthy(V(s)) THEN Ev1(s, r) ELSE s
    [] op = "or" -> IF Truthy(V(s)) THEN s ELSE Ev1(s, r)
    [] OTHER -> Apply2(Ev1(s, r), op, V(s))
EvUn(s, op) ==
  CASE ~Running(s) -> s
    [] op = "not" -> Val(s, Bool(~Truthy(V(s))))
    [] OTHER -> Val(s, UnaryV(s.w, IF op = "neg" THEN "UNM" ELSE "LEN", V(s)))
Select(s, t) == IF Running(s) THEN Val(s, GetTable(s.w, t, V(s))) ELSE s
EvIndex(s, k) == IF Running(s) THEN Select(Ev1(s, k), V(s)) ELSE s
EvMethod(s, name, args) ==
  IF Running(s) THEN MethodV(s, V(s), GetTable(s.w, V(s), StrV(name)), args) ELSE s

Ev(s, x) ==
  CASE ~Running(s) -> s
    [] x[1] = "num" -> Val(s, x)
    [] x[1] = "str" -> Val(s, StrV(x[2]))
    [] x[1] = "nil" -> Val(s, NilV)
    [] x[1] = "true" -> Val(s, Bool(TRUE))
    [] x[1] = "false" -> Val(s, Bool(FALSE))
    [] x[1] = "name" -> Val(s, NameV(s, x[2]))
    [] x[1] = "dots" -> [s EXCEPT !.vs = s.dots]
    [] x[1] = "function" -> NewFunction(s, x)
    [] x[1] = "paren" -> Ev1(s, x[2])
    [] x[1] = "field" -> EvIndex(Ev1(s, x[2]), <<"str", x[3]>>)
    [] x[1] = "index" -> EvIndex(Ev1(s, x[2]), x[3])
    [] x[1] = "call" -> CallV(Ev1(s, x[2]), x[3])
    [] x[1] = "method" -> EvMethod(Ev1(s, x[2]), x[3], x[4])
    [] x[1] = "table" -> EvTable([s EXCEPT !.w = NewTable(@)], x[2])
    [] x[1] = "exp" -> Ev(s, Tree(x[2]))
    [] x[1] \in UnOprs -> EvUn(Ev1(s, x[2]), x[1])
    [] x[1] \in BinOprs -> EvBin(Ev1(s, x[2]), x[1], x[3])

(***************************************************************************)
(* Statements.                                                             *)
(***************************************************************************)
\* The table and the key of each target.
RECURSIVE Places(_, _, _)
Place(s, x) ==
  CASE x[1] = "index" -> EvList(s, <<<<"paren", x[2]>>, <<"paren", x[3]>>>>, <<>>)
    [] x[1] = "field" -> EvList(s, <<<<"paren", x[2]>>, <<"str", x[3]>>>>, <<>>)
    [] OTHER -> [s EXCEPT !.vs = <<>>]
PlacesFrom(s, xs, acc) == Places(s, Tail(xs), Append(acc, s.vs))
Places(s, xs, acc) ==
  IF xs = <<>> \/ ~Running(s) THEN [s EXCEPT !.pl = acc]
  ELSE PlacesFrom(Place(s, xs[1]), xs, acc)
Store1(s, x, place, v) ==
  CASE ~Running(s) -> s
    [] x[1] = "name" -> SetName(s, x[2], v)
    [] CanSet(place[1], place[2]) -> [s EXCEPT !.w = SetTable(@, place[1], place[2], v)]
    [] OTHER -> Err(s)
RECURSIVE StoreAll(_, _, _, _)
StoreAll(s, xs, pl, vs) ==
  IF xs = <<>> THEN s
  ELSE StoreAll(Store1(s, xs[Len(xs)], pl[Len(xs)], vs[Len(xs)]),
                SubSeq(xs, 1, Len(xs) - 1), pl, vs)
Assign1(s, xs, pl) == IF Running(s) THEN StoreAll(s, xs, pl, Adjust(s.vs, Len(xs))) ELSE s
AssignPlaces(s, xs, es) == IF Running(s) THEN Assign1(EvArgs(s, es), xs, s.pl) ELSE s

Locals(s, names) == IF Running(s) THEN Declare(s, names, s.vs) ELSE s
Recursive1(s, name, f) == SetName(NewFunction(s, f), name, Closure(Len(s.fns) + 1))
Scope(s, ss) == Leave(Block1(s, ss), Len(s.env))
EndLoop(s) ==
  IF s.st = "goto" /\ s.label = "break" THEN [s EXCEPT !.st = "run"] ELSE s

RECURSIVE While1(_, _, _, _), Repeat1(_, _, _, _, _), For1(_, _, _, _, _, _, _),
          In1(_, _, _, _, _, _), If1(_, _, _), Stats(_, _, _), Arrive(_, _, _, _)
\* A loop that goes on after Rounds rounds is endless.
Spent(s, n) == ~Running(s) \/ n = 0
Stop(s) == IF Running(s) THEN [s EXCEPT !.st = "endless"] ELSE s
WhileV(s, x, ss, n) ==
  IF Running(s) /\ Truthy(V(s)) THEN While1(Scope(s, ss), x, ss, n - 1) ELSE s
While1(s, x, ss, n) == IF Spent(s, n) THEN Stop(s) ELSE WhileV(Ev1(s, x), x, ss, n)
RepeatV(s, ss, x, n, depth) ==
  IF Running(s) /\ ~Truthy(V(s)) THEN Repeat1(Leave(s, depth), ss, x, n - 1, depth)
  ELSE Leave(s, depth)
RepeatX(s, ss, x, n, depth) ==
  RepeatV(IF Running(s) THEN Ev1(s, x) ELSE s, ss, x, n, depth)
Repeat1(s, ss, x, n, depth) ==
  IF Spent(s, n) THEN Stop(s) ELSE RepeatX(Block1(s, ss), ss, x, n, depth)
For1(s, name, ss, idx, limit, step, n) ==
  IF Spent(s, n) THEN Stop(s) ELSE
  IF IF 0 < step THEN idx <= limit ELSE limit <= idx
  THEN For1(Leave(Block1(Declare(s, <<name>>, <<Num(idx)>>), ss), Len(s.env)),
            name, ss, idx + step, limit, step, n - 1)
  ELSE s
ForV(s, name, ss) ==
  CASE ~Running(s) -> s
    [] \A k \in 1..3 : IsNum(s.vs[k]) ->
         For1(s, name, ss, s.vs[1][2], s.vs[2][2], s.vs[3][2], Rounds)
    [] OTHER -> Err(s)
InV(s, names, ss, f, n, state) ==
  IF ~Running(s) \/ Adjust(s.vs, 1) = <<NilV>> THEN s
  ELSE In1(Leave(Block1(Declare(s, names, s.vs), ss), Len(s.env)), names, ss, f, n - 1,
           <<state, V(s)>>)
In1(s, names, ss, f, n, args) ==
  IF Spent(s, n) THEN Stop(s)
  ELSE InV(Call1([s EXCEPT !.vs = args], f), names, ss, f, n, args[1])
InFirst(s, names, ss) ==
  IF Running(s) THEN In1(s, names, ss, Adjust(s.vs, 1)[1], Rounds, Tail(Adjust(s.vs, 3))) ELSE s
IfV(s, clauses, els) ==
  CASE ~Running(s) -> s
    [] Truthy(V(s)) -> Scope(s, clauses[1][2])
    [] OTHER -> If1(s, Tail(clauses), els)
If1(s, clauses, els) ==
  IF clauses = <<>> THEN Scope(s, els) ELSE IfV(Ev1(s, clauses[1][1]), clauses, els)

\* A goto continues behind its label, with the variables declared before it.
Declared(ss, n) ==
  FoldLeft(LAMBDA d, s : IF s[1] = "locals" THEN d + Len(s[2])
                         ELSE IF s[1] = "localfunc" THEN d + 1 ELSE d, 0, SubSeq(ss, 1, n))
Shorter(a, b) == IF a < b THEN a ELSE b
Stats(s, ss, n) ==
  IF n > Len(ss) \/ ~Running(s) THEN s ELSE Stats(Stat1(s, ss[n]), ss, n + 1)
ArriveAt(s, ss, depth, k) ==
  Stats(Leave([s EXCEPT !.st = "run"], Shorter(Len(s.env), depth + Declared(ss, k))), ss, k + 1)
Arrive(s, ss, depth, n) ==
  CASE s.st # "goto" \/ LabelsAt(ss, s.label) = {} -> s
    [] n = 0 -> [s EXCEPT !.st = "endless"]
    [] OTHER -> Arrive(ArriveAt(s, ss, depth, CHOOSE k \in LabelsAt(ss, s.label) : TRUE),
                       ss, depth, n - 1)
Block1(s, ss) == Arrive(Stats(s, ss, 1), ss, Len(s.env), Rounds)

Returns(s) == IF Running(s) THEN [s EXCEPT !.st = "return"] ELSE s
Stat1(s, x) ==
  CASE x[1] = "locals" -> Locals(EvArgs(s, x[3]), x[2])
    [] x[1] = "localfunc" -> Recursive1(Declare(s, <<x[2]>>, <<>>), x[2], x[3])
    [] x[1] \in {"assign", "funcstat"} ->
         IF x[1] = "assign" THEN AssignPlaces(Places(s, x[2], <<>>), x[2], x[3])
         ELSE AssignPlaces(Places(s, <<x[2]>>, <<>>), <<x[2]>>, <<x[3]>>)
    [] x[1] = "callstat" -> Ev(s, x[2])
    [] x[1] = "do" -> Scope(s, x[2])
    [] x[1] = "if" -> If1(s, x[2], x[3])
    [] x[1] = "while" -> EndLoop(While1(s, x[2], x[3], Rounds))
    [] x[1] = "repeat" -> EndLoop(Leave(Repeat1(s, x[2], x[3], Rounds, Len(s.env)), Len(s.env)))
    [] x[1] = "for" ->
         EndLoop(ForV(EvArgs(s, <<x[3], x[4], IF x[5] = <<>> THEN Num(1) ELSE x[5]>>),
                      x[2], x[6]))
    [] x[1] = "in" -> EndLoop(InFirst(EvArgs(s, x[3]), x[2], x[4]))
    [] x[1] \in {"break", "goto"} -> [s EXCEPT !.st = "goto", !.label = LabelOf(x)]
    [] x[1] = "label" -> s
    [] x[1] = "return" -> Returns(EvArgs(s, x[2]))

\* The main function is called with args.
Meaning(ss, args, w) ==
  FinishCall(Block1([w |-> w, cells |-> <<>>, fns |-> <<>>, env |-> <<>>, dots |-> args,
                     vs |-> <<>>, pl |-> <<>>, label |-> "", st |-> "run"], ss),
             [env |-> <<>>, dots |-> args])
=============================================================================
