---------------------------- MODULE LuaPrograms ----------------------------
(***************************************************************************)
(* Programs for the compiler and the machine, and when the code that runs  *)
(* agrees with its meaning.  The main function has the arguments a and t,  *)
(* a table, and the globals f and it, C functions, and u, which counts     *)
(* their calls.                                                            *)
(***************************************************************************)
EXTENDS LuaMeaning

N(x) == <<"name", x>>
K(n) == <<"num", n>>
Nil == <<"nil">>
Dots == <<"dots">>
A == N("a")
T == N("t")
U == N("u")
Y == N("y")
Op(o) == <<"op", o>>
X(ts) == <<"exp", ts>>
Not(x) == X(<<Op("not"), x>>)
Bin(x, o, y) == X(<<x, Op(o), y>>)
Paren(x) == <<"paren", x>>
TAt(k) == <<"index", T, k>>
TheX(t) == <<"field", t, "x">>
Call(f, args) == <<"call", f, args>>
CallF(args) == Call(N("f"), args)
Fn(params, body) == <<"function", params, TRUE, body>>

DoEnd(body) == <<"do", body>>
Set(v, x) == <<"assign", <<v>>, <<x>>>>
Local(names, xs) == <<"locals", names, xs>>
LocalFn(name, f) == <<"localfunc", name, f>>
If(x, ss) == <<"if", <<<<x, ss>>>>, <<>>>>
Break == <<"break">>
Goto(l) == <<"goto", l>>
Label(l) == <<"label", l>>
Return(xs) == <<"return", xs>>
Say(xs) == <<"callstat", CallF(xs)>>
Inc(v) == Set(v, Bin(v, "add", K(1)))
SeqN(S, n) == [1..n -> S]

(***************************************************************************)
(* The body of the main function, or of a function of it whose upvalues    *)
(* are the variables.                                                      *)
(***************************************************************************)
Params == Local(<<"a", "t">>, <<Dots>>)
Direct(ss) == <<Params>> \o ss
Nested(ss) ==
  <<Params, LocalFn("h", Fn(<<>>, ss)), Return(<<Call(N("h"), <<K(8), Nil>>), A>>)>>
Both(S) == {Direct(ss) : ss \in S} \cup {Nested(ss) : ss \in S}

(***************************************************************************)
(* The families.                                                           *)
(***************************************************************************)
Operands == {<<"false">>, K(1), <<"str", "k">>, A, T, U, CallF(<<>>)}
Terms == {<<Nil>>, <<A>>, <<CallF(<<>>)>>, <<Op("not"), A>>}
Ops == {"and", "or", "eq", "lt", "concat"}
Simple ==
  Operands \cup {X(<<Op(o), x>>) : x \in Operands, o \in {"not", "neg", "len"}}
  \cup {Bin(x, o, y) : x \in Operands, y \in Operands, o \in Ops \cup {"gt", "ge", "add"}}
Flat(o) ==
  {X(x \o <<Op(o)>> \o y \o <<Op(q)>> \o z) :
     x \in Terms, y \in Terms, z \in Terms \ {<<Nil>>}, q \in Ops}
Grouped(o) ==
  LET S == {Nil, A, CallF(<<>>)}
  IN {Bin(Paren(Bin(x, o, y)), q, z) : x \in S, y \in S, z \in S, q \in Ops}
     \cup {X(<<Op("not"), Paren(Bin(x, o, y)), Op(q), z>>) : x \in S, y \in S, z \in S, q \in Ops}
Priorities ==
  LET B == {"or", "lt", "concat", "sub", "mul", "pow"}
      L == {<<K(3)>>, <<Op("neg"), K(2)>>}
  IN {X(x \o <<Op(o), K(2), Op(p)>> \o y \o <<Op(q), K(1)>>) :
        x \in L, y \in L, o \in B, p \in B, q \in B}
Shown(x) == {Direct(<<Return(<<x>>)>>), Direct(<<Local(<<"y">>, <<x>>), Return(<<Y, A>>)>>)}

Targets1 == {A, T, U, TheX(T), TAt(A), TAt(TheX(T)), <<"index", N("x"), CallF(<<A>>)>>}
Values == {A, U, CallF(<<>>), Dots, K(1)}
Show == Return(<<A, TheX(T), U>>)
Assignments ==
  {<<<<"assign", l, r>>, Show>> : l \in SeqN(Targets1, 2),
                                  r \in SeqN(Values, 1) \cup SeqN(Values \ {K(1)}, 2)}
  \cup {<<<<"assign", l, <<U, A, CallF(<<>>)>>>>, Show>> : l \in SeqN(Targets1 \ {U}, 3)}
  \cup {<<<<"assign", <<v>>, r>>, Show>> : v \in Targets1, r \in SeqN(Values \ {Dots, K(1)}, 3)}
Lists ==
  SeqN({A, Not(A), U, Dots, CallF(<<>>), CallF(<<Dots>>), Paren(Dots), Bin(A, "and", U)}, 2)
UsesOf(l) ==
  {<<Return(<<CallF(l)>>)>>, <<Return(l)>>, <<Say(l), Show>>,
   <<Local(<<"y">>, l), Return(<<Y>>)>>,
   <<Local(<<"y", "a", "z">>, l), Return(<<N("z"), A>>)>>,
   <<<<"in", <<"y", "z">>, <<N("it")>> \o l, <<Say(<<Y, N("z")>>)>>>>, Return(<<>>)>>,
   <<<<"callstat", <<"method", N("_G"), "f", l>>>>, Return(<<CallF(l), CallF(l)>>)>>}
Items == {<<A>>, <<CallF(<<>>)>>, <<Dots>>, <<A, K(4)>>, <<Bin(A, "or", <<"str", "k">>), CallF(<<>>)>>}
Constructors ==
  {<<Local(<<"y">>, <<<<"table", is>>>>),
     Return(<<<<"index", Y, K(1)>>, <<"index", Y, K(4)>>, X(<<Op("len"), Y>>)>>)>> :
     is \in UNION {SeqN(Items, n) : n \in 0..3}}

Conds ==
  {A, Not(A), Bin(A, "eq", U), Bin(U, "lt", K(2)), <<"true">>, Nil, Bin(Nil, "or", A),
   X(<<CallF(<<>>), Op("and"), U, Op("lt"), K(3)>>),
   Not(Paren(X(<<CallF(<<>>), Op("eq"), Nil, Op("or"), A>>)))}
Bodies ==
  {<<Inc(U)>>, <<Say(<<>>)>>, <<Say(<<>>), If(Bin(K(1), "lt", U), <<Break>>)>>,
   <<Local(<<"y">>, <<U>>),
     <<"if", <<<<A, <<Break, Say(<<>>)>>>>, <<Y, <<Say(<<A>>)>>>>>>, <<Inc(U)>>>>>>,
   <<Local(<<"y", "z">>, <<>>),
     <<"if", <<<<N("z"), <<>>>>, <<T, <<Say(<<Y>>), Break>>>>>>, <<>>>>>>,
   <<<<"if", <<<<Nil, <<Inc(U)>>>>, <<A, <<Break>>>>>>, <<Say(<<U>>), Break>>>>>>}
For(from, to, step, body) == <<"for", "i", from, to, step, body>>
Loops2(x, b) ==
  {<<<<"while", x, b>>, Return(<<U>>)>>, <<<<"repeat", b, x>>, Return(<<U>>)>>,
   <<For(K(1), K(2), <<>>, <<<<"repeat", b, x>>>>), Return(<<A, U>>)>>,
   <<For(K(2), X(<<Op("neg"), K(1)>>), X(<<Op("neg"), K(2)>>), <<<<"while", x, b>>, Say(<<N("i")>>)>>),
     Return(<<A, U>>)>>,
   <<For(K(1), K(2), <<>>, <<<<"if", <<<<x, b>>, <<A, <<Say(<<>>)>>>>>>, <<Inc(U)>>>>>>), Return(<<U>>)>>,
   <<For(U, K(3), A, b), Return(<<U>>)>>}

\* Statements that make closures over a variable of their block, the ways to
\* leave it, and the closures called afterwards.
Kept(n) == Call(TAt(K(n)), <<>>)
AllKept == Return(<<Kept(1), Kept(2), Kept(1), A>>)
Makers ==
  {<<Local(<<"y">>, <<U>>), Set(TAt(K(1)), Fn(<<>>, <<Inc(Y), Return(<<Y, A>>)>>)),
     Set(TAt(K(2)), Fn(<<>>, <<Inc(Y), Return(<<Y>>)>>)), Inc(Y)>>,
   <<Local(<<"y">>, <<A>>), Local(<<"z">>, <<>>),
     LocalFn("g", Fn(<<>>, <<Set(N("z"), Y), Set(A, N("z")), Return(<<N("z")>>)>>)),
     Set(TAt(K(1)), N("g")), Set(TAt(K(2)), Fn(<<>>, <<Set(Y, K(9)), Return(<<>>)>>))>>,
   <<Local(<<"y">>, <<U>>), Set(TAt(U), Fn(<<>>, <<Inc(Y), Return(<<Y>>)>>))>>}
Exits == {<<Break>>, <<Goto("out")>>, <<Goto("cont")>>, <<Say(<<>>), Break>>, <<Return(<<A>>)>>}
Captures(m, x) ==
  {<<DoEnd(m), AllKept>>,
   <<For(K(1), K(2), <<>>, <<DoEnd(m \o <<If(A, x)>>), Say(<<>>), Label("cont")>>), Label("out"), AllKept>>,
   <<<<"while", <<"true">>, m \o <<If(U, x), Say(<<>>), DoEnd(<<Local(<<"w">>, <<K(1)>>), Goto("cont")>>),
                                   Label("cont")>>>>, Label("out"), AllKept>>,
   <<<<"repeat", m \o <<If(A, x), Say(<<Y>>)>>, X(<<Y, Op("and"), K(3), Op("lt"), U>>)>>,
     Label("cont"), Label("out"), AllKept>>,
   <<Label("cont"), DoEnd(m \o <<Say(<<>>), If(Bin(U, "lt", K(2)), x),
                              If(Bin(Y, "eq", Nil), <<Goto("cont"), Label("q"), Label("r")>>)>>),
     Label("out"), AllKept>>,
   <<DoEnd(<<Label("cont")>> \o m \o <<Say(<<>>), If(Bin(U, "lt", K(3)), <<Goto("cont")>>)>>), AllKept>>}

Fib(n) == Call(N("fib"), <<Bin(N("n"), "sub", K(n))>>)
Functions1 ==
  {<<For(K(1), K(3), <<>>,
       <<Set(TAt(N("i")),
          Fn(<<"p">>, <<Local(<<"q">>, <<N("i")>>),
             <<"assign", <<N("i"), A>>, <<Bin(N("i"), "add", N("p")), N("i")>>>>,
             Return(<<N("q"), N("i"), Fn(<<>>, <<Return(<<N("q")>>)>>)>>)>>))>>),
     Return(<<Call(TAt(K(1)), <<K(1)>>), Call(TAt(K(1)), <<K(1)>>), Call(TAt(K(2)), <<K(1)>>), A>>)>>,
   <<LocalFn("fib", Fn(<<"n">>, <<If(Bin(N("n"), "lt", K(2)), <<Return(<<N("n")>>)>>),
                                  Return(<<Bin(Fib(1), "add", Fib(2))>>)>>)),
     Return(<<Call(N("fib"), <<K(4)>>)>>)>>,
   <<LocalFn("g", Fn(<<"n", "m">>, <<If(Bin(N("n"), "eq", K(0)), <<Return(<<N("m"), Dots>>)>>),
       Return(<<Call(N("g"), <<Bin(N("n"), "sub", K(1)), Fn(<<>>, <<Return(<<N("n")>>)>>), Dots>>)>>)>>)),
     Local(<<"r", "s", "q">>, <<Call(N("g"), <<K(3), Nil, K(5), K(6)>>)>>),
     Return(<<Call(N("r"), <<>>), N("s"), N("q")>>)>>,
   <<<<"funcstat", N("mk"), Fn(<<"self", "k">>,
       <<Return(<<Fn(<<>>, <<Inc(N("k")), Return(<<N("k"), N("self")>>)>>)>>)>>)>>,
     Set(<<"field", T, "mk">>, N("mk")),
     Local(<<"p", "q">>, <<<<"method", T, "mk", <<K(1)>>>>, <<"method", T, "mk", <<K(5)>>>>>>),
     Return(<<Call(N("p"), <<>>), Call(N("q"), <<>>), Call(N("p"), <<>>)>>)>>,
   <<Local(<<"y">>, <<K(1)>>), LocalFn("g", Fn(<<>>, <<Return(<<Y>>)>>)),
     DoEnd(<<Local(<<"y">>, <<K(2)>>), Set(TAt(K(1)), Fn(<<>>, <<Inc(Y), Return(<<Y, Call(N("g"), <<>>)>>)>>)),
          DoEnd(<<Local(<<"y">>, <<K(3)>>), Set(TAt(K(2)), Fn(<<>>, <<Inc(Y), Return(<<Y>>)>>))>>)>>),
     Inc(Y), AllKept>>}

\* Labels and gotos, legal or not.
Pieces ==
  {Goto("l"), Label("l"), Local(<<"y">>, <<>>), Set(A, U), If(A, <<Goto("l")>>),
   DoEnd(<<Label("l"), Say(<<>>), Goto("l")>>),
   DoEnd(<<Local(<<"z">>, <<>>), If(U, <<Goto("l"), Say(<<>>)>>)>>),
   DoEnd(<<Goto("l"), Local(<<"z">>, <<>>), Label("l")>>), Break}
Jumping ==
  SeqN(Pieces, 2) \cup SeqN(Pieces, 3) \cup {ss \o <<Say(<<A>>)>> : ss \in SeqN(Pieces, 2)}
  \cup {<<<<"repeat", ss, A>>>> :
          ss \in SeqN(Pieces, 2) \cup SeqN({Goto("l"), Label("l"), Local(<<"y">>, <<>>)}, 3)}
  \cup {<<LocalFn("g", Fn(<<>>, ss)), Label("l")>> : ss \in SeqN(Pieces, 2)}
\* A variable declared right behind a label and another variable.
Visits ==
  {<<Local(<<"n">>, <<K(0)>>), DoEnd(<<Local(<<"x">>, <<>>)>> \o ss \o
     <<Say(<<Y>>), Set(Y, K(5)), Inc(N("n")), If(Bin(N("n"), "lt", K(2)), <<Goto("l")>>)>>)>> :
     ss \in {<<Label("l"), Local(<<"y">>, <<>>)>>, <<Label("l"), Local(<<"y">>, <<Nil>>)>>}}

ShownAll(S) == UNION {Shown(x) : x \in S}
Families ==
  <<ShownAll(Simple), ShownAll(Flat("and")), ShownAll(Flat("or")), ShownAll(Flat("eq")),
    ShownAll(Flat("lt")), ShownAll(Flat("concat")),
    ShownAll(Grouped("and")), ShownAll(Grouped("or")), ShownAll(Grouped("eq")),
    {Direct(<<Return(<<x>>)>>) : x \in Priorities},
    Both(Assignments), Both(UNION {UsesOf(l) : l \in Lists}), {Direct(ss) : ss \in Constructors},
    Both(UNION {Loops2(x, b) : x \in Conds, b \in Bodies}),
    Both(UNION {Captures(m, x) : m \in Makers, x \in Exits}) \cup {Direct(ss) : ss \in Functions1},
    {Direct(ss) : ss \in Jumping}>>

(***************************************************************************)
(* Agreement.                                                              *)
(***************************************************************************)
Worlds ==
  {[heap |-> <<NonNil((StrV("f") :> Fun("f")) @@ (StrV("it") :> Fun("it")) @@ (StrV("u") :> u)), <<>>>>,
    log |-> <<>>, ret |-> r] : u \in {NilV, Num(3)}, r \in {<<>>, <<Num(4), Bool(FALSE)>>}}
ArgLists == {<<NilV, <<"tab", 2>>>>, <<Num(50), <<"tab", 2>>, Num(8), NilV>>}

\* Which closure a value is, is left open: the machine may use one again.
AnyClosure(v) == IF v[1] = "closure" THEN <<"closure">> ELSE v
OfValues(f) == [n \in DOMAIN f |-> AnyClosure(f[n])]
OfHeap(h) == [n \in DOMAIN h |-> OfValues(h[n])]
OfLog(log) == [n \in DOMAIN log |-> <<log[n][1], OfValues(log[n][2])>>]
Agreeing(log1, log2) == IsPrefix(log1, log2) \/ IsPrefix(log2, log1)
\* m is the machine, r the meaning; an endless run is compared as far as it went.
SameEnd(m, r) ==
  IF m.st = "run" \/ r.st = "endless" THEN Agreeing(OfLog(m.w.log), OfLog(r.w.log))
  ELSE /\ m.st = (IF r.st = "run" THEN "return" ELSE r.st)
       /\ OfLog(m.w.log) = OfLog(r.w.log)
       /\ SubSeq(OfHeap(m.w.heap), 1, 2) = SubSeq(OfHeap(r.w.heap), 1, 2)
       /\ m.st = "return" => OfValues(m.vs) = OfValues(r.vs)
SameRuns(p, ss) ==
  \A w \in Worlds, args \in ArgLists : SameEnd(Execute(p, args, w), Meaning(ss, args, w))
Accepted(c, ss) == c.st = "ok" => SameRuns(ProtoOf(c), ss)
=============================================================================
