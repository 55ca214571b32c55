----------------------------- MODULE LuaParser -----------------------------
(***************************************************************************)
(* The parser of Lua (lparser.c): how every production drives the code     *)
(* generator.  A program is the tree of its productions, but an expression *)
(* is a list of operands and operators.  Syntax errors that a tree cannot  *)
(* have and the limits on variables and levels are left out.               *)
(***************************************************************************)
EXTENDS LuaCode, SequencesExt

CodeString(c, s) == AddK(WithE(c, VVoid), StrV(s))
InitExp(c, k, info) == WithE(c, Exp(k, info))

FieldName(c, t, s) == Indexed(CodeString(c, s), t)
FieldSelV(c, s) == FieldName(c, c.e, s)
FieldSel(c, s) == FieldSelV(Exp2AnyRegUp(c), s)

\* One production of the tree: an expression, left in c.e, or a statement.
RECURSIVE Parse(_, _)

Ret(c, first, nret) == Code(c, I("RETURN", first, nret + 1, 0))

(***************************************************************************)
(* Variables.                                                              *)
(***************************************************************************)
Top(c) == c.bl[Len(c.bl)]
AdjustLocalVars(c, names) == [c EXCEPT !.vars = @ \o names]
LastOf(S) == CHOOSE n \in S : \A k \in S : k <= n
SearchVar(c, n) == LastOf({0} \cup {k \in DOMAIN c.vars : c.vars[k] = n}) - 1
SearchUpvalue(c, n) == {k \in DOMAIN c.ups : c.ups[k].name = n}
\* The block that declares the variable closes it at its end.
MarkUpval(c, level) ==
  [c EXCEPT !.bl[LastOf({k \in DOMAIN c.bl : c.bl[k].nactvar <= level})].upval = TRUE]
NewUpvalue(c, n, v) ==
  [c EXCEPT !.ups = Append(@, [name |-> n, instack |-> v.k = "VLOCAL", idx |-> v.info]),
            !.e = Exp("VUPVAL", Len(c.ups))]

\* The variable n becomes the expression: VVOID when it is a global.
RECURSIVE SingleVarAux(_, _, _)
FromOuter(c, outer, n) ==
  IF outer.e.k = "VVOID" THEN InitExp(c, "VVOID", 0)
  ELSE NewUpvalue([c EXCEPT !.prev = <<outer>>], n, outer.e)
SingleVarAux(c, n, base) ==
  IF SearchVar(c, n) >= 0
  THEN InitExp(IF base THEN c ELSE MarkUpval(c, SearchVar(c, n)), "VLOCAL", SearchVar(c, n))
  ELSE IF SearchUpvalue(c, n) # {}
  THEN InitExp(c, "VUPVAL", (CHOOSE k \in SearchUpvalue(c, n) : TRUE) - 1)
  ELSE IF c.prev = <<>> THEN InitExp(c, "VVOID", 0)
  ELSE FromOuter(c, SingleVarAux(c.prev[1], n, FALSE), n)
InEnv(c, n) == FieldName(c, c.e, n)
OrGlobal(c, n) ==
  IF c.e.k # "VVOID" THEN c ELSE InEnv(SingleVarAux(c, "_ENV", TRUE), n)
SingleVar(c, n) == OrGlobal(SingleVarAux(c, n, TRUE), n)

(***************************************************************************)
(* Blocks and labels.  A goto that waits for its label is in c.gt.         *)
(***************************************************************************)
\* until: the block is the body of a repeat.
EnterBlock(c, isloop, until) ==
  [Check(c, c.freereg = NActVar(c)) EXCEPT !.bl = Append(@,
     [nactvar |-> NActVar(c), firstlabel |-> Len(c.label), firstgoto |-> Len(c.gt),
      upval |-> FALSE, isloop |-> isloop, until |-> until])]

Visible(c) == {k \in DOMAIN c.label : k > Top(c).firstlabel}
SemError(c) == [c EXCEPT !.st = "error"]
CloseGotoUnchecked(c, g, lb) == PatchList(c, g.pc, lb.pc)      \* a mutant
CloseGoto(c, g, lb) ==
  IF g.nactvar < lb.nactvar THEN SemError(c) ELSE PatchList(c, g.pc, lb.pc)
CloseBackward(c, g, lb) ==
  CloseGoto(IF g.nactvar > lb.nactvar THEN PatchClose(c, g.pc, lb.nactvar) ELSE c, g, lb)
\* The goto jumps to a label of the block, or waits.
FindLabel(c, g) ==
  IF \E k \in Visible(c) : c.label[k].name = g.name
  THEN CloseBackward(c, g, c.label[CHOOSE k \in Visible(c) : c.label[k].name = g.name])
  ELSE [c EXCEPT !.gt = Append(@, g)]
GotoStat(c, name, list) ==
  FindLabel(c, [name |-> name, pc |-> list, nactvar |-> NActVar(c)])

FindGotos(c, lb) ==
  FoldLeft(LAMBDA d, g : IF g.name = lb.name THEN CloseGoto(d, g, lb)
                         ELSE [d EXCEPT !.gt = Append(@, g)],
           [c EXCEPT !.gt = SubSeq(@, 1, Top(c).firstgoto)],
           SubSeq(c.gt, Top(c).firstgoto + 1, Len(c.gt)))
NewLabel(c, lb) == FindGotos([c EXCEPT !.label = Append(@, lb)], lb)
\* last: nothing but labels follows in the block.
LabelStat(c, name, last) ==
  IF \E k \in Visible(c) : c.label[k].name = name THEN SemError(c)
  ELSE NewLabel(c, [name |-> name, pc |-> Pc(c),
                    nactvar |-> IF last /\ ~Top(c).until THEN Top(c).nactvar
                                ELSE NActVar(c)])
BreakLabel(c) ==
  IF Top(c).isloop
  THEN NewLabel(c, [name |-> "break", pc |-> Pc(c), nactvar |-> NActVar(c)]) ELSE c

\* The gotos of the block b just left.
MoveGotosOut(c, b) ==
  FoldLeft(LAMBDA d, g :
             IF g.nactvar > b.nactvar
             THEN FindLabel(IF b.upval THEN PatchClose(d, g.pc, b.nactvar) ELSE d,
                            [g EXCEPT !.nactvar = b.nactvar])
             ELSE FindLabel(d, g),
           [c EXCEPT !.gt = SubSeq(@, 1, b.firstgoto)],
           SubSeq(c.gt, b.firstgoto + 1, Len(c.gt)))
CloseHere(c, level) == PatchToHere(PatchClose(c, c.j, level), c.j)
CloseUpvals(c) ==
  IF Len(c.bl) > 1 /\ Top(c).upval THEN CloseHere(Jump(c), Top(c).nactvar) ELSE c
DropBlock(c, b) ==
  [c EXCEPT !.bl = SubSeq(@, 1, Len(@) - 1), !.vars = SubSeq(@, 1, b.nactvar),
            !.freereg = b.nactvar, !.label = SubSeq(@, 1, b.firstlabel)]
AfterBlock(c, b) ==
  IF c.bl # <<>> THEN MoveGotosOut(c, b)
  ELSE IF Len(c.gt) > b.firstgoto THEN SemError(c) ELSE c
LeaveBlock2(c) ==
  IF c.st # "ok" THEN c ELSE AfterBlock(DropBlock(c, Top(c)), Top(c))
LeaveBlock(c) ==
  IF c.st # "ok" THEN c ELSE LeaveBlock2(BreakLabel(CloseUpvals(c)))

\* A list of statements that ends the block.
IsLabel(s) == s[1] = "label"
AllLabels(ss) == \A n \in DOMAIN ss : IsLabel(ss[n])
Stat(c, ss) ==
  IF IsLabel(ss[1]) THEN LabelStat(c, ss[1][2], AllLabels(ss)) ELSE Parse(c, ss[1])
StatList(c, ss) == Parse(c, <<"statlist", ss>>)
StatFirst(c, ss) == IF ss = <<>> THEN c ELSE StatList(Stat(c, ss), Tail(ss))

(***************************************************************************)
(* Functions.                                                              *)
(***************************************************************************)
ProtoOf(c) ==
  [code |-> c.code, k |-> c.k, maxstack |-> c.maxstack, numparams |-> c.numparams,
   vararg |-> c.vararg, ups |-> c.ups, p |-> c.protos]
OpenFunc(outer) == EnterBlock([FuncState EXCEPT !.prev = outer], FALSE, FALSE)
ParList(c, params, vararg) ==
  ReserveRegs([AdjustLocalVars(c, params) EXCEPT !.numparams = Len(params),
                                                 !.vararg = vararg], Len(params))
CloseFunc(c) == LeaveBlock(Ret(c, 0, 0))
CodeClosure(c, p) ==
  Exp2NextReg(Reloc(WithE(Code([c EXCEPT !.protos = Append(@, p)],
                               I("CLOSURE", 0, Len(c.protos), 0)), VVoid)))
BodyEnd(f) ==
  IF f.st # "ok" THEN [f.prev[1] EXCEPT !.st = f.st]
  ELSE CodeClosure(f.prev[1], ProtoOf(f))
\* A method has the parameter "self" first.
Body(c, params, vararg, ss) ==
  BodyEnd(CloseFunc(StatList(ParList(OpenFunc(<<c>>), params, vararg), ss)))

(***************************************************************************)
(* Expressions.                                                            *)
(***************************************************************************)
\* All of the list but its last expression is put in registers.
ExpList(c, es) == Parse(c, <<"explist", es>>)
ExpFirst(c, es) ==
  IF Len(es) = 1 THEN Parse(c, es[1])
  ELSE ExpList(Exp2NextReg(Parse(c, es[1])), Tail(es))

CloseArgs(c) ==
  IF HasMultRet(c.e) THEN SetReturns(c, MultRet)
  ELSE IF c.e.k # "VVOID" THEN Exp2NextReg(c) ELSE c
CallAt(c, base) ==
  [Code(c, I("CALL", base,
             IF HasMultRet(c.e) THEN MultRet + 1 ELSE c.freereg - base, 2)) EXCEPT
     !.e = Exp("VCALL", Pc(c)), !.freereg = base + 1]
FuncArgsAt(c, base, args) ==
  CallAt(CloseArgs(IF args = <<>> THEN WithE(c, VVoid) ELSE ExpList(c, args)), base)
FuncArgs(c, args) ==
  FuncArgsAt(Check(c, c.e.k = "VNONRELOC"), c.e.info, args)

\* A constructor: cc.t is the register of the table, na and tostore count the
\* items of the list, and the last item read is the expression.
CloseListField(c, cc) ==
  IF c.e.k = "VVOID" THEN <<c, cc>>
  ELSE IF cc.tostore = FieldsPerFlush
  THEN <<WithE(SetList(Exp2NextReg(c), cc.t, cc.na, cc.tostore), VVoid),
         [cc EXCEPT !.tostore = 0]>>
  ELSE <<WithE(Exp2NextReg(c), VVoid), cc>>
LastListField(c, cc) ==
  IF cc.tostore = 0 THEN c
  ELSE IF HasMultRet(c.e) THEN SetList(SetReturns(c, MultRet), cc.t, cc.na, MultRet)
  ELSE SetList(IF c.e.k # "VVOID" THEN Exp2NextReg(c) ELSE c, cc.t, cc.na, cc.tostore)
RecStore(c, t, rkkey, reg) ==
  [Code(c, I("SETTABLE", t, rkkey, RK(c.e))) EXCEPT !.freereg = reg, !.e = VVoid]
RecValue(c, t, v, reg) == RecStore(Exp2RK(Parse(c, v)), t, RK(c.e), reg)
RecField(c, t, k, v) == RecValue(Exp2RK(Exp2Val(Parse(c, k))), t, v, c.freereg)
RECURSIVE Fields(_, _, _)
FieldsFrom(p, items) ==      \* p is the pair that CloseListField returns
  IF Len(items[1]) = 1
  THEN Fields(Parse(p[1], items[1][1]),
              [p[2] EXCEPT !.na = @ + 1, !.tostore = @ + 1], Tail(items))
  ELSE Fields(RecField(p[1], p[2].t, items[1][1], items[1][2]), p[2], Tail(items))
Fields(c, cc, items) ==
  IF items = <<>> THEN LastListField(c, cc) ELSE FieldsFrom(CloseListField(c, cc), items)
Constructed(c, items) ==
  WithE(Fields(WithE(c, VVoid), [t |-> c.e.info, na |-> 0, tostore |-> 0], items),
        Exp("VNONRELOC", c.e.info))
Constructor(c, items) ==
  Constructed(Exp2NextReg(Reloc(WithE(Code(c, I("NEWTABLE", 0, 0, 0)), VVoid))), items)

IndexExp(c, t, k) == Indexed(Exp2Val(Parse(c, k)), t)
IndexUp(c, k) == IndexExp(c, c.e, k)
SelfNamed(c, recv) == Self(WithE(c, recv), c.e)
SelfField(c, name) == SelfNamed(CodeString(c, name), c.e)

SuffixedExp(c, x) ==
  CASE x[1] = "name" -> SingleVar(c, x[2])
    [] x[1] = "paren" -> DischargeVars(Parse(c, x[2]))
    [] x[1] = "field" -> FieldSel(Parse(c, x[2]), x[3])
    [] x[1] = "index" -> IndexUp(Exp2AnyRegUp(Parse(c, x[2])), x[3])
    [] x[1] = "method" -> FuncArgs(SelfField(Parse(c, x[2]), x[3]), x[4])
    [] x[1] = "call" -> FuncArgs(Exp2NextReg(Parse(c, x[2])), x[3])

SimpleExp(c, x) ==
  CASE x[1] = "num" -> InitExp(c, "VKNUM", x[2])
    [] x[1] = "str" -> CodeString(c, x[2])
    [] x[1] = "nil" -> InitExp(c, "VNIL", 0)
    [] x[1] = "true" -> InitExp(c, "VTRUE", 0)
    [] x[1] = "false" -> InitExp(c, "VFALSE", 0)
    [] x[1] = "dots" ->
         [Code(c, I("VARARG", 0, 1, 0)) EXCEPT !.e = Exp("VVARARG", Pc(c))]
    [] x[1] = "table" -> Constructor(c, x[2])
    [] x[1] = "function" -> Body(c, x[2], x[3], x[4])
    [] OTHER -> SuffixedExp(c, x)

UnOprs == {"not", "neg", "len"}
BinOprs == {"and", "or", "concat"} \cup DOMAIN ArithOp \cup DOMAIN CompOp
\* The left and the right priority of a binary operator.
Priority(op) ==
  CASE op \in {"add", "sub"} -> <<6, 6>>
    [] op \in {"mul", "mod"} -> <<7, 7>>
    [] op = "pow" -> <<10, 9>>
    [] op = "concat" -> <<5, 4>>
    [] op \in DOMAIN CompOp -> <<3, 3>>
    [] op = "and" -> <<2, 2>>
    [] op = "or" -> <<1, 1>>
UnaryPriority == 8
\* The operators and operands still to be read are in c.toks.
Token(c) == c.toks[1]
Next1(c) == [c EXCEPT !.toks = Tail(@)]
Operand(c) == [SimpleExp(c, Token(c)) EXCEPT !.toks = Tail(c.toks)]
BinaryV(c, op, e1, limit) == Parse(Posfix(c, op, e1), <<"binary", limit>>)
BinaryIn(c, op, limit) ==
  BinaryV(Parse(Next1(c), <<"subexpr", Priority(op)[2]>>), op, c.e, limit)
Binary(c, limit) ==
  IF c.toks = <<>> \/ Priority(Token(c)[2])[1] <= limit THEN c
  ELSE BinaryIn(Infix(c, Token(c)[2]), Token(c)[2], limit)
Unary(c) == Prefix(Parse(Next1(c), <<"subexpr", UnaryPriority>>), Token(c)[2])
SubExpr(c, limit) ==
  Parse(IF Token(c)[1] = "op" THEN Unary(c) ELSE Operand(c), <<"binary", limit>>)
Expr(c, x) ==
  CASE x[1] = "explist" -> ExpFirst(c, x[2])
    [] x[1] = "exp" -> [Parse([c EXCEPT !.toks = x[2]], <<"subexpr", 0>>) EXCEPT !.toks = c.toks]
    [] x[1] = "subexpr" -> SubExpr(c, x[2])
    [] x[1] = "binary" -> Binary(c, x[2])
    [] OTHER -> SimpleExp(c, x)

(***************************************************************************)
(* Statements.                                                             *)
(***************************************************************************)
NilTail(c, extra) ==
  IF extra > 0 THEN LoadNil(ReserveRegs(c, extra), c.freereg, extra) ELSE c
AdjustAssign(c, nvars, nexps) ==
  LET extra == nvars - nexps
      more == IF extra + 1 < 0 THEN 0 ELSE extra + 1
  IN IF HasMultRet(c.e)
     THEN ReserveRegs(SetReturns(c, more), IF more > 1 THEN more - 1 ELSE 0)
     ELSE NilTail(IF c.e.k # "VVOID" THEN Exp2NextReg(c) ELSE c, extra)

LocalStat(c, names, es) ==
  AdjustLocalVars(AdjustAssign(IF es = <<>> THEN WithE(c, VVoid) ELSE ExpList(c, es),
                               Len(names), Len(es)), names)
LocalFunc(c, name, f) == Parse(AdjustLocalVars(c, <<name>>), f)
FuncStatV(c, f, v) == StoreVar(Parse(c, f), v)
FuncTo(c, f) == FuncStatV(c, f, c.e)
FuncStat(c, v, f) == FuncTo(Parse(c, v), f)

RECURSIVE StoreVars(_, _)
\* Earlier targets t[k] whose table or key is the variable v of this target
\* will use a copy of v.
Conflict(lh, v) ==
  /\ lh.k = "VINDEXED"
  /\ (lh.vt = v.k /\ lh.info = v.info) \/ (v.k = "VLOCAL" /\ lh.idx = v.info)
SafeCopy(lh, v, extra) ==
  IF lh.k # "VINDEXED" THEN lh
  ELSE LET s == IF lh.vt = v.k /\ lh.info = v.info
                THEN [lh EXCEPT !.vt = "VLOCAL", !.info = extra] ELSE lh
       IN IF v.k = "VLOCAL" /\ lh.idx = v.info THEN [s EXCEPT !.idx = extra] ELSE s
CheckConflictDropped(c, lhs, v) == c                           \* a mutant
CheckConflict(c, lhs, v) ==
  IF \E n \in DOMAIN lhs : Conflict(lhs[n], v)
  THEN ReserveRegs(Code(c, I(IF v.k = "VLOCAL" THEN "MOVE" ELSE "GETUPVAL",
                             c.freereg, v.info, 0)), 1)
  ELSE c

StoreVars(c, lhs) ==         \* the value for each is in the topmost register
  IF lhs = <<>> THEN c
  ELSE StoreVars(StoreVar(InitExp(c, "VNONRELOC", c.freereg - 1), lhs[Len(lhs)]),
                 SubSeq(lhs, 1, Len(lhs) - 1))
StoreLast(c, lhs) ==
  StoreVars(StoreVar(SetOneRet(c), lhs[Len(lhs)]), SubSeq(lhs, 1, Len(lhs) - 1))
AssignTo(c, lhs, nexps) ==
  IF nexps = Len(lhs) THEN StoreLast(c, lhs)
  ELSE LET a == AdjustAssign(c, Len(lhs), nexps)
       IN StoreVars(IF nexps > Len(lhs) THEN [a EXCEPT !.freereg = @ - (nexps - Len(lhs))]
                    ELSE a, lhs)
RECURSIVE Targets(_, _, _, _)
NextTarget(c, lhs, vars, es) ==
  IF c.e.k = "VINDEXED" THEN Targets(c, Append(lhs, c.e), vars, es)
  ELSE Targets(CheckConflict(c, lhs, c.e),
               Append([n \in DOMAIN lhs |-> SafeCopy(lhs[n], c.e, c.freereg)], c.e),
               vars, es)
Targets(c, lhs, vars, es) ==
  IF vars = <<>> THEN AssignTo(ExpList(c, es), lhs, Len(es))
  ELSE NextTarget(Parse(c, vars[1]), lhs, Tail(vars), es)
Assignment(c, vars, es) == Targets(c, <<>>, vars, es)

CallStat(c) == SetArg(c, c.e.info, [At(c, c.e.info) EXCEPT !.c = 1])

TailCall(c) ==
  Check(SetArg(c, c.e.info, [At(c, c.e.info) EXCEPT !.op = "TAILCALL"]),
         At(c, c.e.info).a = NActVar(c))
RetReg(c) == Ret(c, c.e.info, 1)
RetAll(c, n) == Ret(Check(c, n = c.freereg - NActVar(c)), NActVar(c), n)
RetOpen(c, n) ==
  Ret(IF c.e.k = "VCALL" /\ n = 1 THEN TailCall(c) ELSE c, NActVar(c), MultRet)
RetList(c, n) ==
  IF HasMultRet(c.e) THEN RetOpen(SetReturns(c, MultRet), n)
  ELSE IF n = 1 THEN RetReg(Exp2AnyReg(c)) ELSE RetAll(Exp2NextReg(c), n)
RetStat(c, es) == IF es = <<>> THEN Ret(c, 0, 0) ELSE RetList(ExpList(c, es), Len(es))

CondV(c) == GoIfTrue(IF c.e.k = "VNIL" THEN [c EXCEPT !.e.k = "VFALSE"] ELSE c)
Cond(c, x) == CondV(Parse(c, x))

Block(c, ss) == LeaveBlock(StatList(EnterBlock(c, FALSE, FALSE), ss))

WhileBody(c, exit, ss, init) ==
  PatchToHere(LeaveBlock(JumpTo(Block(EnterBlock(c, TRUE, FALSE), ss), init)), exit)
WhileCond(c, ss, init) == WhileBody(c, c.e.f, ss, init)
WhileStat(c, x, ss) == WhileCond(Cond(GetLabel(c), x), ss, Pc(c))

RepeatEnd(c, exit, init) == LeaveBlock(PatchList(LeaveBlock(c), exit, init))
RepeatCond(c, init) ==
  RepeatEnd(IF c.st = "ok" /\ Top(c).upval THEN PatchClose(c, c.e.f, Top(c).nactvar) ELSE c,
            c.e.f, init)
RepeatStat(c, ss, x) ==
  RepeatCond(Cond(StatList(EnterBlock(EnterBlock(GetLabel(c), TRUE, FALSE), FALSE, TRUE), ss), x),
             Pc(c))

ForLoop(c, base, prep, num, nvars) ==
  IF num THEN PatchList(Code(c, I("FORLOOP", base, NoJump, 0)), {Pc(c)}, prep + 1)
  ELSE PatchList(Code(Code(c, I("TFORCALL", base, 0, nvars)),
                      I("TFORLOOP", base + 2, NoJump, 0)), {Pc(c) + 1}, prep + 1)
ForVars(c, base, num, names, ss) ==   \* the jump just made is in c.j
  ForLoop(PatchToHere(LeaveBlock(Block(
            ReserveRegs(AdjustLocalVars(EnterBlock(c, FALSE, FALSE), names), Len(names)), ss)),
                      c.j), base, Pc(c) - 1, num, Len(names))
ForPrep(c, base, num) ==
  IF num THEN [Code(c, I("FORPREP", base, NoJump, 0)) EXCEPT !.j = {Pc(c)}] ELSE Jump(c)
ForVar == "(for)"           \* the three control variables
ForBody(c, base, num, names, ss) ==
  LeaveBlock(ForVars(ForPrep(AdjustLocalVars(c, <<ForVar, ForVar, ForVar>>), base, num),
                     base, num, names, ss))
DefaultStep(c) == ReserveRegs(LoadK(AddK(c, Num(1)), c.freereg), 1)
Exp1(c, x) == Exp2NextReg(Parse(c, x))
EnterFor(c) == EnterBlock(c, TRUE, FALSE)
ForNum(c, name, from, to, step, ss) ==
  ForBody(IF step = <<>> THEN DefaultStep(Exp1(Exp1(EnterFor(c), from), to))
          ELSE Exp1(Exp1(Exp1(EnterFor(c), from), to), step), c.freereg, TRUE, <<name>>, ss)
CheckStack(c, n) == [ReserveRegs(c, n) EXCEPT !.freereg = c.freereg]
ForList(c, names, es, ss) ==
  ForBody(CheckStack(AdjustAssign(ExpList(EnterFor(c), es), 3, Len(es)), 3),
          c.freereg, FALSE, names, ss)

\* A then part that begins with a goto or break is the jump of the test itself.
LabelOf(s) == IF s[1] = "break" THEN "break" ELSE s[2]
IsGoto(ss) == ss # <<>> /\ ss[1][1] \in {"break", "goto"}
IfGoto(c, ss) ==
  GotoStat(EnterBlock(c, FALSE, FALSE), LabelOf(ss[1]), c.e.t)
Labels(ss) == SubSeq(ss, 1, LastOf({n \in 0..Len(ss) : AllLabels(SubSeq(ss, 1, n))}))
RECURSIVE IfChain(_, _, _, _)
Escape(c, jf, clauses, els, escape) ==   \* the jump over the rest is in c.j
  IfChain(PatchToHere(c, jf), clauses, els, escape \cup c.j)
JumpOver(c, clauses, els) ==
  IF clauses # <<>> \/ els # <<>> THEN Jump(c) ELSE [c EXCEPT !.j = {}]
ThenPart(c, jf, ss, clauses, els, escape) ==
  Escape(JumpOver(LeaveBlock(StatList(c, ss)), clauses, els), jf, clauses, els, escape)
SkipThen(c, ss, clauses, els, escape) == ThenPart(c, c.j, ss, clauses, els, escape)
GotoThen(c, ss, clauses, els, escape) ==      \* ss follows the goto and its labels
  IF ss = <<>> THEN IfChain(LeaveBlock(c), clauses, els, escape)
  ELSE SkipThen(Jump(c), ss, clauses, els, escape)
RegularThen(c, ss, clauses, els, escape) ==
  ThenPart(EnterBlock(c, FALSE, FALSE), c.e.f, ss, clauses, els, escape)
TestThenBlock(c, x, ss, clauses, els, escape) ==
  IF ~IsGoto(ss) THEN RegularThen(GoIfTrue(Parse(c, x)), ss, clauses, els, escape)
  ELSE GotoThen(StatList(IfGoto(GoIfFalse(Parse(c, x)), ss), Labels(Tail(ss))),
                SubSeq(ss, 2 + Len(Labels(Tail(ss))), Len(ss)), clauses, els, escape)
IfChain(c, clauses, els, escape) ==
  IF c.st # "ok" THEN c
  ELSE IF clauses = <<>>
  THEN PatchToHere(IF els = <<>> THEN c ELSE Block(c, els), escape)
  ELSE TestThenBlock(c, clauses[1][1], clauses[1][2], Tail(clauses), els, escape)
GotoHere(c, name) == GotoStat(c, name, c.j)

FreeRegs(c) ==
  [Check(c, c.maxstack >= c.freereg /\ c.freereg >= NActVar(c)) EXCEPT !.freereg = NActVar(c)]
Statements == {"locals", "localfunc", "funcstat", "assign", "callstat", "do", "if", "while",
               "repeat", "for", "in", "break", "goto", "return"}
Statement(c, s) ==
  FreeRegs(CASE s[1] = "locals" -> LocalStat(c, s[2], s[3])
             [] s[1] = "localfunc" -> LocalFunc(c, s[2], s[3])
             [] s[1] = "funcstat" -> FuncStat(c, s[2], s[3])
             [] s[1] = "assign" -> Assignment(c, s[2], s[3])
             [] s[1] = "callstat" -> CallStat(Parse(c, s[2]))
             [] s[1] = "do" -> Block(c, s[2])
             [] s[1] = "if" -> IfChain(c, s[2], s[3], {})
             [] s[1] = "while" -> WhileStat(c, s[2], s[3])
             [] s[1] = "repeat" -> RepeatStat(c, s[2], s[3])
             [] s[1] = "for" -> ForNum(c, s[2], s[3], s[4], s[5], s[6])
             [] s[1] = "in" -> ForList(c, s[2], s[3], s[4])
             [] s[1] \in {"break", "goto"} -> GotoHere(Jump(c), LabelOf(s))
             [] s[1] = "return" -> RetStat(c, s[2]))
Parse(c, x) ==
  IF c.st # "ok" THEN c          \* an error ends the compilation
  ELSE IF x[1] = "statlist" THEN StatFirst(c, x[2])
  ELSE IF x[1] \in Statements THEN Statement(c, x) ELSE Expr(c, x)

\* The main function is vararg, and the environment is its upvalue.
Main == [NewUpvalue(OpenFunc(<<>>), "_ENV", Exp("VLOCAL", 0)) EXCEPT !.vararg = TRUE]
Compile(ss) == CloseFunc(StatList(Main, ss))
=============================================================================
