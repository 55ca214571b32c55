------------------------------ MODULE LuaCode ------------------------------
(***************************************************************************)
(* The code generator of Lua (lcode.c).  The state of a function being     *)
(* compiled is a record c: FuncState with the expression descriptor the    *)
(* parser works on (c.e), so that every operation maps a record to the     *)
(* next one.  A list of jumps, which the code threads through the jump     *)
(* instructions themselves, is the set of their addresses; an address is   *)
(* absolute where the code has an offset.  Line numbers are left out.      *)
(***************************************************************************)

EXTENDS Integers, Sequences

CONSTANTS MaxIndexRK,      \* the largest constant an operand can name
          FieldsPerFlush   \* list items that one SETLIST stores

NoJump == -1
NoReg == 255
MultRet == -1
BitRK == 256               \* an operand from BitRK on is a constant
ISK(x) == x >= BitRK
NilV == <<"nil">>
Num(n) == <<"num", n>>
Bool(b) == <<"bool", b>>
StrV(name) == <<"str", <<name>>>>       \* a string is the sequence of its pieces

\* An instruction.  The target of a jump is in b.
I(op, a, b, c) == [op |-> op, a |-> a, b |-> b, c |-> c]
Tests == {"EQ", "LT", "LE", "TEST", "TESTSET"}

\* An expression.  info is the register, the constant, the address of the
\* instruction or the table, by kind; t and f are the jumps taken when the
\* expression is true and when it is false.
Exp(k, info) ==
  [k |-> k, info |-> info, idx |-> 0, vt |-> "", t |-> {}, f |-> {}]
VVoid == Exp("VVOID", 0)
HasJumps(e) == e.t # e.f
IsNumeral(e) == e.k = "VKNUM" /\ ~HasJumps(e)
HasMultRet(e) == e.k \in {"VCALL", "VVARARG"}

\* The FuncState that the records extend: prev is the function around it, e the
\* expression, j the jump just made.  st becomes "assert" when an assertion
\* of the code generator fails and "error" on a semantic error.
FuncState ==
  [code |-> <<>>, k |-> <<>>, jpc |-> {}, lasttarget |-> 0, freereg |-> 0,
   vars |-> <<>>, ups |-> <<>>, protos |-> <<>>, numparams |-> 0, vararg |-> FALSE,
   maxstack |-> 2, prev |-> <<>>, bl |-> <<>>, gt |-> <<>>, label |-> <<>>,
   e |-> VVoid, j |-> {}, toks |-> <<>>, st |-> "ok"]
NActVar(c) == Len(c.vars)

Pc(c) == Len(c.code)
At(c, pc) == c.code[pc + 1]
SetArg(c, pc, i) == [c EXCEPT !.code[pc + 1] = i]
WithE(c, e) == [c EXCEPT !.e = e]
InReg(c, reg) == [c EXCEPT !.e.k = "VNONRELOC", !.e.info = reg]
Reloc(c) == [c EXCEPT !.e.k = "VRELOCABLE", !.e.info = Pc(c) - 1]
Check(c, p) == IF p \/ c.st # "ok" THEN c ELSE [c EXCEPT !.st = "assert"]

(***************************************************************************)
(* Jumps.                                                                  *)
(***************************************************************************)
GetJumpControl(c, pc) == IF pc >= 1 /\ At(c, pc - 1).op \in Tests THEN pc - 1 ELSE pc
NeedValue(c, list) == \E pc \in list : At(c, GetJumpControl(c, pc)).op # "TESTSET"

\* A TESTSET gets the register of the value, or becomes a TEST when nobody
\* needs the value or the register already has it.
PatchTestReg(i, reg) ==
  IF i.op # "TESTSET" THEN i
  ELSE IF reg # NoReg /\ reg # i.b THEN [i EXCEPT !.a = reg]
  ELSE I("TEST", i.b, 0, i.c)

RemoveValues(c, list) ==
  [c EXCEPT !.code = [n \in DOMAIN @ |-> IF n \in list THEN PatchTestReg(@[n], NoReg)
                                                        ELSE @[n]]]

PatchListAux(c, list, vtarget, reg, dtarget) ==
  IF list = {} THEN c ELSE
  [Check(c, \A pc \in list :
             (IF NeedValue(c, {pc}) THEN dtarget ELSE vtarget) # NoJump) EXCEPT !.code =
     [n \in DOMAIN c.code |->
        IF n - 1 \in list
        THEN [c.code[n] EXCEPT !.b = IF NeedValue(c, {n - 1}) THEN dtarget ELSE vtarget]
        ELSE IF n \in list THEN PatchTestReg(c.code[n], reg) ELSE c.code[n]]]

\* The jumps of the list close the upvalues from level on.
PatchClose(c, list, level) ==
  [Check(c, \A pc \in list : At(c, pc).op = "JMP" /\ (At(c, pc).a = 0 \/ At(c, pc).a > level))
   EXCEPT !.code = [n \in DOMAIN @ |-> IF n - 1 \in list THEN [@[n] EXCEPT !.a = level + 1]
                                                          ELSE @[n]]]

DischargeJpc(c) ==
  [PatchListAux(c, c.jpc, Pc(c), NoReg, Pc(c)) EXCEPT !.jpc = {}]
Code(c, i) ==
  [DischargeJpc(c) EXCEPT !.code = Append(@, i)]

GetLabel(c) == [c EXCEPT !.lasttarget = Pc(c)]
PatchToHere(c, list) == [GetLabel(c) EXCEPT !.jpc = @ \cup list]
PatchList(c, list, target) ==
  IF target = Pc(c) THEN PatchToHere(c, list)
  ELSE PatchListAux(c, list, target, NoReg, target)

\* The list of the new jump is left in c.j: the jumps that were to come here
\* are put on hold behind it.
Jump(c) ==
  [Code([c EXCEPT !.jpc = {}], I("JMP", 0, NoJump, 0)) EXCEPT !.j = {Pc(c)} \cup c.jpc]
CondJump(c, op, A, B, C) == Jump(Code(c, I(op, A, B, C)))
PatchJump(c, target) == PatchList(c, c.j, target)
JumpTo(c, target) == PatchJump(Jump(c), target)

(***************************************************************************)
(* Registers and constants.                                                *)
(***************************************************************************)
ReserveRegs(c, n) ==
  [c EXCEPT !.freereg = @ + n,
            !.maxstack = IF c.freereg + n > @ THEN c.freereg + n ELSE @]
FreeReg(c, reg) ==
  IF ISK(reg) \/ reg < NActVar(c) THEN c
  ELSE Check([c EXCEPT !.freereg = @ - 1], reg = c.freereg - 1)
FreeExp(c, e) == IF e.k = "VNONRELOC" THEN FreeReg(c, e.info) ELSE c

\* The constant v becomes the expression, the old entry being used again.
AddK(c, v) ==
  IF \E n \in DOMAIN c.k : c.k[n] = v
  THEN [c EXCEPT !.e.k = "VK", !.e.info = (CHOOSE n \in DOMAIN c.k : c.k[n] = v) - 1]
  ELSE [c EXCEPT !.e.k = "VK", !.e.info = Len(c.k), !.k = Append(@, v)]

LoadNil(c, from, n) ==
  LET p == At(c, Pc(c) - 1)
      l == from + n - 1
      pl == p.a + p.b
      first == IF p.a < from THEN p.a ELSE from
      last == IF pl > l THEN pl ELSE l
  IN IF /\ Pc(c) > c.lasttarget
        /\ p.op = "LOADNIL"
        /\ (p.a <= from /\ from <= pl + 1) \/ (from <= p.a /\ p.a <= l + 1)
     THEN SetArg(c, Pc(c) - 1, I("LOADNIL", first, last - first, 0))
     ELSE Code(c, I("LOADNIL", from, n - 1, 0))

SetReturns(c, nresults) ==
  IF c.e.k = "VCALL"
  THEN SetArg(c, c.e.info, [At(c, c.e.info) EXCEPT !.c = nresults + 1])
  ELSE IF c.e.k = "VVARARG"
  THEN ReserveRegs(SetArg(c, c.e.info, I("VARARG", c.freereg, nresults + 1, 0)), 1)
  ELSE c

SetOneRet(c) ==
  IF c.e.k = "VCALL" THEN InReg(c, At(c, c.e.info).a)
  ELSE IF c.e.k = "VVARARG"
  THEN [SetArg(c, c.e.info, [At(c, c.e.info) EXCEPT !.b = 2]) EXCEPT !.e.k = "VRELOCABLE"]
  ELSE c

(***************************************************************************)
(* Where the value of an expression is put.                                *)
(***************************************************************************)
DischargeIndexed(c, e) ==
  IF e.vt = "VLOCAL"
  THEN Code(FreeReg(FreeReg(c, e.idx), e.info), I("GETTABLE", 0, e.info, e.idx))
  ELSE Code(FreeReg(c, e.idx), I("GETTABUP", 0, e.info, e.idx))

DischargeVars(c) ==
  CASE c.e.k = "VLOCAL"   -> InReg(c, c.e.info)
    [] c.e.k = "VUPVAL"   -> Reloc(Code(c, I("GETUPVAL", 0, c.e.info, 0)))
    [] c.e.k = "VINDEXED" -> Reloc(DischargeIndexed(c, c.e))
    [] OTHER -> SetOneRet(c)

LoadK(c, reg) == Code(c, I("LOADK", reg, c.e.info, 0))
D2R(c, reg) ==
  LET e == c.e IN
  CASE e.k = "VNIL" -> LoadNil(c, reg, 1)
    [] e.k \in {"VFALSE", "VTRUE"} ->
         Code(c, I("LOADBOOL", reg, IF e.k = "VTRUE" THEN 1 ELSE 0, 0))
    [] e.k = "VK" -> LoadK(c, reg)
    [] e.k = "VKNUM" -> LoadK(AddK(c, Num(e.info)), reg)
    [] e.k = "VRELOCABLE" -> SetArg(c, e.info, [At(c, e.info) EXCEPT !.a = reg])
    [] e.k = "VNONRELOC" ->
         IF reg # e.info THEN Code(c, I("MOVE", reg, e.info, 0)) ELSE c
    [] OTHER -> c
D2Rk(c, reg) ==
  IF c.e.k \in {"VVOID", "VJMP"} THEN c ELSE InReg(D2R(c, reg), reg)
Discharge2Reg(c, reg) == D2Rk(DischargeVars(c), reg)
Discharge2AnyReg(c) ==
  IF c.e.k = "VNONRELOC" THEN c ELSE Discharge2Reg(ReserveRegs(c, 1), c.freereg)

CodeLabel(c, A, b, jump) == Code(GetLabel(c), I("LOADBOOL", A, b, jump))

\* The two loads of a boolean that jumps without a value go to.
LoadBools(c, reg) ==
  PatchToHere(CodeLabel(CodeLabel(c, reg, 0, 1), reg, 1, 0), c.j)
PatchValues(c, reg, pf, pt) ==
  PatchListAux(PatchListAux(c, c.e.f, Pc(c), reg, pf), c.e.t, Pc(c), reg, pt)
PatchLoads(c, reg) == PatchValues(GetLabel(c), reg, Pc(c) - 2, Pc(c) - 1)
CloseJumps(c, reg) ==
  IF NeedValue(c, c.e.t \cup c.e.f)
  THEN PatchLoads(LoadBools(IF c.e.k = "VJMP" THEN [c EXCEPT !.j = {}] ELSE Jump(c), reg),
                  reg)
  ELSE PatchValues(GetLabel(c), reg, NoJump, NoJump)
E2R(c, reg) ==
  InReg([(IF HasJumps(c.e) THEN CloseJumps(c, reg) ELSE c)
         EXCEPT !.e.t = {}, !.e.f = {}], reg)
E2RJmp(c, reg) ==
  E2R(IF c.e.k = "VJMP" THEN [c EXCEPT !.e.t = @ \cup {c.e.info}] ELSE c, reg)
Exp2Reg(c, reg) == E2RJmp(Discharge2Reg(c, reg), reg)

E2Next(c) == Exp2Reg(ReserveRegs(c, 1), c.freereg)
Exp2NextRegV(c) == E2Next(FreeExp(c, c.e))
Exp2NextReg(c) == Exp2NextRegV(DischargeVars(c))
E2Any(c) ==
  IF c.e.k = "VNONRELOC" /\ ~HasJumps(c.e) THEN c
  ELSE IF c.e.k = "VNONRELOC" /\ c.e.info >= NActVar(c) THEN Exp2Reg(c, c.e.info)
  ELSE Exp2NextRegV(c)
Exp2AnyReg(c) == E2Any(DischargeVars(c))
Exp2AnyRegUp(c) ==
  IF c.e.k # "VUPVAL" \/ HasJumps(c.e) THEN Exp2AnyReg(c) ELSE c
Exp2Val(c) == IF HasJumps(c.e) THEN Exp2AnyReg(c) ELSE DischargeVars(c)

ConstantOf == [VNIL |-> NilV, VTRUE |-> Bool(TRUE), VFALSE |-> Bool(FALSE)]
E2Const(c) ==
  CASE c.e.k \in DOMAIN ConstantOf ->
         IF Len(c.k) <= MaxIndexRK THEN AddK(c, ConstantOf[c.e.k]) ELSE c
    [] c.e.k = "VKNUM" -> AddK(c, Num(c.e.info))
    [] OTHER -> c
E2RK(c) == IF c.e.k = "VK" /\ c.e.info <= MaxIndexRK THEN c ELSE Exp2AnyReg(c)
Exp2RK(c) == E2RK(E2Const(Exp2Val(c)))
\* The operand that Exp2RK returns.
RK(e) == IF e.k = "VK" THEN BitRK + e.info ELSE e.info

(***************************************************************************)
(* Variables.                                                              *)
(***************************************************************************)
StoreIndexed(c, var) ==
  FreeExp(Code(c, I(IF var.vt = "VLOCAL" THEN "SETTABLE" ELSE "SETTABUP",
                    var.info, var.idx, RK(c.e))), c.e)
StoreUp(c, var) == FreeExp(Code(c, I("SETUPVAL", c.e.info, var.info, 0)), c.e)
StoreVar(c, var) ==
  CASE var.k = "VLOCAL" -> Exp2Reg(FreeExp(c, c.e), var.info)
    [] var.k = "VUPVAL" -> StoreUp(Exp2AnyReg(c), var)
    [] var.k = "VINDEXED" -> StoreIndexed(Exp2RK(c), var)

\* t[k], k being the expression.
IndexedRK(c, t) ==
  Check([c EXCEPT !.e = [t EXCEPT !.k = "VINDEXED", !.idx = RK(c.e),
                                   !.vt = IF t.k = "VUPVAL" THEN "VUPVAL" ELSE "VLOCAL"]],
         ~HasJumps(t) /\ t.k \in {"VUPVAL", "VNONRELOC", "VLOCAL"})
Indexed(c, t) == IndexedRK(Exp2RK(c), t)

\* The receiver is the expression.
SelfKey(c, base, ereg) ==
  [FreeExp(Code(c, I("SELF", base, ereg, RK(c.e))), c.e) EXCEPT
     !.e = Exp("VNONRELOC", base)]
SelfAt(c, ereg, key) ==
  SelfKey(Exp2RK(WithE(ReserveRegs(c, 2), key)), c.freereg, ereg)
SelfReg(c, key) == SelfAt(FreeExp(c, c.e), c.e.info, key)
Self(c, key) == SelfReg(Exp2AnyReg(c), key)

SetList(c, base, nelems, tostore) ==
  [Code(c, I("SETLIST", base, IF tostore = MultRet THEN 0 ELSE tostore,
             (nelems - 1) \div FieldsPerFlush + 1)) EXCEPT !.freereg = base + 1]

(***************************************************************************)
(* Operators.                                                              *)
(***************************************************************************)
InvertJump(c) ==
  LET pc == GetJumpControl(c, c.e.info)
  IN Check(SetArg(c, pc, [At(c, pc) EXCEPT !.a = 1 - @]),
            At(c, pc).op \in {"EQ", "LT", "LE"})

JumpOnReg(c, cond) == CondJump(FreeExp(c, c.e), "TESTSET", NoReg, c.e.info, cond)
JumpOnCond(c, cond) ==
  IF c.e.k = "VRELOCABLE" /\ At(c, c.e.info).op = "NOT"
  THEN CondJump([c EXCEPT !.code = SubSeq(@, 1, Len(@) - 1)], "TEST",
                At(c, c.e.info).b, 0, 1 - cond)
  ELSE JumpOnReg(Discharge2AnyReg(c), cond)

\* The jump to be taken, if there is one, is in c.j.
IfTrueJump(c) ==
  CASE c.e.k = "VJMP" -> [InvertJump(c) EXCEPT !.j = {c.e.info}]
    [] c.e.k \in {"VK", "VKNUM", "VTRUE"} -> [c EXCEPT !.j = {}]
    [] OTHER -> JumpOnCond(c, 0)
IfFalseJump(c) ==
  CASE c.e.k = "VJMP" -> [c EXCEPT !.j = {c.e.info}]
    [] c.e.k \in {"VNIL", "VFALSE"} -> [c EXCEPT !.j = {}]
    [] OTHER -> JumpOnCond(c, 1)
GoIfTrueV(c) ==
  [PatchToHere(c, c.e.t) EXCEPT !.e.f = @ \cup c.j, !.e.t = {}]
GoIfFalseV(c) ==
  [PatchToHere(c, c.e.f) EXCEPT !.e.t = @ \cup c.j, !.e.f = {}]
GoIfTrue(c) == GoIfTrueV(IfTrueJump(DischargeVars(c)))
GoIfFalse(c) == GoIfFalseV(IfFalseJump(DischargeVars(c)))

NotReg(c) == Reloc(Code(FreeExp(c, c.e), I("NOT", 0, c.e.info, 0)))
NotV(c) ==
  CASE c.e.k \in {"VNIL", "VFALSE"} -> [c EXCEPT !.e.k = "VTRUE"]
    [] c.e.k \in {"VK", "VKNUM", "VTRUE"} -> [c EXCEPT !.e.k = "VFALSE"]
    [] c.e.k = "VJMP" -> InvertJump(c)
    [] OTHER -> NotReg(Discharge2AnyReg(c))
NotSwap(c) ==
  RemoveValues([c EXCEPT !.e.f = c.e.t, !.e.t = c.e.f], c.e.t \cup c.e.f)
CodeNot(c) == NotSwap(NotV(DischargeVars(c)))

ArithOf(op, a, b) == CASE op = "ADD" -> a + b [] op = "SUB" -> a - b
                       [] op = "MUL" -> a * b [] op = "MOD" -> a % b
                       [] op = "POW" -> IF b < 0 THEN 0 ELSE a^b
FreeBoth(c, e1, e2) ==
  IF RK(e1) > RK(e2) THEN FreeExp(FreeExp(c, e1), e2) ELSE FreeExp(FreeExp(c, e2), e1)
Arith1(c, op, e2) ==       \* the first operand is the expression
  Reloc(Code(FreeBoth(c, c.e, e2), I(op, 0, RK(c.e), RK(e2))))
Arith2(c, op, e1) ==       \* the second one is
  Arith1(Exp2RK(WithE(c, e1)), op, c.e)
CodeArith(c, op, e1) ==
  IF /\ IsNumeral(e1) /\ IsNumeral(c.e)
     /\ ~(op = "MOD" /\ c.e.info = 0)
  THEN WithE(c, [e1 EXCEPT !.info = ArithOf(op, e1.info, c.e.info)])
  ELSE Arith2(Exp2RK(c), op, e1)
CodeUnary(c, op) ==
  Reloc(Code(FreeExp(c, c.e), I(op, 0, c.e.info, 0)))

WithJump(c, e1) == WithE(c, [e1 EXCEPT !.k = "VJMP", !.info = Pc(c) - 1])
CompJump(c, op, cond, o1, o2) ==
  IF cond = 0 /\ op # "EQ" THEN CondJump(c, op, 1, o2, o1) ELSE CondJump(c, op, cond, o1, o2)
Comp2(c, op, cond, e1) ==  \* the second operand is the expression
  WithJump(CompJump(FreeExp(FreeExp(c, c.e), e1), op, cond, RK(e1), RK(c.e)), e1)
Comp1(c, op, cond, e2) ==  \* the first one is
  Comp2(Exp2RK(WithE(c, e2)), op, cond, c.e)
CodeComp(c, op, cond, e1) == Comp1(Exp2RK(WithE(c, e1)), op, cond, c.e)

Prefix(c, op) ==
  CASE op = "neg" ->
         IF IsNumeral(c.e) THEN [c EXCEPT !.e.info = 0 - @]
         ELSE CodeUnary(Exp2AnyReg(c), "UNM")
    [] op = "not" -> CodeNot(c)
    [] op = "len" -> CodeUnary(Exp2AnyReg(c), "LEN")

ArithOp == [add |-> "ADD", sub |-> "SUB", mul |-> "MUL", mod |-> "MOD",
            pow |-> "POW"]
CompOp == [eq |-> <<"EQ", 1>>, lt |-> <<"LT", 1>>, le |-> <<"LE", 1>>,
           ne |-> <<"EQ", 0>>, gt |-> <<"LT", 0>>, ge |-> <<"LE", 0>>]

Infix(c, op) ==
  CASE op = "and" -> GoIfTrue(c)
    [] op = "or" -> GoIfFalse(c)
    [] op = "concat" -> Exp2NextReg(c)
    [] op \in DOMAIN ArithOp /\ IsNumeral(c.e) -> c
    [] OTHER -> Exp2RK(c)

ConcatV(c, e1) ==
  IF c.e.k = "VRELOCABLE" /\ At(c, c.e.info).op = "CONCAT"
  THEN WithE(SetArg(FreeExp(Check(c, e1.info = At(c, c.e.info).b - 1), e1), c.e.info, [At(c, c.e.info) EXCEPT !.b = e1.info]),
             [e1 EXCEPT !.k = "VRELOCABLE", !.info = c.e.info])
  ELSE CodeArith(Exp2NextReg(c), "CONCAT", e1)
Posfix(c, op, e1) ==
  CASE op = "and" -> [Check(DischargeVars(c), e1.t = {}) EXCEPT !.e.f = @ \cup e1.f]
    [] op = "or" -> [Check(DischargeVars(c), e1.f = {}) EXCEPT !.e.t = @ \cup e1.t]
    [] op = "concat" -> ConcatV(Exp2Val(c), e1)
    [] op \in DOMAIN ArithOp -> CodeArith(c, ArithOp[op], e1)
    [] op \in DOMAIN CompOp -> CodeComp(c, CompOp[op][1], CompOp[op][2], e1)
=============================================================================
