------------------------------- MODULE LuaGC -------------------------------
(***************************************************************************)
(* The garbage collector of the interpreter (lgc.c): an incremental        *)
(* tri-colour mark and sweep with two whites, write barriers, weak and     *)
(* ephemeron tables, finalizers, and the generational and emergency        *)
(* kinds.  The mutator is any program that makes, links, drops and reads   *)
(* objects between two steps of the collector.                             *)
(*                                                                         *)
(* Data is abstracted: an object has one outgoing reference `val' (a table *)
(* has one node <<key, val>>, a thread one captured stack slot), a         *)
(* metatable is what it asks for (the weakness of the table, a finalizer), *)
(* and the gray lists are sets, since the order of traversal is free.      *)
(***************************************************************************)
EXTENDS Integers, FiniteSets, SequencesExt

CONSTANTS
  NObj,         \* bound: how many objects exist at once
  SweepMax,     \* GCSWEEPMAX
  MaxOps,       \* bound: how many operations the program makes
  Programs,     \* the kinds of object and the calls each program uses
  Finalizable   \* the kinds of object programs give a finalizer

ASSUME GcAssumption ==
  /\ NObj \in Nat \ {0} /\ SweepMax \in Nat \ {0} /\ MaxOps \in Nat
  /\ Programs \subseteq
       SUBSET {"table", "weakv", "weakk", "weakkv", "udata", "string", "closure", "thread",
               "set", "fetch", "finalizer", "full", "gen", "close"}
  /\ Finalizable \subseteq {"table", "weakv", "weakk", "weakkv", "udata"}

VARIABLES
  lua,      \* global_State: a record, since the collector's own functions transform it
  program,  \* the program that runs, which does not change
  ops       \* how many operations it has made
gcVars == <<lua, program, ops>>

Obj  == 1 .. NObj
Main == NObj + 1     \* the main thread, which is in no list of objects
Nil  == 0
Num  == -1           \* a key that is not collectable: the node is in the array part
Dead == -2           \* LUA_TDEADKEY
AtHead == -3         \* a pointer to the head of a list, not to the next field of an object
Weak == {"weakv", "weakk", "weakkv"}
TableKinds == {"table"} \cup Weak

Repeat(Op(_), x, n) == LET f[i \in 0 .. n] == IF i = 0 THEN x ELSE Op(f[i - 1]) IN f[n]

OtherWhite(g) == IF g.white = "white0" THEN "white1" ELSE "white0"
IsWhite(g, o) == o \in Obj \cup {Main} /\ g.color[o] \in {"white0", "white1"}
IsDead(g, o)  == g.color[o] = OtherWhite(g)
IsString(g, o) == o \in Obj /\ g.kind[o] = "string"
Generational(g)  == g.mode = "gen"
KeepInvariantOut(g) == g.state = "propagate"
KeepInvariant(g) == Generational(g) \/ KeepInvariantOut(g)
MakeWhite(g, o) == [g EXCEPT !.color[o] = g.white, !.old = @ \ {o}]

\* The value of an upvalue: an open one shares the slot of its thread.
Value(g, uv) == IF uv \in g.open THEN g.val[g.val[uv]] ELSE g.val[uv]
StackOf(g, th) == IF th = Main THEN g.stack ELSE {g.val[th]}

(***************************************************************************)
(* Marking.  Strings, userdata and closed upvalues are blackened at once,  *)
(* through what they hold; the rest is linked in `gray'; an open upvalue   *)
(* stays gray, in no list.                                                 *)
(***************************************************************************)
Mark(g, S) ==
  LET Held(o) == CASE g.kind[o] = "udata" -> g.val[o]
                   [] g.kind[o] = "upval" -> Value(g, o)
                   [] OTHER -> Nil
      Through(W) == W \cup {p \in {Held(o) : o \in W \ {Main}} : IsWhite(g, p)}
      marked == Repeat(Through, {o \in S : IsWhite(g, o)}, NObj)
      black  == {o \in marked \ {Main} :
                   g.kind[o] \in {"string", "udata"} \/ (g.kind[o] = "upval" /\ o \notin g.open)}
      linked == {o \in marked \ black : o = Main \/ g.kind[o] # "upval"}
  IN [g EXCEPT !.color = [o \in DOMAIN @ |-> IF o \in black THEN "black"
                                            ELSE IF o \in marked THEN "gray" ELSE @[o]],
               !.gray = @ \cup linked]

InSomeList(g, o) == o \in g.gray \cup g.grayagain \cup g.weak \cup g.ephemeron \cup g.allweak

\* A key or a value a weak table does not keep alive; strings are values, so they are marked.
MarkStrings(g, S) == Mark(g, {o \in S : IsString(g, o)})
Cleared(g, o) == IsWhite(g, o) /\ ~IsString(g, o)

\* What the traversal of a table marks, and the list it goes to when that is marked.
TraverseStrongTable(g, t) ==
  [marks |-> IF g.val[t] = Nil THEN {} ELSE {g.key[t], g.val[t]}, list |-> {}]
TraverseWeakValue(g, t) ==
  LET k == g.key[t]  v == g.val[t]
  IN [marks |-> IF v = Nil \/ k = Num THEN {} ELSE {k} \cup {s \in {v} : IsString(g, s)},
      list  |-> IF k = Num \/ Cleared(g, v) THEN {"weak"} ELSE {"grayagain"}]
TraverseEphemeron(g, t) ==
  LET k == g.key[t]  v == g.val[t]
  IN [marks |-> IF v = Nil \/ Cleared(g, k) THEN {} ELSE {k, v} \ {x \in {k} : ~IsString(g, x)},
      list  |-> IF v = Nil \/ ~Cleared(g, k) THEN {"grayagain"}
                ELSE IF IsWhite(g, v) THEN {"ephemeron"} ELSE {"allweak"}]
TraverseTable(g, t) ==
  CASE g.kind[t] = "weakv"  -> TraverseWeakValue(g, t)
    [] g.kind[t] = "weakk"  -> TraverseEphemeron(g, t)
    [] g.kind[t] = "weakkv" -> [marks |-> {}, list |-> {"allweak"}]
    [] OTHER -> TraverseStrongTable(g, t)
Traverse(g, o) ==
  CASE o = Main \/ g.kind[o] = "thread" -> [marks |-> StackOf(g, o), list |-> {"grayagain"}]
    [] g.kind[o] \in TableKinds -> TraverseTable(g, o)
    [] OTHER -> [marks |-> {g.val[o]}, list |-> {}]    \* a closure and its upvalue

\* Traverse one gray object.  It becomes black; a thread or a weak table stays gray, in
\* the list it has to be visited from again.
Visit(g, o) ==
  LET r == Traverse(g, o)
      h == Mark([g EXCEPT !.color[o] = IF r.list = {} THEN "black" ELSE "gray"], r.marks)
      Add(name, S) == IF name \in r.list THEN S \cup {o} ELSE S
      t == IF o \in Obj /\ g.kind[o] \in TableKinds \ {"weakkv"} /\ g.val[o] = Nil
              /\ IsWhite(g, g.key[o]) THEN [h EXCEPT !.key[o] = Dead] ELSE h
  IN [t EXCEPT !.grayagain = Add("grayagain", @), !.weak = Add("weak", @),
               !.ephemeron = Add("ephemeron", @), !.allweak = Add("allweak", @)]
PropagateMark(g, o) == Visit([g EXCEPT !.gray = @ \ {o}], o)

ClearEntries(g, dead) ==
  [g EXCEPT !.val = [t \in DOMAIN @ |-> IF t \in dead THEN Nil ELSE @[t]],
            !.key = [t \in DOMAIN @ |-> IF t \in dead /\ IsWhite(g, @[t]) THEN Dead ELSE @[t]]]
ClearKeys(g, list) ==
  LET m == MarkStrings(g, {g.key[t] : t \in list})
  IN ClearEntries(m, {t \in list : m.val[t] # Nil /\ Cleared(m, m.key[t])})
ClearValues(g, list) ==
  LET m == MarkStrings(g, {g.val[t] : t \in list})
  IN ClearEntries(m, {t \in list : Cleared(m, m.val[t])})

(***************************************************************************)
(* Finalizers.  An object with one lives in `finobj' instead of `allgc';   *)
(* when it is found unreachable it moves to `tobefnz' and is marked again. *)
(***************************************************************************)
SeparateToBeFnz(g, all) ==
  LET Goes(o) == IsWhite(g, o) \/ all
      gone == SelectSeq(g.finobj, Goes)
  IN [g EXCEPT !.tobefnz = @ \o gone, !.fin = @ \cup ToSet(gone),
               !.finobj = SelectSeq(@, LAMBDA o : ~Goes(o))]

\* Makes every such object white and marks it, whether it was marked before or not; one
\* that is linked in a gray list already is linked twice.
MarkBeingFnz(g) ==
  LET MarkOne(h, o) == [Mark(MakeWhite(h, o), {o}) EXCEPT !.relinked = @ \/ InSomeList(h, o)]
  IN FoldLeft(MarkOne, g, g.tobefnz)

RestartCollection(g) ==
  MarkBeingFnz(Mark([g EXCEPT !.gray = {}, !.grayagain = {}, !.weak = {}, !.allweak = {},
                              !.ephemeron = {}], {Main}))

(***************************************************************************)
(* Freeing and sweeping.                                                   *)
(***************************************************************************)
CheckUpvalColor(g, uv) ==
  IF g.color[uv] # "gray" THEN g
  ELSE IF KeepInvariant(g)
       THEN Mark([g EXCEPT !.old = @ \ {uv}, !.color[uv] = "black"], {Value(g, uv)})
       ELSE MakeWhite(g, uv)

Release(g, o) ==
  [g EXCEPT !.kind[o] = "free", !.color[o] = g.white, !.key[o] = Nil, !.val[o] = Nil,
            !.old = @ \ {o}, !.sep = @ \ {o}, !.fin = @ \ {o}, !.open = @ \ {o}]

OpenOf(g, th) == {uv \in g.open : g.val[uv] = th}
CloseUpvalues(g, th) ==      \* luaF_close
  LET CloseOne(h, uv) ==
        IF IsDead(h, uv) THEN Release(h, uv)
        ELSE CheckUpvalColor([h EXCEPT !.open = @ \ {uv}, !.val[uv] = h.val[th],
                                       !.allgc = <<uv>> \o @], uv)
  IN FoldLeft(CloseOne, g, SetToSeq(OpenOf(g, th)))

FreeObj(g, o) == Release(IF g.kind[o] = "thread" THEN CloseUpvalues(g, o) ELSE g, o)

\* What the sweep does to an object that is alive.
Survive(g, o) ==
  IF Generational(g) THEN [g EXCEPT !.old = @ \cup {o}] ELSE MakeWhite(g, o)
SweepSet(g, S) ==
  LET SweepIt(h, o) == IF IsDead(h, o) THEN FreeObj(h, o) ELSE Survive(h, o)
  IN FoldLeft(SweepIt, g, SetToSeq(S))
SweepThread(g, o) == IF g.kind[o] = "thread" THEN SweepSet(g, OpenOf(g, o)) ELSE g

NextIndex(g, list, p) == IF p = AtHead THEN 1 ELSE 1 + CHOOSE i \in DOMAIN g[list] : g[list][i] = p
AtEnd(r) == r.p = Nil \/ NextIndex(r.g, r.list, r.p) > Len(r.g[r.list])
SweepOne(r) ==
  LET g == r.g  o == g[r.list][NextIndex(g, r.list, r.p)]
  IN IF AtEnd(r) THEN r
     ELSE IF IsDead(g, o)
          THEN [r EXCEPT !.g = FreeObj([g EXCEPT ![r.list] = SelectSeq(@, LAMBDA x : x # o)], o)]
     ELSE IF Generational(g) /\ o \in g.old THEN [r EXCEPT !.p = Nil]
     ELSE [r EXCEPT !.g = Survive(SweepThread(g, o), o), !.p = o]
SweepList(r, count) ==
  LET s == Repeat(SweepOne, r, count) IN IF AtEnd(s) THEN [s EXCEPT !.p = Nil] ELSE s
SweepToLive(g, list, p) ==
  LET Try(r) == IF r.p = p THEN SweepList(r, 1) ELSE r
  IN Repeat(Try, [g |-> g, list |-> list, p |-> p], 2 * NObj)

EnterSweep(g) ==
  LET f == SweepToLive([g EXCEPT !.state = "sweepstring"], "finobj", AtHead)
      a == SweepToLive(f.g, "allgc", AtHead)
  IN [a.g EXCEPT !.sweepfin = f.p, !.sweepgc = a.p]

\* The next object to finalize returns to `allgc'.
Udata2Finalize(g) ==
  LET o == Head(g.tobefnz)
      h == [g EXCEPT !.tobefnz = Tail(@), !.allgc = <<o>> \o @, !.sep = @ \ {o}]
  IN IF KeepInvariantOut(g) THEN h ELSE MakeWhite(h, o)

(***************************************************************************)
(* Write barriers.                                                         *)
(***************************************************************************)
Barrier(g, o, v) ==          \* forward: of everything but tables
  IF ~(IsWhite(g, v) /\ g.color[o] = "black") THEN g
  ELSE IF KeepInvariantOut(g) THEN Mark(g, {v}) ELSE MakeWhite(g, o)
BarrierBackNone(g, t, v) == g
BarrierBack(g, t, v) ==      \* backward: of tables
  IF ~(IsWhite(g, v) /\ g.color[t] = "black") THEN g
  ELSE [g EXCEPT !.color[t] = "gray", !.grayagain = @ \cup {t}]

(***************************************************************************)
(* Programs.                                                               *)
(***************************************************************************)
Init0 ==
  [kind |-> [o \in Obj |-> "free"], color |-> [o \in Obj \cup {Main} |-> "white0"],
   key |-> [o \in Obj |-> Nil], val |-> [o \in Obj |-> Nil],
   old |-> {}, sep |-> {}, fin |-> {}, open |-> {}, stack |-> {},
   allgc |-> <<>>, finobj |-> <<>>, tobefnz |-> <<>>,
   gray |-> {}, grayagain |-> {}, weak |-> {}, ephemeron |-> {}, allweak |-> {},
   state |-> "pause", mode |-> "normal", white |-> "white0",
   sweepgc |-> Nil, sweepfin |-> Nil, todo |-> <<>>, closing |-> FALSE, relinked |-> FALSE]

Free(g) == {o \in Obj : g.kind[o] = "free"}
\* The program runs when the collector has nothing to finish.
Moves(g) == lua.todo = <<>> /\ ~lua.relinked /\ lua' = g /\ UNCHANGED program
Does(g)  == ops < MaxOps /\ ops' = ops + 1 /\ Moves(g)

\* luaC_newobj; the new object is on the stack.
Fresh(g, o, k) ==
  [g EXCEPT !.kind[o] = k, !.color[o] = g.white, !.stack = @ \cup {o},
            !.allgc = IF k = "string" THEN @ ELSE <<o>> \o @]
LeastFree == CHOOSE o \in Free(lua) : \A p \in Free(lua) : o <= p

NewObject ==
  /\ Free(lua) # {}
  /\ \E k \in program \cap (TableKinds \cup {"udata", "string", "thread"}) : Does(Fresh(lua, LeastFree, k))

\* A string that exists, dead or not, is reused when the same text is made again.
InternString ==
  \E o \in Obj \ lua.stack :
    /\ lua.kind[o] = "string"
    /\ Does([lua EXCEPT !.stack = @ \cup {o},
                        !.color[o] = IF IsDead(lua, o) THEN lua.white ELSE @])

\* luaF_findupval: the open upvalue of the slot is reused, dead or not.
FindUpvalDead(g, th) ==
  LET open == OpenOf(g, th)
      uv   == IF open # {} THEN CHOOSE u \in open : TRUE
              ELSE CHOOSE o \in Free(g) : \A p \in Free(g) : o <= p
  IN IF open # {} THEN [g |-> g, uv |-> uv]
     ELSE [g |-> [g EXCEPT !.kind[uv] = "upval", !.color[uv] = g.white,
                           !.val[uv] = th, !.open = @ \cup {uv}], uv |-> uv]
FindUpval(g, th) ==
  IF OpenOf(g, th) # {}
  THEN LET uv == CHOOSE u \in OpenOf(g, th) : TRUE
       IN [g |-> [g EXCEPT !.color[uv] = IF IsDead(g, uv) THEN g.white ELSE @], uv |-> uv]
  ELSE LET uv == CHOOSE o \in Free(g) : \A p \in Free(g) : o <= p
       IN [g |-> [g EXCEPT !.kind[uv] = "upval", !.color[uv] = g.white,
                           !.val[uv] = th, !.open = @ \cup {uv}], uv |-> uv]
NewClosure ==
  /\ "closure" \in program
  /\ \E th \in lua.stack :
       /\ lua.kind[th] = "thread"
       /\ Cardinality(Free(lua)) >= IF OpenOf(lua, th) = {} THEN 2 ELSE 1
       /\ LET c == LeastFree
              r == FindUpval(Fresh(lua, c, "closure"), th)
          IN Does([r.g EXCEPT !.val[c] = r.uv])

\* The block of the captured variable ends in the coroutine.
CloseSlot ==
  \E th \in lua.stack :
    /\ lua.kind[th] = "thread" /\ OpenOf(lua, th) # {}
    /\ Does([CloseUpvalues(lua, th) EXCEPT !.val[th] = Nil])

SetTable ==
  /\ "set" \in program
  /\ \E t \in lua.stack, k \in lua.stack \cup {Num}, v \in lua.stack :
       /\ lua.kind[t] \in TableKinds
       /\ lua.val[t] = Nil \/ lua.key[t] = k
       /\ lua.key[t] = Num => k = Num
       /\ Does([BarrierBack(BarrierBack(lua, t, k), t, v) EXCEPT !.key[t] = k, !.val[t] = v])
ClearField ==
  \E t \in lua.stack :
    /\ "fetch" \in program /\ lua.kind[t] \in TableKinds /\ lua.val[t] # Nil
    /\ Does([lua EXCEPT !.val[t] = Nil])
\* lua_setuservalue
SetUserValue ==
  \E u \in lua.stack, t \in lua.stack :
    /\ lua.kind[u] = "udata" /\ lua.kind[t] \in TableKinds
    /\ Does([Barrier(lua, u, t) EXCEPT !.val[u] = t])
\* OP_SETUPVAL, or a store in the stack slot of a coroutine.
SetUpval ==
  \E c \in lua.stack, v \in lua.stack :
    \/ /\ lua.kind[c] = "thread" /\ Does([lua EXCEPT !.val[c] = v])
    \/ /\ lua.kind[c] = "closure"
       /\ LET uv == lua.val[c]
          IN IF uv \in lua.open THEN Does([lua EXCEPT !.val[lua.val[uv]] = v])
             ELSE Does([Barrier(lua, uv, v) EXCEPT !.val[uv] = v])
SetFinalizerTwice ==
  \E o \in lua.stack :
    /\ "finalizer" \in program /\ lua.kind[o] \in Finalizable /\ o \notin lua.sep
    /\ LET r == IF lua.sweepgc = o THEN SweepToLive(lua, "allgc", o)
                ELSE [g |-> lua, p |-> lua.sweepgc]
           h == [r.g EXCEPT !.sweepgc = r.p, !.allgc = SelectSeq(@, LAMBDA x : x # o),
                            !.finobj = <<o>> \o @, !.sep = @ \cup {o}]
       IN Does(IF KeepInvariantOut(lua) THEN [h EXCEPT !.old = @ \ {o}] ELSE MakeWhite(h, o))
\* lua_setmetatable of a metatable with a __gc field, luaC_checkfinalizer.
SetFinalizer ==
  \E o \in lua.stack :
    /\ "finalizer" \in program /\ lua.kind[o] \in Finalizable /\ o \notin lua.sep /\ o \notin lua.fin
    /\ LET r == IF lua.sweepgc = o THEN SweepToLive(lua, "allgc", o)
                ELSE [g |-> lua, p |-> lua.sweepgc]
           h == [r.g EXCEPT !.sweepgc = r.p, !.allgc = SelectSeq(@, LAMBDA x : x # o),
                            !.finobj = <<o>> \o @, !.sep = @ \cup {o}]
       IN Does(IF KeepInvariantOut(lua) THEN [h EXCEPT !.old = @ \ {o}] ELSE MakeWhite(h, o))
\* Read a reference of an object the program holds.
Fetch ==
  \E o \in lua.stack :
    \E v \in (CASE lua.kind[o] \in TableKinds -> IF lua.val[o] = Nil THEN {} ELSE {lua.key[o], lua.val[o]}
                [] lua.kind[o] = "closure" -> {Value(lua, lua.val[o])}
                [] OTHER -> {lua.val[o]}) \cap Obj :
      "fetch" \in program /\ v \notin lua.stack /\ Does([lua EXCEPT !.stack = @ \cup {v}])
Drop == \E o \in lua.stack : Moves([lua EXCEPT !.stack = @ \ {o}]) /\ UNCHANGED ops

(***************************************************************************)
(* The collector.  `todo' is what it does before the program goes on: the  *)
(* phases of `atomic', the states a full collection runs to.  When it is   *)
(* empty the collector performs single steps, between any two operations   *)
(* of the program.                                                         *)
(***************************************************************************)
All          == [do |-> "all"]
Until(S)     == [do |-> "until", states |-> S]
Only(S)      == [do |-> "list", list |-> S]
Phase(name)  == [do |-> name]
States       == {"pause", "propagate", "sweepstring", "sweepudata", "sweep"}

Collects(g) == ~lua.relinked /\ lua' = g /\ UNCHANGED <<ops, program>>
SingleStep(state) ==
  /\ lua.state = state /\ ~lua.closing
  /\ \/ lua.todo = <<>> /\ ~Generational(lua)
     \/ lua.todo # <<>> /\ Head(lua.todo).do = "until" /\ state \notin Head(lua.todo).states
Now(name) == lua.todo # <<>> /\ Head(lua.todo).do = name
\* The phase is over; what it calls comes before the rest.
Then(g, calls) == Collects([g EXCEPT !.todo = calls \o Tail(@)])

Restart == SingleStep("pause") /\ Collects([RestartCollection(lua) EXCEPT !.state = "propagate"])
Propagate ==
  \E o \in lua.gray : SingleStep("propagate") /\ Collects(PropagateMark(lua, o))
AtomicPhases ==
  <<Phase("upvalues"), All, Phase("retraverse"), Phase("ephemerons"), Phase("clear"),
    Phase("separate"), All, Phase("ephemerons"), Phase("keys"), Phase("flip"), Phase("entersweep")>>
Atomic ==
  /\ SingleStep("propagate") /\ lua.gray = {}
  /\ Collects([lua EXCEPT !.todo = AtomicPhases \o @])

RemarkUpvals ==
  /\ Now("upvalues")
  /\ Then(Mark(lua, {Value(lua, uv) : uv \in {u \in lua.open : lua.color[u] = "gray"}}), <<>>)
\* One object at a time, in an order that does not matter.
PropagateAll ==
  /\ Now("all")
  /\ IF lua.gray = {} THEN Then(lua, <<>>)
     ELSE Collects(PropagateMark(lua, CHOOSE o \in lua.gray : TRUE))
PropagateList == Now("list") /\ Then([lua EXCEPT !.gray = Head(lua.todo).list], <<>>)
RetraverseGrays ==
  /\ Now("retraverse")
  /\ Then([lua EXCEPT !.weak = {}, !.grayagain = {}, !.ephemeron = {}],
          <<All, Only(lua.grayagain), All, Only(lua.weak), All, Only(lua.ephemeron), All>>)
\* A table whose key is marked by now marks its value, and the tables are visited again;
\* when none does, they go to the lists their entries call for.
ConvergeEphemerons ==
  /\ Now("ephemerons")
  /\ LET Unlink(g, t) == Visit([g EXCEPT !.ephemeron = @ \ {t}], t)
         marking == {t \in lua.ephemeron :
                       \E x \in Traverse(lua, t).marks : IsWhite(lua, x)}
     IN IF marking # {}
        THEN Collects([Unlink(lua, CHOOSE t \in marking : TRUE) EXCEPT !.todo = <<All>> \o @])
        ELSE Then(FoldLeft(Unlink, lua, SetToSeq(lua.ephemeron)), <<>>)
\* Values go before the finalizers are looked at, so a finalizer finds no dead value.
ClearDeadValues ==
  Now("clear") /\ Then(ClearValues(lua, lua.weak \cup lua.allweak), <<>>)
Separate == Now("separate") /\ Then(MarkBeingFnz(SeparateToBeFnz(lua, FALSE)), <<>>)
\* The tables that were resurrected may have values to clear as well.
ClearDeadKeys ==
  /\ Now("keys")
  /\ Then(ClearValues(ClearKeys(lua, lua.ephemeron \cup lua.allweak), lua.weak \cup lua.allweak), <<>>)
FlipWhite == Now("flip") /\ Then([lua EXCEPT !.white = OtherWhite(lua)], <<>>)
StartSweep == Now("entersweep") /\ Then(EnterSweep(lua), <<>>)

\* The strings of a small program are swept in one step.
SweepStrings ==
  /\ SingleStep("sweepstring")
  /\ Collects([SweepSet(lua, {o \in Obj : lua.kind[o] = "string"}) EXCEPT !.state = "sweepudata"])
Swept(list, p) == SweepList([g |-> lua, list |-> list, p |-> p], SweepMax)
SweepUdata ==
  /\ SingleStep("sweepudata")
  /\ LET r == Swept("finobj", lua.sweepfin)
     IN Collects(IF lua.sweepfin = Nil THEN [lua EXCEPT !.state = "sweep"]
                 ELSE [r.g EXCEPT !.sweepfin = r.p])
SweepObjects ==
  /\ SingleStep("sweep")
  /\ LET r == Swept("allgc", lua.sweepgc)
     IN Collects(IF lua.sweepgc = Nil THEN [Survive(lua, Main) EXCEPT !.state = "pause"]
                 ELSE [r.g EXCEPT !.sweepgc = r.p])
Reached == Now("until") /\ lua.state \in Head(lua.todo).states /\ Then(lua, <<>>)

\* A minor collection of the generational mode runs a whole cycle and skips the restart.
GenerationalCollection ==
  /\ Generational(lua) /\ lua.todo = <<>> /\ ~lua.closing
  /\ Collects([lua EXCEPT !.todo = <<Until({"pause"}), Phase("skiprestart")>>])
SkipRestart == Now("skiprestart") /\ Then([lua EXCEPT !.state = "propagate"], <<>>)

FullGCNoRestart(emergency) ==
  LET finalizers == IF emergency THEN <<>> ELSE <<Phase("finalizers")>>
      again == IF Generational(lua) THEN <<Until({"propagate"})>> ELSE <<>>
  IN /\ "full" \in program /\ ~lua.closing
     /\ Does([lua EXCEPT
          !.mode = "normal",
          !.todo = finalizers \o <<Until({"pause"}), Phase("collected")>>
                   \o again \o <<[do |-> "mode", mode |-> lua.mode]>> \o finalizers])
FullGC(emergency) ==
  LET finalizers == IF emergency THEN <<>> ELSE <<Phase("finalizers")>>
      sweep == IF KeepInvariantOut(lua) THEN <<Phase("entersweep")>> ELSE <<>>
      again == IF Generational(lua) THEN <<Until({"propagate"})>> ELSE <<>>
  IN /\ "full" \in program /\ ~lua.closing
     /\ Does([lua EXCEPT
          !.mode = "normal",
          !.todo = finalizers \o sweep
                   \o <<Until({"pause"}), Until(States \ {"pause"}), Until({"pause"}), Phase("collected")>>
                   \o again \o <<[do |-> "mode", mode |-> lua.mode]>> \o finalizers])
Collected == Now("collected") /\ Then(lua, <<>>)
RestoreMode == Now("mode") /\ Then([lua EXCEPT !.mode = Head(lua.todo).mode], <<>>)

ChangeMode ==
  /\ "gen" \in program /\ ~lua.closing
  /\ Does(IF Generational(lua)
          THEN [lua EXCEPT !.mode = "normal",
                           !.todo = <<Phase("entersweep"), Until({"propagate", "pause"})>>]
          ELSE [lua EXCEPT !.todo = <<Until({"propagate"}), [do |-> "mode", mode |-> "gen"]>>])

\* The finalizer runs with the object on the stack, and may store it somewhere.
CallFinalizer ==
  /\ lua.tobefnz # <<>> /\ (lua.todo = <<>> \/ Now("finalizers"))
  /\ LET o == Head(lua.tobefnz)
         g == Udata2Finalize([lua EXCEPT !.old = @ \ {o}])
     IN Collects(g) \/ Collects([g EXCEPT !.stack = @ \cup {o}])
NoFinalizers == Now("finalizers") /\ lua.tobefnz = <<>> /\ Then(lua, <<>>)

\* lua_close: every object with a finalizer is finalized, then everything is freed.
CloseState ==
  /\ "close" \in program /\ ~lua.closing
  /\ Does([SeparateToBeFnz(lua, TRUE) EXCEPT !.closing = TRUE])
FreeAllObjects ==
  /\ lua.closing /\ lua.tobefnz = <<>>
  /\ Collects([Init0 EXCEPT !.closing = TRUE])

GcInit == lua = Init0 /\ ops = 0 /\ program \in Programs
GcNext ==
  \/ NewObject \/ InternString \/ NewClosure \/ CloseSlot
  \/ SetTable \/ ClearField \/ SetUserValue \/ SetUpval \/ SetFinalizer \/ Fetch \/ Drop
  \/ Restart \/ Propagate \/ Atomic
  \/ RemarkUpvals \/ PropagateAll \/ PropagateList \/ RetraverseGrays \/ ConvergeEphemerons
  \/ ClearDeadValues \/ Separate \/ ClearDeadKeys \/ FlipWhite \/ StartSweep
  \/ SweepStrings \/ SweepUdata \/ SweepObjects \/ Reached
  \/ GenerationalCollection \/ SkipRestart \/ (\E emergency \in BOOLEAN : FullGC(emergency))
  \/ Collected \/ RestoreMode \/ ChangeMode \/ CallFinalizer \/ NoFinalizers
  \/ CloseState \/ FreeAllObjects
GcSpec == GcInit /\ [][GcNext]_gcVars

(***************************************************************************)
(* Properties.                                                             *)
(***************************************************************************)
\* What a program can reach from the objects in S.  An entry of an ephemeron table counts
\* when its key does.
Reach(g, S) ==
  LET Counts(R, x) == x \in R \/ x = Num \/ IsString(g, x)
      Refs(R, o) ==
        CASE o = Main -> g.stack
          [] g.kind[o] \in TableKinds /\ g.val[o] = Nil -> {}
          [] g.kind[o] = "table"  -> {g.key[o], g.val[o]}
          [] g.kind[o] = "weakv"  -> {g.key[o]} \cup {v \in {g.val[o]} : IsString(g, v)}
          [] g.kind[o] = "weakk"  -> {v \in {g.val[o]} : Counts(R, g.key[o])}
                                       \cup {k \in {g.key[o]} : IsString(g, k)}
          [] g.kind[o] = "weakkv" -> {x \in {g.key[o], g.val[o]} : IsString(g, x)}
          [] g.kind[o] = "upval"  -> {Value(g, o)}
          [] OTHER -> {g.val[o]}
      More(R) == R \cup ((UNION {Refs(R, o) : o \in R}) \cap Obj)
  IN Repeat(More, S, NObj + 1)

Roots(g) == {Main} \cup ToSet(g.tobefnz)
Readable(g) ==
  LET R == Reach(g, Roots(g)) \ {Main}
      T == {t \in R : g.kind[t] \in TableKinds /\ g.val[t] # Nil}
  IN R \cup (({g.key[t] : t \in T} \cup {g.val[t] : t \in T}) \cap Obj)

\* Nothing a program or a pending finalizer can get at, be it through a weak table, is
\* freed or condemned to be freed by the sweep under way.
NoDanglingReference ==
  lua.todo = <<>> => \A o \in Readable(lua) : lua.kind[o] # "free" /\ ~IsDead(lua, o)

\* While the collector marks, no black object refers to a white one, and every gray object
\* but an open upvalue waits in exactly one list to be visited again (lgc.h:20).
TriColor ==
  lua.todo = <<>> /\ KeepInvariant(lua) =>
    LET lists == <<lua.gray, lua.grayagain, lua.weak, lua.ephemeron, lua.allweak>>
        In(o) == Cardinality({i \in DOMAIN lists : o \in lists[i]})
        Refs(o) == CASE lua.kind[o] \in TableKinds /\ lua.val[o] = Nil -> {}
                     [] lua.kind[o] = "table" -> {lua.key[o], lua.val[o]}
                     [] lua.kind[o] = "upval" -> {Value(lua, o)}
                     [] OTHER -> {lua.val[o]}
    IN \A o \in Obj : lua.kind[o] # "free" =>
         /\ lua.color[o] = "black" => \A p \in Refs(o) : ~IsWhite(lua, p)
         /\ In(o) = IF lua.color[o] = "gray" /\ lua.kind[o] # "upval" THEN 1 ELSE 0

\* A finalizer is called for objects the program has lost, at most once for each, and no
\* object is freed while its finalizer has still to be called.
FinalizersRunOnce ==
  [][ /\ \A o \in ToSet(lua'.tobefnz) \ ToSet(lua.tobefnz) :
           o \notin lua.fin /\ (lua'.closing \/ o \notin Reach(lua, {Main}))
      /\ \A o \in lua.sep : lua'.kind[o] = "free" => lua'.closing ]_gcVars

\* A full collection leaves only what the program or a pending finalizer can reach.
FullCollects ==
  Now("collected") =>
    \A o \in Obj : lua.kind[o] = "free" \/ o \in Reach(lua, Roots(lua))

\* The assertion of propagatemark: what is linked in a gray list is not linked in one yet.
LinkedOnce == ~lua.relinked
============================================================================
