------------------------------ MODULE LuaDump ------------------------------
(***************************************************************************)
(* Precompiled chunks: ldump.c, lundump.c, and the buffered stream they    *)
(* are read from (lzio.c).  A byte is <<x, i>>, the i-th byte of the value *)
(* x, or one of the bytes that are looked for, like <<"ESC">>.  A function *)
(* is a record of the fields that the chunk holds; NULL is a name that is  *)
(* not known.                                                              *)
(***************************************************************************)
EXTENDS Integers, SequencesExt

CONSTANTS IntSize,       \* bytes of an int, a size_t and a number
          NULL

ESC == <<"ESC">>      \* LUA_SIGNATURE[0]
NotAString == <<"not a string">>
Header == <<ESC, <<"Lua">>, <<"version">>, <<"format">>, <<"sizes">>, <<"tail">>>>

(***************************************************************************)
(* luaU_dump calls the writer with one block after the other.              *)
(***************************************************************************)
Var(x, size) == [i \in 1 .. size |-> <<x, i>>]
Vars(xs, size) == FlattenSeq([i \in DOMAIN xs |-> Var(xs[i], size)])
DumpChar(x) == <<Var(x, 1)>>
DumpInt(x) == <<Var(x, IntSize)>>
DumpVector(b) == DumpInt(Len(b)) \o <<Vars(b, IntSize)>>
DumpString(s) ==
  IF s = NULL THEN DumpInt(0) ELSE DumpInt(Len(s) + 1) \o <<Vars(Append(s, "\\0"), 1)>>
DumpEach(parts) == DumpInt(Len(parts)) \o FlattenSeq(parts)

DumpConstant(o) ==
  DumpChar(o.t) \o (CASE o.t = "nil" -> <<>>
                      [] o.t = "boolean" -> DumpChar(o.v)
                      [] o.t = "number" -> DumpInt(o.v)
                      [] o.t = "string" -> DumpString(o.v))
RECURSIVE DumpFunction(_, _)
DumpConstants(f, strip) ==
  DumpEach([i \in DOMAIN f.k |-> DumpConstant(f.k[i])])
  \o DumpEach([i \in DOMAIN f.p |-> DumpFunction(f.p[i], strip)])
DumpUpvalues(f) ==
  DumpEach([i \in DOMAIN f.upvalues |-> DumpChar(f.upvalues[i].instack) \o DumpChar(f.upvalues[i].idx)])
DumpDebug(f, strip) ==
  LET Kept(q) == IF strip THEN <<>> ELSE q
  IN DumpString(IF strip THEN NULL ELSE f.source)
     \o DumpVector(IF strip THEN <<>> ELSE f.lineinfo)
     \o DumpEach([i \in DOMAIN Kept(f.locvars) |->
                   DumpString(f.locvars[i][1]) \o DumpInt(f.locvars[i][2]) \o DumpInt(f.locvars[i][3])])
     \o DumpEach([i \in DOMAIN Kept(f.upvalues) |-> DumpString(f.upvalues[i].name)])
DumpFunction(f, strip) ==
  DumpInt(f.linedefined) \o DumpInt(f.lastlinedefined) \o DumpChar(f.numparams)
  \o DumpChar(f.is_vararg) \o DumpChar(f.maxstacksize) \o DumpVector(f.code)
  \o DumpConstants(f, strip) \o DumpUpvalues(f) \o DumpDebug(f, strip)

\* The writer fails when it is called for the n-th time; it is not called again.
DumpBlocks(blocks, n) ==
  [out |-> FlattenSeq(SubSeq(blocks, 1, IF n > Len(blocks) THEN Len(blocks) ELSE n - 1)),
   status |-> IF n > Len(blocks) THEN 0 ELSE 1]
LuaU_dump(f, strip, n) == DumpBlocks(<<Header>> \o DumpFunction(f, strip), n)

(***************************************************************************)
(* The stream: the bytes in the buffer, and the pieces the reader returns. *)
(* S is the state of luaU_undump: got holds what was loaded and is not yet *)
(* part of a greater value.                                                *)
(***************************************************************************)
LuaZ_init(pieces) == [buf |-> <<>>, pieces |-> pieces]
AtEnd(z) == z.buf = <<>> /\ (z.pieces = <<>> \/ Head(z.pieces) = <<>>)
Refused(z) == z.buf = <<>> /\ ~AtEnd(z) /\ Head(Head(z.pieces)) = NotAString
LuaZ_fill(z) == IF z.buf = <<>> THEN [buf |-> Head(z.pieces), pieces |-> Tail(z.pieces)] ELSE z
Fails(S, why) == [S EXCEPT !.err = why]
NotAStringMessage == "reader function must return a string"

RECURSIVE LuaZ_read(_, _, _)
TakeBytes(S, b, n, m) ==
  LuaZ_read([S EXCEPT !.z.buf = SubSeq(@, m + 1, Len(@))], b \o SubSeq(S.z.buf, 1, m), n - m)
LuaZ_read(S, b, n) ==
  IF n = 0 THEN [S EXCEPT !.got = Append(@, b)]
  ELSE IF AtEnd(S.z) THEN Fails(S, "truncated")
  ELSE IF Refused(S.z) THEN Fails(S, NotAStringMessage)
  ELSE TakeBytes([S EXCEPT !.z = LuaZ_fill(@)], b, n, Min({n, Len(LuaZ_fill(S.z).buf)}))

(***************************************************************************)
(* luaU_undump: Load loads what the name says.                             *)
(***************************************************************************)
Bytes == [char |-> 1, int |-> IntSize, size |-> IntSize, number |-> IntSize]
\* A count, and that many of the element.
Element == [code |-> "number", constants |-> "constant", functions |-> "function",
            upvalues |-> "upvalue", lines |-> "number", locvars |-> "locvar", names |-> "string"]
Fields == [upvalue  |-> <<"char", "char">>,
           locvar   |-> <<"string", "int", "int">>,
           function |-> <<"int", "int", "char", "char", "char", "code", "constants", "functions",
                          "upvalues", "string", "lines", "locvars", "names">>]

Top(S) == Last(S.got)
Ok(S) == S.err = ""
Replace(S, n, v) == [S EXCEPT !.got = Append(SubSeq(@, 1, Len(@) - n), v)]
LastOnes(S, n) == SubSeq(S.got, Len(S.got) - n + 1, Len(S.got))
Collect(S, n) == IF Ok(S) THEN Replace(S, n, LastOnes(S, n)) ELSE S

RECURSIVE Load(_, _)
LoadAll(S, whats) == FoldLeft(LAMBDA T, what : Load(T, what), S, whats)
LoadBytes(S, n) == IF Ok(S) THEN LuaZ_read(S, <<>>, n) ELSE S
LoadVar(T, what) ==
  IF ~Ok(T) THEN T
  ELSE IF what = "int" /\ Top(T)[1][1] < 0 THEN Fails(T, "corrupted")
  ELSE Replace(T, 1, Top(T)[1][1])
LoadVector(T, what) ==
  IF ~Ok(T) THEN T
  ELSE Collect(LoadAll([T EXCEPT !.got = Front(@)], [i \in 1 .. Top(T) |-> what]), Top(T))

CharsWhole(U, size) ==                                            \* a mutant
  IF Ok(U) THEN Replace(U, 2, [i \in 1 .. size |-> Top(U)[i][1]]) ELSE U
\* The trailing '\0' is not part of the string.
CharsOf(U, size) == IF Ok(U) THEN Replace(U, 2, [i \in 1 .. (size - 1) |-> Top(U)[i][1]]) ELSE U
LoadChars(T, size) == IF size = 0 THEN Replace(T, 1, NULL) ELSE CharsOf(LoadBytes(T, size), size)
LoadString(T) == IF Ok(T) THEN LoadChars(T, Top(T)) ELSE T

Constant(t, v) == [t |-> t, v |-> v]
LoadTyped(U, t) == IF Ok(U) THEN Replace(U, 2, Constant(t, Top(U))) ELSE U
LoadConstant(T, t) ==
  IF t = "nil" THEN Replace(T, 1, Constant(t, 0))
  ELSE LoadTyped(Load(T, IF t = "boolean" THEN "char" ELSE t), t)
LoadOfType(T) == IF Ok(T) THEN LoadConstant(T, Top(T)) ELSE T

ProtoOf(v) ==
  [linedefined |-> v[1], lastlinedefined |-> v[2], numparams |-> v[3], is_vararg |-> v[4],
   maxstacksize |-> v[5], code |-> v[6], k |-> v[7], p |-> v[8],
   upvalues |-> [i \in DOMAIN v[9] |->
                   [instack |-> v[9][i][1], idx |-> v[9][i][2],
                    name |-> IF i \in DOMAIN v[13] THEN v[13][i] ELSE NULL]],
   source |-> v[10], lineinfo |-> v[11], locvars |-> v[12]]
LoadFunction(T) == IF Ok(T) THEN Replace(T, 1, ProtoOf(Top(T))) ELSE T
Composed(T, what) == IF what = "function" THEN LoadFunction(T) ELSE T
Load(S, what) ==
  CASE what \in DOMAIN Bytes -> LoadVar(LoadBytes(S, Bytes[what]), what)
    [] what = "string" -> LoadString(Load(S, "size"))
    [] what = "constant" -> LoadOfType(Load(S, "char"))
    [] what \in DOMAIN Element -> LoadVector(Load(S, "int"), Element[what])
    [] what \in DOMAIN Fields -> Composed(Collect(LoadAll(S, Fields[what]), Len(Fields[what])), what)

\* The first character has been read.
Prefix(h, n) == SubSeq(<<ESC>> \o h, 1, n) = SubSeq(Header, 1, n)
CheckHeader(S, h) ==
  CASE <<ESC>> \o h = Header -> S
    [] ~Prefix(h, 2) -> Fails(S, "not a")
    [] Prefix(h, 2) /\ ~Prefix(h, 4) -> Fails(S, "version mismatch in")
    [] Prefix(h, 4) /\ ~Prefix(h, 5) -> Fails(S, "incompatible")
    [] OTHER -> Fails(S, "corrupted")
LoadHeader(T) == IF Ok(T) THEN CheckHeader(T, Top(T)) ELSE T
LuaU_undump(z) ==
  Load(LoadHeader(LoadBytes([z |-> z, err |-> "", got |-> <<>>], Len(Header) - 1)), "function")
=============================================================================
