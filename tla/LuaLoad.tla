------------------------------ MODULE LuaLoad ------------------------------
(***************************************************************************)
(* Loading a chunk from a string, a reader function or a file: load and    *)
(* loadfile (lbaselib.c), luaL_loadfilex and luaL_loadbufferx (lauxlib.c), *)
(* lua_load (lapi.c) and f_parser (ldo.c).  The compiler is not here: a    *)
(* text chunk yields a function of the text with one upvalue.              *)
(***************************************************************************)
EXTENDS LuaDump

CONSTANT BufferSize      \* LUAL_BUFFERSIZE

BOM == << <<"EF">>, <<"BB">>, <<"BF">> >>
Hash == <<"#">>
EndOfLine == <<"nl">>
EOF == <<"EOF">>

(***************************************************************************)
(* f_parser and lua_load.                                                  *)
(***************************************************************************)
LoadError(why) == [status |-> "error", why |-> why, cl |-> NULL, upvals |-> <<>>]
Closure(cl, n) == [status |-> "ok", why |-> "", cl |-> cl, upvals |-> [i \in 1 .. n |-> "nil"]]
\* What the scanner reads up to the end of the stream.
RECURSIVE TextOf(_, _)
TextOf(z, b) ==
  IF AtEnd(z) THEN Closure(b, 1)
  ELSE IF Refused(z) THEN LoadError(NotAStringMessage)
  ELSE TextOf([LuaZ_fill(z) EXCEPT !.buf = Tail(@)], Append(b, Head(LuaZ_fill(z).buf)))
Undumped(S) ==
  IF S.err # "" THEN LoadError(S.err) ELSE Closure(Top(S), Len(Top(S).upvalues))
F_parser(z, mode) ==
  IF ~AtEnd(z) /\ ~Refused(z) /\ Head(LuaZ_fill(z).buf) = ESC
  THEN IF "b" \notin mode THEN LoadError("mode") ELSE Undumped(LuaU_undump([LuaZ_fill(z) EXCEPT !.buf = Tail(@)]))
  ELSE IF Refused(z) THEN LoadError(NotAStringMessage)
  ELSE IF "t" \notin mode THEN LoadError("mode") ELSE TextOf(z, <<>>)
\* The global table is the first upvalue of a function that has one.
WithGlobals(r) == IF Len(r.upvals) = 1 THEN [r EXCEPT !.upvals[1] = "globals"] ELSE r
Lua_load(pieces, mode) == WithGlobals(F_parser(LuaZ_init(pieces), mode))

(***************************************************************************)
(* The readers.                                                            *)
(***************************************************************************)
GetS(b) == IF b = <<>> THEN <<>> ELSE <<b>>
LoadAux(r, env) == IF env # NULL /\ r.upvals # <<>> THEN [r EXCEPT !.upvals[1] = env] ELSE r
LoadString1(b, mode, env) == LoadAux(Lua_load(GetS(b), mode), env)
LoadReader(pieces, mode, env) == LoadAux(Lua_load(pieces, mode), env)

\* A file: its bytes, the position in it, and the characters read in advance.
GetC(lf) == IF lf.pos < Len(lf.bytes) THEN lf.bytes[lf.pos + 1] ELSE EOF
Advance(lf) == [lf EXCEPT !.pos = @ + 1]
RECURSIVE SkipBOM(_, _), SkipLine(_)
SkipBOM(lf, p) ==        \* p characters of the mark were there
  IF p = Len(BOM) THEN [Advance(lf) EXCEPT !.buff = <<>>, !.c = GetC(lf)]
  ELSE IF GetC(lf) # BOM[p + 1] THEN [Advance(lf) EXCEPT !.c = GetC(lf)]
  ELSE SkipBOM([Advance(lf) EXCEPT !.buff = Append(@, GetC(lf))], p + 1)
SkipLine(lf) ==
  IF GetC(lf) \in {EOF, EndOfLine} THEN Advance(lf) ELSE SkipLine(Advance(lf))
CommentSkipped(lf) == [Advance(lf) EXCEPT !.c = GetC(lf), !.comment = TRUE]
SkipHash(lf) == IF lf.c = Hash THEN CommentSkipped(SkipLine(lf)) ELSE lf
Opened(bytes) == [bytes |-> bytes, pos |-> 0, buff |-> <<>>, c |-> EOF, comment |-> FALSE]
SkipComment(bytes) == SkipHash(SkipBOM(Opened(bytes), 0))
\* What getF returns: the characters read in advance, then blocks of the file.
RECURSIVE Blocks(_)
Blocks(b) ==
  IF b = <<>> THEN <<>>
  ELSE <<SubSeq(b, 1, Min({BufferSize, Len(b)}))>> \o Blocks(SubSeq(b, BufferSize + 1, Len(b)))
GetF(lf) ==
  (IF lf.buff = <<>> THEN <<>> ELSE <<lf.buff>>) \o Blocks(SubSeq(lf.bytes, lf.pos + 1, Len(lf.bytes)))
PreRead(lf) == IF lf.c = EOF THEN lf ELSE [lf EXCEPT !.buff = Append(@, lf.c)]
Binary(lf) == lf.c = ESC
Reopened(lf) ==          \* a binary file has no line to make up for
  IF Binary(lf) THEN SkipComment(lf.bytes)
  ELSE IF lf.comment THEN [lf EXCEPT !.buff = Append(@, EndOfLine)] ELSE lf
\* fault is the operation on the file that fails, if one does.
LuaL_loadfilex(lf, fault, mode) ==
  IF fault \in {"open", "read"} \/ (fault = "reopen" /\ Binary(lf)) THEN LoadError(fault)
  ELSE Lua_load(GetF(PreRead(Reopened(lf))), mode)
LoadFile(bytes, fault, mode, env) == LoadAux(LuaL_loadfilex(SkipComment(bytes), fault, mode), env)
=============================================================================
