------------------------------ MODULE MCLuaLib ------------------------------
(***************************************************************************)
(* Instances for the tables, the coroutines and the libraries of Lua: one  *)
(* part of them is chosen.  Tables and coroutines are state machines; of   *)
(* the others, input is the case being checked.                            *)
(***************************************************************************)
EXTENDS LuaTable, LuaCoroutine, PatternMeaning, LuaTableLib, LuaLoad, LuaLex

CONSTANTS o1, o2, o3        \* the objects

VARIABLES part, input
libVars == <<tab, present, trav, lua, calls, uses, part, input>>

\* Two objects share a main position in every hash part.
Hashes == (o1 :> 0 @@ o2 :> 0 @@ o3 :> 3) @@ [n \in -1 .. 20 |-> (5 * (n + 2)) % 11]
TableSizes == {<<0, 0>>, <<3, 1>>}

CoroutinePrograms ==
  {{"create", "resume", "yield", "pcall", "error"},
   {"create", "resume", "yield", "xpcall", "error"},
   {"create", "resume", "yield", "callback", "pcall"},
   {"create", "resume", "yield", "LE", "CONCAT"},
   {"create", "wrap", "yield", "error", "pcall"},
   {"create", "wrap", "yield", "error", "busy"},
   {"create", "resume", "yield", "dofile", "lua", "pcall"},
   {"create", "resume", "yield", "status"}}
BusyPrograms == {{"create", "resume", "yield", "busy"}}

Seqs(S, from, to) == UNION {[1 .. n -> S] : n \in from .. to}

(***************************************************************************)
(* Patterns and strings.                                                   *)
(***************************************************************************)
A == {"a"}
AB == {"a", "b"}
NotB == {"a", NUL}
Singles == ({"single"} \X {A} \X {"", "*", "-", "?", "+"}) \cup ({"single"} \X {AB} \X {"", "*", "-"})
Items == Singles \cup {<<"(">>, <<")">>, <<"()">>, <<"%b", "a", "b">>, <<"%b", "a", "a">>,
                       <<"%f", A>>, <<"%f", NotB>>, <<"%n", 1>>}
Between2(i, j) == {<< <<"(">>, i, <<")">>, j, <<"%n", 1>> >>,
                   << <<"(">>, i, <<"()">>, <<")">>, j, <<"$">> >>,
                   << <<"(">>, <<"(">>, i, <<")">>, j, <<")">>, <<"%n", 1>> >>}
Patterns ==
  [short |-> Seqs(Items, 0, 2) \cup {Append(q, <<"$">>) : q \in Seqs(Items, 0, 2)},
   long  |-> UNION {Between2(i, j) : i \in Items, j \in Items}]
Strings == Seqs(AB, 0, 4)

(***************************************************************************)
(* Lists, orders and chunks.                                               *)
(***************************************************************************)
Elems == 1 .. 3
WeakOrder(r) ==
  /\ \A x \in Elems : <<x, x>> \notin r
  /\ \A x, y, z \in Elems : <<x, y>> \in r => <<x, z>> \in r \/ <<z, y>> \in r
  /\ \A x, y, z \in Elems : <<x, y>> \in r /\ <<y, z>> \in r => <<x, z>> \in r
Orders == {r \in SUBSET (Elems \X Elems) : WeakOrder(r)}
\* Order functions that are none.
Disorders ==
  SUBSET ({1, 2} \X {1, 2}) \cup
  {{<<1, 2>>, <<2, 3>>, <<3, 1>>}, {<<1, 2>>, <<2, 3>>}, Elems \X Elems,
   {<<x, y>> \in Elems \X Elems : x <= y}}
TableOf(q) == [i \in (-MaxInt - 1) .. (MaxInt + 1) |-> IF i \in DOMAIN q THEN q[i] ELSE Nil]

Leaf(k, ups, lines) ==
  [linedefined |-> 1, lastlinedefined |-> 3, numparams |-> 1, is_vararg |-> 0, maxstacksize |-> 2,
   code |-> lines, k |-> k, p |-> <<>>, upvalues |-> ups, source |-> <<"s">>, lineinfo |-> lines,
   locvars |-> << << <<"x">>, 0, 1>> >>]
Upval(n, name) == [instack |-> 1, idx |-> n, name |-> name]
Text1 == Leaf(<<Constant("string", <<"h", "i">>), Constant("nil", 0), Constant("number", 7)>>,
              <<Upval(0, <<"_ENV">>)>>, <<5, 6>>)
Text2 == Leaf(<<Constant("boolean", 1), Constant("string", <<>>)>>, <<Upval(1, <<"u">>), Upval(2, NULL)>>, <<>>)
Functions1 == {Text1, Text2, [Text1 EXCEPT !.p = <<Text2, Leaf(<<>>, <<>>, <<5>>)>>],
               Leaf(<<Constant("number", -1)>>, <<>>, <<9>>)}
Contents == {<<>>, << <<"x">> >>, << <<"x">>, EndOfLine, Hash>>, <<Hash>>,
             <<ESC, <<"x">> >>} \cup {LuaU_dump(Text2, FALSE, 1000).out}
FirstLines == {<<>>, <<Hash, EndOfLine>>, <<Hash, <<"!">>, EndOfLine>>}
FileCases == {m \o l \o x : m \in {<<>>, BOM, SubSeq(BOM, 1, 2) \o << <<"x">> >>}, l \in FirstLines, x \in Contents}
Modes == {{"b"}, {"t"}, {"b", "t"}}

(***************************************************************************)
(* Tokens and how they are written.                                        *)
(***************************************************************************)
Written(kind, value, text) == [token |-> Token(kind, value), text |-> text]
Symbols == {<<43>>, <<45>>, <<46>>, <<46, 46>>, <<46, 46, 46>>, <<61>>, <<61, 61>>, <<126, 61>>, <<60>>,
            <<60, 61>>, <<58>>, <<58, 58>>, <<91>>, <<93>>}
Numerals == {<<48>>, <<49, 46>>, <<46, 53>>, <<49, 101, 49>>, <<51, 69, 45, 49>>, <<48, 120, 101, 46, 65>>,
             <<48, 88, 49, 112, 43, 49>>}
Malformed == {<<49, 101>>, <<48, 120>>, <<49, 46, 46, 50>>, <<46, 48, 120, 49>>, <<49, 97>>, <<91, 61>>,
              <<34, 92, 50, 53, 54, 34>>, <<34, 92, 120, 49, 34>>, <<34, 92, 107, 34>>, <<34, 10, 34>>}
Bracketed(n, bracket) == <<bracket>> \o [i \in 1 .. n |-> Equals] \o <<bracket>>
Long(s, n) == Bracketed(n, OpenBracket) \o s \o Bracketed(n, CloseBracket)
Hexa(s) == <<39>> \o FlattenSeq([i \in DOMAIN s |->
              <<Backslash, 120, 48 + (s[i] \div 16), (IF s[i] % 16 < 10 THEN 48 ELSE 87) + (s[i] % 16)>>]) \o <<39>>
Literals(s) ==
  {AddQuoted(s)} \cup (IF \A i \in DOMAIN s : s[i] < 160 THEN {Hexa(s)} ELSE {})
  \cup {Long(s, n) : n \in {n \in 0 .. 2 : /\ Return \notin Range(s) /\ (s # <<>> => Head(s) # NewLine)
          /\ \A i \in 1 .. (Len(s) + n + 1) : SubSeq(Long(s, n), n + 2 + i, n + n + 3 + i) # Bracketed(n, CloseBracket)}}
WrittenTokens ==
  {Written("symbol", x, x) : x \in Symbols} \cup {Written("number", x, x) : x \in Numerals}
  \cup {Written("name", x, x) : x \in {<<97>>, <<95, 49>>, <<100, 111, 97>>}}
  \cup {Written("reserved", <<100, 111>>, <<100, 111>>)}
  \cup {Written("string", <<97>>, l) : l \in Literals(<<97>>)}
  \cup {Written("string", <<10, 97>>, l) :
           l \in {<<34, 92, 13, 10, 97, 34>>, <<34, 92, 110, 92, 122, 32, 10, 13, 97, 34>>,
                  <<91, 91, 13, 10, 13, 97, 93, 93>>}}
Separators == {<<>>, <<32>>, <<10>>, <<13, 10>>, <<10, 10>>, <<45, 45, 97, 13>>, <<45, 45, 91, 61, 10>>,
               <<45, 45, 91, 91, 10, 13, 13, 93, 93>>, <<45, 45, 91, 61, 91, 93, 93, 10, 93, 61, 93>>}
Texts == Seqs({34, 92, 10, 13, 0, 49, 93, 200}, 0, 3)

(***************************************************************************)
(* The specification.                                                      *)
(***************************************************************************)
Parts == {"table", "coroutine", "match", "list", "sort", "chunk", "file", "scan", "quote"}
Init ==
  /\ part \in Parts /\ input = <<>>
  /\ TableInit /\ (part # "table" => IsDummy(tab))
  /\ CoroutineInit /\ (part # "coroutine" => "status" \in uses)
machineVars == <<tab, present, trav, lua, calls, uses>>

Tables == part = "table" /\ TableNext /\ UNCHANGED <<lua, calls, uses, part, input>>
CoroutinesRun == part = "coroutine" /\ CoroutineNext /\ UNCHANGED <<tab, present, trav, part, input>>
Choose(p, n, S) ==
  part = p /\ Len(input) = n /\ (\E x \in S : input' = Append(input, x)) /\ UNCHANGED <<machineVars, part>>
Matching ==
  \/ Choose("match", 0, {"short", "long"})
  \/ Len(input) = 1 /\ Choose("match", 1, Patterns[input[1]])
  \/ Len(input) = 2 /\ Choose("match", 2, Strings)
Listing == Choose("list", 0, Seqs(Elems, 0, 4))
Sorting == Choose("sort", 0, Seqs(Elems, 0, 5) \cup Seqs({1, 2}, 6, 7)) \/ Choose("sort", 1, Orders \cup Disorders)
Dumping ==
  \/ Choose("chunk", 0, Functions1) \/ Choose("chunk", 1, BOOLEAN) \/ Choose("chunk", 2, 1 .. 4)
Loading == Choose("file", 0, FileCases) \/ Choose("file", 1, Modes)
Scanning ==
  \/ Choose("scan", 0, {<<>>, <<10, 13, 13>>}) \/ Choose("scan", 1, WrittenTokens)
  \/ Choose("scan", 2, Separators) \/ Choose("scan", 3, WrittenTokens)
Quoting == Choose("quote", 0, Texts)
Next == Scanning \/ Quoting \/ Tables \/ CoroutinesRun \/ Matching \/ Listing \/ Sorting \/ Dumping \/ Loading
Spec == Init /\ [][Next]_libVars

\* Match finds the first place where the pattern matches and the preferred way
\* in which it does, with its captures, although it sets and undoes captures in
\* one array while it backtracks (lstrlib.c): string.find and string.match,
\* anchored or not, agree with what the pattern means, and the depth is
\* restored.  The matches of gmatch are those of gsub, which keeps the text
\* between them; a plain search finds what a pattern without special
\* characters matches.
Literal(pat) == \A i \in DOMAIN pat : pat[i][1] = "single" /\ pat[i][2] = A /\ pat[i][3] = ""
MatchMeansPattern ==
  (part = "match" /\ Len(input) = 3) =>
    LET pat == input[2]
        str == input[3]
        ms  == MatchState(str, pat)
        gs  == StrGSub(ms, Len(str) + 1, FALSE)
        at(r) == IF r = <<"nil">> THEN Fail ELSE r[2]
    IN /\ \A from \in 0 .. Min({1, Len(str)}) :
            /\ \A anchor \in BOOLEAN : StrFind(ms, from, anchor) = Meaning(str, pat, from, anchor)
            /\ Literal(pat) => MemFind(str, [i \in DOMAIN pat |-> "a"], from) = at(StrFind(ms, from, FALSE))
       /\ gs.args = GMatch(ms, 0, <<>>)
       /\ ErrorCapture \notin Range(gs.args) => gs.b = str

\* Whatever the order function answers, sort only moves the elements of the
\* list, touches nothing outside it and ends; with an order it does not fail
\* and leaves the list in order (ltablib.c, auxsort).
SortSorts ==
  (part = "sort" /\ Len(input) = 2) =>
    LET q == input[1]
        r == Sort(TableOf(q), Len(q), input[2])
    IN /\ \A i \in DOMAIN r.t \ DOMAIN q : r.t[i] = Nil
       /\ \A x \in Elems : Cardinality({i \in DOMAIN q : q[i] = x}) = Cardinality({i \in DOMAIN q : r.t[i] = x})
       /\ WeakOrder(input[2]) =>
            ~r.bad /\ \A i, j \in DOMAIN q : i < j => <<r.t[j], r.t[i]>> \notin input[2]

\* insert puts one value between the others and remove undoes it, at every
\* position they accept; unpack gives back what pack got, and for every two
\* ints either all values from one to the other or an error, also if their
\* number overflows (ltablib.c).
ListsKept ==
  (part = "list" /\ Len(input) = 1) =>
    LET q == input[1]
        t == TableOf(q)
        n == Len(q)
    IN /\ \A pos \in 0 .. (n + 2) :
            IF pos \notin 1 .. (n + 1) THEN TInsert(t, n, pos, 3) = Raised
            ELSE /\ TInsert(t, n, pos, 3) = TableOf(InsertAt(q, pos, 3))
                 /\ TRemove(TInsert(t, n, pos, 3), n + 1, pos) = [val |-> 3, t |-> t]
       /\ TInsert(t, n, n + 1, 3) = TAppend(t, n, 3)
       /\ Unpack(Pack(q, TableOf(<<>>)), 1, n) = q
       /\ \A i, e \in (-MaxInt - 1) .. MaxInt :
            Unpack(t, i, e) = IF e - i + 1 > MaxStack THEN Raised
                              ELSE [k \in 1 .. (IF i > e THEN 0 ELSE e - i + 1) |-> t[i + k - 1]]
       /\ n > 0 => LET r == TConcat(t, 0, 1, n)
                   IN Len(r) = 2 * n - 1 /\ SelectSeq(r, LAMBDA x : x # 0) = q

\* A function that was dumped is loaded as it was, but for the debug information
\* if that was stripped, however its bytes are cut into pieces; a chunk that
\* misses its end, has another header or is refused by the mode is rejected;
\* a failing writer is reported and not called again (ldump.c, lundump.c).
RECURSIVE Stripped(_)
Stripped(f) ==
  [f EXCEPT !.source = NULL, !.lineinfo = <<>>, !.locvars = <<>>,
            !.upvalues = [i \in DOMAIN @ |-> [@[i] EXCEPT !.name = NULL]],
            !.p = [i \in DOMAIN @ |-> Stripped(@[i])]]
Pieces(d, n) ==
  [i \in 1 .. ((Len(d) + n - 1) \div n) |-> SubSeq(d, (i - 1) * n + 1, Min({i * n, Len(d)}))]
Loaded(cl, n) == [status |-> "ok", why |-> "", cl |-> cl,
                  upvals |-> [i \in 1 .. n |-> IF n = 1 THEN "globals" ELSE "nil"]]
OtherHeader(d, i) == [d EXCEPT ![i] = <<"other">>]
ChunksKept ==
  (part = "chunk" /\ Len(input) = 3) =>
    LET f == input[1]
        d == LuaU_dump(f, input[2], 1000).out
        n == input[3]
        blocks == <<Header>> \o DumpFunction(f, input[2])
        why(x) == LoadReader(Pieces(x, n), {"b", "t"}, NULL).why
    IN /\ LoadReader(Pieces(d, n), {"b"}, NULL) =
            Loaded(IF input[2] THEN Stripped(f) ELSE f, Len(f.upvalues))
       /\ \A m \in {m \in 1 .. (Len(d) - 1) : m % 4 = n - 1} : why(SubSeq(d, 1, m)) = "truncated"
       /\ \A i \in 2 .. 6 : why(OtherHeader(d, i)) =
            <<"not a", "version mismatch in", "version mismatch in", "incompatible", "corrupted">>[i - 1]
       /\ LoadReader(Pieces(d, n), {"t"}, NULL).why = "mode"
       /\ why(SubSeq(d, 1, 9) \o <<NotAString>>) # ""
       /\ \A m \in 1 .. (Len(blocks) + 1) :
            LET w == LuaU_dump(f, input[2], m)
            IN (w.status = 0 <=> w.out = d \/ m > Len(blocks)) /\ IsPrefix(w.out, d)

\* loadfile loads what load does from the bytes of the file without the mark of
\* UTF-8 and with an empty line in place of a first line that begins with #,
\* or with neither if a binary chunk follows (lauxlib.c).
WithoutBOM(x) == IF IsPrefix(BOM, x) THEN SubSeq(x, 4, Len(x)) ELSE x
LineEnd(x) == Min({i \in DOMAIN x : x[i] = EndOfLine} \cup {Len(x)})
WithoutLine(x) ==
  IF x = <<>> \/ Head(x) # Hash THEN x
  ELSE LET rest == SubSeq(x, LineEnd(x) + 1, Len(x))
       IN IF rest # <<>> /\ Head(rest) = ESC THEN rest ELSE <<EndOfLine>> \o rest
FilesLoaded ==
  (part = "file" /\ Len(input) = 2) =>
    \A env \in {NULL, "env"} :
      /\ LoadFile(input[1], "none", input[2], env) =
           LoadString1(WithoutLine(WithoutBOM(input[1])), input[2], env)
      /\ \A fault \in {"open", "reopen", "read"} :
           \/ LoadFile(input[1], fault, input[2], env) = LoadError(fault)
           \/ fault = "reopen" /\ LoadFile(input[1], fault, input[2], env) = LoadFile(input[1], "none", input[2], env)

\* Both: what is loaded is what was dumped or written (ldump.c to lbaselib.c).
LoadsWhatWasSaved == ChunksKept /\ FilesLoaded

\* The scanner reads the tokens that were written, each as long as it can be,
\* whatever spaces and comments are between them, and counts the lines; a token
\* read ahead changes nothing; a string is what each way of writing it says,
\* that of the format %q among them, and no part of it is taken for a token
\* (llex.c, addquoted of lstrlib.c).
LineEnds(z) ==       \* the second character of a pair ends no line
  LET second[n \in 0 .. Len(z)] ==
        n > 1 /\ {z[n], z[n - 1]} = NewLines /\ ~second[n - 1]
  IN Cardinality({n \in DOMAIN z : z[n] \in NewLines /\ ~second[n]})
Words == Letters \cup Digits \cup {Dot}
OneSymbol(s, c) == Append(s, c) \in Symbols \cup {<<45, 45>>, <<91, 91>>, <<91, 61>>}
Glued(x, y) ==
  \/ Last(x.text) \in Words /\ Head(y.text) \in Words
       /\ (x.token.kind = "symbol" => Head(y.text) \in Digits \cup {Dot})
       /\ (x.token.kind \in {"name", "reserved"} => Head(y.text) # Dot)
  \/ OneSymbol(x.text, Head(y.text))
Scanner(z) == [ls |-> SetInput(z), t |-> EOS, ahead |-> EOS]
ScansTokens(front, x, sep, y) ==
  LET z     == front \o x.text \o sep \o y.text
      one   == LuaX_next(Scanner(z))
      two   == LuaX_next(one)
      ahead == LuaX_lookahead(one)
  IN /\ one.t = x.token /\ one.ls.linenumber = 1 + LineEnds(front \o x.text)
     /\ two.t = y.token /\ two.ls.linenumber = 1 + LineEnds(z)
     /\ ahead.t = x.token /\ LuaX_next(ahead).t = y.token
     /\ LuaX_next(two).t = EOS /\ LuaX_next(two).ls.ok
     /\ LuaX_next(LuaX_next(ahead)) = LuaX_next(two)
ScansWhatIsWritten ==
  /\ (part = "scan" /\ Len(input) = 4) =>
       LET sep   == input[3]
           glued == IF sep = <<>> THEN Glued(input[2], input[4]) ELSE OneSymbol(input[2].text, Head(sep))
       IN glued \/ ScansTokens(input[1], input[2], sep, input[4])
  /\ (part = "scan" /\ Len(input) = 1) => \A z \in Malformed : ~Llex(SetInput(input[1] \o z)).ok
  /\ (part = "quote" /\ Len(input) = 1) =>
       \A l \in Literals(input[1]) :
         /\ Llex(SetInput(l)).ok /\ Llex(SetInput(l)).t = Token("string", input[1])
         /\ Llex(SetInput(l)).pos = Len(l) + 1
         /\ \A n \in 2 .. (Len(l) - 1) : ~Llex(SetInput(SubSeq(l, 1, n))).ok
=============================================================================
