------------------------------- MODULE LuaLex -------------------------------
(***************************************************************************)
(* The scanner (llex.c), and the quoting of strings for it by the format   *)
(* %q (lstrlib.c).  A character is its code, a chunk a sequence of them.   *)
(* What the scanner has read of a token is in buff; ok is FALSE after an   *)
(* error.                                                                  *)
(***************************************************************************)
EXTENDS Integers, FiniteSets, SequencesExt

EOZ == -1
NewLine == 10
Return == 13
Backslash == 92
Quotes == {34, 39}
OpenBracket == 91
CloseBracket == 93
Equals == 61
Dot == 46
Minus == 45
Plus == 43
Spaces == 9 .. 13 \cup {32}
NewLines == {NewLine, Return}
Digits == 48 .. 57
HexDigits == Digits \cup 65 .. 70 \cup 97 .. 102
Letters == 65 .. 90 \cup 97 .. 122 \cup {95}
Controls == 0 .. 31 \cup {127}
\* do, if, in and or stand for the reserved words.
Reserved == {<<100, 111>>, <<105, 102>>, <<105, 110>>, <<111, 114>>}

Token(kind, value) == [kind |-> kind, value |-> value]
EOS == Token("eos", <<>>)
SetInput(z) ==
  [z |-> z, pos |-> 1, linenumber |-> 1, buff |-> <<>>, ok |-> TRUE, t |-> EOS]

CodeAt(ls, n) == IF n \in DOMAIN ls.z THEN ls.z[n] ELSE EOZ
Current(ls) == CodeAt(ls, ls.pos)
NextChar(ls) == [ls EXCEPT !.pos = @ + 1]
SaveChar(ls, c) == [ls EXCEPT !.buff = Append(@, c)]
SaveAndNext(ls) == NextChar(SaveChar(ls, Current(ls)))
LexError(ls) == [ls EXCEPT !.ok = FALSE]
Reads(ls, kind, value) == [ls EXCEPT !.t = Token(kind, value)]

\* The end of the span of characters in S that begins here.
SpanEnd(ls, S) == Min({n \in ls.pos .. (Len(ls.z) + 1) : CodeAt(ls, n) \notin S})
SaveSpan(ls, S) ==
  [ls EXCEPT !.buff = @ \o SubSeq(ls.z, ls.pos, SpanEnd(ls, S) - 1), !.pos = SpanEnd(ls, S)]

IncLineNumberOnce(ls) ==                                          \* a mutant
  [NextChar(ls) EXCEPT !.linenumber = @ + 1]
\* Two different characters of NewLines are one end of a line.
IncLineNumber(ls) ==
  [ls EXCEPT !.linenumber = @ + 1,
             !.pos = @ + (IF CodeAt(ls, ls.pos + 1) \in NewLines \ {Current(ls)} THEN 2 ELSE 1)]

(***************************************************************************)
(* Numerals.                                                               *)
(***************************************************************************)
CheckNext(ls, set) == IF Current(ls) \in set THEN SaveAndNext(ls) ELSE ls
\* What strtod accepts as a whole.
Mantissa(s, digits) ==
  /\ Range(s) \subseteq digits \cup {Dot} /\ Range(s) \cap digits # {}
  /\ Cardinality({n \in DOMAIN s : s[n] = Dot}) <= 1
Exponent(s) ==
  \/ s # <<>> /\ Range(s) \subseteq Digits
  \/ Len(s) > 1 /\ Head(s) \in {Plus, Minus} /\ Range(Tail(s)) \subseteq Digits
Numeral(s, digits, expo) ==
  \/ Mantissa(s, digits)
  \/ \E n \in DOMAIN s :
       s[n] \in expo /\ Mantissa(SubSeq(s, 1, n - 1), digits) /\ Exponent(SubSeq(s, n + 1, Len(s)))
IsHex(s) == Len(s) > 1 /\ s[1] = 48 /\ s[2] \in {88, 120}
Str2d(s) ==
  IF IsHex(s) THEN Numeral(SubSeq(s, 3, Len(s)), HexDigits, {80, 112}) ELSE Numeral(s, Digits, {69, 101})

RECURSIVE ReadDigits(_, _)
ReadDigits(ls, expo) ==
  LET e == IF Current(ls) \in expo THEN CheckNext(SaveAndNext(ls), {Plus, Minus}) ELSE ls
  IN IF Current(e) \in HexDigits \cup {Dot} THEN ReadDigits(SaveAndNext(e), expo) ELSE e
NumberRead(ls) == IF Str2d(ls.buff) THEN Reads(ls, "number", ls.buff) ELSE LexError(ls)
Prefixed(first, ls) == IF first = 48 THEN CheckNext(ls, {88, 120}) ELSE ls
ReadNumeral(ls) ==
  LET p == Prefixed(Current(ls), SaveAndNext(ls))
  IN NumberRead(ReadDigits(p, IF Last(p.buff) \in {88, 120} THEN {80, 112} ELSE {69, 101}))

(***************************************************************************)
(* Long strings and comments.                                              *)
(***************************************************************************)
\* The number of = between two brackets that are alike, or -1 minus it.
SkipSep(ls) == SaveSpan(SaveAndNext(ls), {Equals})
SepCount(ls) ==
  LET count == SkipSep(ls).pos - ls.pos - 1
  IN IF Current(SkipSep(ls)) = Current(ls) THEN count ELSE -count - 1

LongBegins(ls) ==
  IF Current(SaveAndNext(ls)) \in NewLines THEN IncLineNumber(SaveAndNext(ls)) ELSE SaveAndNext(ls)
RECURSIVE LongBody(_, _)
LongBody(ls, sep) ==
  LET c == Current(ls)
  IN CASE c = EOZ -> LexError(ls)
       [] c = CloseBracket /\ SepCount(ls) = sep -> SaveAndNext(SkipSep(ls))
       [] c = CloseBracket /\ SepCount(ls) # sep -> LongBody(SkipSep(ls), sep)
       [] c \in NewLines -> LongBody(IncLineNumber(SaveChar(ls, NewLine)), sep)
       [] OTHER -> LongBody(SaveAndNext(ls), sep)
\* ls stands at the second [.
ReadLongString(ls, sep) == LongBody(LongBegins(ls), sep)
LongRead(ls, sep) ==
  IF ls.ok THEN Reads(ls, "string", SubSeq(ls.buff, sep + 3, Len(ls.buff) - sep - 2)) ELSE ls

(***************************************************************************)
(* Strings.                                                                *)
(***************************************************************************)
HexValue(c) == IF c \in Digits THEN c - 48 ELSE IF c \in 65 .. 70 THEN c - 55 ELSE c - 87
\* ls stands at the x.
ReadHexaEsc(ls) ==
  LET h == CodeAt(ls, ls.pos + 1)
      l == CodeAt(ls, ls.pos + 2)
  IN IF {h, l} \subseteq HexDigits
     THEN SaveChar([ls EXCEPT !.pos = @ + 3], 16 * HexValue(h) + HexValue(l)) ELSE LexError(ls)
DecDigits(ls) == SubSeq(ls.z, ls.pos, Min({SpanEnd(ls, Digits), ls.pos + 3}) - 1)
ReadDecEsc(ls) ==
  LET r == FoldLeft(LAMBDA v, c : 10 * v + c - 48, 0, DecDigits(ls))
  IN IF r > 255 THEN LexError(ls) ELSE SaveChar([ls EXCEPT !.pos = @ + Len(DecDigits(ls))], r)
RECURSIVE SkipSpaces(_)
SkipSpaces(ls) ==
  IF Current(ls) \in NewLines THEN SkipSpaces(IncLineNumber(ls))
  ELSE IF Current(ls) \in Spaces THEN SkipSpaces(NextChar(ls)) ELSE ls

\* \a, \b, \f, \n, \r, \t and \v.
Escapes == [c \in {97, 98, 102, 110, 114, 116, 118} |->
              CASE c = 97 -> 7 [] c = 98 -> 8 [] c = 102 -> 12 [] c = 110 -> 10
                [] c = 114 -> 13 [] c = 116 -> 9 [] c = 118 -> 11]
ReadEscape(ls) ==         \* behind the backslash
  LET c == Current(ls)
  IN CASE c \in DOMAIN Escapes -> NextChar(SaveChar(ls, Escapes[c]))
       [] c = 120 -> ReadHexaEsc(ls)
       [] c \in NewLines -> SaveChar(IncLineNumber(ls), NewLine)
       [] c \in Quotes \cup {Backslash} -> SaveAndNext(ls)
       [] c = EOZ -> ls
       [] c = 122 -> SkipSpaces(NextChar(ls))
       [] c \in Digits -> ReadDecEsc(ls)
       [] OTHER -> LexError(ls)
RECURSIVE StringBody(_, _)
StringBody(ls, del) ==
  LET c == Current(ls)
  IN CASE ~ls.ok -> ls
       [] ls.ok /\ c = del -> Reads(NextChar(ls), "string", ls.buff)
       [] ls.ok /\ c \in NewLines \cup {EOZ} -> LexError(ls)
       [] ls.ok /\ c = Backslash -> StringBody(ReadEscape(NextChar(ls)), del)
       [] OTHER -> StringBody(SaveAndNext(ls), del)
ReadString(ls) == StringBody(NextChar(ls), Current(ls))

(***************************************************************************)
(* llex reads the next token.                                              *)
(***************************************************************************)
RECURSIVE Llex(_)
ShortComment(ls) == [ls EXCEPT !.pos = SpanEnd(ls, (0 .. 255) \ NewLines)]
Comment(ls) ==            \* behind --
  IF Current(ls) = OpenBracket /\ SepCount(ls) >= 0 THEN ReadLongString(SkipSep(ls), SepCount(ls))
  ELSE ShortComment(IF Current(ls) = OpenBracket THEN SkipSep(ls) ELSE ls)
Continued(ls) == IF ls.ok THEN Llex(ls) ELSE ls
Symbol(ls, n) == Reads([ls EXCEPT !.pos = @ + n], "symbol", SubSeq(ls.z, ls.pos, ls.pos + n - 1))
\* Two characters if the second is c.
Pair(ls, c) == Symbol(ls, IF CodeAt(ls, ls.pos + 1) = c THEN 2 ELSE 1)
Dots(ls) ==
  IF CodeAt(ls, ls.pos + 1) = Dot THEN Symbol(ls, IF CodeAt(ls, ls.pos + 2) = Dot THEN 3 ELSE 2)
  ELSE IF CodeAt(ls, ls.pos + 1) \in Digits THEN ReadNumeral(SaveAndNext(ls))
  ELSE Symbol(ls, 1)
Bracket(ls) ==
  IF SepCount(ls) >= 0 THEN LongRead(ReadLongString(SkipSep(ls), SepCount(ls)), SepCount(ls))
  ELSE IF SepCount(ls) = -1 THEN Symbol(ls, 1) ELSE LexError(ls)
Name(ls) == Reads(ls, IF ls.buff \in Reserved THEN "reserved" ELSE "name", ls.buff)
Scan1(ls) ==
  LET c == Current(ls)
  IN CASE c \in NewLines -> Llex(IncLineNumber(ls))
       [] c \in Spaces \ NewLines -> Llex(NextChar(ls))
       [] c = Minus -> IF CodeAt(ls, ls.pos + 1) # Minus THEN Symbol(ls, 1)
                       ELSE Continued(Comment([ls EXCEPT !.pos = @ + 2]))
       [] c = OpenBracket -> Bracket(ls)
       [] c \in {Equals, 60, 62, 126} -> Pair(ls, Equals)
       [] c = 58 -> Pair(ls, 58)
       [] c \in Quotes -> ReadString(ls)
       [] c = Dot -> Dots(ls)
       [] c \in Digits -> ReadNumeral(ls)
       [] c = EOZ -> [ls EXCEPT !.t = EOS]
       [] c \in Letters -> Name(SaveSpan(ls, Letters \cup Digits))
       [] OTHER -> Symbol(ls, 1)
Llex(ls) == Scan1([ls EXCEPT !.buff = <<>>])

(***************************************************************************)
(* luaX_next and luaX_lookahead: x is the scanner ls, which is at the last  *)
(* token read, the current token t and the token ahead, if there is one.   *)
(***************************************************************************)
LuaX_lookahead(x) == [x EXCEPT !.ls = Llex(@), !.ahead = Llex(x.ls).t]
LuaX_next(x) ==
  IF x.ahead # EOS THEN [x EXCEPT !.t = x.ahead, !.ahead = EOS]
  ELSE [x EXCEPT !.ls = Llex(@), !.t = Llex(x.ls).t]

(***************************************************************************)
(* string.format("%q", s).                                                 *)
(***************************************************************************)
Decimal(c) ==
  IF c < 10 THEN <<48 + c>> ELSE IF c < 100 THEN <<48 + (c \div 10), 48 + (c % 10)>>
  ELSE <<48 + (c \div 100), 48 + ((c \div 10) % 10), 48 + (c % 10)>>
Decimal3(c) == <<48 + (c \div 100), 48 + ((c \div 10) % 10), 48 + (c % 10)>>
Quoted(c, following) ==
  CASE c \in {34, Backslash, NewLine} -> <<Backslash, c>>
    [] c \in Controls \ {NewLine} ->
         <<Backslash>> \o (IF following \in Digits THEN Decimal3(c) ELSE Decimal(c))
    [] OTHER -> <<c>>
AddQuoted(s) ==
  <<34>> \o FlattenSeq([n \in DOMAIN s |-> Quoted(s[n], IF n = Len(s) THEN 0 ELSE s[n + 1])]) \o <<34>>
=============================================================================
