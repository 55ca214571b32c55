------------------------------ MODULE LuaMatch ------------------------------
(***************************************************************************)
(* Pattern matching of strings (lstrlib.c).  A string is a sequence of     *)
(* characters; a pattern is a sequence of items:                           *)
(*   <<"single", S, x>>  a character of the set S, with suffix x           *)
(*   <<"(">>, <<"()">>, <<")">>, <<"$">>, <<"%b", x, y>>, <<"%f", S>>,     *)
(*   <<"%n", n>>         back to the capture n                             *)
(* match works on one array of captures, which it sets before it goes on   *)
(* and undoes if it fails.                                                 *)
(***************************************************************************)
EXTENDS Integers, FiniteSets, SequencesExt

CONSTANTS MaxDepth,     \* MAXCCALLS
          MaxCaptures   \* LUA_MAXCAPTURES

Unfinished == -1       \* CAP_UNFINISHED
Position == -2         \* CAP_POSITION
Fail == -1             \* NULL
NUL == "0"             \* what is in front of and behind the string
CharAt(str, s) == IF s \in 0 .. (Len(str) - 1) THEN str[s + 1] ELSE NUL
MatchState(str, pat) ==
  [src |-> str, pat |-> pat, depth |-> MaxDepth, capture |-> <<>>, error |-> FALSE]
Result(ms, s) == [ms |-> ms, s |-> s]
Error(ms) == Result([ms EXCEPT !.error = TRUE], Fail)
Failed(r) == r.s = Fail /\ ~r.ms.error

SingleMatch(ms, s, item) == s < Len(ms.src) /\ CharAt(ms.src, s) \in item[2]
\* How many characters from s on match the item.
Expand(ms, s, item) == Min({n \in 0 .. Len(ms.src) : ~SingleMatch(ms, s + n, item)})

CaptureToClose(ms) == {l \in DOMAIN ms.capture : ms.capture[l].len = Unfinished}
Text(ms, c) == SubSeq(ms.src, c.init + 1, c.init + c.len)

\* cont of matchbalance: the first position behind s where it becomes 0.
Balance(ms, s, b, e) ==
  LET cont[n \in s .. (Len(ms.src) - 1)] ==
        IF n = s THEN 1
        ELSE cont[n - 1] + (IF CharAt(ms.src, n) = e THEN -1 ELSE IF CharAt(ms.src, n) = b THEN 1 ELSE 0)
      closed == {n \in (s + 1) .. (Len(ms.src) - 1) : CharAt(ms.src, n) = e /\ cont[n] = 0}
  IN IF CharAt(ms.src, s) # b \/ closed = {} THEN Fail ELSE Min(closed) + 1

Frontier(ms, s, S) == CharAt(ms.src, s - 1) \notin S /\ CharAt(ms.src, s) \in S
MatchCapture(ms, s, l) ==
  IF Len(ms.src) - s >= ms.capture[l].len /\
     SubSeq(ms.src, s + 1, s + ms.capture[l].len) = Text(ms, ms.capture[l])
  THEN s + ms.capture[l].len ELSE Fail

(***************************************************************************)
(* match and the functions it calls, which call it again.                  *)
(***************************************************************************)
RECURSIVE Continue(_, _, _, _)

UndoStart(r) == IF Failed(r) THEN [r EXCEPT !.ms.capture = Front(@)] ELSE r
StartCapture(ms, s, p, what) ==
  IF Len(ms.capture) >= MaxCaptures THEN Error(ms)
  ELSE UndoStart(Continue("match", [ms EXCEPT !.capture = Append(@, [init |-> s, len |-> what])], s, p))
UndoEndNot(r, l) == r                                             \* a mutant
UndoEnd(r, l) == IF Failed(r) THEN [r EXCEPT !.ms.capture[l].len = Unfinished] ELSE r
CloseCapture(ms, s, p, l) ==
  UndoEnd(Continue("match", [ms EXCEPT !.capture[l].len = s - ms.capture[l].init], s, p), l)
EndCapture(ms, s, p) ==
  IF CaptureToClose(ms) = {} THEN Error(ms) ELSE CloseCapture(ms, s, p, Max(CaptureToClose(ms)))

\* The calls are made one after the other until one does not fail.
MaxExpand(ms, s, p, from) ==
  FoldLeft(LAMBDA r, n : IF Failed(r) THEN Continue("match", r.ms, s + n, p + 1) ELSE r,
           Result(ms, Fail), Reverse([n \in 1 .. (Expand(ms, s, ms.pat[p]) + 1 - from) |-> n - 1 + from]))
MinExpand(ms, s, p) ==
  FoldLeft(LAMBDA r, n : IF Failed(r) THEN Continue("match", r.ms, s + n, p + 1) ELSE r,
           Result(ms, Fail), [n \in 1 .. (Expand(ms, s, ms.pat[p]) + 1) |-> n - 1])
Optional(r, s, p) == IF Failed(r) THEN Continue("init", r.ms, s, p + 1) ELSE r

Once(ms, s, p) ==                \* the item matches here
  LET suffix == ms.pat[p][3]
  IN CASE suffix = ""  -> Continue("init", ms, s + 1, p + 1)
       [] suffix = "?" -> Optional(Continue("match", ms, s + 1, p + 1), s, p)
       [] suffix = "+" -> MaxExpand(ms, s, p, 1)
       [] suffix = "*" -> MaxExpand(ms, s, p, 0)
       [] suffix = "-" -> MinExpand(ms, s, p)
Single(ms, s, p) ==
  IF SingleMatch(ms, s, ms.pat[p]) THEN Once(ms, s, p)
  ELSE IF ms.pat[p][3] \in {"*", "?", "-"} THEN Continue("init", ms, s, p + 1)
  ELSE Result(ms, Fail)
GoOn(ms, s, p) == IF s = Fail THEN Result(ms, Fail) ELSE Continue("init", ms, s, p)
CheckCapture(ms, l) == l \in DOMAIN ms.capture /\ ms.capture[l].len # Unfinished
\* A position capture has no text: its length, as an unsigned number, exceeds the string.
BackTo(ms, s, p, l) ==
  IF ~CheckCapture(ms, l) THEN Error(ms)
  ELSE GoOn(ms, IF ms.capture[l].len = Position THEN Fail ELSE MatchCapture(ms, s, l), p)

Init1(ms, s, p) ==
  IF p > Len(ms.pat) THEN Result(ms, s)
  ELSE LET item == ms.pat[p]
       IN CASE item[1] = "("  -> StartCapture(ms, s, p + 1, Unfinished)
            [] item[1] = "()" -> StartCapture(ms, s, p + 1, Position)
            [] item[1] = ")"  -> EndCapture(ms, s, p + 1)
            [] item[1] = "$"  -> Result(ms, IF s = Len(ms.src) THEN s ELSE Fail)
            [] item[1] = "%b" -> GoOn(ms, Balance(ms, s, item[2], item[3]), p + 1)
            [] item[1] = "%f" -> GoOn(ms, IF Frontier(ms, s, item[2]) THEN s ELSE Fail, p + 1)
            [] item[1] = "%n" -> BackTo(ms, s, p + 1, item[2])
            [] item[1] = "single" -> Single(ms, s, p)
Leave(r) == IF r.ms.error THEN r ELSE [r EXCEPT !.ms.depth = @ + 1]
Match(ms, s, p) ==
  IF ms.depth = 0 THEN Error(ms) ELSE Leave(Init1([ms EXCEPT !.depth = @ - 1], s, p))
Continue(what, ms, s, p) == IF what = "match" THEN Match(ms, s, p) ELSE Init1(ms, s, p)

(***************************************************************************)
(* The functions of the library.                                           *)
(***************************************************************************)
Restart(ms) == [ms EXCEPT !.capture = <<>>]       \* level = 0
PushOneCapture(ms, c) == IF c.len = Position THEN <<"position", c.init + 1>> ELSE <<"text", Text(ms, c)>>
ErrorCapture == << <<"error">> >>
\* What push_captures pushes for a match from s to e.
PushCaptures(ms, s, e) ==
  IF \E c \in Range(ms.capture) : c.len = Unfinished THEN ErrorCapture
  ELSE IF ms.capture = <<>> THEN << <<"text", SubSeq(ms.src, s + 1, e)>> >>
  ELSE [l \in DOMAIN ms.capture |-> PushOneCapture(ms, ms.capture[l])]

\* string.find and string.match from position s on.
RECURSIVE StrFind(_, _, _)
Found(r, s, anchor) ==
  CASE r.ms.error -> <<"error">>
    [] ~r.ms.error /\ r.s # Fail -> <<"found", s, r.s, PushCaptures(r.ms, s, r.s), r.ms.depth>>
    [] Failed(r) -> IF s < Len(r.ms.src) /\ ~anchor THEN StrFind(r.ms, s + 1, anchor) ELSE <<"nil">>
StrFind(ms, s, anchor) == Found(Match(Restart(ms), s, 1), s, anchor)

\* string.find of a string without special characters: memchr for the first
\* of its characters, in the l1 characters of str behind from.
RECURSIVE Scan(_, _, _, _)
Firsts(str, s2, from, l1) == {n \in from .. (from + l1 - 1) : CharAt(str, n) = Head(s2)}
TryAt(str, s2, from, l1, at) ==
  IF SubSeq(str, at + 2, at + Len(s2)) = Tail(s2) THEN at ELSE Scan(str, s2, at + 1, l1 - (at + 1 - from))
Scan(str, s2, from, l1) ==
  IF Firsts(str, s2, from, l1) = {} THEN Fail
  ELSE TryAt(str, s2, from, l1, Min(Firsts(str, s2, from, l1)))
MemFind(str, s2, from) ==
  IF s2 = <<>> THEN from
  ELSE IF Len(s2) > Len(str) - from THEN Fail
  ELSE Scan(str, s2, from, Len(str) - from - (Len(s2) - 1))

\* The matches string.gmatch returns, from position s on.
RECURSIVE GMatch(_, _, _)
GMatched(r, s, out) ==
  CASE r.ms.error -> Append(out, ErrorCapture)
    [] ~r.ms.error /\ r.s # Fail ->
         GMatch(r.ms, IF r.s = s THEN s + 1 ELSE r.s, Append(out, PushCaptures(r.ms, s, r.s)))
    [] Failed(r) -> GMatch(r.ms, s + 1, out)
GMatch(ms, s, out) ==
  IF s > Len(ms.src) \/ ErrorCapture \in Range(out) THEN out ELSE GMatched(Match(Restart(ms), s, 1), s, out)

\* string.gsub, which replaces each match by itself: b is the new string, args
\* what the replacements were computed from.
RECURSIVE GSub(_, _)
AddValue(r, a) ==
  IF r.s = Fail THEN a
  ELSE [a EXCEPT !.b = @ \o SubSeq(r.ms.src, a.s + 1, r.s), !.n = @ + 1,
                 !.args = Append(@, PushCaptures(r.ms, a.s, r.s))]
Skip(r, a) ==
  IF r.s > a.s THEN [a EXCEPT !.s = r.s]
  ELSE IF a.s < Len(r.ms.src) THEN [a EXCEPT !.s = @ + 1, !.b = Append(@, CharAt(r.ms.src, a.s))]
  ELSE [a EXCEPT !.more = FALSE]
GSubbed(r, a, anchor) ==
  IF r.ms.error THEN [a EXCEPT !.args = Append(@, ErrorCapture)]
  ELSE GSub(r.ms, [Skip(r, AddValue(r, a)) EXCEPT !.more = @ /\ ~anchor])
GSub(ms, a) ==
  IF a.more /\ a.n < a.max /\ ErrorCapture \notin Range(a.args)
  THEN GSubbed(Match(Restart(ms), a.s, 1), a, a.anchor)
  ELSE [a EXCEPT !.b = @ \o SubSeq(ms.src, a.s + 1, Len(ms.src))]
StrGSub(ms, max, anchor) ==
  GSub(ms, [s |-> 0, b |-> <<>>, args |-> <<>>, n |-> 0, max |-> max, anchor |-> anchor, more |-> TRUE])

=============================================================================
