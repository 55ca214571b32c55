--------------------------- MODULE PatternMeaning ---------------------------
(***************************************************************************)
(* What a pattern means: the ways in which its items from p on match the   *)
(* string from s on, the preferred one first.  A way that meets a capture  *)
(* it must not use is an error.                                            *)
(***************************************************************************)
EXTENDS LuaMatch

Bad == [s |-> Fail, caps |-> <<>>]
OpenIn(caps) == {l \in DOMAIN caps : caps[l].len = Unfinished}
Runs(str, s, S) == {n \in 0 .. (Len(str) - s) : \A m \in 1 .. n : CharAt(str, s + m - 1) \in S}
Counts(str, s, item) ==       \* how many characters the item may take
  LET most == Max(Runs(str, s, item[2]))
      up   == [n \in 1 .. (most + 1) |-> n - 1]
  IN CASE item[3] = ""  -> SelectSeq(up, LAMBDA n : n = 1)
       [] item[3] = "?" -> Reverse(SelectSeq(up, LAMBDA n : n <= 1))
       [] item[3] = "*" -> Reverse(up)
       [] item[3] = "+" -> Reverse(Tail(up))
       [] item[3] = "-" -> up
Depth(str, i, j, b, e) ==
  Cardinality({n \in i .. j : CharAt(str, n) = b}) - Cardinality({n \in i .. j : CharAt(str, n) = e})
Balanced(str, s, b, e) ==     \* the ends of a balanced string at s
  {n \in (s + 1) .. (Len(str) - 1) :
     /\ CharAt(str, s) = b /\ CharAt(str, n) = e
     /\ IF b = e THEN \A m \in (s + 1) .. (n - 1) : CharAt(str, m) # e
        ELSE Depth(str, s, n, b, e) = 0 /\ \A m \in s .. (n - 1) : Depth(str, s, m, b, e) > 0}

RECURSIVE Ways(_, _, _, _, _)
Ways(str, pat, s, p, caps) ==
  IF p > Len(pat) THEN << [s |-> s, caps |-> caps] >>
  ELSE LET item == pat[p]
           go(t, c) == Ways(str, pat, t, p + 1, c)
       IN CASE item[1] \in {"(", "()"} ->
                 IF Len(caps) = MaxCaptures THEN <<Bad>>
                 ELSE go(s, Append(caps, [init |-> s, len |-> IF item[1] = "(" THEN Unfinished ELSE Position]))
            [] item[1] = ")" ->
                 IF OpenIn(caps) = {} THEN <<Bad>>
                 ELSE LET l == Max(OpenIn(caps)) IN go(s, [caps EXCEPT ![l].len = s - caps[l].init])
            [] item[1] = "$" -> IF s = Len(str) THEN go(s, caps) ELSE <<>>
            [] item[1] = "%b" ->
                 LET ends == Balanced(str, s, item[2], item[3])
                 IN IF ends = {} THEN <<>> ELSE go(Min(ends) + 1, caps)
            [] item[1] = "%f" ->
                 IF CharAt(str, s) \in item[2] /\ CharAt(str, s - 1) \notin item[2] THEN go(s, caps) ELSE <<>>
            [] item[1] = "%n" ->
                 IF item[2] \notin DOMAIN caps \ OpenIn(caps) THEN <<Bad>>
                 ELSE IF caps[item[2]].len = Position THEN <<>>
                 ELSE LET t == SubSeq(str, caps[item[2]].init + 1, caps[item[2]].init + caps[item[2]].len)
                      IN IF s + Len(t) <= Len(str) /\ SubSeq(str, s + 1, s + Len(t)) = t
                         THEN go(s + Len(t), caps) ELSE <<>>
            [] item[1] = "single" ->
                 FlattenSeq([n \in DOMAIN Counts(str, s, item) |-> go(s + Counts(str, s, item)[n], caps)])

Meaning(str, pat, from, anchor) ==
  LET starts == {s \in from .. (IF anchor THEN from ELSE Len(str)) : Ways(str, pat, s, 1, <<>>) # <<>>}
      way    == Head(Ways(str, pat, Min(starts), 1, <<>>))
      ms     == [MatchState(str, pat) EXCEPT !.capture = way.caps]
  IN IF starts = {} THEN <<"nil">>
     ELSE IF way = Bad THEN <<"error">>
     ELSE <<"found", Min(starts), way.s, PushCaptures(ms, Min(starts), way.s), MaxDepth>>
=============================================================================
