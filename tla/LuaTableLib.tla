---------------------------- MODULE LuaTableLib ----------------------------
(***************************************************************************)
(* The functions on lists (ltablib.c): a list t is a function from         *)
(* integers to values or Nil, and n is what luaL_len answers.              *)
(***************************************************************************)
EXTENDS Integers, FiniteSets, SequencesExt

CONSTANTS Nil,
          MaxInt,        \* of a C int; the least is -MaxInt - 1
          MaxStack       \* the values lua_checkstack makes room for

Raised == [raised |-> TRUE]
Wrap(i) == ((i + MaxInt + 1) % (2 * (MaxInt + 1))) - MaxInt - 1
Upward(i, j) == [k \in 1 .. (IF i > j THEN 0 ELSE j - i + 1) |-> i + k - 1]

(***************************************************************************)
(* insert, remove, unpack, pack and concat.                                *)
(***************************************************************************)
MoveUp(t, i) == [t EXCEPT ![i] = t[i - 1]]
TInsertUpward(t, n, pos, v) ==                                    \* a mutant
  IF pos \notin 1 .. (n + 1) THEN Raised
  ELSE [FoldLeft(MoveUp, t, Upward(pos + 1, n + 1)) EXCEPT ![pos] = v]
TInsert(t, n, pos, v) ==
  IF pos \notin 1 .. (n + 1) THEN Raised
  ELSE [FoldLeft(MoveUp, t, Reverse(Upward(pos + 1, n + 1))) EXCEPT ![pos] = v]
TAppend(t, n, v) == [t EXCEPT ![n + 1] = v]

MoveDown(t, i) == [t EXCEPT ![i] = t[i + 1]]
TRemove(t, n, pos) ==
  IF pos # n /\ pos \notin 1 .. (n + 1) THEN Raised
  ELSE [val |-> t[pos],
        t   |-> [FoldLeft(MoveDown, t, Upward(pos, n - 1)) EXCEPT ![IF pos < n THEN n ELSE pos] = Nil]]

\* The count is a C int, which may overflow.
Pushed(t, i, e) == <<t[i]>> \o [k \in 1 .. (e - i) |-> t[i + k]]
UnpackUnchecked(t, i, e) ==                                       \* a mutant
  IF i > e THEN <<>> ELSE IF Wrap(e - i + 1) > MaxStack THEN Raised ELSE Pushed(t, i, e)
Unpack(t, i, e) ==
  LET n == Wrap(e - i + 1) IN
  IF i > e THEN <<>> ELSE IF n <= 0 \/ n > MaxStack THEN Raised ELSE Pushed(t, i, e)
\* The first value goes to the table before the table takes its place.
Pack(args, blank) ==
  FoldLeft(LAMBDA t, i : [t EXCEPT ![i] = args[i]],
           IF args = <<>> THEN blank ELSE [blank EXCEPT ![1] = args[1]],
           Reverse(Upward(2, Len(args))))
Concat1(t, sep, from, last) ==
  IF \E i \in from .. last : t[i] = Nil THEN Raised
  ELSE FlattenSeq([k \in 1 .. (last - from) |-> <<t[from + k - 1], sep>>]) \o <<t[last]>>
TConcat(t, sep, i, last) == IF i > last THEN <<>> ELSE Concat1(t, sep, i, last)

(***************************************************************************)
(* sort: less is the set of pairs for which the order function answers     *)
(* true, bad says that an error was raised.                                *)
(***************************************************************************)
Less(x, y, less) == <<x, y>> \in less
Set2(t, i, j) == [t EXCEPT ![i] = t[j], ![j] = t[i]]
InOrder(t, i, j, less) == IF Less(t[j], t[i], less) THEN Set2(t, i, j) ELSE t
\* a[l], a[m] and a[u] are put in order.
Middle(t, l, m, u, less) ==
  IF Less(t[m], t[l], less) THEN Set2(t, m, l) ELSE InOrder(t, m, u, less)

RECURSIVE AuxSort(_, _, _, _), ScanUp(_, _, _, _, _), ScanDown(_, _, _, _, _)
Invalid == -1
ScanUpFar(t, p, i, u, less) ==                                    \* a mutant
  IF ~Less(t[i + 1], p, less) THEN i + 1
  ELSE IF i + 1 > u THEN Invalid ELSE ScanUp(t, p, i + 1, u, less)
ScanUp(t, p, i, u, less) ==       \* ++i until a[i] >= P
  IF ~Less(t[i + 1], p, less) THEN i + 1
  ELSE IF i + 1 >= u THEN Invalid ELSE ScanUp(t, p, i + 1, u, less)
ScanDown(t, p, j, l, less) ==     \* --j until a[j] <= P
  IF ~Less(p, t[j - 1], less) THEN j - 1
  ELSE IF j - 1 <= l THEN Invalid ELSE ScanDown(t, p, j - 1, l, less)

RECURSIVE Partition(_, _, _, _, _, _)
Partitioned(t, l, u, i, j, less) ==
  CASE i = Invalid \/ j = Invalid -> [t |-> t, i |-> Invalid]
    [] i # Invalid /\ j # Invalid /\ j < i -> [t |-> Set2(t, u - 1, i), i |-> i]
    [] OTHER -> Partition(Set2(t, i, j), l, u, i, j, less)
Partition(t, l, u, i, j, less) ==
  Partitioned(t, l, u, ScanUp(t, t[u - 1], i, u, less), ScanDown(t, t[u - 1], j, l, less), less)

\* The smaller half is sorted by a call, the larger one by the loop.
Loop(r, l, u, less) == IF r.bad THEN r ELSE AuxSort(r.t, l, u, less)
Halves(r, l, u, less) ==
  IF r.i = Invalid THEN [t |-> r.t, bad |-> TRUE]
  ELSE IF r.i - l < u - r.i THEN Loop(AuxSort(r.t, l, r.i - 1, less), r.i + 1, u, less)
  ELSE Loop(AuxSort(r.t, r.i + 1, u, less), l, r.i - 1, less)
Three(t, l, m, u, less) ==
  IF u - l = 2 THEN [t |-> t, bad |-> FALSE]
  ELSE Halves(Partition(Set2(t, m, u - 1), l, u, l, u - 1, less), l, u, less)
Two(t, l, u, less) ==
  IF u - l = 1 THEN [t |-> t, bad |-> FALSE]
  ELSE Three(Middle(t, l, (l + u) \div 2, u, less), l, (l + u) \div 2, u, less)
AuxSort(t, l, u, less) ==
  IF l >= u THEN [t |-> t, bad |-> FALSE] ELSE Two(InOrder(t, l, u, less), l, u, less)
Sort(t, n, less) == AuxSort(t, 1, n, less)
=============================================================================
