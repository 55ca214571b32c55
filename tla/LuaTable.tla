------------------------------ MODULE LuaTable ------------------------------
(***************************************************************************)
(* The tables of Lua (ltable.c): an array part, a hash part whose nodes    *)
(* form chains, and traversal by next while fields are cleared and the     *)
(* collector marks the keys of empty nodes as dead.  A key is an integer,  *)
(* or an object of the collector whose hash is given; the value stored     *)
(* under a key is the key.                                                 *)
(***************************************************************************)
EXTENDS Integers, Sequences, FiniteSets, SequencesExt

CONSTANTS Objects,       \* objects and strings, keys that can die
          Numbers,       \* integers that are keys
          StringKeys,    \* those of Objects that are strings
          HashOf,        \* the hash of a number or object
          MaxIndex,      \* MAX_INT, the greatest index
          Sizes          \* array and hash sizes a table is made with

VARIABLES tab,           \* the table
          present,       \* the keys that have a value
          trav           \* the traversal going on
tableVars == <<tab, present, trav>>

IntKey(n) == <<"num", n>>
TableKeys == {IntKey(n) : n \in Numbers} \cup {<<"obj", o>> : o \in Objects}
IsInt(k) == k[1] = "num"
Empty == <<"nil">>
NoNext == -1
FreeNode == [key |-> Empty, val |-> Empty, next |-> NoNext]
Dead(k) == <<"dead", k>>

(***************************************************************************)
(* A table.  The hash part without nodes is the dummy node, which is never *)
(* written.                                                                *)
(***************************************************************************)
SizeNode(t) == IF t.node = <<>> THEN 1 ELSE Len(t.node)
IsDummy(t) == t.node = <<>>
Node(t, n) == IF IsDummy(t) THEN FreeNode ELSE t.node[n + 1]
Nodes(t) == 0..(SizeNode(t) - 1)
Power2(lg) == 2^lg
CeilLog2(x) == CHOOSE lg \in 0..x : Power2(lg) >= x /\ \A l \in 0..(lg - 1) : Power2(l) < x
SetNodeVector(t, size) ==
  LET n == IF size = 0 THEN 0 ELSE Power2(CeilLog2(size))
  IN [t EXCEPT !.node = [k \in 1..n |-> FreeNode], !.lastfree = n]
NewVector(size) == [k \in 1..size |-> Empty]

\* A string is hashed modulo the size, a power of 2, numbers and other objects
\* modulo an odd number.
IsString(k) == k[1] = "obj" /\ k[2] \in StringKeys
MainPosition(t, k) ==
  HashOf[k[2]] % (IF IsString(k) \/ SizeNode(t) = 1 THEN SizeNode(t) ELSE SizeNode(t) - 1)

\* The chain that begins at node n, in order.
RECURSIVE Chain(_, _)
Chain(t, n) == IF n = NoNext THEN <<>> ELSE <<n>> \o Chain(t, Node(t, n).next)
ChainOf(t, k) == Chain(t, MainPosition(t, k))
FirstAt(c, P(_)) == c[CHOOSE n \in DOMAIN c : P(c[n]) /\ \A m \in 1..(n - 1) : ~P(c[m])]

InArray(t, k) == IsInt(k) /\ k[2] \in DOMAIN t.array
\* The node that has the key, if there is one.
Holders(t, k) == {n \in Range(ChainOf(t, k)) : Node(t, n).key = k}
Get(t, k) ==
  IF InArray(t, k) THEN t.array[k[2]]
  ELSE IF Holders(t, k) = {} THEN Empty
  ELSE Node(t, FirstAt(ChainOf(t, k), LAMBDA n : n \in Holders(t, k))).val
Has(t, k) == InArray(t, k) \/ Holders(t, k) # {}
SetAt(t, k, v) ==
  IF InArray(t, k) THEN [t EXCEPT !.array[k[2]] = v]
  ELSE [t EXCEPT !.node[FirstAt(ChainOf(t, k), LAMBDA n : n \in Holders(t, k)) + 1].val = v]

(***************************************************************************)
(* A new key in the hash part.                                             *)
(***************************************************************************)
FreePositions(t) == {n \in 0..(t.lastfree - 1) : Node(t, n).key = Empty}
GetFreePos(t) == [t EXCEPT !.lastfree = Max(FreePositions(t))]
IsFull(t) == FreePositions(t) = {}
PutKey(t, n, k) == [t EXCEPT !.node[n + 1].key = k]
Previous(t, n, k) == FirstAt(ChainOf(t, k), LAMBDA m : Node(t, m).next = n)

MoveNodeUnlinked(t, mp, n) ==                                     \* a mutant
  [t EXCEPT !.node[n + 1] = Node(t, mp),
            !.node[mp + 1].next = NoNext, !.node[mp + 1].val = Empty]
\* The node at mp is out of its main position: it moves to the free node n.
MoveNode(t, mp, n) ==
  [t EXCEPT !.node[Previous(t, mp, Node(t, mp).key) + 1].next = n,
            !.node[n + 1] = Node(t, mp),
            !.node[mp + 1].next = NoNext, !.node[mp + 1].val = Empty]
\* The new key goes to the free node n behind mp.
ChainNode(t, mp, n) ==
  [t EXCEPT !.node[n + 1].next = Node(t, mp).next, !.node[mp + 1].next = n]
Collide(t, k, mp, n) ==
  IF MainPosition(t, Node(t, mp).key) # mp THEN PutKey(MoveNode(t, mp, n), mp, k)
  ELSE PutKey(ChainNode(t, mp, n), n, k)
Taken(t, mp) == Node(t, mp).val # Empty \/ IsDummy(t)
CollideFree(t, k, mp) == Collide(t, k, mp, t.lastfree)
\* Without rehash.
PlaceKey(t, k) ==
  IF ~Taken(t, MainPosition(t, k)) THEN PutKey(t, MainPosition(t, k), k)
  ELSE IF IsFull(t) THEN [t EXCEPT !.lastfree = 0, !.ok = FALSE]
  ELSE CollideFree(GetFreePos(t), k, MainPosition(t, k))
Placed(t, k) == IF Has(t, k) THEN t ELSE PlaceKey(t, k)
Reinsert(t, k) == IF t.ok THEN SetAt(Placed(t, k), k, k) ELSE t

(***************************************************************************)
(* Rehash.                                                                 *)
(***************************************************************************)
ArrayKeys(t) == {n \in DOMAIN t.array : t.array[n] # Empty}
HashKeys(t) == {Node(t, n).key : n \in {n \in Nodes(t) : Node(t, n).val # Empty}}
\* The integer keys k with 2^(lg - 1) < k <= 2^lg.
Slice(ints, lg) == {n \in ints : CeilLog2(n) = lg}
RECURSIVE ComputeSizes(_, _, _, _, _)
Optimal(a, lg, ints, best) ==
  IF a > Power2(lg) \div 2 /\ Slice(ints, lg) # {} THEN [size |-> Power2(lg), na |-> a] ELSE best
ComputeSizes(ints, lg, a, narray, best) ==
  IF Power2(lg) \div 2 >= narray THEN best
  ELSE LET b == a + Cardinality(Slice(ints, lg))
       IN IF b = narray THEN Optimal(b, lg, ints, best)
          ELSE ComputeSizes(ints, lg + 1, b, narray, Optimal(b, lg, ints, best))

\* The elements go to the new vectors in the order of luaH_resize.
Filled(vs) == SelectSeq(vs, LAMBDA v : v # Empty)
Vanishing(t, nasize) == Filled(SubSeq(t.array, nasize + 1, Len(t.array)))
OldKeys(t) == Filled([n \in 1..SizeNode(t) |-> Node(t, SizeNode(t) - n).val])
Resize(t, nasize, nhsize) ==
  FoldLeft(Reinsert,
           [SetNodeVector(t, nhsize) EXCEPT !.array =
              [k \in 1..nasize |-> IF k <= Len(@) THEN @[k] ELSE Empty]],
           Vanishing(t, nasize) \o OldKeys(t))
ResizeArray(t, nasize) == Resize(t, nasize, IF IsDummy(t) THEN 0 ELSE SizeNode(t))
Indices(t, k) == ArrayKeys(t) \cup {i[2] : i \in {i \in HashKeys(t) \cup {k} : IsInt(i) /\ i[2] >= 1}}
Best(ints) == ComputeSizes(ints, 0, 0, Cardinality(ints), [size |-> 0, na |-> 0])
ResizeTo(t, best) ==
  Resize(t, best.size, Cardinality(ArrayKeys(t)) + Cardinality(HashKeys(t)) + 1 - best.na)
Rehash(t, k) == ResizeTo(t, Best(Indices(t, k)))

NewKey(t, k) ==
  IF Taken(t, MainPosition(t, k)) /\ IsFull(t) THEN Placed(Rehash(t, k), k) ELSE PlaceKey(t, k)
SetKey(t, k, v) == SetAt(IF Has(t, k) THEN t ELSE NewKey(t, k), k, v)

(***************************************************************************)
(* The length and the traversal.                                           *)
(***************************************************************************)
RECURSIVE Between(_, _, _), Unbound(_, _, _), Linear(_, _)
Between(t, i, j) ==              \* i is 0 or present, j is not
  IF j - i <= 1 THEN i
  ELSE IF Get(t, IntKey((i + j) \div 2)) = Empty THEN Between(t, i, (i + j) \div 2)
  ELSE Between(t, (i + j) \div 2, j)
UnboundEarly(t, i, j) ==                                          \* a mutant
  IF Get(t, IntKey(j)) = Empty THEN j - 1 ELSE Unbound(t, j, 2 * j)
Linear(t, i) == IF Get(t, IntKey(i)) = Empty THEN i - 1 ELSE Linear(t, i + 1)
Unbound(t, i, j) ==
  CASE Get(t, IntKey(j)) = Empty -> Between(t, i, j)
    [] Get(t, IntKey(j)) # Empty /\ 2 * j > MaxIndex -> Linear(t, 1)
    [] OTHER -> Unbound(t, j, 2 * j)
GetN(t) ==
  LET j == Len(t.array)
  IN IF j > 0 /\ t.array[j] = Empty THEN Between(t, 0, j)
     ELSE IF IsDummy(t) THEN j ELSE Unbound(t, j, j + 1)

FindIndexLive(t, k) ==                                            \* a mutant
  IF k = Empty THEN -1
  ELSE IF InArray(t, k) THEN k[2] - 1
  ELSE IF Holders(t, k) = {} THEN -2
  ELSE Len(t.array) + FirstAt(ChainOf(t, k), LAMBDA n : n \in Holders(t, k))
\* Where the key is, the array before the hash part; a dead key counts.
FindIndex(t, k) ==
  LET c == ChainOf(t, k)
      found == {n \in Range(c) : Node(t, n).key \in {k, Dead(k)}}
  IN IF k = Empty THEN -1
     ELSE IF InArray(t, k) THEN k[2] - 1
     ELSE IF found = {} THEN -2          \* "invalid key to 'next'"
     ELSE Len(t.array) + FirstAt(c, LAMBDA n : n \in found)
At0(t, i) ==
  IF i < Len(t.array) THEN <<IntKey(i + 1), t.array[i + 1]>>
  ELSE <<Node(t, i - Len(t.array)).key, Node(t, i - Len(t.array)).val>>
After(t, i) == {j \in (i + 1)..(Len(t.array) + SizeNode(t) - 1) : At0(t, j)[2] # Empty}
NextKey(t, i) == IF After(t, i) = {} THEN Empty ELSE At0(t, Min(After(t, i)))[1]

(***************************************************************************)
(* What programs and the collector do.                                     *)
(***************************************************************************)
NotTraversing == [on |-> FALSE, key |-> Empty, visited |-> {}, since |-> {}, fault |-> "none"]
TableInit ==
  /\ \E s \in Sizes : tab = SetNodeVector([array |-> NewVector(s[1]), node |-> <<>>,
                                           lastfree |-> 0, ok |-> TRUE], s[2])
  /\ present = {}
  /\ trav = NotTraversing

\* t[k] = k: during a traversal only fields that have a value are assigned.
AssignField(k) ==
  /\ trav.on => k \in present
  /\ tab' = SetKey(tab, k, k)
  /\ present' = present \cup {k}
  /\ UNCHANGED trav
\* t[k] = nil: a key is made for it all the same.
ClearField(k) ==
  /\ trav.on => k \in present
  /\ tab' = SetKey(tab, k, Empty)
  /\ present' = present \ {k}
  /\ trav' = [trav EXCEPT !.since = @ \ {k}]
\* The constructor makes room for the items of its list.
GrowArray(n) ==
  /\ ~trav.on /\ n > Len(tab.array)
  /\ tab' = ResizeArray(tab, n)
  /\ UNCHANGED <<present, trav>>
\* The collector meets a node without a value whose key is not marked.
RemoveEntry(n) ==
  /\ Node(tab, n).val = Empty /\ Node(tab, n).key[1] = "obj"
  /\ tab' = [tab EXCEPT !.node[n + 1].key = Dead(@)]
  /\ UNCHANGED <<present, trav>>

StartTraversal ==
  /\ ~trav.on
  /\ trav' = [NotTraversing EXCEPT !.on = TRUE, !.since = present]
  /\ UNCHANGED <<tab, present>>
Visited(k) ==
  CASE k = Empty ->
         IF trav.since \subseteq trav.visited THEN NotTraversing
         ELSE [trav EXCEPT !.fault = "missed"]
    [] k \in trav.visited -> [trav EXCEPT !.fault = "again"]
    [] k \notin present -> [trav EXCEPT !.fault = "absent"]
    [] OTHER -> [trav EXCEPT !.key = k, !.visited = @ \cup {k}]
Next1Field ==
  /\ trav.on /\ trav.fault = "none"
  /\ trav' = IF FindIndex(tab, trav.key) = -2 THEN [trav EXCEPT !.fault = "invalid"]
             ELSE Visited(NextKey(tab, FindIndex(tab, trav.key)))
  /\ UNCHANGED <<tab, present>>

TableNext ==
  \/ \E k \in TableKeys : AssignField(k) \/ ClearField(k)
  \/ \E n \in {s[1] : s \in Sizes} : GrowArray(n)
  \/ \E n \in Nodes(tab) : RemoveEntry(n)
  \/ StartTraversal
  \/ Next1Field

(***************************************************************************)
(* What must hold.                                                         *)
(***************************************************************************)

\* A table answers for every key the value assigned last, and rehash always has
\* room for the keys it reinserts: whatever nodes collide, move out of a place
\* that is not their main one, die, or are rehashed into other sizes.
TableIsMap ==
  /\ tab.ok
  /\ \A k \in TableKeys : Get(tab, k) = IF k \in present THEN k ELSE Empty

\* A traversal by next, during which fields may be cleared and assigned and the
\* collector runs, finds its place again from every key, visits no field twice
\* and none without a value, and every field that had one all the time.
TraversalVisitsAll == trav.fault = "none"

\* The length is 0 or a present index with an absent one behind it, wherever
\* array part and hash part meet.
LengthIsBoundary ==
  LET n == GetN(tab) IN (n = 0 \/ IntKey(n) \in present) /\ IntKey(n + 1) \notin present
=============================================================================
