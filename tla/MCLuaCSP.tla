------------------------------ MODULE MCLuaCSP ------------------------------
(***************************************************************************)
(* Finite values for the constants of LuaCSP.                              *)
(***************************************************************************)
EXTENDS LuaCSP, TLC

Symmetry == Permutations(Proc \ {Main}) \cup Permutations(Chan) \cup Permutations(Val)

NoAlt == {}
(* One or two cases, no channel twice. *)
Channels == {ChanGuard(c) : c \in Chan}
Guards(times) == Channels \cup {TimeGuard(t) : t \in times} \cup {NilGuard}
SmallAlts ==
  {s \in UNION {[1 .. n -> Guards({1})] : n \in 0 .. 2} :
     \A i, j \in DOMAIN s : s[i] = s[j] => i = j}
(* A channel or a time. *)
TinyAlts == {<<ChanGuard(c), TimeGuard(1)>> : c \in Chan}
============================================================================
