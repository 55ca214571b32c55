---------------------------- MODULE LuaCSP_proofs ----------------------------
(***************************************************************************)
(* The type invariant of LuaCSP and the consistency of the stack of        *)
(* evaluation steps, for every number of processes, channels and values,   *)
(* every size of the stack and every program.  First what the helpers of   *)
(* LuaCSP return: the selection of cases of ALT, the stack, and the        *)
(* processes below a process.                                              *)
(***************************************************************************)
EXTENDS LuaCSP, TLAPS, SequenceTheorems, FunctionTheorems, FiniteSetTheorems

(* FirstOf finds the least element of a set of indices (op_alt.cpp:314-321). *)
LEMMA FirstOfIsLeast ==
  ASSUME NEW S \in SUBSET Nat, S # {}
  PROVE  FirstOf(S) \in S /\ \A j \in S : FirstOf(S) <= j
<1> DEFINE Less == {ss \in Nat \X Nat : ss[1] < ss[2]}
<1>1. IsWellFoundedOn(Less, Nat)
  BY NatLessThanWellFounded, Zenon DEF OpToRel
<1>2. PICK x \in S : \A y \in S : <<y, x>> \notin Less
  BY <1>1, WFMin
<1>3. \A y \in S : x <= y
  <2> SUFFICES ASSUME NEW y \in S PROVE x <= y
    OBVIOUS
  <2>1. x \in Nat /\ y \in Nat
    OBVIOUS
  <2>2. y < x => <<y, x>> \in Less
    BY <2>1
  <2> QED BY <1>2, <2>1, <2>2
<1> QED
  BY <1>3 DEF FirstOf

(* Of the cases of an ALT that have expired there is an earliest one. *)
LEMMA EarliestIsExpired ==
  ASSUME NEW o \in Operation, Expired(o) # {}
  PROVE  Earliest(o) \in Expired(o)
<1> DEFINE T == {o.cases[i].time + 1 : i \in Expired(o)}
           E == {i \in Expired(o) :
                   \A j \in Expired(o) : o.cases[i].time <= o.cases[j].time}
<1>0. /\ o.cases \in Seq(AltCase) /\ DOMAIN o.cases = 1 .. Len(o.cases)
      /\ Len(o.cases) \in Nat
  BY LenProperties DEF Operation
<1>1. Expired(o) \subseteq Nat
  BY <1>0 DEF Expired
<1>2. \A i \in Expired(o) : o.cases[i].time \in {-1} \cup Nat
  <2> TAKE i \in Expired(o)
  <2>1. o.cases[i] \in AltCase
    BY <1>0, ElementOfSeq DEF Expired
  <2> QED BY <2>1 DEF AltCase
<1>3. T \in SUBSET Nat /\ T # {}
  BY <1>2
<1>4. FirstOf(T) \in T /\ \A t \in T : FirstOf(T) <= t
  BY <1>3, FirstOfIsLeast
<1>5. PICK i \in Expired(o) : FirstOf(T) = o.cases[i].time + 1
  BY <1>4
<1>6. i \in E
  <2> SUFFICES ASSUME NEW j \in Expired(o) PROVE o.cases[i].time <= o.cases[j].time
    OBVIOUS
  <2>1. o.cases[j].time + 1 \in T
    OBVIOUS
  <2>2. FirstOf(T) <= o.cases[j].time + 1
    BY <2>1, <1>4
  <2>3. /\ o.cases[i].time \in {-1} \cup Nat /\ o.cases[j].time \in {-1} \cup Nat
        /\ o.cases[i].time + 1 <= o.cases[j].time + 1
    BY <2>2, <1>5, <1>2
  <2> QED BY <2>3
<1>7. FirstOf(E) \in E
  BY <1>1, <1>6, FirstOfIsLeast
<1> QED
  BY <1>7 DEF Earliest

----------------------------------------------------------------------------
(***************************************************************************)
(* The flags the processes cache agree with the stack, and no process is   *)
(* on it twice.                                                            *)
(***************************************************************************)
StackFlags(stk, flags) ==
  /\ \A p \in Proc : flags[p] <=> p \in Range(stk)
  /\ Injective(stk)

(* PopEvalStep keeps the flags in step with the stack (host.cpp:152-164). *)
LEMMA PopKeepsFlags ==
  ASSUME stack \in Seq(Proc), stack # <<>>, isOnStack \in [Proc -> BOOLEAN],
         StackFlags(stack, isOnStack)
  PROVE  /\ Last(stack) \in Range(stack)
         /\ Last(stack) \in Proc
         /\ Popped \in Seq(Proc)
         /\ PoppedFlags \in [Proc -> BOOLEAN]
         /\ StackFlags(Popped, PoppedFlags)
         /\ Range(Popped) = Range(stack) \ {Last(stack)}
<1> DEFINE n == Len(stack)
<1>1. /\ n \in Nat \ {0} /\ DOMAIN stack = 1 .. n
      /\ \A i \in 1 .. n : stack[i] \in Proc
  BY EmptySeq, LenProperties, ElementOfSeq
<1>2. /\ Popped \in Seq(Proc) /\ Len(Popped) = n - 1
      /\ DOMAIN Popped = 1 .. n - 1
      /\ \A i \in 1 .. n - 1 : Popped[i] = stack[i]
  <2>1. \A i \in 1 .. n - 1 : stack[i] \in Proc
    BY <1>1
  <2>2. /\ SubSeq(stack, 1, n - 1) \in Seq(Proc)
        /\ Len(SubSeq(stack, 1, n - 1)) = IF 1 <= n - 1 THEN n - 1 - 1 + 1 ELSE 0
        /\ \A i \in 1 .. n - 1 - 1 + 1 : SubSeq(stack, 1, n - 1)[i] = stack[1 + i - 1]
    BY <2>1, <1>1, SubSeqProperties
  <2> QED BY <2>2, <1>1, LenProperties DEF Popped, Front
<1>3. /\ Last(stack) \in Range(stack) /\ Last(stack) \in Proc /\ Last(stack) = stack[n]
  BY <1>1 DEF Last, Range
<1>4. \A i, j \in 1 .. n : stack[i] = stack[j] => i = j
  BY <1>1 DEF StackFlags, Injective
<1>5. Injective(Popped)
  BY <1>1, <1>2, <1>4 DEF Injective
<1>6. Range(Popped) = Range(stack) \ {Last(stack)}
  <2>1. Range(Popped) = {stack[i] : i \in 1 .. n - 1}
    BY <1>2 DEF Range
  <2>2. Range(stack) = {stack[i] : i \in 1 .. n}
    BY <1>1 DEF Range
  <2>3. \A i \in 1 .. n : i \in 1 .. n - 1 <=> stack[i] # stack[n]
    BY <1>1, <1>4
  <2> QED BY <2>1, <2>2, <2>3, <1>1, <1>3
<1>7. StackFlags(Popped, PoppedFlags)
  BY <1>3, <1>5, <1>6 DEF StackFlags, PoppedFlags
<1> QED
  BY <1>2, <1>3, <1>6, <1>7 DEF PoppedFlags

(* PushEvalStep keeps the flags in step with the stack (host.cpp:141-150). *)
LEMMA PushKeepsFlags ==
  ASSUME NEW stk \in Seq(Proc), NEW flags \in [Proc -> BOOLEAN],
         StackFlags(stk, flags), NEW ps \in Seq(Proc),
         NEW asserted \in Failures, PushEvalSteps(asserted, stk, flags, ps)
  PROVE  /\ stack' \in Seq(Proc) /\ isOnStack' \in [Proc -> BOOLEAN]
         /\ failed' \in Failures
         /\ StackFlags(stack', isOnStack')
         /\ Range(stack') \subseteq Range(stk) \cup Range(ps)
<1> DEFINE error == IF asserted = "none" THEN PushError(stk, flags, ps) ELSE asserted
<1>1. failed' = error /\ error \in Failures
  BY DEF PushEvalSteps, PushError, Failures
<1>2. CASE error # "none"
  BY <1>1, <1>2 DEF PushEvalSteps
<1>3. CASE error = "none"
  <2>1. PushError(stk, flags, ps) = "none"
    BY <1>3
  <2>2. /\ \A i \in DOMAIN ps : ~flags[ps[i]]
        /\ \A i, j \in DOMAIN ps : ps[i] = ps[j] => i = j
    BY <2>1 DEF PushError
  <2>3. stack' = stk \o ps /\ isOnStack' = [p \in Proc |-> flags[p] \/ p \in Range(ps)]
    BY <1>3 DEF PushEvalSteps
  <2>4. Range(stack') = Range(stk) \cup Range(ps)
    BY <2>3, RangeConcatenation
  <2>5. \A p \in Proc : isOnStack'[p] <=> p \in Range(stack')
    BY <2>3, <2>4 DEF StackFlags
  <2>6. Injective(stack')
    <3> DEFINE m == Len(stk)
               n == Len(ps)
    <3>1. /\ m \in Nat /\ n \in Nat /\ DOMAIN stk = 1 .. m /\ DOMAIN ps = 1 .. n
          /\ stack' \in Seq(Proc)
          /\ DOMAIN stack' = 1 .. m + n
          /\ \A i \in 1 .. m + n : stack'[i] = IF i <= m THEN stk[i] ELSE ps[i - m]
      BY <2>3, ConcatProperties, LenProperties
    <3>2. \A i, j \in 1 .. m : stk[i] = stk[j] => i = j
      BY <3>1 DEF StackFlags, Injective
    <3>3. \A i \in 1 .. m, j \in 1 .. n : stk[i] # ps[j]
      <4> SUFFICES ASSUME NEW i \in 1 .. m, NEW j \in 1 .. n PROVE stk[i] # ps[j]
        OBVIOUS
      <4>1. stk[i] \in Range(stk) /\ stk[i] \in Proc
        BY <3>1, ElementOfSeq DEF Range
      <4>2. ~flags[ps[j]]
        BY <2>2, <3>1
      <4> QED BY <4>1, <4>2 DEF StackFlags
    <3> SUFFICES ASSUME NEW i \in 1 .. m + n, NEW j \in 1 .. m + n, stack'[i] = stack'[j]
                 PROVE  i = j
      BY <3>1 DEF Injective
    <3>4. CASE i <= m /\ j <= m
      <4>1. i \in 1 .. m /\ j \in 1 .. m /\ stk[i] = stk[j]
        BY <3>4, <3>1
      <4> QED BY <4>1, <3>2
    <3>5. CASE i > m /\ j > m
      <4>1. i - m \in 1 .. n /\ j - m \in 1 .. n /\ ps[i - m] = ps[j - m]
        BY <3>5, <3>1
      <4>2. i - m = j - m
        BY <4>1, <2>2, <3>1
      <4> QED BY <4>2, <3>1
    <3>6. CASE i <= m /\ j > m
      <4>1. i \in 1 .. m /\ j - m \in 1 .. n /\ stk[i] = ps[j - m]
        BY <3>6, <3>1
      <4> QED BY <4>1, <3>3
    <3>7. CASE i > m /\ j <= m
      <4>1. j \in 1 .. m /\ i - m \in 1 .. n /\ stk[j] = ps[i - m]
        BY <3>7, <3>1
      <4> QED BY <4>1, <3>3
    <3> QED BY <3>1, <3>4, <3>5, <3>6, <3>7
  <2> QED
    BY <1>1, <2>3, <2>4, <2>5, <2>6, ConcatProperties DEF StackFlags
<1> QED
  BY <1>2, <1>3

(* What was pushed last is on top of the stack. *)
LEMMA LastPushed ==
  ASSUME NEW stk \in Seq(Proc), NEW ps \in Seq(Proc), ps # <<>>
  PROVE  stk \o ps # <<>> /\ Last(stk \o ps) = ps[Len(ps)]
<1>1. Len(stk) \in Nat /\ Len(ps) \in Nat \ {0}
  BY LenProperties, EmptySeq
<1>2. /\ Len(stk \o ps) = Len(stk) + Len(ps)
      /\ (stk \o ps)[Len(stk) + Len(ps)] = ps[Len(ps)]
  BY <1>1, ConcatProperties
<1>3. stk \o ps # <<>>
  BY <1>1, <1>2, EmptySeq
<1> QED
  BY <1>2, <1>3 DEF Last

(***************************************************************************)
(* Removing processes from a sequence: each entry of the result is one     *)
(* entry that stays, at the place its writePos tells.                      *)
(***************************************************************************)
LEMMA WithoutEntries ==
  ASSUME NEW stk \in Seq(Proc), NEW S
  PROVE  /\ Without(stk, S) \in Seq(Proc) /\ Len(Without(stk, S)) \in Nat
         /\ DOMAIN Without(stk, S) = 1 .. Len(Without(stk, S))
         /\ IsFiniteSet(Kept(stk, S)) /\ Cardinality(Kept(stk, S)) = Len(Without(stk, S))
         /\ Kept(stk, S) = {i \in DOMAIN stk : stk[i] \notin S}
         /\ \A j \in DOMAIN Without(stk, S) : \E i \in Kept(stk, S) :
              Without(stk, S)[j] = stk[i] /\ WritePos(stk, S, i) = j
         /\ \A i \in Kept(stk, S) :
              /\ WritePos(stk, S, i) \in DOMAIN Without(stk, S)
              /\ Without(stk, S)[WritePos(stk, S, i)] = stk[i]
<1> DEFINE n == Len(stk)
           K == Kept(stk, S)
           c == Cardinality(K)
           upTo(i) == {k \in K : k <= i}
           rank == [i \in K |-> WritePos(stk, S, i)]
<1>1. /\ n \in Nat /\ DOMAIN stk = 1 .. n /\ \A i \in 1 .. n : stk[i] \in Proc
  BY LenProperties, ElementOfSeq
<1>2. K \in SUBSET (1 .. n) /\ K = {i \in 1 .. n : stk[i] \notin S}
  BY <1>1 DEF Kept
<1>3. IsFiniteSet(K) /\ c \in Nat /\ IsFiniteSet(1 .. c) /\ Cardinality(1 .. c) = c
  <2>1. IsFiniteSet(1 .. n)
    BY <1>1, FS_Interval
  <2>2. IsFiniteSet(K)
    BY <2>1, <1>2, FS_Subset
  <2>3. c \in Nat
    BY <2>2, FS_CardinalityType
  <2> HIDE DEF K, c
  <2>4. IsFiniteSet(1 .. c) /\ Cardinality(1 .. c) = IF 1 > c THEN 0 ELSE c - 1 + 1
    BY <2>3, FS_Interval
  <2> QED BY <2>2, <2>3, <2>4
<1>4. \A i \in K : /\ rank[i] = Cardinality(upTo(i)) /\ upTo(i) \in SUBSET K
                   /\ IsFiniteSet(upTo(i)) /\ rank[i] \in 1 .. c
  <2> SUFFICES ASSUME NEW i \in K
               PROVE  /\ rank[i] = Cardinality(upTo(i)) /\ upTo(i) \in SUBSET K
                      /\ IsFiniteSet(upTo(i)) /\ rank[i] \in 1 .. c
    OBVIOUS
  <2>1. rank[i] = Cardinality(upTo(i))
    BY DEF WritePos
  <2>2. upTo(i) \in SUBSET K /\ i \in upTo(i)
    BY <1>1, <1>2
  <2> HIDE DEF upTo, rank, K, c
  <2>3. IsFiniteSet(upTo(i)) /\ Cardinality(upTo(i)) <= Cardinality(K)
    BY <2>2, <1>3, FS_Subset
  <2>4. Cardinality(upTo(i)) \in Nat /\ Cardinality(upTo(i)) # 0
    BY <2>2, <2>3, FS_CardinalityType, FS_EmptySet
  <2> QED BY <2>1, <2>2, <2>3, <2>4, <1>3 DEF c
<1>5. \A i, j \in K : rank[i] = rank[j] => i = j
  <2>1. ASSUME NEW i \in K, NEW j \in K, rank[i] = rank[j], i < j PROVE FALSE
    <3>1. upTo(i) \in SUBSET upTo(j) /\ j \in upTo(j) /\ j \notin upTo(i)
      BY <2>1, <1>1, <1>2
    <3>2. Cardinality(upTo(i)) = Cardinality(upTo(j)) /\ IsFiniteSet(upTo(j))
      BY <2>1, <1>4
    <3> HIDE DEF upTo
    <3>3. upTo(i) = upTo(j)
      BY <3>1, <3>2, FS_Subset
    <3> QED BY <3>1, <3>3
  <2> QED BY <2>1, <1>1, <1>2
<1>6. \A j \in 1 .. c : \E i \in K : rank[i] = j
  <2>1. rank \in [K -> 1 .. c]
    BY <1>4
  <2> HIDE DEF rank, K, c
  <2>2. rank \in Injection(K, 1 .. c)
    BY <2>1, <1>5, Fun_IsInj
  <2>3. rank \in Surjection(K, 1 .. c)
    BY <2>2, <1>3, FS_Injection DEF c
  <2> QED BY <2>3, Fun_SurjectionProperties
<1> DEFINE at(j) == CHOOSE i \in K : WritePos(stk, S, i) = j
<1>7. \A j \in 1 .. c : at(j) \in K /\ rank[at(j)] = j
  BY <1>6
<1>8. \A i \in K : at(rank[i]) = i
  BY <1>4, <1>5, <1>7
<1>9. /\ DOMAIN Without(stk, S) = 1 .. c
      /\ \A j \in 1 .. c : Without(stk, S)[j] = stk[at(j)]
  BY DEF Without
<1> HIDE DEF rank, at, c, K
<1>10. Without(stk, S) \in Seq(Proc)
  <2>1. Without(stk, S) \in [1 .. c -> Proc]
    BY <1>1, <1>2, <1>7, <1>9 DEF Without, c, K, at
  <2> QED BY <2>1, <1>3, SeqDef
<1>11. Len(Without(stk, S)) = c /\ Cardinality(Kept(stk, S)) = c
  BY <1>3, <1>9, <1>10, LenProperties DEF c, K
<1>12. \A j \in 1 .. c : at(j) \in Kept(stk, S) /\ WritePos(stk, S, at(j)) = j
                         /\ Without(stk, S)[j] = stk[at(j)]
  BY <1>7, <1>9 DEF K, rank
<1>13. \A i \in Kept(stk, S) : /\ WritePos(stk, S, i) \in 1 .. c
                               /\ Without(stk, S)[WritePos(stk, S, i)] = stk[i]
  <2>1. \A i \in K : rank[i] \in 1 .. c /\ at(rank[i]) = i /\ rank[i] = WritePos(stk, S, i)
    BY <1>4, <1>8 DEF rank
  <2> QED
    BY <2>1, <1>9 DEF K
<1> QED
  BY <1>2, <1>3, <1>9, <1>10, <1>11, <1>12, <1>13 DEF Kept, K

(***************************************************************************)
(* Removing processes from the stack leaves the others, each once          *)
(* (host.cpp:166-184).                                                     *)
(***************************************************************************)
LEMMA WithoutRemoves ==
  ASSUME NEW stk \in Seq(Proc), Injective(stk), NEW S
  PROVE  /\ Without(stk, S) \in Seq(Proc)
         /\ Injective(Without(stk, S))
         /\ Range(Without(stk, S)) = Range(stk) \ S
<1> DEFINE w == Without(stk, S)
<1>1. \A j \in DOMAIN w : \E i \in Kept(stk, S) :
        w[j] = stk[i] /\ WritePos(stk, S, i) = j
  BY WithoutEntries
<1>2. \A i \in Kept(stk, S) : \E j \in DOMAIN w : w[j] = stk[i]
  BY WithoutEntries
<1>3. Kept(stk, S) = {i \in DOMAIN stk : stk[i] \notin S}
  BY DEF Kept
<1> HIDE DEF w
<1>4. Injective(w)
  <2> SUFFICES ASSUME NEW i \in DOMAIN w, NEW j \in DOMAIN w, w[i] = w[j] PROVE i = j
    BY DEF Injective
  <2>1. PICK k \in Kept(stk, S) : w[i] = stk[k] /\ WritePos(stk, S, k) = i
    BY <1>1
  <2>2. PICK l \in Kept(stk, S) : w[j] = stk[l] /\ WritePos(stk, S, l) = j
    BY <1>1
  <2> QED
    BY <1>3, <2>1, <2>2 DEF Injective
<1>5. Range(w) = Range(stk) \ S
  <2>1. \A j \in DOMAIN w : w[j] \in Range(stk) \ S
    BY <1>1, <1>3 DEF Range
  <2>2. \A x \in Range(stk) \ S : \E j \in DOMAIN w : w[j] = x
    BY <1>2, <1>3 DEF Range
  <2> QED
    BY <2>1, <2>2 DEF Range
<1> QED
  BY <1>4, <1>5, WithoutEntries DEF w

(* What stays of the first m entries comes first, and keeps their number. *)
LEMMA WithoutKeepsOrder ==
  ASSUME NEW stk \in Seq(Proc), NEW S, NEW m \in 0 .. Len(stk)
  PROVE  /\ WritePos(stk, S, m) \in 0 .. Len(Without(stk, S))
         /\ \A i \in DOMAIN Without(stk, S) : \E j \in DOMAIN stk :
              /\ Without(stk, S)[i] = stk[j] /\ stk[j] \notin S
              /\ i <= WritePos(stk, S, m) <=> j <= m
<1> DEFINE w       == Without(stk, S)
           K       == Kept(stk, S)
           upTo(i) == {k \in K : k <= i}
<1>1. /\ IsFiniteSet(K) /\ Cardinality(K) = Len(w) /\ Len(w) \in Nat
      /\ K = {i \in DOMAIN stk : stk[i] \notin S} /\ DOMAIN stk = 1 .. Len(stk)
      /\ Len(stk) \in Nat
      /\ \A j \in DOMAIN w : \E i \in K : w[j] = stk[i] /\ WritePos(stk, S, i) = j
  BY WithoutEntries, LenProperties
<1>2. \A i : WritePos(stk, S, i) = Cardinality(upTo(i)) /\ upTo(i) \in SUBSET K
  BY DEF WritePos
<1>3. \A i, j \in 0 .. Len(stk) : i <= j => upTo(i) \in SUBSET upTo(j)
  BY <1>1
<1>4. \A i \in 0 .. Len(stk) : \A j \in K : i < j => j \in upTo(j) /\ j \notin upTo(i)
  BY <1>1
<1> HIDE DEF w, K, upTo
<1>5. \A i : IsFiniteSet(upTo(i)) /\ Cardinality(upTo(i)) \in 0 .. Len(w)
  <2> SUFFICES ASSUME NEW i PROVE IsFiniteSet(upTo(i)) /\ Cardinality(upTo(i)) \in 0 .. Len(w)
    OBVIOUS
  <2>1. IsFiniteSet(upTo(i)) /\ Cardinality(upTo(i)) <= Cardinality(K)
    BY <1>1, <1>2, FS_Subset
  <2>2. Cardinality(upTo(i)) \in Nat
    BY <2>1, FS_CardinalityType
  <2> QED
    BY <1>1, <2>1, <2>2
<1>6. ASSUME NEW i \in DOMAIN w
      PROVE  \E j \in DOMAIN stk : /\ w[i] = stk[j] /\ stk[j] \notin S
                                   /\ i <= WritePos(stk, S, m) <=> j <= m
  <2>1. PICK j \in K : w[i] = stk[j] /\ WritePos(stk, S, j) = i
    BY <1>1
  <2>2. j \in DOMAIN stk /\ stk[j] \notin S /\ j \in 0 .. Len(stk) /\ j \in Int /\ m \in Int
    BY <1>1
  <2>3. j <= m => Cardinality(upTo(j)) <= Cardinality(upTo(m))
    BY <1>3, <1>5, <2>2, FS_Subset
  <2>4. m < j => Cardinality(upTo(m)) < Cardinality(upTo(j))
    <3> SUFFICES ASSUME m < j PROVE Cardinality(upTo(m)) < Cardinality(upTo(j))
      OBVIOUS
    <3>1. upTo(m) \in SUBSET upTo(j) /\ upTo(m) # upTo(j)
      BY <1>3, <1>4, <2>2
    <3>2. /\ Cardinality(upTo(m)) <= Cardinality(upTo(j))
          /\ Cardinality(upTo(m)) # Cardinality(upTo(j))
      BY <1>5, <3>1, FS_Subset
    <3>3. Cardinality(upTo(m)) \in Int /\ Cardinality(upTo(j)) \in Int
      BY <1>5
    <3> QED
      BY <3>2, <3>3
  <2>5. /\ i = Cardinality(upTo(j)) /\ WritePos(stk, S, m) = Cardinality(upTo(m))
        /\ Cardinality(upTo(j)) \in Int /\ Cardinality(upTo(m)) \in Int
    BY <1>2, <1>5, <2>1
  <2> QED
    BY <2>1, <2>2, <2>3, <2>4, <2>5
<1> QED
  BY <1>2, <1>5, <1>6 DEF w

(* What stays keeps its order, and nothing else comes in between. *)
LEMMA WithoutInOrder ==
  ASSUME NEW stk \in Seq(Proc), NEW S
  PROVE  /\ \A i, j \in Kept(stk, S) : i < j => WritePos(stk, S, i) < WritePos(stk, S, j)
         /\ \A i, j \in DOMAIN Without(stk, S) : i < j =>
              \E k, l \in DOMAIN stk :
                /\ k < l /\ stk[k] \notin S /\ stk[l] \notin S
                /\ Without(stk, S)[i] = stk[k] /\ Without(stk, S)[j] = stk[l]
<1> DEFINE w       == Without(stk, S)
           K       == Kept(stk, S)
           upTo(i) == {k \in K : k <= i}
<1>1. /\ IsFiniteSet(K) /\ K = {i \in DOMAIN stk : stk[i] \notin S}
      /\ DOMAIN stk = 1 .. Len(stk) /\ Len(stk) \in Nat
      /\ \A j \in DOMAIN w : \E i \in K : w[j] = stk[i] /\ WritePos(stk, S, i) = j
  BY WithoutEntries, LenProperties
<1>2. \A i : WritePos(stk, S, i) = Cardinality(upTo(i)) /\ upTo(i) \in SUBSET K
  BY DEF WritePos
<1>3. \A i, j \in K : i < j => upTo(i) \in SUBSET upTo(j) /\ j \in upTo(j) /\ j \notin upTo(i)
  BY <1>1
<1> HIDE DEF w, K, upTo
<1>4. \A i : IsFiniteSet(upTo(i)) /\ Cardinality(upTo(i)) \in Nat
  BY <1>1, <1>2, FS_Subset, FS_CardinalityType
<1>5. \A i, j \in K : i < j => WritePos(stk, S, i) < WritePos(stk, S, j)
  <2> SUFFICES ASSUME NEW i \in K, NEW j \in K, i < j
               PROVE  Cardinality(upTo(i)) < Cardinality(upTo(j))
    BY <1>2
  <2>1. Cardinality(upTo(i)) <= Cardinality(upTo(j)) /\ Cardinality(upTo(i)) # Cardinality(upTo(j))
    BY <1>3, <1>4, FS_Subset
  <2> QED
    BY <1>4, <2>1
<1>6. ASSUME NEW i \in DOMAIN w, NEW j \in DOMAIN w, i < j
      PROVE  \E k, l \in DOMAIN stk : /\ k < l /\ stk[k] \notin S /\ stk[l] \notin S
                                      /\ w[i] = stk[k] /\ w[j] = stk[l]
  <2>1. PICK k \in K : w[i] = stk[k] /\ WritePos(stk, S, k) = i
    BY <1>1
  <2>2. PICK l \in K : w[j] = stk[l] /\ WritePos(stk, S, l) = j
    BY <1>1
  <2>3. i \in Nat /\ j \in Nat
    BY <1>2, <1>4, <2>1, <2>2
  <2>4. k < l
    <3>1. k # l /\ ~(l < k)
      BY <1>5, <1>6, <2>1, <2>2, <2>3
    <3> QED
      BY <1>1, <3>1
  <2> QED
    BY <1>1, <2>1, <2>2, <2>4
<1> QED
  BY <1>5, <1>6 DEF w, K

(* The processes below p contain its closures, and theirs (process.cpp:139-149). *)
LEMMA DescendantsClosed ==
  ASSUME NEW p \in Proc, \A q \in Proc : Children(q) \subseteq Proc
  PROVE  /\ Descendants(p) \subseteq Proc
         /\ Children(p) \subseteq Descendants(p)
         /\ \A q \in Descendants(p) : Children(q) \subseteq Descendants(p)
<1>1. Children(p) \subseteq Descendants(p)
  BY DEF Descendants
<1>2. ASSUME NEW q \in Descendants(p), NEW k \in Children(q) PROVE k \in Descendants(p)
  <2>1. q \in Proc /\ k \in Proc
    BY <1>2 DEF Descendants
  <2>2. ASSUME NEW S \in SUBSET Proc, Children(p) \subseteq S, Closed(S) PROVE k \in S
    <3>1. q \in S
      BY <1>2, <2>2 DEF Descendants
    <3> QED BY <3>1, <1>2, <2>2 DEF Closed
  <2> QED BY <2>1, <2>2 DEF Descendants
<1> QED
  BY <1>1, <1>2 DEF Descendants

(* A process below p that is a closure of q alone has q above it, below p. *)
LEMMA DescendantsParent ==
  ASSUME NEW p \in Proc, NEW q \in Proc, NEW k \in Children(q),
         \A r \in Proc : Children(r) \subseteq Proc,
         \A r \in Proc : k \in Children(r) => r = q,
         k \in Descendants(p)
  PROVE  q = p \/ q \in Descendants(p)
<1> SUFFICES ASSUME q # p, q \notin Descendants(p) PROVE FALSE
  OBVIOUS
<1> DEFINE S == Descendants(p) \ {k}
<1>1. S \in SUBSET Proc /\ Children(p) \subseteq S
  BY DescendantsClosed
<1>2. Closed(S)
  BY DescendantsClosed, <1>1 DEF Closed
<1>3. k \in S
  BY <1>1, <1>2 DEF Descendants
<1> QED
  BY <1>3

(* The processes below p are not the main process, which is nobody's closure. *)
LEMMA DescendantsNotMain ==
  ASSUME NEW p \in Proc, \A q \in Proc : Children(q) \subseteq Proc \ {Main}
  PROVE  Main \notin Descendants(p)
<1> DEFINE S == Proc \ {Main}
<1>1. S \in SUBSET Proc /\ Children(p) \subseteq S /\ Closed(S)
  BY DEF Closed
<1> QED
  BY <1>1 DEF Descendants

(* The closures OpPar::Work visits (op_par.cpp:90-95). *)
LEMMA LastToFirstType ==
  ASSUME NEW p \in Proc, op[p].closures \in Seq(Proc),
         op[p].closureToRun \in 0 .. Len(op[p].closures)
  PROVE  LastToFirst(p) \in Seq(Proc)
<1> DEFINE s == op[p].closures
           n == op[p].closureToRun
           t == SubSeq(s, 1, n)
<1>1. Len(s) \in Nat /\ n \in Nat /\ n <= Len(s)
  BY LenProperties
<1>2. \A i \in 1 .. n : s[i] \in Proc
  BY <1>1, ElementOfSeq
<1>3. t \in Seq(Proc)
  BY <1>1, <1>2, SubSeqProperties
<1> HIDE DEF t
<1>4. Len(t) \in Nat /\ \A i \in 1 .. Len(t) : t[i] \in Proc
  BY <1>3, LenProperties, ElementOfSeq
<1>5. Reverse(t) \in [1 .. Len(t) -> Proc]
  BY <1>4 DEF Reverse
<1>6. Reverse(t) \in Seq(Proc)
  BY <1>4, <1>5, SeqDef
<1> QED
  BY <1>6 DEF LastToFirst, t

----------------------------------------------------------------------------
(***************************************************************************)
(* The inductive invariant.  A step is made on what the stack, the         *)
(* channels, the closures and the parents point to: the parts say what can *)
(* be found there.                                                         *)
(***************************************************************************)
(* A process that is in an operation has yielded. *)
InOperation == \A p \in Proc : op[p].kind # "none" => thread[p] = "yield"

(* The process whose Lua code executes. *)
Runs == running # NoProc => thread[running] = "running"

(* The parent of a process is in the operation the process is a closure of. *)
Parents == \A k \in Proc : parent[k] # NoProc => k \in Children(parent[k])

(* The closures exist, and each belongs to one operation. *)
Tree ==
  /\ thread[Main] # "free"
  /\ \A p \in Proc : \A k \in Children(p) : thread[k] # "free" /\ k # Main
  /\ \A p, q \in Proc :
       \A i \in DOMAIN op[p].closures, j \in DOMAIN op[q].closures :
         op[p].closures[i] = op[q].closures[j] => p = q /\ i = j

(* An ALT that has not started its closure. *)
Fresh(o) == o.kind = "ALT" /\ (o.caseTriggered = 0 \/ o.argumentsMoved)

(* The operations that start their closures one after the other. *)
Spawning == ParKinds \cup {"MAIN"}

(* What the operations have as closures, and which of them have not started. *)
Closures ==
  \A p \in Proc :
    /\ op[p].closureToRun <= Len(op[p].closures)
    /\ op[p].kind \notin Spawning \cup {"ALT"} => op[p].closures = <<>>
    /\ op[p].kind = "ALT" => Len(op[p].closures) = 1
    /\ op[p].kind \in Spawning =>
         \A i \in DOMAIN op[p].closures :
           i > op[p].closureToRun => thread[op[p].closures[i]] = "ready"
    /\ Fresh(op[p]) => thread[Closure(p)] = "null"

(* The operations IN, RANGE, OUT and the C++ output have a channel. *)
OnChannel ==
  \A p \in Proc : op[p].kind \in ChannelKinds \cup {"CPPOUT"} => op[p].channel \in Chan

(***************************************************************************)
(* What holds something out to a reader: an OUT that has not been served,  *)
(* or a C++ output (of the programs that have any) with something to send. *)
(***************************************************************************)
OffersOn(p, c) ==
  /\ op[p].channel = c
  /\ \/ op[p].kind = "OUT" /\ ~op[p].argumentsMoved
     \/ op[p].kind = "CPPOUT" /\ op[p].arguments # NoArgs /\ ~op[p].finished

(* What a channel points to waits on it. *)
Attached ==
  \A c \in Chan, p \in Proc : /\ attachIn[c] = p => WaitsIn(p, c)
                              /\ attachOut[c] = p <=> OffersOn(p, c)

IInv ==
  /\ TypeOK
  /\ StackConsistent
  /\ InOperation /\ Runs /\ Parents /\ Tree /\ Closures
  /\ OnChannel /\ Attached

----------------------------------------------------------------------------
(***************************************************************************)
(* Steps of one shape preserve the invariant alike: steps that change      *)
(* fields of operations, calls that begin an operation, the end of a       *)
(* coroutine, the end of an operation, and the start of a closure.         *)
(***************************************************************************)
LEMMA TypeFacts ==
  ASSUME TypeOK
  PROVE  /\ NoOp \in Operation /\ NoResult \in Result
         /\ NoOp.kind = "none" /\ NoOp.closures = <<>> /\ NoOp.closureToRun = 0
         /\ \A p \in Proc :
              /\ op[p] \in Operation
              /\ op[p].closures \in Seq(Proc)
              /\ DOMAIN op[p].closures = 1 .. Len(op[p].closures)
              /\ Len(op[p].closures) \in Nat
              /\ Children(p) \subseteq Proc
              /\ \A i \in DOMAIN op[p].closures : op[p].closures[i] \in Children(p)
<1>1. NoOp \in Operation /\ NoResult \in Result
  BY EmptySeq DEF NoOp, Operation, OpKinds, NoResult, Result
<1>2. ASSUME NEW p \in Proc
      PROVE  /\ op[p] \in Operation
             /\ op[p].closures \in Seq(Proc)
             /\ DOMAIN op[p].closures = 1 .. Len(op[p].closures)
             /\ Len(op[p].closures) \in Nat
             /\ Children(p) \subseteq Proc
             /\ \A i \in DOMAIN op[p].closures : op[p].closures[i] \in Children(p)
  <2>1. op[p] \in Operation /\ op[p].closures \in Seq(Proc)
    BY DEF TypeOK, ProcessTypeOK, Operation
  <2>2. Children(p) \subseteq Proc
    BY <2>1, RangeOfSeq DEF Children
  <2> QED
    BY <2>1, <2>2, LenProperties DEF Children, Range
<1> QED
  BY <1>1, <1>2 DEF NoOp

(* Only PAR, PARWHILE and ALT have closures. *)
LEMMA NoClosures ==
  ASSUME TypeOK, Closures, NEW p \in Proc, op[p].kind \notin Spawning \cup {"ALT"}
  PROVE  Children(p) = {}
<1>1. op[p].closures = <<>>
  BY DEF Closures
<1> QED
  BY <1>1 DEF Children, Range

(* The processes, their closures and their parents stay; fields of operations change. *)
LEMMA FieldStep ==
  ASSUME IInv, TypeOK', UNCHANGED <<thread, parent, running>>,
         StackFlags(stack', isOnStack'),
         \A q \in Proc : /\ op'[q].kind = op[q].kind
                         /\ op'[q].closures = op[q].closures
                         /\ op'[q].closureToRun = op[q].closureToRun
                         /\ op'[q].channel = op[q].channel
                         /\ Fresh(op'[q]) => Fresh(op[q]),
         \A q \in Range(stack') : op[q].kind # "none",
         Attached'
  PROVE  IInv'
<1> USE DEF IInv
<1>1. ASSUME NEW q \in Proc
      PROVE  Children(q)' = Children(q) /\ Closure(q)' = Closure(q)
  <2>1. op'[q].closures = op[q].closures
    OBVIOUS
  <2> QED
    BY <2>1 DEF Children, Closure
<1>2. InOperation' /\ Runs' /\ Parents'
  <2>1. InOperation'
    BY DEF InOperation
  <2>2. Runs'
    BY DEF Runs
  <2>3. ASSUME NEW k \in Proc, parent'[k] # NoProc
        PROVE  k \in Children(parent[k])'
    <3>1. parent'[k] = parent[k] /\ parent[k] \in Proc
      BY <2>3 DEF TypeOK, ProcessTypeOK
    <3>2. k \in Children(parent[k])
      BY <2>3, <3>1 DEF Parents
    <3> QED
      BY <3>1, <3>2, <1>1
  <2> QED
    BY <2>1, <2>2, <2>3 DEF Parents
<1>3. Tree'
  BY <1>1 DEF Tree
<1>4. Closures'
  BY <1>1 DEF Closures
<1>5. StackConsistent'
  <2>1. Range(stack') \subseteq Proc
    BY RangeOfSeq DEF TypeOK, ProcessTypeOK
  <2> QED
    BY <2>1, <1>2 DEF StackConsistent, StackFlags, InOperation
<1>6. OnChannel'
  BY DEF OnChannel
<1> QED
  BY <1>2, <1>3, <1>4, <1>5, <1>6

(* The Lua code of p has called an operation; its closures are new processes. *)
LEMMA CallStep ==
  ASSUME IInv, NEW p \in Proc, running = p, NEW o \in Operation, o.kind # "none",
         Yield(p, o),
         Range(o.closures) \subseteq Free, Injective(o.closures),
         o.closureToRun = 0,
         o.kind \notin Spawning \cup {"ALT"} => o.closures = <<>>,
         o.kind = "ALT" => Len(o.closures) = 1,
         o.kind \in ChannelKinds \cup {"CPPOUT"} => o.channel \in Chan,
         thread' \in [Proc -> ThreadStatus], thread'[p] = "yield",
         \A q \in Proc \ {p} :
           thread'[q] = IF q \notin Range(o.closures) THEN thread[q]
                        ELSE IF o.kind = "ALT" THEN "null" ELSE "ready",
         parent' \in [Proc -> Proc \cup {NoProc}],
         \A q \in Proc : \/ parent'[q] = parent[q]
                         \/ parent'[q] = p /\ q \in Range(o.closures),
         ChannelTypeOK', Attached'
  PROVE  IInv'
<1> USE DEF IInv
<1>0. /\ thread[p] = "running" /\ op[p].kind = "none" /\ op[p].closures = <<>>
      /\ op \in [Proc -> Operation] /\ p # NoProc
      /\ op' = [op EXCEPT ![p] = o]
      /\ o.closures \in Seq(Proc)
      /\ DOMAIN o.closures = 1 .. Len(o.closures) /\ Len(o.closures) \in Nat
  <2>1. p # NoProc
    BY ProcessAssumption
  <2>2. o.closures \in Seq(Proc)
    BY DEF Operation
  <2>3. DOMAIN o.closures = 1 .. Len(o.closures) /\ Len(o.closures) \in Nat
    BY <2>2, LenProperties
  <2>4. thread[p] = "running" /\ op[p].kind = "none"
    BY <2>1 DEF Runs, InOperation
  <2>5. op[p].closures = <<>>
    BY <2>4 DEF Closures, ParKinds, Spawning
  <2> QED
    BY <2>1, <2>2, <2>3, <2>4, <2>5 DEF TypeOK, ProcessTypeOK, Yield
<1>1. /\ Children(p)' = Range(o.closures)
      /\ \A q \in Proc \ {p} : op'[q] = op[q] /\ Children(q)' = Children(q)
                               /\ Closure(q)' = Closure(q)
      /\ op'[p] = o
  BY <1>0 DEF Children, Closure
<1>2. /\ stack' \in Seq(Proc) /\ isOnStack' \in [Proc -> BOOLEAN]
      /\ failed' \in Failures
      /\ StackFlags(stack', isOnStack')
      /\ Range(stack') \subseteq Range(stack) \cup {p}
  <2>1. <<p>> \in Seq(Proc) /\ Range(<<p>>) = {p} /\ "none" \in Failures
    BY DEF Range, Failures
  <2>2. StackFlags(stack, isOnStack)
    BY DEF StackConsistent, StackFlags
  <2> QED
    BY <2>1, <2>2, PushKeepsFlags DEF Yield, TypeOK, ProcessTypeOK
<1>3. TypeOK'
  <2>1. op' \in [Proc -> Operation]
    BY <1>0
  <2>2. /\ running' = NoProc /\ result' = NoResult
        /\ UNCHANGED <<work, dt, time>>
    BY DEF Yield, hostVars
  <2> QED
    BY <2>1, <2>2, <1>2, TypeFacts DEF TypeOK, ProcessTypeOK
<1>4. \A k \in Range(o.closures) : thread[k] = "free" /\ k \in Proc /\ k # p /\ k # Main
  BY <1>0 DEF Free, Tree
<1>5. InOperation'
  <2>1. \A q \in Proc \ {p} : op[q].kind # "none" => q \notin Range(o.closures)
    BY <1>4 DEF InOperation
  <2> QED
    BY <1>1, <2>1 DEF InOperation
<1>6. Runs'
  BY DEF Runs, Yield
<1>7. Parents'
  <2> SUFFICES ASSUME NEW k \in Proc, parent'[k] # NoProc
               PROVE  k \in Children(parent[k])'
    BY DEF Parents
  <2>1. CASE parent'[k] = p /\ k \in Range(o.closures)
    BY <2>1, <1>1
  <2>2. CASE parent'[k] = parent[k]
    <3>1. k \in Children(parent[k]) /\ parent[k] \in Proc
      BY <2>2 DEF Parents, TypeOK, ProcessTypeOK
    <3>2. parent[k] # p
      BY <3>1, <1>0 DEF Children, Range
    <3> QED
      BY <2>2, <3>1, <3>2, <1>1
  <2> QED
    BY <2>1, <2>2
<1>8. Tree'
  <2>1. thread'[Main] # "free"
    BY <1>4, ProcessAssumption DEF Tree
  <2>2. ASSUME NEW q \in Proc, NEW k \in Children(q)' PROVE thread'[k] # "free" /\ k # Main
    <3>1. CASE q = p
      BY <3>1, <2>2, <1>1, <1>4
    <3>2. CASE q # p
      <4>1. k \in Children(q) /\ k \in Proc /\ thread[k] # "free" /\ k # Main
        BY <3>2, <2>2, <1>1, TypeFacts DEF Tree
      <4> QED
        BY <4>1, <1>4
    <3> QED
      BY <3>1, <3>2
  <2>3. ASSUME NEW q \in Proc, NEW r \in Proc,
               NEW i \in DOMAIN op'[q].closures, NEW j \in DOMAIN op'[r].closures,
               op'[q].closures[i] = op'[r].closures[j]
        PROVE  q = r /\ i = j
    <3>1. \A s \in Proc \ {p} : \A m \in DOMAIN op[s].closures :
            thread[op[s].closures[m]] # "free"
      BY TypeFacts DEF Tree
    <3>2. \A m \in DOMAIN o.closures : thread[o.closures[m]] = "free"
      BY <1>4 DEF Range
    <3>3. CASE q = p /\ r = p
      BY <3>3, <2>3, <1>1 DEF Injective
    <3>4. CASE q = p /\ r # p
      BY <3>4, <2>3, <1>1, <3>1, <3>2
    <3>5. CASE q # p /\ r = p
      BY <3>5, <2>3, <1>1, <3>1, <3>2
    <3>6. CASE q # p /\ r # p
      BY <3>6, <2>3, <1>1 DEF Tree
    <3> QED
      BY <3>3, <3>4, <3>5, <3>6
  <2> QED
    BY <2>1, <2>2, <2>3 DEF Tree
<1>9. Closures'
  <2> SUFFICES ASSUME NEW q \in Proc
               PROVE  /\ op'[q].closureToRun <= Len(op'[q].closures)
                      /\ op'[q].kind \notin Spawning \cup {"ALT"} => op'[q].closures = <<>>
                      /\ op'[q].kind = "ALT" => Len(op'[q].closures) = 1
                      /\ op'[q].kind \in Spawning =>
                           \A i \in DOMAIN op'[q].closures :
                             i > op'[q].closureToRun => thread'[op'[q].closures[i]] = "ready"
                      /\ Fresh(op'[q]) => thread'[op'[q].closures[1]] = "null"
    BY DEF Closures, Closure
  <2>1. CASE q = p
    <3>1. \A i \in DOMAIN o.closures :
            thread'[o.closures[i]] = IF o.kind = "ALT" THEN "null" ELSE "ready"
      BY <1>4 DEF Range
    <3>2. o.kind \in Spawning => o.kind # "ALT"
      BY DEF ParKinds, Spawning
    <3> QED
      BY <2>1, <3>1, <3>2, <1>0, <1>1 DEF Fresh
  <2>2. CASE q # p
    <3>1. \A i \in DOMAIN op[q].closures :
            /\ thread[op[q].closures[i]] \in {"ready", "null"} =>
                 thread'[op[q].closures[i]] = thread[op[q].closures[i]]
      BY <1>0, <1>4, TypeFacts
    <3>2. op'[q] = op[q]
      BY <1>1, <2>2
    <3>3. Fresh(op[q]) => 1 \in DOMAIN op[q].closures /\ thread[op[q].closures[1]] = "null"
      BY TypeFacts DEF Closures, Closure, Fresh
    <3> QED
      BY <3>1, <3>2, <3>3 DEF Closures
  <2> QED
    BY <2>1, <2>2
<1>10. StackConsistent'
  <2>1. \A q \in Range(stack') : q \in Proc /\ op'[q].kind # "none"
    BY <1>0, <1>1, <1>2, RangeOfSeq DEF StackConsistent
  <2> QED
    BY <2>1, <1>2, <1>5 DEF StackConsistent, StackFlags, InOperation
<1>11. OnChannel'
  BY <1>1 DEF OnChannel
<1> QED
  BY <1>3, <1>5, <1>6, <1>7, <1>8, <1>9, <1>10, <1>11

(* A coroutine ends and its parent is pushed, if it is not on the stack. *)
LEMMA EndStep ==
  ASSUME IInv, NEW p \in Proc, running = p, NEW status \in {"dead", "error"},
         End(p, status), UNCHANGED chanVars
  PROVE  IInv'
<1> USE DEF IInv
<1>0. /\ thread[p] = "running" /\ op[p].kind = "none"
      /\ thread' = [thread EXCEPT ![p] = status]
      /\ \A q \in Proc : thread[q] \in {"free", "yield", "ready", "null"} => q # p
      /\ running' = NoProc /\ result' = NoResult
      /\ UNCHANGED <<parent, op, work, dt, time>>
  <2>1. p # NoProc
    BY ProcessAssumption
  <2> QED
    BY <2>1 DEF Runs, InOperation, End, hostVars
<1>1. /\ ParentToWake(p) \in Seq(Proc)
      /\ \A q \in Range(ParentToWake(p)) : q \in Proc /\ op[q].kind # "none"
  <2>1. CASE parent[p] # NoProc /\ ~isOnStack[parent[p]]
    <3>1. parent[p] \in Proc /\ p \in Children(parent[p])
      BY <2>1 DEF Parents, TypeOK, ProcessTypeOK
    <3>2. op[parent[p]].kind # "none"
      BY <3>1, NoClosures DEF ParKinds, Spawning
    <3>3. ParentToWake(p) = <<parent[p]>>
      BY <2>1 DEF ParentToWake
    <3> QED
      BY <3>1, <3>2, <3>3 DEF Range
  <2>2. CASE ~(parent[p] # NoProc /\ ~isOnStack[parent[p]])
    <3>1. ParentToWake(p) = <<>>
      BY <2>2 DEF ParentToWake
    <3> QED
      BY <3>1, EmptySeq DEF Range
  <2> QED
    BY <2>1, <2>2
<1>2. /\ stack' \in Seq(Proc) /\ isOnStack' \in [Proc -> BOOLEAN]
      /\ failed' \in Failures
      /\ StackFlags(stack', isOnStack')
      /\ Range(stack') \subseteq Range(stack) \cup Range(ParentToWake(p))
  <2>1. StackFlags(stack, isOnStack) /\ "none" \in Failures
    BY DEF StackConsistent, StackFlags, Failures
  <2> QED
    BY <2>1, <1>1, PushKeepsFlags DEF End, TypeOK, ProcessTypeOK
<1>3. TypeOK'
  BY <1>0, <1>2, TypeFacts
     DEF TypeOK, ProcessTypeOK, ChannelTypeOK, chanVars, ThreadStatus
<1>4. \A q \in Proc : Children(q)' = Children(q) /\ Closure(q)' = Closure(q)
  BY <1>0 DEF Children, Closure
<1>5. InOperation' /\ Runs' /\ Parents'
  BY <1>0, <1>4 DEF InOperation, Runs, Parents, TypeOK, ProcessTypeOK
<1>6. Tree'
  <2>1. \A q \in Proc : thread[q] # "free" => thread'[q] # "free"
    BY <1>0 DEF TypeOK, ProcessTypeOK
  <2>2. \A q \in Proc : \A k \in Children(q) : k \in Proc
    BY TypeFacts
  <2> QED
    BY <2>1, <2>2, <1>0, <1>4, ProcessAssumption DEF Tree
<1>7. Closures'
  <2>1. \A q \in Proc : thread[q] \in {"ready", "null"} => thread'[q] = thread[q]
    BY <1>0 DEF TypeOK, ProcessTypeOK
  <2>2. \A q \in Proc : /\ \A i \in DOMAIN op[q].closures : op[q].closures[i] \in Proc
                        /\ Fresh(op[q]) => Closure(q) \in Proc
    BY TypeFacts DEF Closures, Closure, Fresh
  <2> QED
    BY <2>1, <2>2, <1>0, <1>4 DEF Closures
<1>8. StackConsistent'
  <2>1. \A q \in Range(stack') : q \in Proc /\ op'[q].kind # "none"
    BY <1>0, <1>1, <1>2, RangeOfSeq DEF StackConsistent
  <2> QED
    BY <2>1, <1>2, <1>5 DEF StackConsistent, StackFlags, InOperation
<1>9. Attached'
  BY <1>0 DEF Attached, WaitsIn, OffersOn, CasesFor, chanVars
<1>10. OnChannel'
  BY <1>0 DEF OnChannel
<1> QED
  BY <1>3, <1>5, <1>6, <1>7, <1>8, <1>9, <1>10

(* The operation of q stays, whatever has happened to what it holds. *)
SameShape(q) ==
  /\ op'[q].kind = op[q].kind
  /\ op'[q].closures = op[q].closures
  /\ op'[q].closureToRun = op[q].closureToRun
  /\ op'[q].channel = op[q].channel
  /\ Fresh(op'[q]) => Fresh(op[q])

(***************************************************************************)
(* The operation of p ends and the processes of gone, those below p, are   *)
(* destroyed with it; p itself goes on or stays suspended.  The operations *)
(* of the others keep their shape: a method that ends may close a channel. *)
(***************************************************************************)
LEMMA DestroyAndCloseStep ==
  ASSUME IInv, TypeOK', NEW p \in Proc, NEW gone \in SUBSET Proc,
         thread[p] = "yield", thread'[p] \in {"running", "yield"},
         \A q \in Proc \ {p} : thread'[q] = IF q \in gone THEN "free" ELSE thread[q],
         parent' = [q \in Proc |-> IF q \in gone THEN NoProc ELSE parent[q]],
         \A q \in Proc : IF q = p \/ q \in gone THEN op'[q] = NoOp ELSE SameShape(q),
         running' # NoProc => running' = p /\ thread'[p] = "running",
         StackFlags(stack', isOnStack'),
         Range(stack') \cap ({p} \cup gone) = {},
         \A q \in Range(stack') : q \in Proc /\ op[q].kind # "none",
         Main \notin gone, Children(p) \subseteq gone,
         \A q \in gone : Children(q) \subseteq gone,
         \A q \in Proc, k \in gone : k \in Children(q) => q = p \/ q \in gone,
         Attached'
  PROVE  IInv'
<1> USE DEF IInv
<1>1. \A q \in Proc : q # p /\ q \notin gone => thread'[q] = thread[q]
  OBVIOUS
<1>3. \A q \in Proc : IF q = p \/ q \in gone
                      THEN op'[q].kind = "none" /\ op'[q].closures = <<>>
                           /\ op'[q].closureToRun = 0 /\ Children(q)' = {}
                      ELSE SameShape(q) /\ Children(q)' = Children(q)
                           /\ Closure(q)' = Closure(q)
  <2> SUFFICES ASSUME NEW q \in Proc
               PROVE  IF q = p \/ q \in gone
                      THEN op'[q].kind = "none" /\ op'[q].closures = <<>>
                           /\ op'[q].closureToRun = 0 /\ Children(q)' = {}
                      ELSE SameShape(q) /\ Children(q)' = Children(q)
                           /\ Closure(q)' = Closure(q)
    OBVIOUS
  <2>1. CASE q = p \/ q \in gone
    <3>1. op'[q].kind = "none" /\ op'[q].closures = <<>> /\ op'[q].closureToRun = 0
      BY <2>1, TypeFacts
    <3> QED
      BY <2>1, <3>1 DEF Children, Range
  <2>2. CASE ~(q = p \/ q \in gone)
    <3>1. SameShape(q) /\ op'[q].closures = op[q].closures
      BY <2>2 DEF SameShape
    <3> QED
      BY <2>2, <3>1 DEF Children, Closure
  <2> QED
    BY <2>1, <2>2
<1>4. InOperation'
  BY <1>1, <1>3 DEF InOperation, SameShape
<1>5. Runs'
  BY DEF Runs
<1>6. Parents'
  <2> SUFFICES ASSUME NEW k \in Proc, parent'[k] # NoProc
               PROVE  k \in Children(parent[k])'
    BY DEF Parents
  <2>1. /\ k \notin gone /\ parent[k] \in Proc /\ k \in Children(parent[k])
        /\ parent'[k] = parent[k]
    BY DEF Parents, TypeOK, ProcessTypeOK
  <2>2. parent[k] # p /\ parent[k] \notin gone
    BY <2>1
  <2> QED
    BY <2>1, <2>2, <1>3
<1>7. Tree'
  <2>1. thread'[Main] # "free"
    BY <1>1, ProcessAssumption DEF Tree
  <2>2. ASSUME NEW q \in Proc, NEW k \in Children(q)' PROVE thread'[k] # "free" /\ k # Main
    <3>1. q # p /\ q \notin gone /\ k \in Children(q) /\ k \in Proc
      BY <2>2, <1>3, TypeFacts
    <3>2. k \notin gone
      BY <3>1
    <3> QED
      BY <3>1, <3>2, <1>1 DEF Tree
  <2>3. \A q \in Proc : op'[q].closures = <<>> \/ op'[q].closures = op[q].closures
    BY <1>3 DEF SameShape
  <2> QED
    BY <2>1, <2>2, <2>3 DEF Tree
<1>8. Closures'
  <2> SUFFICES ASSUME NEW q \in Proc
               PROVE  /\ op'[q].closureToRun <= Len(op'[q].closures)
                      /\ op'[q].kind \notin Spawning \cup {"ALT"} => op'[q].closures = <<>>
                      /\ op'[q].kind = "ALT" => Len(op'[q].closures) = 1
                      /\ op'[q].kind \in Spawning =>
                           \A i \in DOMAIN op'[q].closures :
                             i > op'[q].closureToRun => thread'[op'[q].closures[i]] = "ready"
                      /\ Fresh(op'[q]) => thread'[op'[q].closures[1]] = "null"
    BY DEF Closures, Closure
  <2>1. CASE q = p \/ q \in gone
    <3>1. op'[q].kind = "none" /\ op'[q].closures = <<>> /\ op'[q].closureToRun = 0
      BY <2>1, <1>3
    <3>2. Len(op'[q].closures) = 0
      BY <3>1
    <3>3. op'[q].kind \notin Spawning \cup {"ALT"} /\ ~Fresh(op'[q])
      BY <3>1 DEF ParKinds, Spawning, Fresh
    <3> QED
      BY <3>1, <3>2, <3>3
  <2>2. CASE ~(q = p \/ q \in gone)
    <3>1. /\ op'[q].kind = op[q].kind /\ op'[q].closures = op[q].closures
          /\ op'[q].closureToRun = op[q].closureToRun
          /\ Fresh(op'[q]) => Fresh(op[q])
      BY <2>2, <1>3 DEF SameShape
    <3>2. \A k \in Children(q) :
            thread[k] \in {"ready", "null"} => thread'[k] = thread[k]
      <4> SUFFICES ASSUME NEW k \in Children(q), thread[k] \in {"ready", "null"}
                   PROVE  thread'[k] = thread[k]
        OBVIOUS
      <4>1. k \in Proc /\ k \notin gone
        BY <2>2, TypeFacts
      <4>2. k # p
        OBVIOUS
      <4> QED
        BY <4>1, <4>2, <1>1
    <3>3. Fresh(op[q]) => op[q].closures[1] \in Children(q) /\ thread[op[q].closures[1]] = "null"
      BY TypeFacts DEF Closures, Closure, Fresh
    <3>4. op[q].kind \in Spawning =>
            \A i \in DOMAIN op[q].closures :
              i > op[q].closureToRun => thread'[op[q].closures[i]] = "ready"
      BY <3>2, TypeFacts DEF Closures
    <3>5. Fresh(op[q]) => thread'[op[q].closures[1]] = "null"
      BY <3>2, <3>3
    <3>6. /\ op[q].closureToRun <= Len(op[q].closures)
          /\ op[q].kind \notin Spawning \cup {"ALT"} => op[q].closures = <<>>
          /\ op[q].kind = "ALT" => Len(op[q].closures) = 1
      BY DEF Closures
    <3> QED
      BY <3>1, <3>4, <3>5, <3>6
  <2> QED
    BY <2>1, <2>2
<1>9. StackConsistent'
  <2>1. \A q \in Range(stack') : q \in Proc /\ op'[q].kind # "none"
    <3> SUFFICES ASSUME NEW q \in Range(stack') PROVE q \in Proc /\ op'[q].kind # "none"
      OBVIOUS
    <3>1. q \in Proc /\ q # p /\ q \notin gone /\ op[q].kind # "none"
      OBVIOUS
    <3> QED
      BY <3>1, <1>3 DEF SameShape
  <2> QED
    BY <2>1, <1>4 DEF StackConsistent, StackFlags, InOperation
<1>10. OnChannel'
  BY <1>3 DEF OnChannel, ChannelKinds, SameShape
<1> QED
  BY <1>4, <1>5, <1>6, <1>7, <1>8, <1>9, <1>10

(* The same when nothing else changes. *)
LEMMA DestroyStep ==
  ASSUME IInv, TypeOK', NEW p \in Proc, NEW gone \in SUBSET Proc,
         thread[p] = "yield", thread'[p] \in {"running", "yield"},
         \A q \in Proc \ {p} : thread'[q] = IF q \in gone THEN "free" ELSE thread[q],
         parent' = [q \in Proc |-> IF q \in gone THEN NoProc ELSE parent[q]],
         op' = [q \in Proc |-> IF q = p \/ q \in gone THEN NoOp ELSE op[q]],
         running' # NoProc => running' = p /\ thread'[p] = "running",
         StackFlags(stack', isOnStack'),
         Range(stack') \subseteq Range(stack) \ ({p} \cup gone),
         Main \notin gone, Children(p) \subseteq gone,
         \A q \in gone : Children(q) \subseteq gone,
         \A q \in Proc, k \in gone : k \in Children(q) => q = p \/ q \in gone,
         Attached'
  PROVE  IInv'
<1>1. \A q \in Proc : IF q = p \/ q \in gone THEN op'[q] = NoOp ELSE SameShape(q)
  BY DEF SameShape
<1>2. \A q \in Range(stack') : q \in Proc /\ op[q].kind # "none"
  <2> SUFFICES ASSUME NEW q \in Range(stack') PROVE q \in Proc /\ op[q].kind # "none"
    OBVIOUS
  <2>1. q \in Range(stack)
    OBVIOUS
  <2>2. q \in Proc
    BY <2>1, RangeOfSeq DEF IInv, TypeOK, ProcessTypeOK
  <2> QED
    BY <2>1, <2>2 DEF IInv, StackConsistent
<1> QED
  BY <1>1, <1>2, DestroyAndCloseStep

(* The operation of p ends and p is resumed. *)
LEMMA ResumeStep ==
  ASSUME IInv, NEW p \in Proc, Evaluating(p),
         NEW results \in Result, NEW gone \in SUBSET Proc, NEW stk \in Seq(Proc),
         Resume(p, results, gone, stk, PoppedFlags),
         Main \notin gone, Children(p) \subseteq gone,
         \A q \in gone : Children(q) \subseteq gone,
         \A q \in Proc, k \in gone : k \in Children(q) => q = p \/ q \in gone,
         Injective(stk), Range(stk) = Range(Popped) \ gone,
         ChannelTypeOK', Attached'
  PROVE  IInv'
<1> USE DEF IInv
<1>0. /\ StackFlags(Popped, PoppedFlags) /\ PoppedFlags \in [Proc -> BOOLEAN]
      /\ Range(Popped) = Range(stack) \ {p} /\ p \in Range(stack)
      /\ thread[p] = "yield" /\ p # NoProc
  <2>1. /\ stack # <<>> /\ p = Last(stack) /\ StackFlags(stack, isOnStack)
        /\ stack \in Seq(Proc) /\ isOnStack \in [Proc -> BOOLEAN]
    BY DEF Evaluating, StackConsistent, StackFlags, TypeOK, ProcessTypeOK
  <2> QED
    BY <2>1, PopKeepsFlags, ProcessAssumption DEF StackConsistent
<1>1. /\ failed' = "none"
      /\ stack' = stk
      /\ isOnStack' = [q \in Proc |-> PoppedFlags[q] /\ q \notin gone]
      /\ thread' = [q \in Proc |-> IF q = p THEN "running"
                                   ELSE IF q \in gone THEN "free" ELSE thread[q]]
      /\ parent' = [q \in Proc |-> IF q \in gone THEN NoProc ELSE parent[q]]
      /\ op' = [q \in Proc |-> IF q = p \/ q \in gone THEN NoOp ELSE op[q]]
      /\ running' = p /\ result' = results
      /\ UNCHANGED <<work, dt, time>>
  BY DEF Resume, hostVars
<1>2. TypeOK'
  BY <1>0, <1>1, TypeFacts DEF TypeOK, ProcessTypeOK, ThreadStatus, Failures
<1>3. StackFlags(stack', isOnStack') /\ Range(stack') \subseteq Range(stack) \ ({p} \cup gone)
  BY <1>0, <1>1 DEF StackFlags
<1>4. /\ thread'[p] = "running"
      /\ \A q \in Proc \ {p} : thread'[q] = IF q \in gone THEN "free" ELSE thread[q]
  BY <1>1
<1> QED
  BY <1>0, <1>1, <1>2, <1>3, <1>4, DestroyStep

(* The same when all the closures of p have ended, or there are none. *)
LEMMA FinishStep ==
  ASSUME IInv, NEW p \in Proc, Evaluating(p), NEW results \in Result,
         FinishOperation(p, results),
         \A k \in Children(p) : op[k].kind = "none",
         \A c \in Chan : attachIn[c] # p /\ attachOut[c] # p,
         UNCHANGED chanVars
  PROVE  IInv'
<1> USE DEF IInv
<1>1. /\ Popped \in Seq(Proc) /\ Injective(Popped) /\ Range(Popped) \subseteq Range(stack)
  <2>1. /\ stack # <<>> /\ p = Last(stack) /\ StackFlags(stack, isOnStack)
        /\ stack \in Seq(Proc) /\ isOnStack \in [Proc -> BOOLEAN]
    BY DEF Evaluating, StackConsistent, StackFlags, TypeOK, ProcessTypeOK
  <2> QED
    BY <2>1, PopKeepsFlags DEF StackFlags
<1>2. Children(p) \in SUBSET Proc /\ Main \notin Children(p)
  BY TypeFacts DEF Tree
<1>3. \A q \in Children(p) : q \notin Range(Popped) /\ Children(q) = {}
  BY <1>1, <1>2, NoClosures DEF StackConsistent, ParKinds, Spawning
<1>4. \A q \in Proc, k \in Children(p) : k \in Children(q) => q = p
  BY DEF Tree, Children, Range
<1>5. ChannelTypeOK'
  BY DEF TypeOK, ChannelTypeOK, chanVars
<1>6. Attached'
  <2>1. \A q \in Proc : q = p \/ q \in Children(p) \/ op'[q] = op[q]
    BY DEF FinishOperation, Resume
  <2>2. \A q \in Proc : q = p \/ q \in Children(p) => op'[q].kind = "none"
    BY DEF FinishOperation, Resume, NoOp
  <2>3. ASSUME NEW c \in Chan, NEW q \in Proc
        PROVE  /\ attachIn'[c] = q => WaitsIn(q, c)'
               /\ attachOut'[c] = q <=> OffersOn(q, c)'
    <3>1. CASE q = p \/ q \in Children(p)
      <4>1. op'[q].kind = "none"
        BY <3>1, <2>2
      <4>2. attachIn[c] # q /\ attachOut[c] # q
        BY <3>1 DEF Attached, WaitsIn, OffersOn
      <4> QED
        BY <4>1, <4>2 DEF WaitsIn, OffersOn, chanVars
    <3>2. CASE ~(q = p \/ q \in Children(p))
      BY <3>2, <2>1 DEF Attached, WaitsIn, OffersOn, CasesFor, chanVars
    <3> QED
      BY <3>1, <3>2
  <2> QED
    BY <2>3 DEF Attached
<1>7. Range(Popped) = Range(Popped) \ Children(p)
  BY <1>3
<1> QED
  BY <1>1, <1>2, <1>3, <1>4, <1>5, <1>6, <1>7, ResumeStep DEF FinishOperation

(* The closure k of the operation of p starts; p may be pushed before. *)
LEMMA StartStep ==
  ASSUME IInv, NEW p \in Proc, Evaluating(p), NEW o \in Operation, NEW k \in Proc,
         NEW args \in Val \cup {NoArgs}, NEW ps \in Seq(Proc), Range(ps) \subseteq {p},
         NEW asserted \in Failures,
         StartEvaluation(p, o, k, args, ps, asserted),
         k \in Children(p), thread[k] \in {"ready", "null"},
         o.kind = op[p].kind, o.closures = op[p].closures,
         o.closureToRun <= Len(o.closures), o.closureToRun >= op[p].closureToRun,
         ~Fresh(o),
         o.kind \in Spawning => \A i \in DOMAIN o.closures :
                                  i > o.closureToRun => o.closures[i] # k,
         \A c \in Chan : attachIn[c] # p /\ attachOut[c] # p,
         o.kind \notin ChannelKinds \cup {"CPPOUT"},
         UNCHANGED chanVars
  PROVE  IInv'
<1> USE DEF IInv
<1>0. /\ Popped \in Seq(Proc) /\ PoppedFlags \in [Proc -> BOOLEAN]
      /\ StackFlags(Popped, PoppedFlags)
      /\ Range(Popped) \subseteq Range(stack)
      /\ op[p].kind # "none" /\ thread[p] = "yield"
  <2>1. /\ stack # <<>> /\ p = Last(stack) /\ StackFlags(stack, isOnStack)
        /\ stack \in Seq(Proc) /\ isOnStack \in [Proc -> BOOLEAN]
    BY DEF Evaluating, StackConsistent, StackFlags, TypeOK, ProcessTypeOK
  <2> QED
    BY <2>1, PopKeepsFlags DEF StackConsistent
<1>1. /\ op' = [op EXCEPT ![p] = o]
      /\ thread' = [thread EXCEPT ![k] = "running"]
      /\ parent' = [parent EXCEPT ![k] = p]
      /\ running' = k /\ result' = [NoResult EXCEPT !.arguments = args]
      /\ UNCHANGED <<work, dt, time>>
  BY DEF StartEvaluation, hostVars
<1>2. /\ stack' \in Seq(Proc) /\ isOnStack' \in [Proc -> BOOLEAN]
      /\ failed' \in Failures
      /\ StackFlags(stack', isOnStack')
      /\ Range(stack') \subseteq Range(Popped) \cup Range(ps)
  BY <1>0, PushKeepsFlags DEF StartEvaluation
<1>3. TypeOK'
  <2>1. result' \in Result
    BY <1>1 DEF NoResult, Result
  <2> QED
    BY <2>1, <1>1, <1>2
       DEF TypeOK, ProcessTypeOK, ChannelTypeOK, chanVars, ThreadStatus
<1>4. /\ \A q \in Proc : /\ op'[q] = IF q = p THEN o ELSE op[q]
                         /\ op'[q].closures = op[q].closures /\ op'[q].kind = op[q].kind
                         /\ Children(q)' = Children(q) /\ Closure(q)' = Closure(q)
                         /\ thread'[q] = IF q = k THEN "running" ELSE thread[q]
      /\ op[k].kind = "none"
  BY <1>1 DEF Children, Closure, TypeOK, ProcessTypeOK, InOperation
<1>5. InOperation'
  BY <1>4 DEF InOperation
<1>6. Runs'
  BY <1>1, <1>4 DEF Runs
<1>7. Parents'
  <2> SUFFICES ASSUME NEW q \in Proc, parent'[q] # NoProc
               PROVE  q \in Children(parent'[q])
    BY <1>4, <1>3 DEF Parents, TypeOK, ProcessTypeOK
  <2> QED
    BY <1>1 DEF Parents, TypeOK, ProcessTypeOK
<1>8. Tree'
  <2>1. \A q \in Proc : thread[q] # "free" => thread'[q] # "free"
    BY <1>4
  <2>2. \A q \in Proc : \A x \in Children(q) : x \in Proc
    BY TypeFacts
  <2> QED
    BY <2>1, <2>2, <1>4, ProcessAssumption DEF Tree
<1>9. Closures'
  <2> SUFFICES ASSUME NEW q \in Proc
               PROVE  /\ op'[q].closureToRun <= Len(op'[q].closures)
                      /\ op'[q].kind \notin Spawning \cup {"ALT"} => op'[q].closures = <<>>
                      /\ op'[q].kind = "ALT" => Len(op'[q].closures) = 1
                      /\ op'[q].kind \in Spawning =>
                           \A i \in DOMAIN op'[q].closures :
                             i > op'[q].closureToRun => thread'[op'[q].closures[i]] = "ready"
                      /\ Fresh(op'[q]) => thread'[op'[q].closures[1]] = "null"
    BY DEF Closures, Closure
  <2>1. CASE q = p
    <3>1. op'[q] = o /\ op[q].closureToRun \in Nat /\ o.closureToRun \in Nat
      BY <2>1, <1>4 DEF TypeOK, ProcessTypeOK, Operation
    <3>2. o.kind \in Spawning =>
            \A i \in DOMAIN o.closures :
              i > o.closureToRun => thread'[o.closures[i]] = "ready"
      <4> SUFFICES ASSUME o.kind \in Spawning, NEW i \in DOMAIN o.closures,
                          i > o.closureToRun
                   PROVE  thread'[o.closures[i]] = "ready"
        OBVIOUS
      <4>1. i \in Nat /\ i > op[p].closureToRun
        BY <2>1, <3>1, TypeFacts
      <4>2. thread[o.closures[i]] = "ready" /\ o.closures[i] # k /\ o.closures[i] \in Proc
        BY <4>1, TypeFacts DEF Closures
      <4> QED
        BY <4>2, <1>4
    <3> QED
      BY <2>1, <3>1, <3>2 DEF Closures
  <2>2. CASE q # p
    <3>1. op'[q] = op[q]
      BY <2>2, <1>4
    <3>2. \A x \in Children(q) : x # k /\ thread'[x] = thread[x]
      <4> SUFFICES ASSUME NEW x \in Children(q) PROVE x # k /\ thread'[x] = thread[x]
        OBVIOUS
      <4>1. x # k
        BY <2>2 DEF Tree, Children, Range
      <4> QED
        BY <4>1, <1>4, TypeFacts
    <3>3. Fresh(op[q]) => op[q].closures[1] \in Children(q) /\ thread[op[q].closures[1]] = "null"
      BY TypeFacts DEF Closures, Closure, Fresh
    <3> QED
      BY <3>1, <3>2, <3>3, TypeFacts DEF Closures
  <2> QED
    BY <2>1, <2>2
<1>10. StackConsistent'
  <2>1. \A q \in Range(stack') : q \in Proc /\ op'[q].kind # "none"
    BY <1>0, <1>2, <1>4, RangeOfSeq DEF StackConsistent
  <2> QED
    BY <2>1, <1>2, <1>5 DEF StackConsistent, StackFlags, InOperation
<1>11. Attached'
  <2> SUFFICES ASSUME NEW c \in Chan, NEW q \in Proc
               PROVE  /\ attachIn[c] = q => WaitsIn(q, c)'
                      /\ attachOut[c] = q <=> OffersOn(q, c)'
    BY DEF Attached, chanVars
  <2>1. CASE q = p
    BY <2>1, <1>4 DEF OffersOn, ChannelKinds
  <2>2. CASE q # p
    BY <2>2, <1>4 DEF Attached, WaitsIn, OffersOn, CasesFor
  <2> QED
    BY <2>1, <2>2
<1>12. OnChannel'
  BY <1>4 DEF OnChannel
<1> QED
  BY <1>3, <1>5, <1>6, <1>7, <1>8, <1>9, <1>10, <1>11, <1>12

----------------------------------------------------------------------------
(***************************************************************************)
(* The calls of the Lua code.                                              *)
(***************************************************************************)
(* A process whose Lua code runs is attached to nothing. *)
LEMMA RunningFacts ==
  ASSUME IInv, NEW p \in Proc, running = p
  PROVE  /\ thread[p] = "running" /\ op[p].kind = "none" /\ op[p].closures = <<>>
         /\ \A c \in Chan : attachIn[c] # p /\ attachOut[c] # p
<1>1. thread[p] = "running" /\ op[p].kind = "none"
  BY ProcessAssumption DEF IInv, Runs, InOperation
<1> QED
  BY <1>1 DEF IInv, Closures, ParKinds, Spawning, Attached, WaitsIn, OffersOn

(* SLEEP begins: the process has no closure and waits on no channel. *)
LEMMA SleepStep ==
  ASSUME IInv, NEW p \in Proc, Sleep(p), UNCHANGED chanVars
  PROVE  IInv'
<1> USE DEF IInv
<1>1. PICK seconds \in Seconds : Yield(p, [NoOp EXCEPT !.kind = "SLEEP", !.seconds = seconds])
  BY DEF Sleep
<1> DEFINE o == [NoOp EXCEPT !.kind = "SLEEP", !.seconds = seconds]
<1>2. /\ o \in Operation /\ o.kind = "SLEEP" /\ o.closures = <<>> /\ o.closureToRun = 0
  BY TypeFacts, ProcessAssumption DEF Operation, NoOp, OpKinds
<1>3. running = p /\ thread' = [thread EXCEPT ![p] = "yield"] /\ parent' = parent
  BY DEF Sleep, InLua
<1>4. op' = [op EXCEPT ![p] = o]
  BY <1>1 DEF Yield
<1> HIDE DEF o
<1>5. Attached'
  <2> SUFFICES ASSUME NEW b \in Chan, NEW q \in Proc
               PROVE  /\ attachIn'[b] = q => WaitsIn(q, b)'
                      /\ attachOut'[b] = q <=> OffersOn(q, b)'
    BY DEF Attached
  <2>0. attachIn[b] # p /\ attachOut[b] # p
    BY <1>3, RunningFacts
  <2>1. CASE q = p
    BY <2>0, <2>1, <1>2, <1>3, <1>4
       DEF WaitsIn, OffersOn, chanVars, TypeOK, ProcessTypeOK
  <2>2. CASE q # p
    BY <2>2, <1>2, <1>3, <1>4
       DEF Attached, WaitsIn, OffersOn, CasesFor, chanVars, TypeOK, ProcessTypeOK
  <2> QED
    BY <2>1, <2>2
<1>6. Range(o.closures) = {} /\ Injective(o.closures)
  BY <1>2 DEF Range, Injective
<1>7. ChannelTypeOK'
  BY DEF TypeOK, ChannelTypeOK, chanVars
<1>8. /\ thread' \in [Proc -> ThreadStatus] /\ thread'[p] = "yield"
      /\ \A q \in Proc \ {p} : thread'[q] = thread[q]
      /\ parent' \in [Proc -> Proc \cup {NoProc}]
  BY <1>3 DEF TypeOK, ProcessTypeOK, ThreadStatus
<1> QED
  BY <1>1, <1>2, <1>3, <1>5, <1>6, <1>7, <1>8, CallStep DEF o, ParKinds, Spawning, ChannelKinds

(* IN and RANGE begin: the process becomes the reader of a channel without one. *)
LEMMA InStep ==
  ASSUME IInv, NEW p \in Proc, NEW kind \in {"IN", "RANGE"}, In(p, kind)
  PROVE  IInv'
<1> USE DEF IInv
<1>1. PICK c \in Chan : /\ ~InAttached(c)
                        /\ attachIn' = [attachIn EXCEPT ![c] = p]
                        /\ Yield(p, ChannelOp(kind, c, NoArgs))
  BY DEF In
<1> DEFINE o == ChannelOp(kind, c, NoArgs)
<1>2. /\ o \in Operation /\ o.kind = kind /\ o.closures = <<>> /\ o.closureToRun = 0
      /\ o.channel = c /\ o.argumentsMoved = FALSE
  BY TypeFacts DEF Operation, NoOp, OpKinds, ChannelKinds, ChannelOp
<1>3. running = p /\ thread' = [thread EXCEPT ![p] = "yield"]
      /\ UNCHANGED <<parent, attachOut, isClosed>>
  BY DEF In, InLua
<1>4. op' = [op EXCEPT ![p] = o]
  BY <1>1 DEF Yield
<1> HIDE DEF o
<1>5. Attached'
  <2> SUFFICES ASSUME NEW b \in Chan, NEW q \in Proc
               PROVE  /\ attachIn'[b] = q => WaitsIn(q, b)'
                      /\ attachOut'[b] = q <=> OffersOn(q, b)'
    BY DEF Attached
  <2>0. attachIn[b] # p /\ attachOut[b] # p
    BY <1>3, RunningFacts
  <2>1. CASE q = p
    BY <2>0, <2>1, <1>1, <1>2, <1>3, <1>4
       DEF WaitsIn, OffersOn, TypeOK, ProcessTypeOK, ChannelTypeOK
  <2>2. CASE q # p
    BY <2>2, <1>1, <1>2, <1>3, <1>4
       DEF Attached, WaitsIn, OffersOn, CasesFor, TypeOK, ProcessTypeOK, ChannelTypeOK
  <2> QED
    BY <2>1, <2>2
<1>6. Range(o.closures) = {} /\ Injective(o.closures)
  BY <1>2 DEF Range, Injective
<1>7. ChannelTypeOK'
  BY <1>1, <1>3 DEF TypeOK, ChannelTypeOK
<1>8. /\ thread' \in [Proc -> ThreadStatus] /\ thread'[p] = "yield"
      /\ \A q \in Proc \ {p} : thread'[q] = thread[q]
      /\ parent' \in [Proc -> Proc \cup {NoProc}]
  BY <1>3 DEF TypeOK, ProcessTypeOK, ThreadStatus
<1> QED
  BY <1>1, <1>2, <1>3, <1>5, <1>6, <1>7, <1>8, CallStep DEF o, ParKinds, Spawning, ChannelKinds

(* OUT begins: the process becomes the writer of a channel without one. *)
LEMMA OutStep ==
  ASSUME IInv, NEW p \in Proc, Out(p)
  PROVE  IInv'
<1> USE DEF IInv
<1>1. PICK c \in Chan, v \in Val : /\ ~OutAttached(c)
                                   /\ attachOut' = [attachOut EXCEPT ![c] = p]
                                   /\ Yield(p, ChannelOp("OUT", c, v))
  BY DEF Out
<1> DEFINE o == ChannelOp("OUT", c, v)
<1>2. /\ o \in Operation /\ o.kind = "OUT" /\ o.closures = <<>> /\ o.closureToRun = 0
      /\ o.channel = c /\ o.argumentsMoved = FALSE
  BY TypeFacts DEF Operation, NoOp, OpKinds, ChannelKinds, ChannelOp
<1>3. running = p /\ thread' = [thread EXCEPT ![p] = "yield"]
      /\ UNCHANGED <<parent, attachIn, isClosed>>
  BY DEF Out, InLua
<1>4. op' = [op EXCEPT ![p] = o]
  BY <1>1 DEF Yield
<1> HIDE DEF o
<1>5. Attached'
  <2> SUFFICES ASSUME NEW b \in Chan, NEW q \in Proc
               PROVE  /\ attachIn'[b] = q => WaitsIn(q, b)'
                      /\ attachOut'[b] = q <=> OffersOn(q, b)'
    BY DEF Attached
  <2>0. attachIn[b] # p /\ attachOut[b] # p
    BY <1>3, RunningFacts
  <2>1. CASE q = p
    <3>1. op'[q] = o
      BY <2>1, <1>4 DEF TypeOK, ProcessTypeOK
    <3>2. attachOut'[b] = q <=> b = c
      BY <2>0, <2>1, <1>1 DEF TypeOK, ChannelTypeOK
    <3>3. OffersOn(q, b)' <=> b = c
      BY <3>1, <1>2 DEF OffersOn
    <3> QED
      BY <2>0, <2>1, <3>2, <3>3, <1>3
  <2>2. CASE q # p
    <3>1. op'[q] = op[q]
      BY <2>2, <1>4 DEF TypeOK, ProcessTypeOK
    <3>2. attachIn'[b] = q => WaitsIn(q, b)
      BY <1>3 DEF Attached
    <3>3. attachOut'[b] = q <=> b # c /\ attachOut[b] = q
      BY <2>2, <1>1 DEF TypeOK, ChannelTypeOK
    <3>4. attachOut[b] = q <=> OffersOn(q, b)
      BY DEF Attached
    <3>5. b = c => attachOut[b] # q
      BY <1>1, ProcessAssumption DEF OutAttached
    <3> QED
      BY <3>1, <3>2, <3>3, <3>4, <3>5 DEF WaitsIn, OffersOn, CasesFor
  <2> QED
    BY <2>1, <2>2
<1>6. Range(o.closures) = {} /\ Injective(o.closures)
  BY <1>2 DEF Range, Injective
<1>7. ChannelTypeOK'
  BY <1>1, <1>3 DEF TypeOK, ChannelTypeOK
<1>8. /\ thread' \in [Proc -> ThreadStatus] /\ thread'[p] = "yield"
      /\ \A q \in Proc \ {p} : thread'[q] = thread[q]
      /\ parent' \in [Proc -> Proc \cup {NoProc}]
  BY <1>3 DEF TypeOK, ProcessTypeOK, ThreadStatus
<1> QED
  BY <1>1, <1>2, <1>3, <1>5, <1>6, <1>7, <1>8, CallStep DEF o, ParKinds, Spawning, ChannelKinds

(* PAR and PARWHILE create their closures from processes that do not exist. *)
LEMMA ParInitStep ==
  ASSUME IInv, NEW p \in Proc, NEW kind \in ParKinds, ParInit(p, kind)
  PROVE  IInv'
<1> USE DEF IInv
<1>0. PICK n \in 0 .. MaxClosures : \E closures \in [1 .. n -> Free] :
        /\ Injective(closures)
        /\ thread' = [q \in Proc |-> IF q = p THEN "yield"
                                     ELSE IF q \in Range(closures) THEN "ready"
                                     ELSE thread[q]]
        /\ parent' = [q \in Proc |-> IF q \in Range(closures) THEN p ELSE parent[q]]
        /\ Yield(p, [NoOp EXCEPT !.kind = kind, !.closures = closures])
  BY DEF ParInit
<1>1. PICK closures \in [1 .. n -> Free] :
        /\ Injective(closures)
        /\ thread' = [q \in Proc |-> IF q = p THEN "yield"
                                     ELSE IF q \in Range(closures) THEN "ready"
                                     ELSE thread[q]]
        /\ parent' = [q \in Proc |-> IF q \in Range(closures) THEN p ELSE parent[q]]
        /\ Yield(p, [NoOp EXCEPT !.kind = kind, !.closures = closures])
  BY <1>0
<1> DEFINE o == [NoOp EXCEPT !.kind = kind, !.closures = closures]
<1>2. closures \in Seq(Proc) /\ Range(closures) \subseteq Free
  <2>1. n \in Nat /\ closures \in [1 .. n -> Proc]
    BY ProcessAssumption DEF Free
  <2> QED
    BY <2>1, SeqDef DEF Range
<1>3. /\ o \in Operation /\ o.kind = kind /\ o.closures = closures /\ o.closureToRun = 0
  BY <1>2, TypeFacts DEF Operation, NoOp, OpKinds
<1>4. running = p /\ UNCHANGED chanVars
  BY DEF ParInit, InLua
<1>5. op' = [op EXCEPT ![p] = o]
  BY <1>1 DEF Yield
<1> HIDE DEF o
<1>6. Attached'
  <2> SUFFICES ASSUME NEW b \in Chan, NEW q \in Proc
               PROVE  /\ attachIn'[b] = q => WaitsIn(q, b)'
                      /\ attachOut'[b] = q <=> OffersOn(q, b)'
    BY DEF Attached
  <2>0. attachIn[b] # p /\ attachOut[b] # p
    BY <1>4, RunningFacts
  <2>1. CASE q = p
    BY <2>0, <2>1, <1>3, <1>4, <1>5
       DEF WaitsIn, OffersOn, chanVars, ParKinds, Spawning, TypeOK, ProcessTypeOK, ChannelTypeOK
  <2>2. CASE q # p
    BY <2>2, <1>3, <1>4, <1>5
       DEF Attached, WaitsIn, OffersOn, CasesFor, chanVars, TypeOK, ProcessTypeOK,
           ChannelTypeOK
  <2> QED
    BY <2>1, <2>2
<1>7. ChannelTypeOK'
  BY <1>4 DEF TypeOK, ChannelTypeOK, chanVars
<1>8. /\ thread' \in [Proc -> ThreadStatus] /\ thread'[p] = "yield"
      /\ \A q \in Proc \ {p} : thread'[q] = IF q \in Range(closures) THEN "ready" ELSE thread[q]
  BY <1>1 DEF TypeOK, ProcessTypeOK, ThreadStatus
<1>9. /\ parent' \in [Proc -> Proc \cup {NoProc}]
      /\ \A q \in Proc : parent'[q] = parent[q] \/ (parent'[q] = p /\ q \in Range(closures))
  BY <1>1 DEF TypeOK, ProcessTypeOK
<1>10. \A q \in Proc \ {p} :
         thread'[q] = IF q \notin Range(o.closures) THEN thread[q]
                      ELSE IF o.kind = "ALT" THEN "null" ELSE "ready"
  BY <1>3, <1>8 DEF ParKinds, Spawning
<1>11. /\ o.kind \in Spawning /\ o.kind # "none" /\ o.kind # "ALT" /\ o.kind \notin ChannelKinds \cup {"CPPOUT"}
       /\ Yield(p, o) /\ Injective(o.closures) /\ Range(o.closures) \subseteq Free
  BY <1>1, <1>2, <1>3 DEF o, ParKinds, Spawning, ChannelKinds
<1> QED
  BY <1>3, <1>4, <1>6, <1>7, <1>8, <1>9, <1>10, <1>11, CallStep

(* ALT attaches to the channels of its cases, none of which has a reader. *)
LEMMA AltInitStep ==
  ASSUME IInv, NEW p \in Proc, AltInit(p)
  PROVE  IInv'
<1> USE DEF IInv
<1>1. PICK guards \in AltForms, k \in Free :
        /\ attachIn' = [c \in Chan |-> IF \E i \in DOMAIN guards : guards[i].channel = c
                                       THEN p ELSE attachIn[c]]
        /\ thread' = [thread EXCEPT ![p] = "yield", ![k] = "null"]
        /\ Yield(p, AltOp(guards, k))
  BY DEF AltInit
<1> DEFINE o == AltOp(guards, k)
<1>2. /\ k \in Proc /\ thread[k] = "free" /\ k # p
  BY RunningFacts DEF Free, AltInit, InLua
<1>3. /\ Len(guards) \in Nat /\ DOMAIN guards = 1 .. Len(guards)
      /\ \A i \in DOMAIN guards : guards[i] \in Guard
  <2>1. guards \in Seq(Guard)
    BY ProcessAssumption
  <2> QED
    BY <2>1, LenProperties, ElementOfSeq
<1>4. /\ o.kind = "ALT" /\ o.closures = <<k>> /\ o.closureToRun = 0 /\ o.caseTriggered = 0
      /\ o.cases = [i \in 1 .. Len(guards) |->
                      [channel |-> guards[i].channel, time |-> guards[i].time,
                       closure |-> TRUE]]
  BY DEF AltOp, NoOp
<1>5. o \in Operation
  <2>1. o.cases \in Seq(AltCase)
    <3>1. o.cases \in [1 .. Len(guards) -> AltCase]
      BY <1>3, <1>4 DEF Guard, AltCase
    <3> QED
      BY <3>1, <1>3, SeqDef
  <2>2. o.nilCase \in Nat
    <3> DEFINE nils == {i \in DOMAIN guards : guards[i] = NilGuard}
    <3>1. o.nilCase = IF NilGuard \in Range(guards) THEN FirstOf(nils) ELSE 0
      BY DEF AltOp, NoOp
    <3>2. NilGuard \in Range(guards) => nils \in SUBSET Nat /\ nils # {}
      BY <1>3 DEF Range
    <3> HIDE DEF nils
    <3> QED
      BY <3>1, <3>2, FirstOfIsLeast
  <2>3. <<k>> \in Seq(Proc)
    BY <1>2
  <2>4. o = [NoOp EXCEPT !.kind = "ALT", !.closures = <<k>>, !.cases = o.cases,
                         !.nilCase = o.nilCase]
    BY DEF AltOp, NoOp
  <2> QED
    BY <2>1, <2>2, <2>3, <2>4, TypeFacts DEF Operation, OpKinds
<1>6. running = p /\ UNCHANGED <<parent, attachOut, isClosed>>
  BY DEF AltInit, InLua
<1>7. op' = [op EXCEPT ![p] = o]
  BY <1>1 DEF Yield
<1>8. \A c \in Chan : (\E i \in DOMAIN guards : guards[i].channel = c) => CasesFor(o, c) # {}
  BY <1>3, <1>4 DEF CasesFor
<1> HIDE DEF o
<1>9. Attached'
  <2> SUFFICES ASSUME NEW c \in Chan, NEW q \in Proc
               PROVE  /\ attachIn'[c] = q => WaitsIn(q, c)'
                      /\ attachOut'[c] = q <=> OffersOn(q, c)'
    BY DEF Attached
  <2>1. attachIn[c] # p /\ attachOut[c] # p
    BY <1>6, RunningFacts
  <2>2. CASE q = p
    BY <2>1, <2>2, <1>1, <1>4, <1>6, <1>7, <1>8
       DEF WaitsIn, OffersOn, TypeOK, ProcessTypeOK
  <2>3. CASE q # p
    BY <2>3, <1>1, <1>6, <1>7
       DEF Attached, WaitsIn, OffersOn, CasesFor, TypeOK, ProcessTypeOK
  <2> QED
    BY <2>2, <2>3
<1>10. ChannelTypeOK'
  BY <1>1, <1>6 DEF TypeOK, ChannelTypeOK
<1>11. /\ thread' \in [Proc -> ThreadStatus] /\ thread'[p] = "yield"
       /\ \A q \in Proc \ {p} : thread'[q] = IF q = k THEN "null" ELSE thread[q]
       /\ parent' \in [Proc -> Proc \cup {NoProc}]
  BY <1>1, <1>2, <1>6 DEF TypeOK, ProcessTypeOK, ThreadStatus
<1>12. Range(o.closures) = {k} /\ Injective(o.closures) /\ Len(o.closures) = 1
  BY <1>4 DEF Range, Injective
<1> QED
  BY <1>1, <1>2, <1>4, <1>5, <1>6, <1>9, <1>10, <1>11, <1>12, CallStep
     DEF o, ParKinds, Spawning, ChannelKinds

----------------------------------------------------------------------------
(***************************************************************************)
(* One turn of the loop of Host::Evaluate.                                 *)
(***************************************************************************)
(* The process that is evaluated, and what the stack is without it. *)
LEMMA EvaluatingFacts ==
  ASSUME IInv, NEW p \in Proc, Evaluating(p)
  PROVE  /\ Popped \in Seq(Proc) /\ PoppedFlags \in [Proc -> BOOLEAN]
         /\ StackFlags(Popped, PoppedFlags)
         /\ Range(Popped) \subseteq Range(stack)
         /\ op[p].kind # "none" /\ thread[p] = "yield" /\ p # NoProc
<1>1. /\ stack # <<>> /\ p = Last(stack) /\ StackFlags(stack, isOnStack)
      /\ stack \in Seq(Proc) /\ isOnStack \in [Proc -> BOOLEAN]
  BY DEF IInv, Evaluating, StackConsistent, StackFlags, TypeOK, ProcessTypeOK
<1> QED
  BY <1>1, PopKeepsFlags, ProcessAssumption DEF IInv, StackConsistent

(* Steps that change fields of operations and push processes with an operation. *)
LEMMA PushStep ==
  ASSUME IInv, UNCHANGED <<thread, parent, running, result>>,
         NEW stk \in Seq(Proc), NEW flags \in [Proc -> BOOLEAN],
         StackFlags(stk, flags), Range(stk) \subseteq Range(stack),
         NEW asserted \in Failures, NEW ps \in Seq(Proc),
         \A q \in Range(ps) : op[q].kind # "none",
         PushEvalSteps(asserted, stk, flags, ps),
         op' \in [Proc -> Operation],
         \A q \in Proc : /\ op'[q].kind = op[q].kind
                         /\ op'[q].closures = op[q].closures
                         /\ op'[q].closureToRun = op[q].closureToRun
                         /\ op'[q].channel = op[q].channel
                         /\ Fresh(op'[q]) => Fresh(op[q]),
         work' \in Seq(Proc), dt' \in Nat, time' \in Nat,
         ChannelTypeOK', Attached'
  PROVE  IInv'
<1>1. /\ stack' \in Seq(Proc) /\ isOnStack' \in [Proc -> BOOLEAN]
      /\ failed' \in Failures
      /\ StackFlags(stack', isOnStack')
      /\ Range(stack') \subseteq Range(stk) \cup Range(ps)
  BY PushKeepsFlags
<1>2. TypeOK'
  BY <1>1 DEF IInv, TypeOK, ProcessTypeOK
<1>3. \A q \in Range(stack') : op[q].kind # "none"
  BY <1>1 DEF IInv, StackConsistent
<1> QED
  BY <1>1, <1>2, <1>3, FieldStep

(* The channels and the operations stay as they are. *)
LEMMA AttachedKept ==
  ASSUME IInv, UNCHANGED chanVars, UNCHANGED op
  PROVE  ChannelTypeOK' /\ Attached'
<1>1. ChannelTypeOK'
  BY DEF IInv, TypeOK, ChannelTypeOK, chanVars
<1>2. Attached'
  BY DEF IInv, Attached, WaitsIn, OffersOn, CasesFor, chanVars
<1> QED
  BY <1>1, <1>2

(* An operation answers YIELD: its process only leaves the stack. *)
LEMMA KeepWaitingStep ==
  ASSUME IInv, NEW p \in Proc, Evaluating(p), KeepWaiting, UNCHANGED chanVars
  PROVE  IInv'
<1>1. /\ stack' \in Seq(Proc) /\ isOnStack' \in [Proc -> BOOLEAN]
      /\ StackFlags(stack', isOnStack')
      /\ Range(stack') \subseteq Range(stack)
  BY EvaluatingFacts DEF KeepWaiting
<1>2. ChannelTypeOK' /\ Attached'
  BY AttachedKept DEF KeepWaiting
<1>3. TypeOK'
  BY <1>1, <1>2 DEF IInv, TypeOK, ProcessTypeOK, KeepWaiting, hostVars
<1>4. \A q \in Range(stack') : op[q].kind # "none"
  BY <1>1 DEF IInv, StackConsistent
<1> QED
  BY <1>1, <1>2, <1>3, <1>4, FieldStep DEF KeepWaiting

(* DetachChannels and ResetAttachmentIn leave a reader attached to nothing. *)
LEMMA DetachedFacts ==
  ASSUME IInv, NEW in \in Proc, op[in].kind \in {"IN", "RANGE", "ALT"}
  PROVE  /\ Detached(in) \in [Chan -> Proc \cup {NoProc}]
         /\ \A d \in Chan, q \in Proc :
              Detached(in)[d] = q => attachIn[d] = q /\ q # in
<1>1. Detached(in) \in [Chan -> Proc \cup {NoProc}]
  BY DEF Detached, IInv, TypeOK, ChannelTypeOK
<1>2. ASSUME NEW d \in Chan, NEW q \in Proc, Detached(in)[d] = q
      PROVE  attachIn[d] = q /\ q # in
  <2>1. attachIn[d] = q /\ ~(attachIn[d] = in /\ d \in Attachable(op[in]))
    BY <1>2, ProcessAssumption DEF Detached
  <2>2. attachIn[d] = in => d \in Attachable(op[in])
    BY DEF IInv, Attached, WaitsIn, Attachable, CasesFor
  <2> QED
    BY <2>1, <2>2
<1> QED
  BY <1>1, <1>2

(* What is left of an operation whose arguments were moved, or whose channel is closed. *)
LEMMA CloseArgumentsFacts ==
  ASSUME NEW o \in Operation
  PROVE  /\ CloseArguments(o) \in Operation
         /\ CloseArguments(o).kind = o.kind
         /\ CloseArguments(o).finished = o.finished
         /\ CloseArguments(o).closures = o.closures
         /\ CloseArguments(o).closureToRun = o.closureToRun
         /\ CloseArguments(o).channel = o.channel
         /\ CloseArguments(o).cases = o.cases
         /\ CloseArguments(o).nilCase = o.nilCase
         /\ CloseArguments(o).caseTriggered = o.caseTriggered
         /\ CloseArguments(o).argumentsMoved
         /\ CloseArguments(o).arguments = NoArgs
  BY DEF CloseArguments, Operation

(* What the operation that waits for the input of a channel is when it has received it. *)
LEMMA MovedFacts ==
  ASSUME IInv, NEW c \in Chan, NEW in \in Proc, WaitsIn(in, c), NEW args \in Val \cup {NoArgs},
         NEW moved, moved = MoveChannelArguments(op[in], c, args)
  PROVE  /\ moved \in Operation
         /\ moved.kind = op[in].kind /\ moved.closures = op[in].closures
         /\ moved.closureToRun = op[in].closureToRun /\ moved.channel = op[in].channel
         /\ moved.finished = op[in].finished
         /\ moved.cases = op[in].cases
         /\ moved.argumentsMoved /\ moved.arguments = args
         /\ op[in].kind \in {"IN", "RANGE", "ALT"}
         /\ Fresh(moved) <=> Fresh(op[in])
         /\ op[in].kind = "ALT" => moved.caseTriggered # 0
<1> DEFINE o == op[in]
<1>1. o \in Operation /\ o.kind \in {"IN", "RANGE", "ALT"} /\ (o.kind = "ALT" => o.caseTriggered = 0)
  BY DEF IInv, TypeOK, ProcessTypeOK, WaitsIn
<1>2. o.kind = "ALT" => FindCaseForChannel(o, c) \in Nat \ {0}
  <2> SUFFICES ASSUME o.kind = "ALT" PROVE FindCaseForChannel(o, c) \in Nat \ {0}
    OBVIOUS
  <2>1. CasesFor(o, c) # {}
    BY DEF WaitsIn
  <2>2. DOMAIN o.cases \subseteq Nat \ {0}
    <3>1. o.cases \in Seq(AltCase)
      BY <1>1 DEF Operation
    <3> QED
      BY <3>1, LenProperties
  <2>3. CasesFor(o, c) \in SUBSET Nat /\ 0 \notin CasesFor(o, c)
    BY <2>2 DEF CasesFor
  <2> QED
    BY <2>1, <2>3, FirstOfIsLeast DEF FindCaseForChannel
<1>3. moved \in Operation
  BY <1>1, <1>2 DEF Operation, MoveChannelArguments
<1>4. /\ moved.kind = o.kind /\ moved.closures = o.closures
      /\ moved.closureToRun = o.closureToRun /\ moved.channel = o.channel
      /\ moved.finished = o.finished /\ moved.cases = o.cases
      /\ moved.argumentsMoved /\ moved.arguments = args
  BY <1>1 DEF Operation, MoveChannelArguments
<1>5. o.kind = "ALT" => moved.caseTriggered # 0
  BY <1>1, <1>2 DEF Operation, MoveChannelArguments
<1>6. Fresh(moved) <=> Fresh(o)
  BY <1>1, <1>4 DEF Fresh
<1> QED
  BY <1>1, <1>3, <1>4, <1>5, <1>6

(* Communicate detaches the writer and the reader and pushes both. *)
LEMMA CommunicateStep ==
  ASSUME IInv, NEW p \in Proc, Evaluating(p), NEW c \in Chan, OutAttached(c),
         NEW reader \in Proc, op[reader].kind # "none",
         Communicate(c, reader),
         UNCHANGED <<thread, parent, running, result, hostVars, isClosed>>
  PROVE  IInv'
<1> USE DEF IInv
<1> DEFINE in == attachIn[c]
           writer == attachOut[c]
<1>1. writer \in Proc /\ OffersOn(writer, c) /\ in \in Proc \cup {NoProc}
  BY DEF OutAttached, TypeOK, ChannelTypeOK, Attached
<1>2. work' \in Seq(Proc) /\ dt' \in Nat /\ time' \in Nat
  BY DEF TypeOK, ProcessTypeOK, hostVars
<1>3. CASE in = NoProc
  <2>1. /\ PushEvalSteps("not_attached", Popped, PoppedFlags, <<>>)
        /\ UNCHANGED <<op, attachIn, attachOut, isClosed>>
    BY <1>3 DEF Communicate
  <2>2. ChannelTypeOK' /\ Attached'
    BY <2>1, AttachedKept DEF chanVars
  <2>3. /\ "not_attached" \in Failures
        /\ <<>> \in Seq(Proc) /\ Range(<<>>) = {}
    BY DEF Failures, Range
  <2>4. op' \in [Proc -> Operation]
    BY <2>1 DEF TypeOK, ProcessTypeOK
  <2>5. UNCHANGED <<thread, parent, running, result>> /\ UNCHANGED op
    BY <2>1
  <2> QED
    BY <2>1, <2>2, <2>3, <2>4, <2>5, <1>2, EvaluatingFacts, PushStep
<1>4. CASE in # NoProc
  <2>1. in \in Proc /\ WaitsIn(in, c) /\ in # writer
    BY <1>1, <1>4 DEF Attached, WaitsIn, OffersOn
  <2> DEFINE asserted == IF op[in].arguments # NoArgs THEN "arguments_set" ELSE "none"
             ps == Partners(writer, reader)
             moved == MoveChannelArguments(op[in], c, op[writer].arguments)
             sent == CloseArguments(op[writer])
  <2>2. /\ PushEvalSteps(asserted, Popped, PoppedFlags, ps)
        /\ op' = [op EXCEPT ![in] = MoveChannelArguments(@, c, op[writer].arguments),
                            ![writer] = CloseArguments(@)]
        /\ attachIn' = Detached(in)
        /\ attachOut' = [attachOut EXCEPT ![c] = NoProc]
    BY <1>4 DEF Communicate
  <2>3. /\ asserted \in Failures /\ ps \in Seq(Proc)
        /\ \A q \in Range(ps) : op[q].kind # "none"
    <3>1. ps \in Seq(Proc) /\ Range(ps) = {writer, reader}
      BY <1>1 DEF Partners, Range
    <3> QED
      BY <3>1, <1>1 DEF Failures, OffersOn
  <2>3a. op[writer].arguments \in Val \cup {NoArgs} /\ op[writer] \in Operation
    BY <1>1 DEF TypeOK, ProcessTypeOK, Operation
  <2>4. moved \in Operation /\ sent \in Operation
    BY <2>1, <2>3a, MovedFacts, CloseArgumentsFacts
  <2>5. \A q \in Proc : op'[q] = IF q = in THEN moved
                                 ELSE IF q = writer THEN sent ELSE op[q]
    BY <2>1, <2>2 DEF TypeOK, ProcessTypeOK
  <2>6. op' \in [Proc -> Operation]
    BY <2>2, <2>4, <2>5, <1>1, <2>1 DEF TypeOK, ProcessTypeOK
  <2>7. /\ moved.kind = op[in].kind /\ moved.closures = op[in].closures
        /\ moved.closureToRun = op[in].closureToRun /\ moved.channel = op[in].channel
        /\ sent.kind = op[writer].kind /\ sent.closures = op[writer].closures
        /\ sent.closureToRun = op[writer].closureToRun
        /\ sent.channel = op[writer].channel
        /\ sent.argumentsMoved /\ sent.arguments = NoArgs
        /\ op[writer].kind \in {"OUT", "CPPOUT"} /\ op[writer].channel = c
        /\ op[in].kind \in {"IN", "RANGE", "ALT"}
        /\ Fresh(moved) => Fresh(op[in])
    <3>1. op[in] \in Operation /\ op[writer] \in Operation
      BY <1>1, <2>1 DEF TypeOK, ProcessTypeOK
    <3>2. /\ op[writer].kind \in {"OUT", "CPPOUT"} /\ op[writer].channel = c
          /\ op[in].kind \in {"IN", "RANGE", "ALT"}
      BY <1>1, <2>1 DEF WaitsIn, OffersOn
    <3>3. /\ sent.kind = op[writer].kind /\ sent.closures = op[writer].closures
          /\ sent.closureToRun = op[writer].closureToRun
          /\ sent.channel = op[writer].channel
          /\ sent.argumentsMoved /\ sent.arguments = NoArgs
      BY <3>1, CloseArgumentsFacts
    <3>4. /\ moved.kind = op[in].kind /\ moved.closures = op[in].closures
          /\ moved.closureToRun = op[in].closureToRun /\ moved.channel = op[in].channel
          /\ Fresh(moved) => Fresh(op[in])
      BY <2>1, <2>3a, MovedFacts
    <3> QED
      BY <3>2, <3>3, <3>4
  <2> HIDE DEF moved, sent, asserted, ps
  <2>8. \A q \in Proc : /\ op'[q].kind = op[q].kind
                        /\ op'[q].closures = op[q].closures
                        /\ op'[q].closureToRun = op[q].closureToRun
                        /\ op'[q].channel = op[q].channel
                        /\ Fresh(op'[q]) => Fresh(op[q])
    BY <2>5, <2>7 DEF Fresh
  <2>9. ChannelTypeOK'
    BY <2>1, <2>2, <2>7, DetachedFacts DEF TypeOK, ChannelTypeOK
  <2>10. Attached'
    <3> SUFFICES ASSUME NEW d \in Chan, NEW q \in Proc
                 PROVE  /\ attachIn'[d] = q => WaitsIn(q, d)'
                        /\ attachOut'[d] = q <=> OffersOn(q, d)'
      BY DEF Attached
    <3>1. attachIn'[d] = q => WaitsIn(q, d)'
      <4> SUFFICES ASSUME attachIn'[d] = q PROVE WaitsIn(q, d)'
        OBVIOUS
      <4>1. WaitsIn(q, d) /\ q # in
        BY <2>1, <2>2, <2>7, DetachedFacts DEF Attached
      <4>2. op'[q] = op[q]
        BY <4>1, <2>5, <2>7 DEF WaitsIn
      <4> QED
        BY <4>1, <4>2 DEF WaitsIn, CasesFor
    <3>2. attachOut'[d] = q <=> OffersOn(q, d)'
      <4>1. attachOut'[d] = q <=> d # c /\ attachOut[d] = q
        BY <2>2, ProcessAssumption DEF TypeOK, ChannelTypeOK
      <4>2. attachOut[d] = q <=> OffersOn(q, d)
        BY DEF Attached
      <4>3. CASE q = in
        BY <4>1, <4>2, <4>3, <2>5, <2>7 DEF OffersOn
      <4>4. CASE q = writer
        BY <4>1, <4>2, <4>4, <2>1, <2>5, <2>7 DEF OffersOn
      <4>5. CASE q # in /\ q # writer
        BY <4>1, <4>2, <4>5, <2>5 DEF OffersOn
      <4> QED
        BY <4>3, <4>4, <4>5
    <3> QED
      BY <3>1, <3>2
  <2> QED
    BY <2>2, <2>3, <2>6, <2>8, <2>9, <2>10, <1>2, EvaluatingFacts, PushStep
<1> QED
  BY <1>3, <1>4

(* A triggered ALT is attached to nothing. *)
LEMMA TriggerStep ==
  ASSUME IInv, NEW p \in Proc, NEW i \in Nat,
         op[p].kind = "ALT", op[p].caseTriggered = 0,
         NEW stk \in Seq(Proc), NEW flags \in [Proc -> BOOLEAN],
         StackFlags(stk, flags), Range(stk) \subseteq Range(stack),
         Trigger(p, i, stk, flags),
         work' \in Seq(Proc), dt' \in Nat, time' \in Nat
  PROVE  IInv'
<1> USE DEF IInv
<1>1. /\ op' = [op EXCEPT ![p].caseTriggered = i, ![p].argumentsMoved = TRUE]
      /\ attachIn' = Detached(p)
      /\ PushEvalSteps("none", stk, flags, <<p>>)
      /\ UNCHANGED <<thread, parent, running, result>>
      /\ UNCHANGED <<attachOut, isClosed>>
  BY DEF Trigger
<1>2. /\ op' \in [Proc -> Operation]
      /\ \A q \in Proc \ {p} : op'[q] = op[q]
      /\ op'[p].kind = op[p].kind /\ op'[p].closures = op[p].closures
      /\ op'[p].closureToRun = op[p].closureToRun /\ op'[p].channel = op[p].channel
  <2> DEFINE o == [op[p] EXCEPT !.caseTriggered = i, !.argumentsMoved = TRUE]
  <2>1. op \in [Proc -> Operation]
    BY DEF TypeOK, ProcessTypeOK
  <2>2. op' = [op EXCEPT ![p] = o]
    BY <1>1, <2>1
  <2>3. o \in Operation /\ o.kind = op[p].kind /\ o.closures = op[p].closures
        /\ o.closureToRun = op[p].closureToRun /\ o.channel = op[p].channel
    BY <2>1 DEF Operation
  <2> HIDE DEF o
  <2> QED
    BY <2>1, <2>2, <2>3
<1>3. \A q \in Proc : /\ op'[q].kind = op[q].kind
                      /\ op'[q].closures = op[q].closures
                      /\ op'[q].closureToRun = op[q].closureToRun
                      /\ op'[q].channel = op[q].channel
                      /\ Fresh(op'[q]) => Fresh(op[q])
  BY <1>2 DEF Fresh
<1>4. /\ <<p>> \in Seq(Proc) /\ "none" \in Failures
      /\ \A q \in Range(<<p>>) : op[q].kind # "none"
  BY DEF Failures, Range
<1>5. ChannelTypeOK'
  BY <1>1, DetachedFacts DEF TypeOK, ChannelTypeOK
<1>6. Attached'
  <2> SUFFICES ASSUME NEW d \in Chan, NEW q \in Proc
               PROVE  /\ attachIn'[d] = q => WaitsIn(q, d)'
                      /\ attachOut'[d] = q <=> OffersOn(q, d)'
    BY DEF Attached
  <2>1. attachIn'[d] = q => WaitsIn(q, d) /\ q # p
    BY <1>1, DetachedFacts DEF Attached
  <2>2. attachOut'[d] = q <=> OffersOn(q, d)
    BY <1>1 DEF Attached
  <2>3. WaitsIn(q, d) /\ q # p => WaitsIn(q, d)'
    BY <1>2 DEF WaitsIn, CasesFor
  <2>4. OffersOn(q, d) <=> OffersOn(q, d)'
    BY <1>2 DEF OffersOn
  <2> QED
    BY <2>1, <2>2, <2>3, <2>4
<1> QED
  BY <1>1, <1>2, <1>3, <1>4, <1>5, <1>6, PushStep

(* SLEEP is evaluated. *)
LEMMA EvalSleepStep ==
  ASSUME IInv, NEW p \in Proc, EvalSleep(p), UNCHANGED chanVars
  PROVE  IInv'
<1>1. Evaluating(p) /\ op[p].kind = "SLEEP"
  BY DEF EvalSleep
<1>2. CASE op[p].finished
  <2>1. FinishOperation(p, NoResult)
    BY <1>2 DEF EvalSleep
  <2>2. Children(p) = {} /\ NoResult \in Result
    BY <1>1, NoClosures, TypeFacts DEF IInv, ParKinds, Spawning
  <2>3. \A c \in Chan : attachIn[c] # p /\ attachOut[c] # p
    BY <1>1 DEF IInv, Attached, WaitsIn, OffersOn
  <2> QED
    BY <1>1, <2>1, <2>2, <2>3, FinishStep
<1>3. CASE ~op[p].finished
  BY <1>1, <1>3, KeepWaitingStep DEF EvalSleep
<1> QED
  BY <1>2, <1>3

(* IN and RANGE are evaluated. *)
LEMMA EvalInStep ==
  ASSUME IInv, NEW p \in Proc, EvalIn(p)
  PROVE  IInv'
<1> DEFINE o == op[p]
           results == [flag |-> IF o.kind = "IN" THEN "none"
                                ELSE IF isClosed[o.channel] THEN "nil" ELSE "true",
                       arguments |-> o.arguments]
<1>1. /\ Evaluating(p) /\ o.kind \in {"IN", "RANGE"} /\ o.channel \in Chan
      /\ o.arguments \in Val \cup {NoArgs} /\ isClosed' = isClosed
  BY DEF EvalIn, IInv, OnChannel, ChannelKinds, TypeOK, ProcessTypeOK, Operation
<1>2. CASE o.argumentsMoved /\ FinishOperation(p, results) /\ UNCHANGED chanVars
  <2>1. results \in Result
    BY <1>1 DEF Result
  <2>2. Children(p) = {}
    BY <1>1, NoClosures DEF IInv, ParKinds, Spawning
  <2>3. \A c \in Chan : attachIn[c] # p /\ attachOut[c] # p
    BY <1>1, <1>2 DEF IInv, Attached, WaitsIn, OffersOn
  <2> HIDE DEF results
  <2> QED
    BY <1>1, <1>2, <2>1, <2>2, <2>3, FinishStep
<1>3. CASE /\ OutAttached(o.channel) /\ Communicate(o.channel, p)
           /\ UNCHANGED <<thread, parent, running, result, hostVars>>
  BY <1>1, <1>3, CommunicateStep
<1>4. CASE KeepWaiting /\ UNCHANGED chanVars
  BY <1>1, <1>4, KeepWaitingStep
<1> QED
  BY <1>1, <1>2, <1>3, <1>4 DEF EvalIn, chanVars

(* OUT is evaluated. *)
LEMMA EvalOutStep ==
  ASSUME IInv, NEW p \in Proc, EvalOut(p)
  PROVE  IInv'
<1> DEFINE o == op[p]
<1>1. /\ Evaluating(p) /\ o.kind = "OUT" /\ o.channel \in Chan /\ isClosed' = isClosed
  BY DEF EvalOut, IInv, OnChannel, ChannelKinds
<1>2. CASE o.argumentsMoved /\ FinishOperation(p, NoResult) /\ UNCHANGED chanVars
  <2>1. Children(p) = {} /\ NoResult \in Result
    BY <1>1, NoClosures, TypeFacts DEF IInv, ParKinds, Spawning
  <2>2. \A c \in Chan : attachIn[c] # p /\ attachOut[c] # p
    BY <1>1, <1>2 DEF IInv, Attached, WaitsIn, OffersOn
  <2> QED
    BY <1>1, <1>2, <2>1, <2>2, FinishStep
<1>3. CASE /\ ~o.argumentsMoved /\ InAttached(o.channel)
           /\ Communicate(o.channel, attachIn[o.channel])
           /\ UNCHANGED <<thread, parent, running, result, hostVars>>
  <2>1. attachIn[o.channel] \in Proc
    BY <1>1, <1>3 DEF InAttached, IInv, TypeOK, ChannelTypeOK
  <2>2. op[attachIn[o.channel]].kind # "none"
    BY <1>1, <2>1 DEF IInv, Attached, WaitsIn
  <2>3. OutAttached(o.channel)
    BY <1>1, <1>3, ProcessAssumption DEF IInv, Attached, OffersOn, OutAttached
  <2> QED
    BY <1>1, <1>3, <2>1, <2>2, <2>3, CommunicateStep
<1>4. CASE KeepWaiting /\ UNCHANGED chanVars
  BY <1>1, <1>4, KeepWaitingStep
<1> QED
  BY <1>1, <1>2, <1>3, <1>4 DEF EvalOut, chanVars

(* PAR and PARWHILE start the next closure. *)
LEMMA StartClosureStep ==
  ASSUME IInv, NEW p \in Proc, Evaluating(p), op[p].kind \in Spawning, StartClosure(p)
  PROVE  IInv'
<1> DEFINE next == op[p].closureToRun + 1
           o == [op[p] EXCEPT !.closureToRun = next]
           k == op[p].closures[next]
           ps == IF next < Len(op[p].closures) THEN <<p>> ELSE <<>>
<1>1. /\ next \in DOMAIN op[p].closures
      /\ StartEvaluation(p, o, k, NoArgs, ps, "none")
      /\ UNCHANGED chanVars
  BY DEF StartClosure
<1>2. /\ op[p] \in Operation /\ op[p].closureToRun \in Nat
      /\ next \in Nat /\ next <= Len(op[p].closures) /\ next > op[p].closureToRun
      /\ Len(op[p].closures) \in Nat
      /\ k \in Children(p) /\ k \in Proc
  <2>1. op[p] \in Operation /\ op[p].closureToRun \in Nat
    BY DEF IInv, TypeOK, ProcessTypeOK, Operation
  <2>2. k \in Children(p) /\ k \in Proc /\ Len(op[p].closures) \in Nat
        /\ next \in 1 .. Len(op[p].closures)
    BY <1>1, TypeFacts DEF IInv
  <2> QED
    BY <2>1, <2>2
<1>3. /\ o \in Operation /\ o.kind = op[p].kind /\ o.closures = op[p].closures
      /\ o.closureToRun = next
  BY <1>2 DEF Operation
<1>4. thread[k] = "ready"
  BY <1>1, <1>2 DEF IInv, Closures
<1>5. \A i \in DOMAIN o.closures : i > o.closureToRun => o.closures[i] # k
  <2> SUFFICES ASSUME NEW i \in DOMAIN op[p].closures, i > next
               PROVE  op[p].closures[i] # k
    BY <1>3
  <2>1. i # next
    BY <1>2
  <2> QED
    BY <1>1, <2>1 DEF IInv, Tree
<1>6. ps \in Seq(Proc) /\ Range(ps) \subseteq {p} /\ "none" \in Failures
  BY DEF Range, Failures
<1>7. \A c \in Chan : attachIn[c] # p /\ attachOut[c] # p
  BY DEF IInv, Attached, WaitsIn, OffersOn, ParKinds, Spawning
<1>8. o.kind \notin ChannelKinds \cup {"CPPOUT"} /\ ~Fresh(o)
  BY <1>3 DEF ParKinds, Spawning, ChannelKinds, Fresh
<1>9. /\ o.closureToRun <= Len(o.closures) /\ o.closureToRun >= op[p].closureToRun
      /\ NoArgs \in Val \cup {NoArgs} /\ thread[k] \in {"ready", "null"}
  BY <1>2, <1>3, <1>4
<1> HIDE DEF o, k, ps, next
<1> QED
  BY <1>1, <1>2, <1>3, <1>5, <1>6, <1>7, <1>8, <1>9, StartStep

(* PAR is evaluated. *)
LEMMA EvalParStep ==
  ASSUME IInv, NEW p \in Proc, EvalPar(p)
  PROVE  IInv'
<1>1. Evaluating(p) /\ op[p].kind = "PAR" /\ op[p].kind \in Spawning
  BY DEF EvalPar, ParKinds, Spawning
<1>2. CASE StartClosure(p)
  BY <1>1, <1>2, StartClosureStep
<1>3. CASE CheckFinished(p) /\ FinishOperation(p, NoResult) /\ UNCHANGED chanVars
  <2>1. \A k \in Children(p) : op[k].kind = "none"
    BY <1>3 DEF CheckFinished, IsRunning
  <2>2. \A c \in Chan : attachIn[c] # p /\ attachOut[c] # p
    BY <1>1 DEF IInv, Attached, WaitsIn, OffersOn
  <2>3. NoResult \in Result
    BY TypeFacts DEF IInv
  <2> QED
    BY <1>1, <1>3, <2>1, <2>2, <2>3, FinishStep
<1>4. CASE KeepWaiting /\ UNCHANGED chanVars
  BY <1>1, <1>4, KeepWaitingStep
<1> QED
  BY <1>2, <1>3, <1>4 DEF EvalPar

(* The processes below p are those that end with its operation. *)
LEMMA DescendantsFacts ==
  ASSUME IInv, NEW p \in Proc
  PROVE  /\ Descendants(p) \in SUBSET Proc /\ Main \notin Descendants(p)
         /\ Children(p) \subseteq Descendants(p)
         /\ \A q \in Descendants(p) : Children(q) \subseteq Descendants(p)
         /\ \A q \in Proc, k \in Descendants(p) :
              k \in Children(q) => q = p \/ q \in Descendants(p)
<1>1. \A q \in Proc : Children(q) \subseteq Proc \ {Main} /\ Children(q) \subseteq Proc
  BY TypeFacts DEF IInv, Tree
<1>2. ASSUME NEW q \in Proc, NEW k \in Descendants(p), k \in Children(q)
      PROVE  q = p \/ q \in Descendants(p)
  <2>1. \A r \in Proc : k \in Children(r) => r = q
    BY <1>2 DEF IInv, Tree, Children, Range
  <2> QED
    BY <1>1, <1>2, <2>1, DescendantsParent
<1> QED
  BY <1>1, <1>2, DescendantsClosed, DescendantsNotMain

(* The processes of S are detached; those that change otherwise wait for nothing. *)
LEMMA DetachAllFacts ==
  ASSUME IInv, NEW S \in SUBSET Proc, DetachAll(S),
         \A q \in Proc : \/ q \notin S /\ op'[q] = op[q]
                         \/ /\ op'[q].kind = "none"
                            /\ \/ q \in S
                               \/ op[q].kind \in ParKinds
  PROVE  ChannelTypeOK' /\ Attached'
<1>1. ChannelTypeOK'
  BY DEF DetachAll, IInv, TypeOK, ChannelTypeOK
<1>2. ASSUME NEW c \in Chan, NEW q \in Proc
      PROVE  /\ attachIn'[c] = q => WaitsIn(q, c)'
             /\ attachOut'[c] = q <=> OffersOn(q, c)'
  <2>1. /\ attachIn'[c] = q => q \notin S /\ WaitsIn(q, c)
        /\ attachOut'[c] = q <=> q \notin S /\ OffersOn(q, c)
    BY ProcessAssumption DEF DetachAll, IInv, Attached
  <2>2. CASE q \notin S /\ op'[q] = op[q]
    BY <2>1, <2>2 DEF WaitsIn, OffersOn, CasesFor
  <2>3. CASE op'[q].kind = "none" /\ (q \in S \/ op[q].kind \in ParKinds)
    BY <2>1, <2>3 DEF WaitsIn, OffersOn, ParKinds, Spawning
  <2> QED
    BY <2>2, <2>3
<1> QED
  BY <1>1, <1>2 DEF Attached

(* PARWHILE ends: all below it leaves the stack, the channels and the tree. *)
LEMMA EndParWhileStep ==
  ASSUME IInv, NEW p \in Proc, Evaluating(p), op[p].kind = "PARWHILE", EndParWhile(p)
  PROVE  IInv'
<1> DEFINE gone == Descendants(p)
           removed == {q \in gone : PoppedFlags[q]}
           stk == Without(Popped, removed)
<1>1. Resume(p, NoResult, gone, stk, PoppedFlags) /\ DetachAll(gone)
  BY DEF EndParWhile
<1>2. /\ gone \in SUBSET Proc /\ Main \notin gone /\ Children(p) \subseteq gone
      /\ \A q \in gone : Children(q) \subseteq gone
      /\ \A q \in Proc, k \in gone : k \in Children(q) => q = p \/ q \in gone
  BY DescendantsFacts
<1>3. /\ stk \in Seq(Proc) /\ Injective(stk) /\ Range(stk) = Range(Popped) \ gone
  <2>1. Popped \in Seq(Proc) /\ StackFlags(Popped, PoppedFlags)
    BY EvaluatingFacts
  <2>2. Injective(Popped)
    BY <2>1 DEF StackFlags
  <2>3. stk \in Seq(Proc) /\ Injective(stk) /\ Range(stk) = Range(Popped) \ removed
    BY <2>1, <2>2, WithoutRemoves
  <2>4. Range(Popped) \ removed = Range(Popped) \ gone
    BY <2>1, <1>2 DEF StackFlags
  <2> QED
    BY <2>3, <2>4
<1> HIDE DEF gone, stk
<1>4. ChannelTypeOK' /\ Attached'
  <2>1. \A q \in Proc : op'[q] = IF q = p \/ q \in gone THEN NoOp ELSE op[q]
    BY <1>1 DEF Resume
  <2>2. NoOp.kind = "none" /\ op[p].kind \in ParKinds
    BY DEF NoOp, ParKinds, Spawning
  <2>3. \A q \in Proc : \/ q \notin gone /\ op'[q] = op[q]
                        \/ /\ op'[q].kind = "none"
                           /\ q \in gone \/ op[q].kind \in ParKinds
    BY <2>1, <2>2
  <2> QED
    BY <1>1, <1>2, <2>3, DetachAllFacts
<1>5. NoResult \in Result
  BY TypeFacts DEF IInv
<1> QED
  BY <1>1, <1>2, <1>3, <1>4, <1>5, ResumeStep

(* PARWHILE is evaluated. *)
LEMMA EvalParWhileStep ==
  ASSUME IInv, NEW p \in Proc, EvalParWhile(p)
  PROVE  IInv'
<1>1. Evaluating(p) /\ op[p].kind = "PARWHILE" /\ op[p].kind \in Spawning
  BY DEF EvalParWhile, ParKinds, Spawning
<1>2. CASE op[p].closures = <<>> /\ FinishOperation(p, NoResult) /\ UNCHANGED chanVars
  <2>1. Children(p) = {}
    BY <1>2 DEF Children, Range
  <2>2. \A c \in Chan : attachIn[c] # p /\ attachOut[c] # p
    BY <1>1 DEF IInv, Attached, WaitsIn, OffersOn
  <2>3. NoResult \in Result
    BY TypeFacts DEF IInv
  <2> QED
    BY <1>1, <1>2, <2>1, <2>2, <2>3, FinishStep
<1>3. CASE EndParWhile(p)
  BY <1>1, <1>3, EndParWhileStep
<1>4. CASE StartClosure(p)
  BY <1>1, <1>4, StartClosureStep
<1>5. CASE KeepWaiting /\ UNCHANGED chanVars
  BY <1>1, <1>5, KeepWaitingStep
<1> QED
  BY <1>2, <1>3, <1>4, <1>5 DEF EvalParWhile

(* An ALT that has not started its closure has one that does nothing. *)
LEMMA FreshClosure ==
  ASSUME IInv, NEW p \in Proc, op[p].kind = "ALT"
  PROVE  /\ Closure(p) \in Proc /\ Children(p) = {Closure(p)}
         /\ Fresh(op[p]) => thread[Closure(p)] = "null" /\ op[Closure(p)].kind = "none"
<1>1. Len(op[p].closures) = 1 /\ op[p].closures \in Seq(Proc)
      /\ DOMAIN op[p].closures = 1 .. 1
  BY TypeFacts DEF IInv, Closures
<1>2. DOMAIN op[p].closures = {1} /\ Closure(p) \in Proc
  BY <1>1 DEF Closure
<1>3. Children(p) = {Closure(p)}
  BY <1>2 DEF Children, Range, Closure
<1>4. Fresh(op[p]) => thread[Closure(p)] = "null" /\ op[Closure(p)].kind = "none"
  BY <1>2 DEF IInv, Closures, InOperation
<1> QED
  BY <1>2, <1>3, <1>4

(* An ALT that is not triggered is evaluated. *)
LEMMA SelectChannelStep ==
  ASSUME IInv, NEW p \in Proc, Evaluating(p), op[p].kind = "ALT",
         op[p].caseTriggered = 0, SelectChannel(p)
  PROVE  IInv'
<1> DEFINE o == op[p]
           first == FirstOf(Ready(o))
<1>1. /\ o.cases \in Seq(AltCase) /\ Len(o.cases) \in Nat
      /\ DOMAIN o.cases = 1 .. Len(o.cases)
      /\ \A i \in DOMAIN o.cases : o.cases[i] \in AltCase
  <2>1. o.cases \in Seq(AltCase)
    BY DEF IInv, TypeOK, ProcessTypeOK, Operation
  <2> QED
    BY <2>1, LenProperties, ElementOfSeq
<1>2. Ready(o) # {} => first \in Nat /\ first \in Ready(o)
  <2>1. Ready(o) \in SUBSET Nat
    BY <1>1 DEF Ready
  <2> QED
    BY <2>1, FirstOfIsLeast
<1>3. work \in Seq(Proc) /\ dt \in Nat /\ time \in Nat
  BY DEF IInv, TypeOK, ProcessTypeOK
<1>4. CASE Ready(o) # {} /\ Trigger(p, first, Popped, PoppedFlags) /\ UNCHANGED hostVars
  BY <1>2, <1>3, <1>4, EvaluatingFacts, TriggerStep DEF hostVars
<1>5. CASE /\ Ready(o) # {} /\ first # o.nilCase
           /\ Communicate(o.cases[first].channel, p)
           /\ UNCHANGED <<thread, parent, running, result, hostVars, isClosed>>
  <2>1. o.cases[first].channel \in Chan /\ OutAttached(o.cases[first].channel)
    BY <1>1, <1>2, <1>5 DEF Ready, AltCase
  <2> QED
    BY <1>5, <2>1, CommunicateStep
<1>6. CASE AllCasesClosed(o) /\ FinishOperation(p, NoResult) /\ UNCHANGED chanVars
  <2>1. \A k \in Children(p) : op[k].kind = "none"
    BY FreshClosure DEF Fresh
  <2>2. \A c \in Chan : CasesFor(o, c) = {}
    BY <1>6, ProcessAssumption DEF AllCasesClosed, CasesFor
  <2>3. \A c \in Chan : attachIn[c] # p /\ attachOut[c] # p
    BY <2>2 DEF IInv, Attached, WaitsIn, OffersOn
  <2>4. NoResult \in Result
    BY TypeFacts DEF IInv
  <2> QED
    BY <1>6, <2>1, <2>3, <2>4, FinishStep
<1>7. CASE KeepWaiting /\ UNCHANGED chanVars
  BY <1>7, KeepWaitingStep
<1> QED
  BY <1>4, <1>5, <1>6, <1>7 DEF SelectChannel

(* A triggered ALT starts its closure, which was not started before. *)
LEMMA StartTriggeredStep ==
  ASSUME IInv, NEW p \in Proc, Evaluating(p), op[p].kind = "ALT",
         op[p].caseTriggered # 0, op[p].argumentsMoved, StartTriggered(p)
  PROVE  IInv'
<1> DEFINE cases == [i \in DOMAIN op[p].cases |->
                       [op[p].cases[i] EXCEPT !.channel = NoChan, !.closure = FALSE]]
           o == Started(op[p])
           asserted == IF op[p].cases[op[p].caseTriggered].closure THEN "none"
                       ELSE "no_closure"
<1>1. /\ StartEvaluation(p, o, Closure(p), op[p].arguments, <<>>, asserted)
      /\ UNCHANGED chanVars
  BY DEF StartTriggered
<1>2. op[p] \in Operation /\ op[p].arguments \in Val \cup {NoArgs}
  BY DEF IInv, TypeOK, ProcessTypeOK, Operation
<1>3. cases \in Seq(AltCase)
  <2>1. op[p].cases \in Seq(AltCase)
    BY <1>2 DEF Operation
  <2>2. /\ Len(op[p].cases) \in Nat /\ DOMAIN op[p].cases = 1 .. Len(op[p].cases)
        /\ \A i \in DOMAIN op[p].cases : op[p].cases[i] \in AltCase
    BY <2>1, LenProperties, ElementOfSeq
  <2>3. cases \in [1 .. Len(op[p].cases) -> AltCase]
    BY <2>2 DEF AltCase
  <2> HIDE DEF cases
  <2> QED
    BY <2>2, <2>3, SeqDef
<1> HIDE DEF cases
<1>4. /\ o \in Operation /\ o.kind = "ALT" /\ o.closures = op[p].closures
      /\ o.closureToRun = op[p].closureToRun /\ ~o.argumentsMoved
      /\ o.caseTriggered = op[p].caseTriggered
  BY <1>2, <1>3 DEF Operation, Started, Unreferenced, cases
<1>5. /\ o.kind \notin Spawning /\ o.kind \notin ChannelKinds /\ ~Fresh(o)
  BY <1>4 DEF ParKinds, Spawning, ChannelKinds, Fresh
<1>6. /\ Closure(p) \in Proc /\ Closure(p) \in Children(p) /\ thread[Closure(p)] = "null"
  BY FreshClosure DEF Fresh
<1>7. /\ <<>> \in Seq(Proc) /\ Range(<<>>) \subseteq {p} /\ asserted \in Failures
  BY DEF Range, Failures
<1>8. \A c \in Chan : attachIn[c] # p /\ attachOut[c] # p
  BY DEF IInv, Attached, WaitsIn, OffersOn
<1>9. /\ o.closureToRun <= Len(o.closures) /\ o.closureToRun >= op[p].closureToRun
  <2>1. op[p].closureToRun \in Nat /\ op[p].closureToRun <= Len(op[p].closures)
    BY <1>2 DEF Operation, IInv, Closures
  <2> QED
    BY <2>1, <1>4
<1> HIDE DEF o, asserted
<1> QED
  BY <1>1, <1>2, <1>4, <1>5, <1>6, <1>7, <1>8, <1>9, StartStep

(* ALT is evaluated. *)
LEMMA EvalAltStep ==
  ASSUME IInv, NEW p \in Proc, EvalAlt(p)
  PROVE  IInv'
<1>1. Evaluating(p) /\ op[p].kind = "ALT"
  BY DEF EvalAlt
<1>2. CASE op[p].caseTriggered = 0 /\ SelectChannel(p)
  BY <1>1, <1>2, SelectChannelStep
<1>3. CASE op[p].caseTriggered # 0 /\ op[p].argumentsMoved /\ StartTriggered(p)
  BY <1>1, <1>3, StartTriggeredStep
<1>4. CASE KeepWaiting /\ UNCHANGED chanVars
  BY <1>1, <1>4, KeepWaitingStep
<1>5. CASE /\ op[p].caseTriggered # 0 /\ ~IsRunning(Closure(p))
           /\ FinishOperation(p, NoResult) /\ UNCHANGED chanVars
  <2>1. \A k \in Children(p) : op[k].kind = "none"
    BY <1>1, <1>5, FreshClosure DEF IsRunning
  <2>2. \A c \in Chan : attachIn[c] # p /\ attachOut[c] # p
    BY <1>1, <1>5 DEF IInv, Attached, WaitsIn, OffersOn
  <2>3. NoResult \in Result
    BY TypeFacts DEF IInv
  <2> QED
    BY <1>1, <1>5, <2>1, <2>2, <2>3, FinishStep
<1> QED
  BY <1>2, <1>3, <1>4, <1>5 DEF EvalAlt

----------------------------------------------------------------------------
(***************************************************************************)
(* Close, the steps of the host and Process::Work.                         *)
(***************************************************************************)
(* What closing a channel does to the operation that waits for its input. *)
LEMMA CloseInputFacts ==
  ASSUME IInv, NEW c \in Chan, NEW in \in Proc, attachIn[c] = in
  PROVE  /\ CloseInput(op[in], c) \in Operation
         /\ CloseInput(op[in], c).kind = op[in].kind
         /\ op[in].kind \in {"IN", "RANGE", "ALT"}
         /\ CloseInput(op[in], c).closures = op[in].closures
         /\ CloseInput(op[in], c).closureToRun = op[in].closureToRun
         /\ CloseInput(op[in], c).channel = op[in].channel
         /\ Fresh(CloseInput(op[in], c)) => Fresh(op[in])
         /\ \A d \in Chan \ {c} :
              /\ op[in].kind # "ALT" => op[in].channel # d
              /\ op[in].kind = "ALT" /\ CasesFor(op[in], d) # {} =>
                   CasesFor(CloseInput(op[in], c), d) # {}
         /\ CloseInput(op[in], c).caseTriggered = op[in].caseTriggered
<1> DEFINE o == op[in]
<1>1. WaitsIn(in, c) /\ o \in Operation
  BY DEF IInv, Attached, TypeOK, ProcessTypeOK
<1>2. CASE o.kind = "ALT"
  <2> DEFINE i == FindCaseForChannel(o, c)
             closed == [o.cases[i] EXCEPT !.channel = NoChan, !.closure = FALSE]
             cases == [o.cases EXCEPT ![i] = closed]
  <2>1. /\ o.cases \in Seq(AltCase) /\ Len(o.cases) \in Nat
        /\ DOMAIN o.cases = 1 .. Len(o.cases)
        /\ \A j \in DOMAIN o.cases : o.cases[j] \in AltCase
    <3>1. o.cases \in Seq(AltCase)
      BY <1>1 DEF Operation
    <3> QED
      BY <3>1, LenProperties, ElementOfSeq
  <2>2. i \in DOMAIN o.cases /\ o.cases[i].channel = c
    <3>1. CasesFor(o, c) # {} /\ CasesFor(o, c) \in SUBSET Nat
      BY <1>1, <1>2, <2>1 DEF WaitsIn, CasesFor
    <3>2. i \in CasesFor(o, c)
      BY <3>1, FirstOfIsLeast DEF FindCaseForChannel
    <3> QED
      BY <3>2 DEF CasesFor
  <2>3. CloseInput(o, c) = [o EXCEPT !.cases = cases]
    BY <1>1, <1>2 DEF CloseInput, CloseCase, Operation
  <2> HIDE DEF i
  <2>4. closed \in AltCase
    BY <2>1, <2>2 DEF AltCase
  <2> HIDE DEF closed
  <2>5. cases \in Seq(AltCase) /\ DOMAIN cases = DOMAIN o.cases
    <3>1. cases \in [1 .. Len(o.cases) -> AltCase] /\ DOMAIN cases = DOMAIN o.cases
      BY <2>1, <2>2, <2>4
    <3> HIDE DEF cases
    <3> QED
      BY <2>1, <3>1, SeqDef
  <2>6. \A j \in DOMAIN o.cases \ {i} : cases[j] = o.cases[j]
    BY <2>1
  <2>7. \A d \in Chan \ {c} : CasesFor(o, d) # {} => CasesFor(CloseInput(o, c), d) # {}
    <3> SUFFICES ASSUME NEW d \in Chan \ {c}, NEW j \in CasesFor(o, d)
                 PROVE  j \in CasesFor(CloseInput(o, c), d)
      OBVIOUS
    <3>1. j \in DOMAIN o.cases \ {i} /\ o.cases[j].channel = d
      BY <2>2 DEF CasesFor
    <3>2. CloseInput(o, c).cases = cases
      BY <1>1, <2>3 DEF Operation
    <3> QED
      BY <3>1, <3>2, <2>5, <2>6 DEF CasesFor
  <2> HIDE DEF cases
  <2>8. /\ CloseInput(o, c) \in Operation
        /\ CloseInput(o, c).kind = o.kind /\ CloseInput(o, c).closures = o.closures
        /\ CloseInput(o, c).closureToRun = o.closureToRun
        /\ CloseInput(o, c).channel = o.channel
        /\ CloseInput(o, c).caseTriggered = o.caseTriggered
        /\ CloseInput(o, c).argumentsMoved = o.argumentsMoved
    BY <1>1, <2>3, <2>5 DEF Operation
  <2> QED
    BY <1>2, <2>7, <2>8 DEF Fresh
<1>3. CASE o.kind # "ALT"
  <2>1. o.kind \in {"IN", "RANGE"} /\ o.channel = c
    BY <1>1, <1>3 DEF WaitsIn
  <2>2. /\ CloseInput(o, c) \in Operation
        /\ CloseInput(o, c).kind = o.kind /\ CloseInput(o, c).closures = o.closures
        /\ CloseInput(o, c).closureToRun = o.closureToRun
        /\ CloseInput(o, c).channel = o.channel
        /\ CloseInput(o, c).caseTriggered = o.caseTriggered
    BY <1>1, <1>3 DEF CloseInput, CloseArguments, Operation
  <2> QED
    BY <2>1, <2>2 DEF Fresh
<1> QED
  BY <1>2, <1>3

(* A channel is closed: both ends are detached and pushed. *)
LEMMA CloseStep ==
  ASSUME IInv, NEW p \in Proc, Close(p)
  PROVE  IInv'
<1> USE DEF IInv
<1>1. PICK c \in Chan :
        /\ isClosed' = [isClosed EXCEPT ![c] = TRUE]
        /\ PushEvalSteps("none", stack, isOnStack,
                         (IF attachIn[c] = NoProc THEN <<>> ELSE <<attachIn[c]>>) \o
                         (IF attachOut[c] = NoProc THEN <<>> ELSE <<attachOut[c]>>))
        /\ op' = [q \in Proc |-> IF q = attachIn[c] THEN CloseInput(op[q], c)
                                 ELSE IF q = attachOut[c] THEN CloseArguments(op[q])
                                 ELSE op[q]]
        /\ attachIn' = [attachIn EXCEPT ![c] = NoProc]
        /\ attachOut' = [attachOut EXCEPT ![c] = NoProc]
  BY DEF Close
<1> DEFINE in == attachIn[c]
           out == attachOut[c]
           ps == (IF in = NoProc THEN <<>> ELSE <<in>>) \o
                 (IF out = NoProc THEN <<>> ELSE <<out>>)
<1>2. UNCHANGED <<thread, parent, running, result>> /\ UNCHANGED <<work, dt, time>>
  BY DEF Close, hostVars
<1>3. /\ in \in Proc \cup {NoProc} /\ out \in Proc \cup {NoProc}
      /\ in \in Proc => WaitsIn(in, c)
      /\ out \in Proc => OffersOn(out, c)
  BY DEF TypeOK, ChannelTypeOK, Attached
<1>4. ps \in Seq(Proc) /\ \A q \in Range(ps) : op[q].kind # "none"
  <2> DEFINE first  == IF in = NoProc THEN <<>> ELSE <<in>>
             second == IF out = NoProc THEN <<>> ELSE <<out>>
  <2>1. first \in Seq(Proc) /\ \A q \in Range(first) : op[q].kind # "none"
    BY <1>3 DEF Range, WaitsIn
  <2>2. second \in Seq(Proc) /\ \A q \in Range(second) : op[q].kind # "none"
    BY <1>3 DEF Range, OffersOn
  <2> HIDE DEF first, second
  <2>3. first \o second \in Seq(Proc) /\ Range(first \o second) = Range(first) \cup Range(second)
    BY <2>1, <2>2, ConcatProperties, RangeConcatenation
  <2> QED
    BY <2>1, <2>2, <2>3 DEF first, second
<1>5. \A q \in Proc :
        /\ op'[q] \in Operation
        /\ op'[q].kind = op[q].kind
        /\ op'[q].closures = op[q].closures
        /\ op'[q].closureToRun = op[q].closureToRun
        /\ op'[q].channel = op[q].channel
        /\ Fresh(op'[q]) => Fresh(op[q])
  <2> TAKE q \in Proc
  <2>1. CASE q = in
    BY <2>1, <1>1, CloseInputFacts
  <2>2. CASE q # in /\ q = out
    <3>1. /\ op'[q] = CloseArguments(op[q]) /\ op[q] \in Operation
          /\ op[q].kind \in {"OUT", "CPPOUT"}
      BY <2>2, <1>1, <1>3 DEF TypeOK, ProcessTypeOK, OffersOn
    <3> QED
      BY <3>1, CloseArgumentsFacts DEF Fresh
  <2>3. CASE q # in /\ q # out
    BY <2>3, <1>1 DEF TypeOK, ProcessTypeOK
  <2> QED
    BY <2>1, <2>2, <2>3
<1>6. op' \in [Proc -> Operation]
  BY <1>1, <1>5
<1>7. ChannelTypeOK'
  BY <1>1 DEF TypeOK, ChannelTypeOK
<1>8. Attached'
  <2> SUFFICES ASSUME NEW d \in Chan, NEW q \in Proc
               PROVE  /\ attachIn'[d] = q => WaitsIn(q, d)'
                      /\ attachOut'[d] = q <=> OffersOn(q, d)'
    BY DEF Attached
  <2>1. /\ attachIn'[d] = q => d # c /\ WaitsIn(q, d)
        /\ attachOut'[d] = q <=> d # c /\ OffersOn(q, d)
    BY <1>1, ProcessAssumption DEF TypeOK, ChannelTypeOK, Attached
  <2>2. CASE q = in
    <3>1. op'[q] = CloseInput(op[q], c) /\ attachIn[c] = q
      BY <2>2, <1>1
    <3>2. attachIn'[d] = q => WaitsIn(q, d)'
      BY <2>1, <3>1, CloseInputFacts DEF WaitsIn
    <3>3. ~OffersOn(q, d) /\ ~OffersOn(q, d)'
      BY <3>1, CloseInputFacts DEF OffersOn
    <3> QED
      BY <2>1, <3>2, <3>3
  <2>3. CASE q # in /\ q = out
    <3>1. /\ op'[q] = CloseArguments(op[q]) /\ op[q] \in Operation
          /\ op[q].kind \in {"OUT", "CPPOUT"} /\ op[q].channel = c
      BY <2>3, <1>1, <1>3 DEF TypeOK, ProcessTypeOK, OffersOn
    <3>2. /\ op'[q].kind \in {"OUT", "CPPOUT"} /\ op'[q].argumentsMoved
          /\ op'[q].arguments = NoArgs
      BY <3>1, CloseArgumentsFacts
    <3> QED
      BY <2>1, <3>1, <3>2 DEF WaitsIn, OffersOn
  <2>4. CASE q # in /\ q # out
    <3>1. op'[q] = op[q] /\ ~OffersOn(q, c)
      BY <2>4, <1>1 DEF Attached
    <3> QED
      BY <2>1, <3>1 DEF WaitsIn, OffersOn, CasesFor
  <2> QED
    BY <2>2, <2>3, <2>4
<1>9. /\ stack \in Seq(Proc) /\ isOnStack \in [Proc -> BOOLEAN]
      /\ StackFlags(stack, isOnStack) /\ "none" \in Failures
      /\ work' \in Seq(Proc) /\ dt' \in Nat /\ time' \in Nat
      /\ PushEvalSteps("none", stack, isOnStack, ps)
  BY <1>1, <1>2 DEF TypeOK, ProcessTypeOK, StackConsistent, StackFlags, Failures
<1> HIDE DEF ps, in, out
<1> QED
  BY <1>2, <1>4, <1>5, <1>6, <1>7, <1>8, <1>9, PushStep

(* The operations, the channels and the stack stay as they are. *)
LEMMA HostVarsStep ==
  ASSUME IInv, UNCHANGED <<parent, op, stack, isOnStack, chanVars>>,
         UNCHANGED <<thread, running>>, TypeOK'
  PROVE  IInv'
<1>1. StackFlags(stack', isOnStack') /\ \A q \in Range(stack') : op[q].kind # "none"
  BY DEF IInv, StackConsistent, StackFlags
<1> QED
  BY <1>1, AttachedKept, FieldStep

(* An assertion stops the program; nothing else changes. *)
LEMMA BusyStep ==
  ASSUME IInv, NEW p \in Proc, Busy(p)
  PROVE  IInv'
<1>1. TypeOK'
  BY DEF IInv, Busy, hostVars, chanVars, TypeOK, ProcessTypeOK, ChannelTypeOK, Failures
<1> QED
  BY <1>1, HostVarsStep DEF Busy

(* The main process starts. *)
LEMMA HostMainStep ==
  ASSUME IInv, HostMain, UNCHANGED chanVars
  PROVE  IInv'
<1> USE DEF IInv
<1>1. /\ thread[Main] = "ready" /\ thread' = [thread EXCEPT ![Main] = "running"]
      /\ running' = Main
      /\ UNCHANGED <<parent, op, stack, isOnStack, result, work, dt, time, failed>>
  BY DEF HostMain, hostVars
<1>2. TypeOK'
  BY <1>1, ProcessAssumption
     DEF TypeOK, ProcessTypeOK, ChannelTypeOK, chanVars, ThreadStatus
<1>3. \A q \in Proc : Children(q)' = Children(q) /\ Closure(q)' = Closure(q)
  BY <1>1 DEF Children, Closure
<1>4. \A q \in Proc \ {Main} : thread'[q] = thread[q]
  BY <1>1 DEF TypeOK, ProcessTypeOK
<1>5. thread'[Main] = "running"
  BY <1>1, ProcessAssumption DEF TypeOK, ProcessTypeOK
<1>6. InOperation' /\ Runs' /\ Parents'
  <2>1. op[Main].kind = "none"
    BY <1>1, ProcessAssumption DEF InOperation
  <2>2. InOperation'
    BY <2>1, <1>1, <1>4 DEF InOperation
  <2>3. Runs'
    BY <1>1, <1>5 DEF Runs
  <2>4. Parents'
    <3>1. \A k \in Proc : parent[k] # NoProc => parent[k] \in Proc
      BY DEF TypeOK, ProcessTypeOK
    <3> QED
      BY <3>1, <1>1, <1>3 DEF Parents
  <2> QED
    BY <2>2, <2>3, <2>4
<1>7. \A q \in Proc : \A k \in Children(q) : k \in Proc /\ thread'[k] = thread[k]
  BY <1>4, TypeFacts DEF Tree
<1>8. Tree'
  BY <1>1, <1>3, <1>5, <1>7 DEF Tree
<1>9. Closures'
  <2>1. \A q \in Proc : \A i \in DOMAIN op[q].closures :
          thread'[op[q].closures[i]] = thread[op[q].closures[i]]
    BY <1>7, TypeFacts
  <2>2. \A q \in Proc : Fresh(op[q]) => thread'[Closure(q)] = thread[Closure(q)]
    BY <1>7, FreshClosure DEF Fresh
  <2> QED
    BY <1>1, <1>3, <2>1, <2>2 DEF Closures
<1>10. StackConsistent'
  <2>1. Range(stack) \subseteq Proc
    BY RangeOfSeq DEF TypeOK, ProcessTypeOK
  <2> QED
    BY <2>1, <1>1, <1>4 DEF StackConsistent
<1>11. OnChannel' /\ Attached'
  BY <1>1, AttachedKept DEF OnChannel
<1> QED
  BY <1>2, <1>6, <1>8, <1>9, <1>10, <1>11

(* A call of Host::Work begins. *)
LEMMA HostWorkStep ==
  ASSUME IInv, HostWork, UNCHANGED chanVars
  PROVE  IInv'
<1>1. PICK d \in Ticks : /\ dt' = d
                         /\ time' = IF time + d > MaxTime THEN MaxTime ELSE time + d
  BY DEF HostWork
<1>2. dt' \in Nat /\ time' \in Nat
  <2>1. d \in Nat /\ MaxTime \in Nat /\ time \in Nat
    BY ProcessAssumption DEF IInv, TypeOK, ProcessTypeOK
  <2> QED
    BY <2>1, <1>1
<1>3. work' \in Seq(Proc)
  BY ProcessAssumption DEF HostWork
<1>4. TypeOK'
  BY <1>2, <1>3 DEF IInv, HostWork, chanVars, TypeOK, ProcessTypeOK, ChannelTypeOK
<1> QED
  BY <1>4, HostVarsStep DEF HostWork

(* The main process is terminated, with all below it. *)
LEMMA TerminateMainStep ==
  ASSUME IInv, TerminateMain
  PROVE  IInv'
<1> USE DEF IInv
<1> DEFINE gone == Descendants(Main)
<1>1. /\ stack = <<>> /\ running = NoProc /\ op[Main].kind # "none"
      /\ op' = [q \in Proc |-> IF q = Main \/ q \in gone THEN NoOp ELSE op[q]]
      /\ thread' = [q \in Proc |-> IF q \in gone THEN "free" ELSE thread[q]]
      /\ parent' = [q \in Proc |-> IF q \in gone THEN NoProc ELSE parent[q]]
      /\ isOnStack' = [q \in Proc |-> isOnStack[q] /\ q \notin gone]
      /\ DetachAll(gone \cup {Main})
      /\ UNCHANGED <<stack, running, result, work, dt, time, failed>>
  BY DEF TerminateMain, Idle, hostVars
<1>2. /\ gone \in SUBSET Proc /\ Main \notin gone /\ Children(Main) \subseteq gone
      /\ \A q \in gone : Children(q) \subseteq gone
      /\ \A q \in Proc, k \in gone : k \in Children(q) => q = Main \/ q \in gone
      /\ Main \in Proc
  BY DescendantsFacts, ProcessAssumption
<1> HIDE DEF gone
<1>3. /\ thread[Main] = "yield" /\ thread'[Main] = "yield"
      /\ \A q \in Proc \ {Main} : thread'[q] = IF q \in gone THEN "free" ELSE thread[q]
  BY <1>1, <1>2 DEF InOperation
<1>4. ChannelTypeOK' /\ Attached'
  <2>1. \A q \in Proc : \/ q \notin gone \cup {Main} /\ op'[q] = op[q]
                        \/ /\ op'[q].kind = "none"
                           /\ q \in gone \cup {Main} \/ op[q].kind \in ParKinds
    BY <1>1 DEF NoOp
  <2>2. gone \cup {Main} \in SUBSET Proc
    BY <1>2
  <2> QED
    BY <1>1, <2>1, <2>2, DetachAllFacts
<1>5. TypeOK'
  <2>1. thread' \in [Proc -> ThreadStatus] /\ parent' \in [Proc -> Proc \cup {NoProc}]
    BY <1>1 DEF TypeOK, ProcessTypeOK, ThreadStatus
  <2>2. op' \in [Proc -> Operation]
    BY <1>1, TypeFacts DEF TypeOK, ProcessTypeOK
  <2>3. isOnStack' \in [Proc -> BOOLEAN]
    BY <1>1
  <2> QED
    BY <1>1, <1>4, <2>1, <2>2, <2>3 DEF TypeOK, ProcessTypeOK
<1>6. StackFlags(stack', isOnStack') /\ Range(stack') \subseteq Range(stack) \ ({Main} \cup gone)
  <2>1. Range(stack) = {}
    BY <1>1 DEF Range
  <2> QED
    BY <2>1, <1>1 DEF StackConsistent, StackFlags
<1>7. running' = NoProc
  BY <1>1
<1> QED
  BY <1>1, <1>2, <1>3, <1>4, <1>5, <1>6, <1>7, DestroyStep

(* The call of Process::Work that is made next, and those after it. *)
LEMMA WorkingFacts ==
  ASSUME IInv, NEW p \in Proc, Working(p)
  PROVE  Tail(work) \in Seq(Proc) /\ dt \in Nat /\ time \in Nat
<1>1. work \in Seq(Proc) /\ work # <<>> /\ dt \in Nat /\ time \in Nat
  BY DEF IInv, TypeOK, ProcessTypeOK, Working
<1> QED
  BY <1>1, HeadTailProperties

(* SLEEP is told the delta time. *)
LEMMA WorkSleepStep ==
  ASSUME IInv, NEW p \in Proc, WorkSleep(p), UNCHANGED chanVars
  PROVE  IInv'
<1> USE DEF IInv
<1> DEFINE left == op[p].seconds - dt
           ps == IF left <= 0 THEN <<p>> ELSE <<>>
           o == [op[p] EXCEPT !.seconds = left, !.finished = (left <= 0)]
<1>1. /\ Working(p) /\ op[p].kind = "SLEEP"
      /\ op' = [op EXCEPT ![p].seconds = left, ![p].finished = (left <= 0)]
      /\ PushEvalSteps("none", stack, isOnStack, ps)
      /\ work' = Tail(work)
      /\ UNCHANGED <<thread, parent, running, result>> /\ UNCHANGED <<dt, time>>
  BY DEF WorkSleep
<1>2. work' \in Seq(Proc) /\ dt' \in Nat /\ time' \in Nat
  BY <1>1, WorkingFacts
<1>3. op[p] \in Operation /\ op \in [Proc -> Operation] /\ left \in Int
  <2>1. op[p] \in Operation /\ op \in [Proc -> Operation] /\ dt \in Nat
    BY DEF TypeOK, ProcessTypeOK
  <2>2. op[p].seconds \in Int
    BY <2>1 DEF Operation
  <2> QED
    BY <2>1, <2>2
<1>4. op' = [op EXCEPT ![p] = o]
  BY <1>1, <1>3
<1>5. ps \in Seq(Proc) /\ \A q \in Range(ps) : op[q].kind # "none"
  BY <1>1 DEF Range
<1> HIDE DEF left, ps
<1>6. /\ o \in Operation /\ o.kind = op[p].kind /\ o.closures = op[p].closures
      /\ o.closureToRun = op[p].closureToRun /\ o.channel = op[p].channel
  <2>1. (left <= 0) \in BOOLEAN
    OBVIOUS
  <2> QED
    BY <1>3, <2>1 DEF Operation
<1> HIDE DEF o
<1>7. op' \in [Proc -> Operation]
  BY <1>3, <1>4, <1>6
<1>8. \A q \in Proc : /\ op'[q].kind = op[q].kind
                      /\ op'[q].closures = op[q].closures
                      /\ op'[q].closureToRun = op[q].closureToRun
                      /\ op'[q].channel = op[q].channel
                      /\ Fresh(op'[q]) => Fresh(op[q])
  BY <1>1, <1>3, <1>4, <1>6 DEF Fresh
<1>9. ChannelTypeOK'
  BY DEF TypeOK, ChannelTypeOK, chanVars
<1>10. Attached'
  <2> SUFFICES ASSUME NEW d \in Chan, NEW q \in Proc
               PROVE  /\ attachIn'[d] = q => WaitsIn(q, d)'
                      /\ attachOut'[d] = q <=> OffersOn(q, d)'
    BY DEF Attached
  <2>1. CASE q = p
    <3>1. op[p].kind = "SLEEP" /\ op'[p].kind = "SLEEP"
      BY <1>1, <1>8
    <3>2. ~WaitsIn(p, d) /\ ~OffersOn(p, d) /\ ~WaitsIn(p, d)' /\ ~OffersOn(p, d)'
      BY <3>1 DEF WaitsIn, OffersOn
    <3>3. attachIn' = attachIn /\ attachOut' = attachOut
      BY DEF chanVars
    <3>4. attachIn[d] # p /\ attachOut[d] # p
      BY <3>2 DEF Attached
    <3> QED
      BY <2>1, <3>2, <3>3, <3>4
  <2>2. CASE q # p
    BY <2>2, <1>3, <1>4 DEF Attached, WaitsIn, OffersOn, CasesFor, chanVars
  <2> QED
    BY <2>1, <2>2
<1>11. /\ stack \in Seq(Proc) /\ isOnStack \in [Proc -> BOOLEAN]
       /\ StackFlags(stack, isOnStack) /\ "none" \in Failures
  BY DEF TypeOK, ProcessTypeOK, StackConsistent, StackFlags, Failures
<1> QED
  BY <1>1, <1>2, <1>5, <1>7, <1>8, <1>9, <1>10, <1>11, PushStep

(* Process::Work that only decides whose Work is called next. *)
LEMMA PassOnStep ==
  ASSUME IInv, work' \in Seq(Proc),
         UNCHANGED <<thread, parent, op, stack, isOnStack, running, result,
                     dt, time, failed, chanVars>>
  PROVE  IInv'
<1>1. TypeOK'
  BY DEF IInv, chanVars, TypeOK, ProcessTypeOK, ChannelTypeOK
<1> QED
  BY <1>1, HostVarsStep

(* The other operations ignore the delta time. *)
LEMMA WorkNothingStep ==
  ASSUME IInv, NEW p \in Proc, WorkNothing(p), UNCHANGED chanVars
  PROVE  IInv'
<1>1. work' \in Seq(Proc)
  BY WorkingFacts DEF WorkNothing
<1> QED
  BY <1>1, PassOnStep DEF WorkNothing

(* PAR and PARWHILE hand the delta time to their closures. *)
LEMMA WorkParStep ==
  ASSUME IInv, NEW p \in Proc, WorkPar(p)
  PROVE  IInv'
<1>1. op[p].closures \in Seq(Proc) /\ op[p].closureToRun \in 0 .. Len(op[p].closures)
  <2>1. op[p].closureToRun \in Nat /\ op[p].closureToRun <= Len(op[p].closures)
    BY DEF IInv, TypeOK, ProcessTypeOK, Operation, Closures
  <2> QED
    BY <2>1, TypeFacts DEF IInv
<1>2. LastToFirst(p) \in Seq(Proc)
  BY <1>1, LastToFirstType
<1>3. work' \in Seq(Proc)
  BY <1>2, WorkingFacts, ConcatProperties DEF WorkPar
<1> QED
  BY <1>3, PassOnStep DEF WorkPar

(* ALT is told the delta time: it hands it on or is triggered by a time. *)
LEMMA WorkAltStep ==
  ASSUME IInv, NEW p \in Proc, WorkAlt(p)
  PROVE  IInv'
<1> DEFINE o == op[p]
<1>1. /\ Working(p) /\ o.kind = "ALT" /\ UNCHANGED <<dt, time>>
      /\ o \in Operation
      /\ Tail(work) \in Seq(Proc) /\ dt' \in Nat /\ time' \in Nat
  BY WorkingFacts DEF WorkAlt, IInv, TypeOK, ProcessTypeOK
<1>2. CASE /\ work' = IF IsRunning(Closure(p)) THEN <<Closure(p)>> \o Tail(work)
                                               ELSE Tail(work)
           /\ UNCHANGED <<thread, parent, op, stack, isOnStack, running, result,
                          failed, chanVars>>
  <2>1. <<Closure(p)>> \in Seq(Proc)
    BY <1>1, FreshClosure
  <2>2. work' \in Seq(Proc)
    BY <1>1, <1>2, <2>1, ConcatProperties
  <2> QED
    BY <1>1, <1>2, <2>2, PassOnStep
<1>3. CASE /\ o.caseTriggered = 0 /\ Expired(o) # {}
           /\ Trigger(p, Earliest(o), stack, isOnStack)
           /\ work' = Tail(work)
  <2>1. Earliest(o) \in DOMAIN o.cases
    BY <1>1, <1>3, EarliestIsExpired DEF Expired
  <2>2. Earliest(o) \in Nat
    <3>1. o.cases \in Seq(AltCase)
      BY <1>1 DEF Operation
    <3> QED
      BY <2>1, <3>1, LenProperties
  <2>3. /\ stack \in Seq(Proc) /\ isOnStack \in [Proc -> BOOLEAN]
        /\ StackFlags(stack, isOnStack)
    BY DEF IInv, TypeOK, ProcessTypeOK, StackConsistent, StackFlags
  <2> QED
    BY <1>1, <1>3, <2>2, <2>3, TriggerStep
<1>4. CASE /\ work' = Tail(work)
           /\ UNCHANGED <<thread, parent, op, stack, isOnStack, running, result,
                          failed, chanVars>>
  BY <1>1, <1>4, PassOnStep
<1> QED
  BY <1>2, <1>3, <1>4 DEF WorkAlt

----------------------------------------------------------------------------
(***************************************************************************)
(* The invariant holds in the initial state and is preserved by each step. *)
(***************************************************************************)
LEMMA InitIInv == Init => IInv
<1> SUFFICES ASSUME Init PROVE IInv
  OBVIOUS
<1> USE DEF Init
<1>1. /\ thread = [p \in Proc |-> IF p = Main THEN "ready" ELSE "free"]
      /\ parent = [p \in Proc |-> NoProc]
      /\ op = [p \in Proc |-> NoOp]
      /\ stack = <<>> /\ isOnStack = [p \in Proc |-> FALSE]
      /\ running = NoProc
      /\ attachIn = [c \in Chan |-> NoProc] /\ attachOut = [c \in Chan |-> NoProc]
  BY DEF ProcessInit, ChannelInit
<1>2. /\ NoOp \in Operation /\ NoResult \in Result
      /\ NoOp.kind = "none" /\ NoOp.closures = <<>> /\ NoOp.closureToRun = 0
  BY EmptySeq DEF NoOp, Operation, OpKinds, NoResult, Result
<1>3. TypeOK
  <2>1. thread \in [Proc -> ThreadStatus] /\ op \in [Proc -> Operation]
    BY <1>1, <1>2 DEF ThreadStatus
  <2>2. ProcessTypeOK
    BY <2>1, <1>2, EmptySeq DEF ProcessTypeOK, ProcessInit, Failures
  <2>3. ChannelTypeOK
    BY DEF ChannelTypeOK, ChannelInit
  <2> QED
    BY <2>2, <2>3 DEF TypeOK
<1>4. StackConsistent
  BY <1>1 DEF StackConsistent, Injective, Range
<1>5. InOperation /\ Runs /\ Parents /\ OnChannel
  BY <1>1, <1>2 DEF InOperation, Runs, Parents, OnChannel, ChannelKinds
<1>6. Tree
  <2>1. \A p \in Proc : op[p].closures = <<>> /\ Children(p) = {}
    BY <1>1, <1>2 DEF Children, Range
  <2> QED
    BY <1>1, <2>1, ProcessAssumption DEF Tree
<1>7. Closures
  <2>1. \A p \in Proc : /\ op[p].kind = "none" /\ op[p].closures = <<>>
                        /\ op[p].closureToRun = 0
    BY <1>1, <1>2
  <2>2. \A p \in Proc : Len(op[p].closures) = 0
    BY <2>1
  <2>3. \A p \in Proc : ~Fresh(op[p]) /\ op[p].kind # "ALT" /\ op[p].kind \notin ParKinds
    BY <2>1 DEF Fresh, ParKinds, Spawning
  <2> QED
    BY <2>1, <2>2, <2>3 DEF Closures
<1>8. Attached
  BY <1>1, <1>2, ProcessAssumption DEF Attached, WaitsIn, OffersOn
<1> QED
  BY <1>3, <1>4, <1>5, <1>6, <1>7, <1>8 DEF IInv

(* No step of the program, of the evaluator or of the host breaks the invariant. *)
LEMMA NextIInv == IInv /\ [Next]_vars => IInv'
<1> SUFFICES ASSUME IInv, [Next]_vars PROVE IInv'
  OBVIOUS
<1>1. CASE HostMain /\ UNCHANGED chanVars
  BY <1>1, HostMainStep
<1>2. CASE HostWork /\ UNCHANGED chanVars
  BY <1>2, HostWorkStep
<1>3. CASE TerminateMain
  BY <1>3, TerminateMainStep
<1>4. ASSUME NEW p \in Proc, LuaStep(p) PROVE IInv'
  <2>1. CASE Return(p) /\ UNCHANGED chanVars
    BY <2>1, EndStep DEF Return, InLua
  <2>2. CASE LuaError(p) /\ UNCHANGED chanVars
    BY <2>2, EndStep DEF LuaError, InLua
  <2>3. CASE Sleep(p) /\ UNCHANGED chanVars
    BY <2>3, SleepStep
  <2>4. ASSUME NEW kind \in {"IN", "RANGE"}, In(p, kind) PROVE IInv'
    BY <2>4, InStep
  <2>5. CASE Out(p)
    BY <2>5, OutStep
  <2>6. CASE Busy(p)
    BY <2>6, BusyStep
  <2>7. CASE Close(p)
    BY <2>7, CloseStep
  <2>8. ASSUME NEW kind \in ParKinds, ParInit(p, kind) PROVE IInv'
    BY <2>8, ParInitStep
  <2>9. CASE AltInit(p)
    BY <2>9, AltInitStep
  <2> QED
    BY <1>4, <2>1, <2>2, <2>3, <2>4, <2>5, <2>6, <2>7, <2>8, <2>9
       DEF LuaStep, ProcessCall, ChannelCall, ParCall
<1>5. ASSUME NEW p \in Proc, EvaluateStep(p) PROVE IInv'
  <2>1. CASE EvalSleep(p) /\ UNCHANGED chanVars
    BY <2>1, EvalSleepStep
  <2>2. CASE EvalIn(p)
    BY <2>2, EvalInStep
  <2>3. CASE EvalOut(p)
    BY <2>3, EvalOutStep
  <2>4. CASE EvalPar(p)
    BY <2>4, EvalParStep
  <2>5. CASE EvalParWhile(p)
    BY <2>5, EvalParWhileStep
  <2>6. CASE EvalAlt(p)
    BY <2>6, EvalAltStep
  <2> QED
    BY <1>5, <2>1, <2>2, <2>3, <2>4, <2>5, <2>6
       DEF EvaluateStep, ProcessEvaluate, ChannelEvaluate, ParEvaluate
<1>6. ASSUME NEW p \in Proc, WorkStep(p) PROVE IInv'
  <2>1. CASE WorkSleep(p) /\ UNCHANGED chanVars
    BY <2>1, WorkSleepStep
  <2>2. CASE WorkNothing(p) /\ UNCHANGED chanVars
    BY <2>2, WorkNothingStep
  <2>3. CASE WorkPar(p)
    BY <2>3, WorkParStep
  <2>4. CASE WorkAlt(p)
    BY <2>4, WorkAltStep
  <2> QED
    BY <1>6, <2>1, <2>2, <2>3, <2>4 DEF WorkStep, ProcessWork
<1>7. CASE UNCHANGED vars
  <2>1. UNCHANGED <<parent, op, stack, isOnStack, chanVars>> /\ UNCHANGED <<thread, running>>
    BY <1>7 DEF vars, procVars
  <2>2. TypeOK'
    BY <1>7 DEF vars, procVars, chanVars, IInv, TypeOK, ProcessTypeOK, ChannelTypeOK
  <2> QED
    BY <2>1, <2>2, HostVarsStep
<1> QED
  BY <1>1, <1>2, <1>3, <1>4, <1>5, <1>6, <1>7 DEF Next

(* IInv is an invariant of LuaCSP, whatever the program and the sizes are. *)
THEOREM Inductive == Spec => []IInv
<1>1. Init => IInv
  BY InitIInv
<1>2. IInv /\ [Next]_vars => IInv'
  BY NextIInv
<1> QED
  BY <1>1, <1>2, PTL DEF Spec

(* Every variable has its type: no operation leaves a record of another one behind. *)
THEOREM TypeCorrect == Spec => []TypeOK
<1>1. IInv => TypeOK
  BY DEF IInv
<1> QED
  BY <1>1, Inductive, PTL

(***************************************************************************)
(* The flags agree with the stack, no process is on it twice, and all that *)
(* is on it is blocked in an operation: Host::Evaluate resumes no          *)
(* coroutine that has ended, whatever the Lua programs call and however    *)
(* PARWHILE, ALT and TerminateMain take processes away.                    *)
(***************************************************************************)
THEOREM StackIsConsistent == Spec => []StackConsistent
<1>1. IInv => StackConsistent
  BY DEF IInv
<1> QED
  BY <1>1, Inductive, PTL
=============================================================================
