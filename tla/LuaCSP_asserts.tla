--------------------------- MODULE LuaCSP_asserts ---------------------------
(***************************************************************************)
(* The assertions of the debug build.  For every size, no CORE_ASSERT of   *)
(* the evaluator fails in a program that keeps to one reader and one       *)
(* writer of a channel, that does not close channels if it uses ALT, and   *)
(* that has no more processes than the stack has entries.  Each of these   *)
(* rules is needed: a second reader or writer stops the debug build, and   *)
(* so do closing two channels of one ALT in a row and more wake-ups in a   *)
(* tick than the stack has entries.                                        *)
(***************************************************************************)
EXTENDS LuaCSP_refinement

KeepsTheRules ==
  /\ "busy" \notin Calls
  /\ ~({"ALT", "close"} \subseteq Calls)
  /\ Cardinality(Proc) <= StackSize

(* p waits for a partner on a channel. *)
Awaits(p) == \E c \in Chan : WaitsIn(p, c) \/ OffersOn(p, c)

(***************************************************************************)
(* Who waits for a partner is not on the stack, so that the partner may    *)
(* push it; but for the moment between the call and its first evaluation.  *)
(***************************************************************************)
WaitersRest == \A p \in Range(stack) : Awaits(p) => Evaluating(p)

(***************************************************************************)
(* An ALT that has not started its closure has all of them, and what       *)
(* triggered it is one of its cases.                                       *)
(***************************************************************************)
IntactAlt(o) ==
  o.kind = "ALT" =>
    /\ "ALT" \in Calls
    /\ Fresh(o) => /\ o.caseTriggered \in {0} \cup DOMAIN o.cases
                   /\ \A i \in DOMAIN o.cases : o.cases[i].closure

Intact == \A p \in Proc : IntactAlt(op[p])

(***************************************************************************)
(* The subtrees that the delta time has still to be handed to have nothing *)
(* in common, and none of their processes has been woken yet: each is met  *)
(* once, so none is pushed twice.                                          *)
(***************************************************************************)
Under(p) == {p} \cup Descendants(p)

Disjoint ==
  /\ Injective(work)
  /\ \A p, q \in Range(work) : p # q => Under(p) \cap Under(q) = {}

Apart ==
  /\ Disjoint
  /\ \A p \in Range(work) : Under(p) \cap Range(stack) = {}

AInv == failed = "none" /\ WaitersRest /\ Intact /\ Apart

----------------------------------------------------------------------------
(* Pushing processes that are not on the stack runs into no assertion. *)
LEMMA PushesFit ==
  ASSUME Cardinality(Proc) <= StackSize,
         NEW stk \in Seq(Proc), NEW flags, StackFlags(stk, flags),
         NEW ps \in Seq(Proc), Injective(ps), Range(ps) \cap Range(stk) = {}
  PROVE  PushError(stk, flags, ps) = "none"
<1>1. /\ DOMAIN stk = 1 .. Len(stk) /\ Len(stk) \in Nat
      /\ DOMAIN ps = 1 .. Len(ps) /\ Len(ps) \in Nat
      /\ \A i \in DOMAIN stk : stk[i] \in Range(stk) /\ stk[i] \in Proc
      /\ \A i \in DOMAIN ps : ps[i] \in Range(ps) /\ ps[i] \in Proc
  BY LenProperties, ElementOfSeq DEF Range
<1>2. ~\E i \in DOMAIN ps : flags[ps[i]]
  BY <1>1 DEF StackFlags
<1>3. ~\E i, j \in DOMAIN ps : i # j /\ ps[i] = ps[j]
  BY DEF Injective
<1> DEFINE n == Len(stk) + Len(ps)
           both == [i \in 1 .. n |-> IF i <= Len(stk) THEN stk[i] ELSE ps[i - Len(stk)]]
<1>4. n \in Nat
  BY <1>1
<1>5. both \in [1 .. n -> Proc]
  BY <1>1
<1>6. \A i, j \in 1 .. n : both[i] = both[j] => i = j
  <2> SUFFICES ASSUME NEW i \in 1 .. n, NEW j \in 1 .. n, both[i] = both[j] PROVE i = j
    OBVIOUS
  <2>1. \A k \in 1 .. n : IF k <= Len(stk)
                          THEN k \in DOMAIN stk /\ both[k] = stk[k] /\ both[k] \in Range(stk)
                          ELSE /\ k - Len(stk) \in DOMAIN ps /\ both[k] = ps[k - Len(stk)]
                               /\ both[k] \in Range(ps)
    BY <1>1
  <2>2. i <= Len(stk) <=> j <= Len(stk)
    BY <2>1
  <2>3. CASE i <= Len(stk)
    BY <2>1, <2>2, <2>3 DEF StackFlags, Injective
  <2>4. CASE ~(i <= Len(stk))
    <3>1. i - Len(stk) = j - Len(stk)
      BY <2>1, <2>2, <2>4 DEF Injective
    <3> QED
      BY <3>1, <1>1
  <2> QED
    BY <2>3, <2>4
<1> HIDE DEF n, both
<1>7. both \in Injection(1 .. n, Proc)
  BY <1>5, <1>6 DEF Injection, IsInjective
<1>8. Cardinality(1 .. n) <= Cardinality(Proc) /\ Cardinality(1 .. n) = n
  BY <1>4, <1>7, FS_Injection, FS_Interval, ProcessAssumption
<1>9. Cardinality(Proc) \in Nat
  BY ProcessAssumption, FS_CardinalityType
<1>10. ~(Len(stk) + Len(ps) > StackSize)
  BY <1>1, <1>8, <1>9, ProcessAssumption DEF n
<1> QED
  BY <1>2, <1>3, <1>10 DEF PushError

(* The subtrees of siblings have nothing in common. *)
LEMMA SiblingsApart ==
  ASSUME IInv, Rooted, NEW p \in Proc, NEW k \in Children(p), NEW l \in Children(p), k # l
  PROVE  Under(k) \cap Under(l) = {}
<1>0. /\ k \in Proc /\ l \in Proc /\ thread[k] # "free" /\ thread[l] # "free"
      /\ \A q, r \in Proc : \A m \in Children(q) : m \in Children(r) => q = r
  BY ChildFacts
<1>1. /\ Descendants(k) \in SUBSET Proc /\ Descendants(l) \in SUBSET Proc
      /\ Children(k) \subseteq Descendants(k)
      /\ \A q \in Descendants(k) : Children(q) \subseteq Descendants(k)
      /\ \A q \in Proc, m \in Descendants(k) :
           m \in Children(q) => q = k \/ q \in Descendants(k)
      /\ \A q \in Proc, m \in Descendants(l) :
           m \in Children(q) => q = l \/ q \in Descendants(l)
      /\ Children(l) \subseteq Descendants(l)
      /\ \A q \in Descendants(l) : Children(q) \subseteq Descendants(l)
  BY <1>0, DescendantsFacts
<1>2. k \notin Descendants(k) /\ l \notin Descendants(l)
  BY <1>0, NotBelowItself
<1>3. p \notin Under(l) /\ p \notin Under(k)
  BY <1>1, <1>2 DEF Under
<1>4. k \notin Under(l) /\ l \notin Under(k)
  BY <1>0, <1>1, <1>3 DEF Under
<1> DEFINE S == Descendants(k) \ Under(l)
<1>5. ASSUME NEW q \in Under(k), NEW m \in Children(q), m \in Under(l) PROVE q \in Under(l)
  <2>1. q \in Proc
    BY <1>0, <1>1 DEF Under
  <2>2. CASE m = l
    BY <2>1, <2>2, <1>0, <1>3, <1>5
  <2>3. CASE m \in Descendants(l)
    BY <2>1, <2>3, <1>1, <1>5 DEF Under
  <2> QED
    BY <2>2, <2>3, <1>5 DEF Under
<1>6. /\ S \in SUBSET Proc /\ Children(k) \subseteq S
      /\ \A q \in S : Children(q) \subseteq S
  BY <1>1, <1>4, <1>5 DEF Under
<1> HIDE DEF S
<1>7. Descendants(k) \subseteq S
  BY <1>6 DEF Descendants, Closed
<1> QED
  BY <1>4, <1>7 DEF S, Under

(* The subtree of a closure is part of that of the process. *)
LEMMA UnderChild ==
  ASSUME IInv, NEW p \in Proc, NEW k \in Children(p)
  PROVE  Under(k) \subseteq Under(p)
<1>1. /\ k \in Proc /\ Descendants(p) \in SUBSET Proc
      /\ Children(p) \subseteq Descendants(p)
      /\ \A q \in Descendants(p) : Children(q) \subseteq Descendants(p)
  BY ChildFacts, DescendantsFacts
<1>2. Descendants(k) \subseteq Descendants(p)
  BY <1>1 DEF Descendants, Closed
<1> QED
  BY <1>1, <1>2 DEF Under

(* Only closures make subtrees. *)
LEMMA UnderKept ==
  ASSUME \A q \in Proc : op'[q].closures = op[q].closures, NEW p \in Proc
  PROVE  Under(p)' = Under(p)
<1>1. \A q \in Proc : Children(q)' = Children(q)
  BY DEF Children
<1>2. Descendants(p)' = Descendants(p)
  BY <1>1 DEF Descendants, Closed
<1> QED
  BY <1>2 DEF Under

----------------------------------------------------------------------------
(***************************************************************************)
(* Who waits for a partner and is on the stack is the process that is      *)
(* evaluated next.                                                         *)
(***************************************************************************)
LEMMA NobodyWaits ==
  ASSUME WaitersRest, running # NoProc \/ work # <<>>, NEW q \in Range(stack), q \in Proc
  PROVE  ~Awaits(q)
<1> QED
  BY DEF WaitersRest, Evaluating

LEMMA NobodyWaitsBelow ==
  ASSUME IInv, WaitersRest, NEW p \in Proc, Evaluating(p), NEW q \in Range(Popped)
  PROVE  q # p /\ ~Awaits(q)
<1>1. stack \in Seq(Proc) /\ StackFlags(stack, isOnStack) /\ stack # <<>> /\ p = Last(stack)
      /\ isOnStack \in [Proc -> BOOLEAN]
  BY DEF IInv, TypeOK, ProcessTypeOK, StackConsistent, StackFlags, Evaluating
<1>2. Range(Popped) = Range(stack) \ {p}
  BY <1>1, PopKeepsFlags
<1> QED
  BY <1>2 DEF WaitersRest, Evaluating

(* Whether p waits depends on its operation only. *)
LEMMA AwaitsKept ==
  ASSUME NEW p, op'[p] = op[p]
  PROVE  Awaits(p)' <=> Awaits(p)
<1> QED
  BY DEF Awaits, WaitsIn, OffersOn, CasesFor

(* No other operation waits for a partner. *)
LEMMA AwaitsKinds ==
  ASSUME NEW p, Awaits(p)
  PROVE  /\ op[p].kind \in {"IN", "RANGE", "OUT", "ALT", "CPPOUT"}
         /\ op[p].kind = "ALT" => op[p].caseTriggered = 0
         /\ op[p].kind \in {"IN", "RANGE", "OUT"} => ~op[p].argumentsMoved
<1> QED
  BY DEF Awaits, WaitsIn, OffersOn

----------------------------------------------------------------------------
(* A step after which no delta time is being handed down. *)
LEMMA QuietStep ==
  ASSUME failed' = "none", work' = <<>>,
         \A q \in Range(stack') : Awaits(q)' => Evaluating(q)',
         \A q \in Proc : IntactAlt(op'[q])
  PROVE  AInv'
<1>1. Apart'
  BY DEF Apart, Disjoint, Injective, Range
<1>2. WaitersRest'
  BY DEF WaitersRest
<1>3. Intact'
  BY DEF Intact, IntactAlt, Fresh
<1> QED
  BY <1>1, <1>2, <1>3 DEF AInv

(* A process without an operation begins one. *)
LEMMA CallAsserts ==
  ASSUME KeepsTheRules, IInv, Turns, AInv, NEW p \in Proc, NEW o, Begins(p, o)
  PROVE  AInv'
<1>0. /\ running = p /\ running # NoProc /\ work = <<>> /\ running' = NoProc /\ work' = work
      /\ stack \in Seq(Proc) /\ StackFlags(stack, isOnStack)
      /\ op \in [Proc -> Operation] /\ op' = [op EXCEPT ![p] = o]
      /\ PushEvalSteps("none", stack, isOnStack, <<p>>)
  BY ProcessAssumption
     DEF Begins, Yield, hostVars, IInv, TypeOK, ProcessTypeOK, StackConsistent, StackFlags, Turns
<1>1. p \notin Range(stack)
  <2>1. thread[p] = "running"
    BY <1>0, RunningFacts
  <2> QED
    BY <2>1 DEF IInv, StackConsistent
<1>2. <<p>> \in Seq(Proc) /\ Injective(<<p>>) /\ Range(<<p>>) = {p} /\ <<p>> # <<>> /\ Len(<<p>>) = 1
  BY DEF Injective, Range
<1>3. PushError(stack, isOnStack, <<p>>) = "none"
  BY <1>0, <1>1, <1>2, PushesFit DEF KeepsTheRules
<1>4. failed' = "none" /\ stack' = stack \o <<p>>
  BY <1>0, <1>3 DEF PushEvalSteps
<1>5. stack' # <<>> /\ Last(stack') = p /\ Range(stack') = Range(stack) \cup {p}
  <2>1. stack' # <<>> /\ Last(stack') = <<p>>[Len(<<p>>)]
    BY <1>0, <1>2, <1>4, LastPushed
  <2>2. <<p>>[Len(<<p>>)] = p
    OBVIOUS
  <2>3. PICK ps \in Seq(Proc) : ps = <<p>>
    BY <1>2
  <2>4. Range(ps) = {p} /\ stack' = stack \o ps
    BY <1>2, <1>4, <2>3
  <2>5. Range(stack') = Range(stack) \cup Range(ps)
    BY <1>0, <2>4, RangeConcatenation
  <2> QED
    BY <2>1, <2>2, <2>4, <2>5
<1>6. \A q \in Range(stack') : Awaits(q)' => Evaluating(q)'
  <2> SUFFICES ASSUME NEW q \in Range(stack'), q # p, Awaits(q)' PROVE FALSE
    BY <1>0, <1>4, <1>5 DEF Evaluating
  <2>1. q \in Range(stack) /\ q \in Proc
    BY <1>0, <1>5 DEF Range
  <2>2. op'[q] = op[q]
    BY <1>0, <2>1
  <2> QED
    BY <1>0, <2>1, <2>2, AwaitsKept, NobodyWaits DEF AInv
<1>7. \A q \in Proc : IntactAlt(op'[q])
  <2>1. IntactAlt(o)
    BY DEF Begins, IntactAlt, Fresh
  <2> QED
    BY <1>0, <2>1 DEF AInv, Intact
<1> QED
  BY <1>0, <1>4, <1>6, <1>7, QuietStep

(* The pushes of a step succeed. *)
LEMMA PushesSucceed ==
  ASSUME KeepsTheRules, NEW stk \in Seq(Proc), NEW flags, StackFlags(stk, flags),
         NEW ps \in Seq(Proc), Injective(ps), Range(ps) \cap Range(stk) = {},
         PushEvalSteps("none", stk, flags, ps)
  PROVE  failed' = "none" /\ stack' = stk \o ps /\ Range(stack') = Range(stk) \cup Range(ps)
<1>1. PushError(stk, flags, ps) = "none"
  BY PushesFit DEF KeepsTheRules
<1>2. failed' = "none" /\ stack' = stk \o ps
  BY <1>1 DEF PushEvalSteps
<1> QED
  BY <1>2, RangeConcatenation

(* One process is pushed, none, or two. *)
LEMMA OnePushed ==
  ASSUME NEW q \in Proc
  PROVE  <<q>> \in Seq(Proc) /\ Injective(<<q>>) /\ Range(<<q>>) = {q}
<1> QED
  BY DEF Injective, Range

LEMMA NonePushed == <<>> \in Seq(Proc) /\ Injective(<<>>) /\ Range(<<>>) = {}
<1> QED
  BY DEF Injective, Range

LEMMA TwoPushed ==
  ASSUME NEW q \in Proc, NEW r \in Proc, q # r
  PROVE  /\ <<q>> \o <<r>> \in Seq(Proc) /\ Injective(<<q>> \o <<r>>)
         /\ Range(<<q>> \o <<r>>) = {q, r}
<1>1. /\ <<q>> \o <<r>> \in Seq(Proc) /\ Len(<<q>> \o <<r>>) = 2
      /\ (<<q>> \o <<r>>)[1] = q /\ (<<q>> \o <<r>>)[2] = r
  BY ConcatProperties
<1>2. DOMAIN (<<q>> \o <<r>>) = 1 .. 2
  BY <1>1, LenProperties
<1>3. Injective(<<q>> \o <<r>>)
  <2> SUFFICES ASSUME NEW i \in 1 .. 2, NEW j \in 1 .. 2, i # j
               PROVE  (<<q>> \o <<r>>)[i] # (<<q>> \o <<r>>)[j]
    BY <1>2 DEF Injective
  <2>1. (i = 1 /\ j = 2) \/ (i = 2 /\ j = 1)
    OBVIOUS
  <2> QED
    BY <1>1, <2>1
<1>4. Range(<<q>> \o <<r>>) = {q, r}
  <2> DEFINE s == <<q>> \o <<r>>
  <2>1. DOMAIN s = 1 .. 2 /\ s[1] = q /\ s[2] = r
    BY <1>1, <1>2
  <2> HIDE DEF s
  <2>2. Range(s) = {s[i] : i \in 1 .. 2}
    BY <2>1 DEF Range
  <2>3. {s[i] : i \in 1 .. 2} = {s[1], s[2]}
    OBVIOUS
  <2> QED
    BY <2>1, <2>2, <2>3 DEF s
<1> QED
  BY <1>1, <1>3, <1>4

(* The coroutine of p ends; its parent does not wait for a partner. *)
LEMMA EndAsserts ==
  ASSUME KeepsTheRules, IInv, Turns, AInv, NEW p \in Proc, running = p,
         NEW status, End(p, status)
  PROVE  AInv'
<1> DEFINE ps == ParentToWake(p)
<1>0. /\ running # NoProc /\ work = <<>> /\ work' = work /\ op' = op
      /\ stack \in Seq(Proc) /\ StackFlags(stack, isOnStack)
      /\ PushEvalSteps("none", stack, isOnStack, ps)
      /\ thread[p] = "running" /\ parent[p] \in Proc \cup {NoProc}
  BY ProcessAssumption, RunningFacts
     DEF End, hostVars, IInv, TypeOK, ProcessTypeOK, StackConsistent, StackFlags, Turns
<1>1. CASE ps = <<>>
  <2>1. ps \in Seq(Proc) /\ Injective(ps) /\ Range(ps) = {}
    BY <1>1 DEF Injective, Range
  <2> HIDE DEF ps
  <2>2. failed' = "none" /\ Range(stack') = Range(stack)
    BY <1>0, <2>1, PushesSucceed
  <2>3. \A q \in Range(stack') : Awaits(q)' => Evaluating(q)'
    <3> SUFFICES ASSUME NEW q \in Range(stack) PROVE ~Awaits(q)'
      BY <2>2
    <3>1. q \in Proc /\ op'[q] = op[q]
      BY <1>0 DEF Range
    <3> QED
      BY <1>0, <3>1, AwaitsKept, NobodyWaits DEF AInv
  <2> QED
    BY <1>0, <2>2, <2>3, QuietStep DEF AInv, Intact
<1>2. CASE parent[p] \in Proc /\ ~isOnStack[parent[p]] /\ ps = <<parent[p]>>
  <2>0. PICK r \in Proc : r = parent[p]
    BY <1>2
  <2>1. ps \in Seq(Proc) /\ Injective(ps) /\ Range(ps) = {r} /\ r \notin Range(stack)
    BY <1>0, <1>2, <2>0 DEF Injective, Range, StackFlags
  <2>2. ~Awaits(r)
    <3>1. p \in Children(r)
      BY <2>0, ProcessAssumption DEF IInv, Parents
    <3>2. op[r].kind \in Spawning \cup {"ALT"}
      BY <3>1, NoClosures DEF IInv
    <3>3. op[r].kind = "ALT" => op[r].caseTriggered # 0
      BY <1>0, <3>1, FreshClosure DEF Fresh
    <3> QED
      BY <3>2, <3>3, AwaitsKinds DEF Spawning, ParKinds
  <2> HIDE DEF ps
  <2>3. failed' = "none" /\ Range(stack') = Range(stack) \cup {r}
    BY <1>0, <2>1, PushesSucceed
  <2>4. \A q \in Range(stack') : Awaits(q)' => Evaluating(q)'
    <3> SUFFICES ASSUME NEW q \in Range(stack) \cup {r} PROVE ~Awaits(q)'
      BY <2>3
    <3>1. q \in Proc /\ op'[q] = op[q]
      BY <1>0 DEF Range
    <3> QED
      BY <1>0, <2>2, <3>1, AwaitsKept, NobodyWaits DEF AInv
  <2> QED
    BY <1>0, <2>3, <2>4, QuietStep DEF AInv, Intact
<1> QED
  BY <1>0, <1>1, <1>2 DEF ParentToWake

(* A channel is closed: who waits on it is not on the stack. *)
LEMMA CloseAsserts ==
  ASSUME KeepsTheRules, IInv, Turns, AInv, NEW p \in Proc, Close(p)
  PROVE  AInv'
<1>0. /\ running # NoProc /\ work = <<>> /\ work' = work
      /\ stack \in Seq(Proc) /\ StackFlags(stack, isOnStack)
      /\ op \in [Proc -> Operation]
  BY ProcessAssumption
     DEF Close, InLua, hostVars, IInv, TypeOK, ProcessTypeOK, StackConsistent, StackFlags, Turns
<1>1. \A q \in Proc : op[q].kind # "ALT"
  BY DEF Close, InLua, KeepsTheRules, AInv, Intact, IntactAlt
<1>2. PICK c \in Chan :
        /\ PushEvalSteps("none", stack, isOnStack,
                         (IF attachIn[c] = NoProc THEN <<>> ELSE <<attachIn[c]>>) \o
                         (IF attachOut[c] = NoProc THEN <<>> ELSE <<attachOut[c]>>))
        /\ op' = [q \in Proc |-> IF q = attachIn[c] THEN CloseInput(op[q], c)
                                 ELSE IF q = attachOut[c] THEN CloseArguments(op[q])
                                 ELSE op[q]]
  BY DEF Close
<1> DEFINE ps == (IF attachIn[c] = NoProc THEN <<>> ELSE <<attachIn[c]>>) \o
                 (IF attachOut[c] = NoProc THEN <<>> ELSE <<attachOut[c]>>)
<1>3. attachIn[c] \in Proc \cup {NoProc} /\ attachOut[c] \in Proc \cup {NoProc}
  BY DEF IInv, TypeOK, ChannelTypeOK
<1>4. /\ attachIn[c] \in Proc => Awaits(attachIn[c]) /\ op[attachIn[c]].kind \in {"IN", "RANGE"}
      /\ attachOut[c] \in Proc => Awaits(attachOut[c]) /\ op[attachOut[c]].kind \in {"OUT", "CPPOUT"}
  <2>1. ASSUME NEW q \in Proc, attachIn[c] = q
        PROVE  Awaits(q) /\ op[q].kind \in {"IN", "RANGE"}
    BY <2>1, <1>1 DEF IInv, Attached, Awaits, WaitsIn
  <2>2. ASSUME NEW q \in Proc, attachOut[c] = q PROVE Awaits(q) /\ op[q].kind \in {"OUT", "CPPOUT"}
    BY <2>2 DEF IInv, Attached, Awaits, OffersOn
  <2> QED
    BY <2>1, <2>2
<1>5. \A q \in Range(stack) : q # attachIn[c] /\ q # attachOut[c] /\ q \in Proc /\ ~Awaits(q)
  <2> SUFFICES ASSUME NEW q \in Range(stack)
               PROVE  q # attachIn[c] /\ q # attachOut[c] /\ q \in Proc /\ ~Awaits(q)
    OBVIOUS
  <2>1. q \in Proc
    BY <1>0 DEF Range
  <2>2. ~Awaits(q)
    BY <1>0, <2>1, NobodyWaits DEF AInv
  <2> QED
    BY <2>1, <2>2, <1>4
<1>6. /\ ps \in Seq(Proc) /\ Injective(ps)
      /\ Range(ps) = {attachIn[c], attachOut[c]} \ {NoProc}
  <2>1. CASE attachIn[c] = NoProc /\ attachOut[c] = NoProc
    <3>1. ps = <<>>
      BY <2>1
    <3> QED
      BY <2>1, <3>1 DEF Injective, Range
  <2>2. CASE attachIn[c] \in Proc /\ attachOut[c] = NoProc
    <3>1. ps = <<attachIn[c]>>
      BY <2>2, ProcessAssumption
    <3> QED
      BY <2>2, <3>1, ProcessAssumption DEF Injective, Range
  <2>3. CASE attachIn[c] = NoProc /\ attachOut[c] \in Proc
    <3>1. ps = <<attachOut[c]>>
      BY <2>3, ProcessAssumption
    <3> QED
      BY <2>3, <3>1, ProcessAssumption DEF Injective, Range
  <2>4. CASE attachIn[c] \in Proc /\ attachOut[c] \in Proc
    <3>1. ps = <<attachIn[c]>> \o <<attachOut[c]>>
      BY <2>4, ProcessAssumption
    <3>2. attachIn[c] # attachOut[c] /\ attachIn[c] # NoProc /\ attachOut[c] # NoProc
      BY <2>4, <1>4, ProcessAssumption
    <3> QED
      BY <2>4, <3>1, <3>2, TwoPushed
  <2> QED
    BY <1>3, <2>1, <2>2, <2>3, <2>4
<1> HIDE DEF ps
<1>7. failed' = "none" /\ Range(stack') = Range(stack) \cup ({attachIn[c], attachOut[c]} \ {NoProc})
  <2>1. PushEvalSteps("none", stack, isOnStack, ps)
    BY <1>2 DEF ps
  <2> QED
    BY <1>0, <1>5, <1>6, <2>1, PushesSucceed
<1>8. \A q \in Range(stack') : Awaits(q)' => Evaluating(q)'
  <2> SUFFICES ASSUME NEW q \in Range(stack') PROVE ~Awaits(q)'
    OBVIOUS
  <2>1. q \in Proc
    BY <1>3, <1>5, <1>7
  <2>2. CASE q = attachIn[c] \/ q = attachOut[c]
    <3>1. op'[q] = CloseArguments(op[q])
      BY <1>1, <1>2, <2>1, <2>2 DEF CloseInput
    <3>2. op'[q].argumentsMoved /\ op'[q].arguments = NoArgs /\ op'[q].kind # "ALT"
      BY <1>0, <1>1, <2>1, <3>1 DEF CloseArguments, Operation
    <3> QED
      BY <3>2 DEF Awaits, WaitsIn, OffersOn
  <2>3. CASE q # attachIn[c] /\ q # attachOut[c]
    BY <1>2, <1>5, <1>7, <2>1, <2>3, AwaitsKept
  <2> QED
    BY <2>2, <2>3
<1>9. \A q \in Proc : IntactAlt(op'[q])
  <2> SUFFICES ASSUME NEW q \in Proc PROVE op'[q].kind # "ALT"
    BY DEF IntactAlt
  <2>1. op'[q] \in {CloseArguments(op[q]), op[q]}
    BY <1>1, <1>2 DEF CloseInput
  <2> QED
    BY <1>0, <1>1, <2>1 DEF CloseArguments, Operation
<1> QED
  BY <1>0, <1>7, <1>8, <1>9, QuietStep

(* The Lua code goes on to its next call. *)
LEMMA LuaAsserts ==
  ASSUME KeepsTheRules, IInv, Turns, AInv, NEW p \in Proc, LuaStep(p)
  PROVE  AInv'
<1>1. ~Busy(p)
  BY DEF Busy, InLua, KeepsTheRules
<1> QED
  BY <1>1, LuaTurn, CallShape, CallAsserts, EndAsserts, CloseAsserts

----------------------------------------------------------------------------
(***************************************************************************)
(* Turns of Host::Evaluate.                                                *)
(***************************************************************************)
(* An operation ends, and no closure of it stays on the stack. *)
LEMMA ResumeAsserts ==
  ASSUME IInv, AInv, NEW p \in Proc, Evaluating(p),
         NEW results, NEW gone, NEW stk, NEW flags, Resume(p, results, gone, stk, flags),
         Range(stk) \subseteq Range(Popped), Range(stk) \cap Children(p) = {}
  PROVE  AInv'
<1>0. /\ work' = <<>> /\ failed' = "none" /\ stack' = stk
      /\ \A q \in Proc : op'[q] \in {op[q], NoOp}
  BY DEF Evaluating, Resume, hostVars
<1>1. \A q \in Range(stack') : Awaits(q)' => Evaluating(q)'
  <2> SUFFICES ASSUME NEW q \in Range(Popped) PROVE ~Awaits(q)'
    BY <1>0
  <2>1. q \in Proc
    BY EvaluatingFacts DEF Range
  <2>2. CASE op'[q] = op[q]
    BY <2>2, AwaitsKept, NobodyWaitsBelow DEF AInv
  <2>3. CASE op'[q] = NoOp
    BY <2>3 DEF NoOp, Awaits, WaitsIn, OffersOn
  <2> QED
    BY <1>0, <2>1, <2>2, <2>3
<1>2. IntactAlt(NoOp)
  BY DEF IntactAlt, NoOp
<1> QED
  BY <1>0, <1>1, <1>2, QuietStep DEF AInv, Intact

(* The operation of p has started a closure. *)
LEMMA StartAsserts ==
  ASSUME KeepsTheRules, IInv, AInv, NEW p \in Proc, Evaluating(p),
         NEW o, NEW k, NEW args, NEW ps \in {<<>>, <<p>>},
         StartEvaluation(p, o, k, args, ps, "none"),
         o.kind \in Spawning \/ (o.kind = "ALT" /\ o.caseTriggered # 0), IntactAlt(o)
  PROVE  AInv'
<1>0. /\ work' = <<>> /\ PushEvalSteps("none", Popped, PoppedFlags, ps)
      /\ op' = [op EXCEPT ![p] = o] /\ op \in [Proc -> Operation]
      /\ Popped \in Seq(Proc) /\ StackFlags(Popped, PoppedFlags)
  BY EvaluatingFacts DEF Evaluating, StartEvaluation, hostVars, IInv, TypeOK, ProcessTypeOK
<1>1. \A q \in Range(Popped) : q \in Proc /\ q # p /\ ~Awaits(q)
  BY <1>0, NobodyWaitsBelow DEF AInv, Range
<1>2. ps \in Seq(Proc) /\ Injective(ps) /\ Range(ps) \subseteq {p}
  BY OnePushed, NonePushed
<1>3. failed' = "none" /\ Range(stack') = Range(Popped) \cup Range(ps)
  BY <1>0, <1>1, <1>2, PushesSucceed
<1>4. \A q \in Proc : op'[q] = IF q = p THEN o ELSE op[q]
  BY <1>0
<1>5. ~Awaits(p)'
  BY <1>4 DEF Awaits, WaitsIn, OffersOn, Spawning, ParKinds
<1>6. \A q \in Range(stack') : Awaits(q)' => Evaluating(q)'
  <2> SUFFICES ASSUME NEW q \in Range(Popped) PROVE ~Awaits(q)'
    BY <1>2, <1>3, <1>5
  <2> QED
    BY <1>1, <1>4, AwaitsKept
<1> QED
  BY <1>0, <1>3, <1>4, <1>6, QuietStep DEF AInv, Intact

(* Two partners meet: neither is on the stack any more. *)
LEMMA CommunicateAsserts ==
  ASSUME KeepsTheRules, IInv, PointedTo, Prompt, Values, AInv,
         NEW p \in Proc, Evaluating(p), Communicates(p)
  PROVE  AInv'
<1>1. PICK c \in Chan, reader \in Proc :
        Meets(p, c, reader) /\ Chosen(op[p], c) /\ Communicate(c, reader)
  BY DEF Communicates
<1>2. InAttached(c)
  BY <1>1, ProcessAssumption DEF Meets, PointedTo, InAttached
<1>3. PICK in \in Proc, out \in Proc :
        in = attachIn[c] /\ out = attachOut[c] /\ reader = in /\ p \in {in, out}
  BY <1>1, <1>2, PartnersMeet
<1>4. /\ in # out /\ WaitsIn(in, c) /\ OffersOn(out, c)
      /\ \A q \in Proc \ {in, out} : op'[q] = op[q]
      /\ op'[in].kind = op[in].kind /\ op'[in].argumentsMoved
      /\ op'[in].cases = op[in].cases
      /\ op[in].kind = "ALT" =>
           op'[in].caseTriggered \in CasesFor(op[in], c) /\ op'[in].caseTriggered # 0
      /\ op'[out].kind \in {"OUT", "CPPOUT"} /\ op'[out].argumentsMoved
      /\ op'[out].arguments = NoArgs
  BY <1>1, <1>3, CommunicateFacts
<1>5. op[in].arguments = NoArgs
  BY <1>4 DEF Values, Honest, WaitsIn
<1>6. PushEvalSteps("none", Popped, PoppedFlags, <<out>> \o <<in>>)
  <2>1. PushEvalSteps("none", Popped, PoppedFlags, Partners(out, in))
    BY <1>1, <1>3, <1>5, ProcessAssumption DEF Communicate
  <2>2. Partners(out, in) = <<out>> \o <<in>>
    BY DEF Partners
  <2> QED
    BY <2>1, <2>2
<1>7. /\ Popped \in Seq(Proc) /\ StackFlags(Popped, PoppedFlags)
      /\ work' = <<>> /\ running' = NoProc
  BY EvaluatingFacts DEF Communicates, Evaluating
<1>8. \A q \in Range(Popped) : q \in Proc /\ ~Awaits(q)
  BY <1>7, NobodyWaitsBelow DEF AInv, Range
<1>9. Awaits(in) /\ Awaits(out)
  BY <1>4 DEF Awaits
<1>10. failed' = "none" /\ Range(stack') = Range(Popped) \cup {in, out}
  <2>0. in # out
    BY <1>4
  <2>1. /\ <<out>> \o <<in>> \in Seq(Proc) /\ Injective(<<out>> \o <<in>>)
        /\ Range(<<out>> \o <<in>>) = {out, in}
    BY <2>0, TwoPushed
  <2>2. PICK ps \in Seq(Proc) :
          /\ Injective(ps) /\ Range(ps) = {out, in}
          /\ PushEvalSteps("none", Popped, PoppedFlags, ps)
    BY <1>6, <2>1
  <2> QED
    BY <1>7, <1>8, <1>9, <2>2, PushesSucceed
<1>11. \A q \in Range(stack') : Awaits(q)' => Evaluating(q)'
  <2>1. ~Awaits(in)' /\ ~Awaits(out)'
    BY <1>4 DEF Awaits, WaitsIn, OffersOn
  <2>2. ASSUME NEW q \in Range(Popped), q \notin {in, out} PROVE ~Awaits(q)'
    BY <1>4, <1>8, <2>2, AwaitsKept
  <2> QED
    BY <1>10, <2>1, <2>2
<1>12. \A q \in Proc : IntactAlt(op'[q])
  <2>1. IntactAlt(op[in])
    BY DEF AInv, Intact
  <2>2. op[in].kind = "ALT" => op[in].caseTriggered = 0
    BY <1>4 DEF WaitsIn
  <2>3. IntactAlt(op'[in])
    BY <1>4, <2>1, <2>2 DEF IntactAlt, Fresh, CasesFor
  <2>4. IntactAlt(op'[out])
    BY <1>4 DEF IntactAlt
  <2> QED
    BY <1>4, <2>3, <2>4 DEF AInv, Intact
<1> QED
  BY <1>7, <1>10, <1>11, <1>12, QuietStep

(* An ALT is triggered by one of its cases: it does not wait any more. *)
LEMMA TriggerAsserts ==
  ASSUME KeepsTheRules, IInv, AInv, NEW p \in Proc, op[p].kind = "ALT",
         op[p].caseTriggered = 0, NEW i \in DOMAIN op[p].cases,
         NEW stk \in Seq(Proc), NEW flags, StackFlags(stk, flags), p \notin Range(stk),
         Trigger(p, i, stk, flags)
  PROVE  /\ failed' = "none" /\ Range(stack') = Range(stk) \cup {p}
         /\ \A q \in Proc \ {p} : op'[q] = op[q]
         /\ ~Awaits(p)' /\ \A q \in Proc : IntactAlt(op'[q])
         /\ op'[p].closures = op[p].closures
<1>1. /\ \A q \in Proc \ {p} : op'[q] = op[q]
      /\ op'[p].kind = "ALT" /\ op'[p].caseTriggered = i
      /\ op'[p].cases = op[p].cases /\ op'[p].closures = op[p].closures
  <2>1. op' = [op EXCEPT ![p].caseTriggered = i, ![p].argumentsMoved = TRUE]
    BY DEF Trigger
  <2>2. op[p] \in Operation /\ op \in [Proc -> Operation]
    BY DEF IInv, TypeOK, ProcessTypeOK
  <2>3. /\ \A q \in Proc \ {p} : op'[q] = op[q]
        /\ op'[p] = [op[p] EXCEPT !.caseTriggered = i, !.argumentsMoved = TRUE]
    BY <2>1, <2>2
  <2> QED
    BY <2>2, <2>3 DEF Operation
<1>2. i # 0
  BY ReadyFacts
<1>3. failed' = "none" /\ Range(stack') = Range(stk) \cup {p}
  <2>1. PICK ps \in Seq(Proc) :
          /\ Injective(ps) /\ Range(ps) = {p}
          /\ PushEvalSteps("none", stk, flags, ps)
    BY OnePushed DEF Trigger
  <2> QED
    BY <2>1, PushesSucceed
<1>4. ~Awaits(p)'
  BY <1>1, <1>2 DEF Awaits, WaitsIn, OffersOn
<1>5. IntactAlt(op[p]) /\ Fresh(op[p])
  BY DEF AInv, Intact, Fresh
<1>6. IntactAlt(op'[p])
  BY <1>1, <1>5 DEF IntactAlt
<1> QED
  BY <1>1, <1>3, <1>4, <1>6 DEF AInv, Intact

(* One turn of the loop, whatever operation p is in. *)
LEMMA EvaluateAsserts ==
  ASSUME KeepsTheRules, IInv, PointedTo, Prompt, Values, AInv,
         NEW p \in Proc, EvaluateStep(p)
  PROVE  AInv'
<1>0. /\ Evaluating(p) /\ work' = work /\ work = <<>> /\ failed = "none"
      /\ Popped \in Seq(Proc) /\ StackFlags(Popped, PoppedFlags)
      /\ op \in [Proc -> Operation] /\ op[p] \in Operation
  BY EvaluateTurn, EvaluatingFacts DEF Evaluating, IInv, TypeOK, ProcessTypeOK
<1>1. \A q \in Range(Popped) : q \in Proc /\ q # p /\ ~Awaits(q) /\ op[q].kind # "none"
  <2>1. \A q \in Range(Popped) : op[q].kind # "none"
    BY <1>0, EvaluatingFacts DEF IInv, StackConsistent
  <2> QED
    BY <1>0, <2>1, NobodyWaitsBelow DEF AInv, Range
<1>2. CASE Nothing(p)
  <2>1. stack' = Popped /\ op' = op /\ failed' = failed
    BY <1>2 DEF Nothing, KeepWaiting
  <2>2. \A q \in Range(stack') : Awaits(q)' => Evaluating(q)'
    BY <1>1, <2>1, AwaitsKept
  <2> QED
    BY <1>0, <2>1, <2>2, QuietStep DEF AInv, Intact
<1>3. CASE Ends(p)
  <2>1. PICK results \in Result : Resume(p, results, Children(p), Popped, PoppedFlags)
    BY <1>3 DEF Ends, FinishOperation
  <2>2. Range(Popped) \cap Children(p) = {}
    BY <1>1, <1>3, EndedClosures
  <2>3. PICK gone : gone = Children(p)
    OBVIOUS
  <2>4. PICK stk, flags : stk = Popped /\ flags = PoppedFlags
    OBVIOUS
  <2> QED
    BY <1>0, <2>1, <2>2, <2>3, <2>4, ResumeAsserts
<1>4. CASE EndParWhile(p)
  <2>1. PICK gone : gone = Descendants(p)
    OBVIOUS
  <2>2. PICK flags : flags = PoppedFlags
    OBVIOUS
  <2>3. PICK stk : stk = Without(Popped, {q \in gone : flags[q]})
    OBVIOUS
  <2>4. Range(stk) = Range(Popped) \ {q \in gone : flags[q]}
    BY <1>0, <2>2, <2>3, WithoutRemoves DEF StackFlags
  <2>5. Children(p) \subseteq gone
    BY <2>1, DescendantsFacts
  <2>6. \A q \in Range(Popped) : flags[q]
    BY <1>0, <1>1, <2>2 DEF StackFlags
  <2>7. Resume(p, NoResult, gone, stk, flags)
    BY <1>4, <2>1, <2>2, <2>3 DEF EndParWhile
  <2> QED
    BY <1>0, <2>4, <2>5, <2>6, <2>7, ResumeAsserts
<1>5. CASE Communicates(p)
  BY <1>0, <1>5, CommunicateAsserts
<1>6. CASE TakesNil(p)
  <2>1. PICK i \in DOMAIN op[p].cases : Trigger(p, i, Popped, PoppedFlags)
    BY <1>6 DEF TakesNil, Ready
  <2>2. PICK stk, flags : stk = Popped /\ flags = PoppedFlags
    OBVIOUS
  <2>3. /\ failed' = "none" /\ Range(stack') = Range(stk) \cup {p}
        /\ \A q \in Proc \ {p} : op'[q] = op[q]
        /\ ~Awaits(p)' /\ \A q \in Proc : IntactAlt(op'[q])
    BY <1>0, <1>1, <1>6, <2>1, <2>2, TriggerAsserts DEF TakesNil
  <2>4. \A q \in Range(stack') : Awaits(q)' => Evaluating(q)'
    BY <1>1, <2>2, <2>3, AwaitsKept
  <2> QED
    BY <1>0, <2>3, <2>4, QuietStep
<1>7. CASE op[p].kind \in ParKinds /\ StartClosure(p)
  <2> DEFINE next == op[p].closureToRun + 1
  <2>1. PICK o, k, ps :
          /\ o = [op[p] EXCEPT !.closureToRun = next]
          /\ ps = IF next < Len(op[p].closures) THEN <<p>> ELSE <<>>
          /\ StartEvaluation(p, o, k, NoArgs, ps, "none")
    BY <1>7 DEF StartClosure
  <2>2. o.kind = op[p].kind /\ ps \in {<<>>, <<p>>}
    BY <1>0, <2>1 DEF Operation
  <2>3. o.kind \in Spawning /\ IntactAlt(o)
    BY <1>7, <2>2 DEF IntactAlt, Spawning, ParKinds
  <2> QED
    BY <1>0, <2>1, <2>2, <2>3, StartAsserts
<1>8. CASE op[p].kind = "ALT" /\ op[p].caseTriggered # 0 /\ op[p].argumentsMoved /\ StartTriggered(p)
  <2>1. op[p].cases[op[p].caseTriggered].closure
    BY <1>8 DEF AInv, Intact, IntactAlt, Fresh
  <2>2. PICK o, k, args, ps :
          o = Started(op[p]) /\ ps = <<>> /\ StartEvaluation(p, o, k, args, ps, "none")
    BY <1>8, <2>1 DEF StartTriggered
  <2>3. o.kind = "ALT" /\ o.caseTriggered # 0 /\ ~o.argumentsMoved
    BY <1>0, <1>8, <2>2 DEF Started, Unreferenced, Operation
  <2>4. IntactAlt(o)
    BY <1>8, <2>3 DEF AInv, Intact, IntactAlt, Fresh
  <2> QED
    BY <1>0, <2>2, <2>3, <2>4, StartAsserts
<1> QED
  BY <1>2, <1>3, <1>4, <1>5, <1>6, <1>7, <1>8, EvaluateShape DEF ParKinds

----------------------------------------------------------------------------
(***************************************************************************)
(* The delta time is handed down.                                          *)
(***************************************************************************)
(* Process::Work takes the first of the calls. *)
LEMMA HeadAndTail ==
  ASSUME NEW s \in Seq(Proc), Injective(s), s # <<>>
  PROVE  /\ Tail(s) \in Seq(Proc) /\ Injective(Tail(s))
         /\ Head(s) \in Range(s) /\ Range(Tail(s)) = Range(s) \ {Head(s)}
<1>1. /\ Head(s) \in Proc /\ Tail(s) \in Seq(Proc) /\ Len(Tail(s)) = Len(s) - 1
      /\ \A i \in 1 .. Len(Tail(s)) : Tail(s)[i] = s[i + 1]
      /\ Len(s) \in Nat \ {0} /\ Head(s) = s[1]
      /\ DOMAIN s = 1 .. Len(s) /\ DOMAIN Tail(s) = 1 .. Len(Tail(s))
  BY HeadTailProperties, LenProperties, EmptySeq
<1>2. PICK t \in Seq(Proc) : t = Tail(s)
  BY <1>1
<1>3. /\ Len(t) = Len(s) - 1 /\ Len(s) \in Nat \ {0}
      /\ DOMAIN s = 1 .. Len(s) /\ DOMAIN t = 1 .. Len(s) - 1
      /\ \A i \in 1 .. Len(s) - 1 : t[i] = s[i + 1] /\ i + 1 \in 1 .. Len(s) /\ i + 1 # 1
  BY <1>1, <1>2
<1>4. Injective(t)
  <2> SUFFICES ASSUME NEW i \in 1 .. Len(s) - 1, NEW j \in 1 .. Len(s) - 1, t[i] = t[j]
               PROVE  i = j
    BY <1>3 DEF Injective
  <2>1. i + 1 = j + 1
    BY <1>3 DEF Injective
  <2> QED
    BY <2>1, <1>3
<1>5. \A i \in 1 .. Len(s) : s[i] # s[1] => i - 1 \in 1 .. Len(s) - 1 /\ t[i - 1] = s[i]
  <2> SUFFICES ASSUME NEW i \in 1 .. Len(s), i # 1
               PROVE  i - 1 \in 1 .. Len(s) - 1 /\ t[i - 1] = s[i]
    OBVIOUS
  <2>1. i - 1 \in 1 .. Len(s) - 1 /\ (i - 1) + 1 = i
    BY <1>3
  <2> QED
    BY <2>1, <1>3
<1>6. \A i \in 1 .. Len(s) - 1 : t[i] # s[1]
  BY <1>3 DEF Injective
<1>7. Range(t) = Range(s) \ {s[1]}
  <2>1. Range(s) = {s[i] : i \in 1 .. Len(s)} /\ Range(t) = {t[i] : i \in 1 .. Len(s) - 1}
    BY <1>3 DEF Range
  <2>2. ASSUME NEW x \in Range(t) PROVE x \in Range(s) \ {s[1]}
    <3>1. PICK i \in 1 .. Len(s) - 1 : x = t[i]
      BY <2>1
    <3>2. i + 1 \in 1 .. Len(s) /\ x = s[i + 1] /\ x # s[1]
      BY <1>3, <1>6, <3>1
    <3> QED
      BY <2>1, <3>2
  <2>3. ASSUME NEW x \in Range(s), x # s[1] PROVE x \in Range(t)
    <3>1. PICK i \in 1 .. Len(s) : x = s[i]
      BY <2>1
    <3>2. i - 1 \in 1 .. Len(s) - 1 /\ t[i - 1] = x
      BY <1>5, <2>3, <3>1
    <3> QED
      BY <2>1, <3>2
  <2> QED
    BY <2>2, <2>3
<1>8. s[1] \in Range(s)
  BY <1>3 DEF Range
<1> QED
  BY <1>1, <1>2, <1>4, <1>7, <1>8

LEMMA InjectiveConcatenation ==
  ASSUME NEW s \in Seq(Proc), NEW t \in Seq(Proc), Injective(s), Injective(t),
         Range(s) \cap Range(t) = {}
  PROVE  Injective(s \o t)
<1>1. /\ Len(s) \in Nat /\ Len(t) \in Nat /\ DOMAIN s = 1 .. Len(s) /\ DOMAIN t = 1 .. Len(t)
      /\ DOMAIN (s \o t) = 1 .. Len(s) + Len(t)
      /\ \A i \in 1 .. Len(s) + Len(t) :
           (s \o t)[i] = IF i <= Len(s) THEN s[i] ELSE t[i - Len(s)]
  BY ConcatProperties, LenProperties
<1>2. PICK u : u = s \o t
  OBVIOUS
<1>3. \A i \in 1 .. Len(s) + Len(t) :
        IF i <= Len(s) THEN i \in DOMAIN s /\ u[i] = s[i] /\ u[i] \in Range(s)
        ELSE i - Len(s) \in DOMAIN t /\ u[i] = t[i - Len(s)] /\ u[i] \in Range(t)
  BY <1>1, <1>2 DEF Range
<1>4. ASSUME NEW i \in 1 .. Len(s) + Len(t), NEW j \in 1 .. Len(s) + Len(t), u[i] = u[j]
      PROVE  i = j
  <2>1. i <= Len(s) <=> j <= Len(s)
    BY <1>3, <1>4
  <2>2. CASE i <= Len(s)
    BY <1>3, <1>4, <2>1, <2>2 DEF Injective
  <2>3. CASE ~(i <= Len(s))
    <3>1. i - Len(s) = j - Len(s)
      BY <1>3, <1>4, <2>1, <2>3 DEF Injective
    <3> QED
      BY <3>1, <1>1
  <2> QED
    BY <2>2, <2>3
<1> QED
  BY <1>1, <1>2, <1>4 DEF Injective

(***************************************************************************)
(* p hands the delta time to closures of it, or to none: the subtrees that *)
(* still wait for it remain apart.                                         *)
(***************************************************************************)
LEMMA DisjointNext ==
  ASSUME IInv, Rooted, Disjoint, NEW p \in Proc, Working(p),
         NEW ks \in Seq(Proc), Injective(ks), Range(ks) \subseteq Children(p),
         work' = ks \o Tail(work),
         \A q \in Proc : op'[q].closures = op[q].closures
  PROVE  /\ Disjoint' /\ p \in Range(work)
         /\ \A q \in Range(work') :
              /\ q \in Proc /\ Under(q)' = Under(q)
              /\ \/ q \in Range(work) /\ p \notin Under(q)
                 \/ ks # <<>> /\ Under(q) \subseteq Under(p)
<1>0. work \in Seq(Proc) /\ Injective(work) /\ work # <<>> /\ p = Head(work)
  BY DEF IInv, TypeOK, ProcessTypeOK, Working, Disjoint
<1>1. PICK w \in Seq(Proc), t \in Seq(Proc) :
        /\ w = work /\ t = Tail(work)
        /\ Injective(t) /\ Head(w) \in Range(w) /\ Range(t) = Range(w) \ {Head(w)}
  <2>1. PICK w \in Seq(Proc) : w = work
    BY <1>0
  <2>2. /\ Tail(w) \in Seq(Proc) /\ Injective(Tail(w))
        /\ Head(w) \in Range(w) /\ Range(Tail(w)) = Range(w) \ {Head(w)}
    BY <1>0, <2>1, HeadAndTail
  <2> QED
    BY <2>1, <2>2
<1>2. /\ Injective(t) /\ p \in Range(work) /\ Range(t) = Range(work) \ {p}
      /\ Range(work) \subseteq Proc
  BY <1>0, <1>1, RangeOfSeq
<1>3. \A q \in Range(t) : /\ q \in Proc /\ q \in Under(q)
                          /\ Under(q) \cap Under(p) = {}
                          /\ \A r \in Range(t) : q # r => Under(q) \cap Under(r) = {}
  BY <1>2 DEF Disjoint, Under
<1>4. \A k \in Children(p) : k \in Proc /\ k \in Under(k) /\ Under(k) \subseteq Under(p)
  BY UnderChild, ChildFacts DEF Under
<1>5. p \in Under(p)
  BY DEF Under
<1>6. Range(ks) \cap Range(t) = {}
  BY <1>3, <1>4
<1>7. Injective(work') /\ Range(work') = Range(ks) \cup Range(t)
  <2>1. Injective(ks \o t) /\ Range(ks \o t) = Range(ks) \cup Range(t)
    BY <1>2, <1>6, InjectiveConcatenation, RangeConcatenation
  <2>2. work' = ks \o t
    BY <1>1
  <2> QED
    BY <2>1, <2>2
<1>8. \A q \in Range(work') : q \in Proc /\ Under(q)' = Under(q)
  BY <1>3, <1>4, <1>7, UnderKept
<1>9. ASSUME NEW q \in Range(work')
      PROVE  \/ q \in Range(work) /\ p \notin Under(q)
             \/ ks # <<>> /\ Under(q) \subseteq Under(p)
  <2>1. CASE q \in Range(t)
    BY <1>2, <1>3, <1>5, <2>1
  <2>2. CASE q \in Range(ks)
    <3>1. ks # <<>>
      BY <2>2 DEF Range
    <3> QED
      BY <1>4, <2>2, <3>1
  <2> QED
    BY <1>7, <1>9, <2>1, <2>2
<1>10. ASSUME NEW q \in Range(work'), NEW r \in Range(work'), q # r
       PROVE  Under(q) \cap Under(r) = {}
  <2>1. CASE q \in Range(ks) /\ r \in Range(ks)
    BY <1>10, <2>1, SiblingsApart
  <2>2. CASE q \in Range(t) /\ r \in Range(t)
    BY <1>3, <1>10, <2>2
  <2>3. CASE q \in Range(ks) /\ r \in Range(t)
    BY <1>3, <1>4, <2>3
  <2>4. CASE q \in Range(t) /\ r \in Range(ks)
    BY <1>3, <1>4, <2>4
  <2> QED
    BY <1>7, <1>10, <2>1, <2>2, <2>3, <2>4
<1>11. Disjoint'
  BY <1>7, <1>8, <1>10 DEF Disjoint
<1> QED
  BY <1>2, <1>8, <1>9, <1>11

(* None of them has been woken: only p is, if it hands the delta time to nobody. *)
LEMMA ApartNext ==
  ASSUME IInv, Rooted, Apart, NEW p \in Proc, Working(p),
         NEW ks \in Seq(Proc), Injective(ks), Range(ks) \subseteq Children(p),
         work' = ks \o Tail(work),
         \A q \in Proc : op'[q].closures = op[q].closures,
         Range(stack') \subseteq Range(stack) \cup (IF ks = <<>> THEN {p} ELSE {})
  PROVE  Apart'
<1>1. /\ Disjoint' /\ p \in Range(work)
      /\ \A q \in Range(work') :
           /\ q \in Proc /\ Under(q)' = Under(q)
           /\ \/ q \in Range(work) /\ p \notin Under(q)
              \/ ks # <<>> /\ Under(q) \subseteq Under(p)
  BY DisjointNext DEF Apart
<1>2. ASSUME NEW q \in Range(work') PROVE Under(q) \cap Range(stack') = {}
  BY <1>1, <1>2 DEF Apart
<1> QED
  BY <1>1, <1>2 DEF Apart

(* The closures PAR and PARWHILE hand the delta time to are closures, each once. *)
LEMMA LastToFirstOnce ==
  ASSUME IInv, NEW p \in Proc
  PROVE  /\ LastToFirst(p) \in Seq(Proc) /\ Injective(LastToFirst(p))
         /\ Range(LastToFirst(p)) \subseteq Children(p)
<1>1. /\ op[p].closures \in Seq(Proc) /\ op[p].closureToRun \in Nat
      /\ op[p].closureToRun <= Len(op[p].closures)
      /\ \A i \in DOMAIN op[p].closures : op[p].closures[i] \in Children(p)
  BY ChildFacts DEF IInv, TypeOK, ProcessTypeOK, Operation
<1>2. \A i, j \in DOMAIN op[p].closures : op[p].closures[i] = op[p].closures[j] => i = j
  BY DEF IInv, Tree
<1>3. PICK s \in Seq(Proc), n \in Nat : s = op[p].closures /\ n = op[p].closureToRun
  BY <1>1
<1>4. /\ DOMAIN s = 1 .. Len(s) /\ Len(s) \in Nat /\ n <= Len(s)
      /\ \A i \in DOMAIN s : s[i] \in Children(p)
      /\ \A i, j \in DOMAIN s : s[i] = s[j] => i = j
  BY <1>1, <1>2, <1>3, LenProperties
<1>5. LastToFirst(p) \in Seq(Proc)
  BY <1>1, <1>3, <1>4, LastToFirstType
<1>6. PICK t : t = SubSeq(s, 1, n)
  OBVIOUS
<1>7. Len(t) = n /\ \A i \in 1 .. n : t[i] = s[i]
  <2>1. \A i \in 1 .. n : s[i] \in Proc
    BY <1>4, ElementOfSeq
  <2> QED
    BY <1>4, <1>6, <2>1, SubSeqProperties
<1>8. PICK u : u = LastToFirst(p)
  OBVIOUS
<1>9. u = [i \in 1 .. n |-> t[(n - i) + 1]]
  BY <1>3, <1>6, <1>7, <1>8 DEF LastToFirst, Reverse
<1>10. DOMAIN u = 1 .. n /\ \A i \in 1 .. n : (n - i) + 1 \in DOMAIN s /\ u[i] = s[(n - i) + 1]
  <2>1. \A i \in 1 .. n : (n - i) + 1 \in 1 .. n /\ (n - i) + 1 \in DOMAIN s
    BY <1>4
  <2> QED
    BY <1>7, <1>9, <2>1
<1>11. Injective(u)
  <2> SUFFICES ASSUME NEW i \in 1 .. n, NEW j \in 1 .. n, u[i] = u[j] PROVE i = j
    BY <1>10 DEF Injective
  <2>1. (n - i) + 1 = (n - j) + 1
    BY <1>4, <1>10
  <2> QED
    BY <2>1
<1>12. Range(u) \subseteq Children(p)
  BY <1>4, <1>10 DEF Range
<1> QED
  BY <1>5, <1>8, <1>11, <1>12

(***************************************************************************)
(* A call of Process::Work after which nobody waits who did not before.    *)
(***************************************************************************)
LEMMA WorkedAsserts ==
  ASSUME IInv, Rooted, AInv, NEW p \in Proc, Working(p), failed' = "none",
         NEW ks \in Seq(Proc), Injective(ks), Range(ks) \subseteq Children(p),
         work' = ks \o Tail(work),
         \A q \in Proc \ {p} : op'[q] = op[q],
         op'[p].closures = op[p].closures, IntactAlt(op'[p]),
         \/ stack' = stack /\ op'[p] = op[p]
         \/ ks = <<>> /\ Range(stack') \subseteq Range(stack) \cup {p} /\ ~Awaits(p)'
  PROVE  AInv'
<1>0. Range(stack') \subseteq Range(stack) \cup (IF ks = <<>> THEN {p} ELSE {})
  OBVIOUS
<1>1. Apart'
  BY <1>0, ApartNext DEF AInv
<1>2. WaitersRest'
  <2> SUFFICES ASSUME NEW q \in Range(stack') PROVE Awaits(q)' => Evaluating(q)'
    BY DEF WaitersRest
  <2>1. stack \in Seq(Proc) /\ work # <<>>
    BY DEF IInv, TypeOK, ProcessTypeOK, Working
  <2>2. ASSUME q \in Range(stack), q # p \/ op'[p] = op[p] PROVE ~Awaits(q)'
    <3>1. q \in Proc
      BY <2>1, <2>2 DEF Range
    <3>2. ~Awaits(q)
      BY <2>1, <2>2, <3>1, NobodyWaits DEF AInv
    <3> QED
      BY <2>2, <3>1, <3>2, AwaitsKept
  <2> QED
    BY <2>2
<1>3. Intact'
  BY DEF Intact, IntactAlt, Fresh, AInv
<1> QED
  BY <1>1, <1>2, <1>3 DEF AInv

(* One call of Process::Work, whatever operation p is in. *)
LEMMA WorkAsserts ==
  ASSUME KeepsTheRules, IInv, Rooted, AInv, NEW p \in Proc, WorkStep(p)
  PROVE  AInv'
<1>0. /\ Working(p) /\ failed = "none" /\ op \in [Proc -> Operation] /\ op[p] \in Operation
      /\ stack \in Seq(Proc) /\ StackFlags(stack, isOnStack)
      /\ work \in Seq(Proc) /\ work # <<>> /\ p = Head(work)
  BY WorkTurn DEF Working, IInv, TypeOK, ProcessTypeOK, StackConsistent, StackFlags
<1>1. p \notin Range(stack)
  <2>1. PICK w \in Seq(Proc) : w = work
    BY <1>0
  <2>2. p \in Range(work)
    <3>1. Injective(w) /\ w # <<>> /\ p = Head(w)
      BY <1>0, <2>1 DEF AInv, Apart, Disjoint
    <3>2. p \in Range(w)
      BY <3>1, HeadAndTail
    <3> QED
      BY <2>1, <3>2
  <2> QED
    BY <2>2 DEF AInv, Apart, Under
<1>2. /\ <<>> \in Seq(Proc) /\ Injective(<<>>) /\ Range(<<>>) \subseteq Children(p)
      /\ <<>> \o Tail(work) = Tail(work)
  <2>1. Tail(work) \in Seq(Proc)
    BY <1>0, WorkingFacts
  <2> QED
    BY <2>1, NonePushed, ConcatEmptySeq
<1>3. IntactAlt(op[p])
  BY DEF AInv, Intact
<1>4. CASE UNCHANGED <<op, stack, failed>> /\ work' = Tail(work)
  <2>1. PICK ks \in Seq(Proc) :
          /\ Injective(ks) /\ Range(ks) \subseteq Children(p) /\ work' = ks \o Tail(work)
    BY <1>2, <1>4
  <2> QED
    BY <1>0, <1>3, <1>4, <2>1, WorkedAsserts
<1>5. CASE WorkSleep(p)
  <2>1. PICK left, done, ps :
          /\ done = (left <= 0) /\ ps = (IF left <= 0 THEN <<p>> ELSE <<>>)
          /\ op' = [op EXCEPT ![p].seconds = left, ![p].finished = done]
          /\ PushEvalSteps("none", stack, isOnStack, ps)
    BY <1>5 DEF WorkSleep
  <2>2. /\ \A q \in Proc \ {p} : op'[q] = op[q]
        /\ op'[p] = [op[p] EXCEPT !.seconds = left, !.finished = done]
    BY <1>0, <2>1
  <2>3. op[p].kind = "SLEEP" /\ work' = Tail(work)
    BY <1>5 DEF WorkSleep
  <2>4. op'[p].kind = "SLEEP" /\ op'[p].closures = op[p].closures
    BY <1>0, <2>2, <2>3 DEF Operation
  <2>5. ps \in Seq(Proc) /\ Injective(ps) /\ Range(ps) \subseteq {p}
    BY <2>1, OnePushed, NonePushed
  <2>6. failed' = "none" /\ Range(stack') \subseteq Range(stack) \cup {p}
    <3>1. PICK stk, flags : stk \in Seq(Proc) /\ stk = stack /\ flags = isOnStack
      BY <1>0
    <3>2. /\ StackFlags(stk, flags) /\ Range(ps) \cap Range(stk) = {}
          /\ PushEvalSteps("none", stk, flags, ps)
      BY <1>0, <1>1, <2>1, <2>5, <3>1
    <3>3. failed' = "none" /\ Range(stack') = Range(stk) \cup Range(ps)
      BY <2>5, <3>1, <3>2, PushesSucceed
    <3> QED
      BY <2>5, <3>1, <3>3
  <2>7. ~Awaits(p)' /\ IntactAlt(op'[p])
    BY <2>4 DEF Awaits, WaitsIn, OffersOn, IntactAlt
  <2>8. PICK ks \in Seq(Proc) :
          /\ ks = <<>> /\ Injective(ks) /\ Range(ks) \subseteq Children(p)
          /\ work' = ks \o Tail(work)
    BY <1>2, <2>3
  <2> QED
    BY <1>0, <2>2, <2>4, <2>6, <2>7, <2>8, WorkedAsserts
<1>6. CASE WorkPar(p)
  <2>1. PICK ks \in Seq(Proc) :
          /\ Injective(ks) /\ Range(ks) \subseteq Children(p) /\ work' = ks \o Tail(work)
    BY <1>6, LastToFirstOnce DEF WorkPar
  <2>2. UNCHANGED <<op, stack, failed>>
    BY <1>6 DEF WorkPar
  <2> QED
    BY <1>0, <1>3, <2>1, <2>2, WorkedAsserts
<1>7. CASE /\ op[p].kind = "ALT" /\ UNCHANGED <<op, stack, failed>>
           /\ work' = <<Closure(p)>> \o Tail(work)
  <2>1. PICK k \in Children(p) : k = Closure(p)
    BY <1>7, ChildFacts
  <2>2. k \in Proc
    BY ChildFacts
  <2>3. PICK ks \in Seq(Proc) :
          /\ Injective(ks) /\ Range(ks) \subseteq Children(p) /\ work' = ks \o Tail(work)
    BY <1>7, <2>1, <2>2, OnePushed
  <2> QED
    BY <1>0, <1>3, <1>7, <2>3, WorkedAsserts
<1>8. CASE /\ op[p].kind = "ALT" /\ op[p].caseTriggered = 0 /\ Expired(op[p]) # {}
           /\ Trigger(p, Earliest(op[p]), stack, isOnStack) /\ work' = Tail(work)
  <2>1. PICK i \in DOMAIN op[p].cases : Trigger(p, i, stack, isOnStack)
    BY <1>0, <1>8, EarliestIsExpired DEF Expired
  <2>2. PICK stk, flags : stk = stack /\ flags = isOnStack
    OBVIOUS
  <2>3. /\ failed' = "none" /\ Range(stack') = Range(stk) \cup {p}
        /\ \A q \in Proc \ {p} : op'[q] = op[q]
        /\ ~Awaits(p)' /\ \A q \in Proc : IntactAlt(op'[q])
        /\ op'[p].closures = op[p].closures
    BY <1>0, <1>1, <1>8, <2>1, <2>2, TriggerAsserts
  <2>4. PICK ks \in Seq(Proc) :
          /\ ks = <<>> /\ Injective(ks) /\ Range(ks) \subseteq Children(p)
          /\ work' = ks \o Tail(work)
    BY <1>2, <1>8
  <2> QED
    BY <1>0, <2>2, <2>3, <2>4, WorkedAsserts
<1> QED
  BY <1>4, <1>5, <1>6, <1>7, <1>8
     DEF WorkStep, ProcessWork, WorkNothing, WorkAlt

----------------------------------------------------------------------------
(* Nobody is on the stack, and no delta time is being handed down. *)
LEMMA RestAsserts ==
  ASSUME failed = "none", Range(stack) = {}, work = <<>>, \A q \in Proc : IntactAlt(op[q])
  PROVE  AInv
<1>1. Apart
  BY DEF Apart, Disjoint, Injective, Range
<1> QED
  BY <1>1 DEF AInv, WaitersRest, Intact

LEMMA InitAsserts == Init => AInv
<1> SUFFICES ASSUME Init PROVE AInv
  OBVIOUS
<1>1. failed = "none" /\ stack = <<>> /\ work = <<>> /\ \A q \in Proc : op[q] = NoOp
  BY DEF Init, ProcessInit
<1>2. Range(stack) = {} /\ \A q \in Proc : IntactAlt(op[q])
  BY <1>1, NonePushed DEF IntactAlt, NoOp
<1> QED
  BY <1>1, <1>2, RestAsserts

(* Host::Main, Host::Work and Host::TerminateMain find the stack empty. *)
LEMMA HostAsserts ==
  ASSUME IInv, Turns, AInv, HostMain \/ HostWork \/ TerminateMain
  PROVE  AInv'
<1>1. /\ failed' = "none" /\ stack' = <<>> /\ \A q \in Proc : op'[q] \in {op[q], NoOp}
      /\ work' \in {<<>>, <<Main>>}
  BY DEF HostMain, HostWork, TerminateMain, Turns, Idle, hostVars
<1>2. Range(<<>>) = {} /\ Range(<<Main>>) = {Main} /\ Injective(<<Main>>) /\ Injective(<<>>)
  BY NonePushed, OnePushed, ProcessAssumption
<1>3. \A q \in Proc : IntactAlt(op'[q])
  BY <1>1 DEF AInv, Intact, IntactAlt, NoOp
<1>4. Apart'
  <2>1. /\ Injective(work') /\ Range(stack') = {}
        /\ \A q, r \in Range(work') : q = r
    BY <1>1, <1>2
  <2> QED
    BY <2>1 DEF Apart, Disjoint
<1>5. WaitersRest'
  BY <1>1, <1>2 DEF WaitersRest
<1>6. Intact'
  BY <1>3 DEF Intact, IntactAlt, Fresh
<1> QED
  BY <1>1, <1>4, <1>5, <1>6 DEF AInv

(* The invariant depends on the stack, the calls to be made and the operations. *)
LEMMA SameAsserts ==
  ASSUME AInv, UNCHANGED <<op, stack, running, work, failed>>
  PROVE  AInv'
<1>1. \A q : Under(q)' = Under(q)
  BY DEF Under, Descendants, Closed, Children
<1>2. Apart'
  BY <1>1 DEF AInv, Apart, Disjoint
<1>3. WaitersRest'
  BY DEF AInv, WaitersRest, Awaits, WaitsIn, OffersOn, CasesFor, Evaluating
<1>4. Intact'
  BY DEF AInv, Intact, IntactAlt, Fresh
<1> QED
  BY <1>2, <1>3, <1>4 DEF AInv

(* No step runs into an assertion. *)
LEMMA NextAsserts ==
  ASSUME KeepsTheRules, IInv, Turns, PointedTo, Prompt, Values, Rooted, AInv, [Next]_vars
  PROVE  AInv'
<1>1. CASE HostMain \/ HostWork \/ TerminateMain
  BY <1>1, HostAsserts
<1>2. ASSUME NEW p \in Proc, LuaStep(p) \/ EvaluateStep(p) \/ WorkStep(p) PROVE AInv'
  BY <1>2, LuaAsserts, EvaluateAsserts, WorkAsserts
<1>3. CASE UNCHANGED vars
  BY <1>3, SameAsserts DEF vars, procVars
<1> QED
  BY <1>1, <1>2, <1>3 DEF Next

LEMMA InitValues == Init => Values
<1> QED
  BY DEF Init, ProcessInit, Values, Honest, NoOp

(***************************************************************************)
(* In programs that keep the rules no assertion of the debug build fails:  *)
(* the stack does not overflow (host.cpp:143), no process is pushed twice  *)
(* (host.cpp:145), whoever is served is attached and has not been served   *)
(* yet (channel.cpp:410, 142), a closure that is started is a function     *)
(* (process.cpp:85), and no operation ends with a closure on the stack     *)
(* (op_par.cpp:126).                                                       *)
(***************************************************************************)
THEOREM AssertionsHold ==
  ASSUME KeepsTheRules
  PROVE  Spec => []AssertsHold
<1>1. IInv /\ PointedTo /\ [Next]_vars => PointedTo'
  BY NextWaiting DEF KeepsTheRules
<1>2. IInv /\ Values /\ [Next]_vars => Values'
  BY NextValues
<1>3. IInv /\ Turns /\ PointedTo /\ Prompt /\ Values /\ WInv /\ AInv /\ [Next]_vars => AInv'
  BY NextAsserts DEF WInv
<1>4. AInv => AssertsHold
  BY DEF AInv, AssertsHold
<1> QED
  BY <1>1, <1>2, <1>3, <1>4, InitWaiting, InitValues, InitAsserts, WakeupHolds, PTL DEF Spec
=============================================================================
